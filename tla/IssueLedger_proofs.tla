------------------------ MODULE IssueLedger_proofs ------------------------
(***************************************************************************)
(* Theorems about IssueLedger, for every set of workers, controls and      *)
(* judgments, every batch size and every bound on the environment, and     *)
(* for a model that derives issues from finitely many fingerprints.        *)
(*                                                                         *)
(* Inv says what every row, message and local variable refers to; it holds *)
(* whatever happens, and with it the types and the unique fingerprints.    *)
(* The other layers hold as long as the environment acts in some ways only *)
(* (Only in IssueLedger): LinksInv that issues are linked, PromotionInv    *)
(* that one promotion is under way at most, QuietInv that the batches of a *)
(* stage are worked on once and apart, so that an issue has one row of a   *)
(* kind, and CompleteInv that no issue of the run is left behind.  For     *)
(* each layer one lemma says what a working step (Works) keeps of it and   *)
(* one what any step does.                                                 *)
(***************************************************************************)
EXTENDS IssueLedger, SequenceTheorems, FunctionTheorems, FiniteSetTheorems,
        WellFoundedInduction, TLAPS

\* The model returns finitely many issues, for finitely many controls.
Finite == IsFiniteSet(Fingerprints) /\ IsFiniteSet(FirstControls)

\* What the variables range over. An id is that of a control or of an issue.
Ids       == Controls \cup Nat
StageSet  == {"issues", "classify", "discover", "score"}
KindSet   == StageSet \cup {"replace", "promote"}
TaskSet   == [kind : KindSet, chord : Nat, ids : SUBSET Ids]
Scores    == [inherent : 1..4, overall : 1..4, residual : 1..4,
              response : {"Accept", "Transfer", "Mitigate"}]
IssueSet  == [exists : BOOLEAN, fp : Fingerprints, classes : Nat, assessments : Seq(Scores)]
RiskSet   == [issue : Nat, rating : 1..4]
ChordSet  == [stage : StageSet, open : SUBSET SUBSET Ids, joined : BOOLEAN]
StepSet   == [stage : StageSet, ids : SUBSET Ids, result : SUBSET Nat]
InsertPcs == {"precheck", "recheck", "insert", "reinsert"}
DerivePcs == InsertPcs \cup {"llm", "assign"}
EachPcs   == {"select", "each", "write"}
FindPcs   == {"bundle", "clear", "candidate", "match"}
RiskPcs   == {"promoted", "assess", "create"}
Pcs       == {"idle", "ack", "wipe"} \cup DerivePcs \cup EachPcs \cup FindPcs \cup RiskPcs
WorkerSet == [task : TaskSet \cup {NoTask}, pc : Pcs, fps : SUBSET Fingerprints,
              ids : SUBSET Ids, cur : Nat, out : SUBSET RiskSet, n : Int]

Pc(w) == worker[w].pc
Of(w) == worker[w].task
Live(w) == Pc(w) \notin {"idle", "ack"}

\* The rows.
RowsOK ==
  /\ controls \subseteq Controls
  /\ issues \in Seq(IssueSet)
  /\ candidates \in Seq(Int)
  /\ risks \in Seq(RiskSet)
\* The messages and what is known of the run.
ControlOK ==
  /\ run \in [stage : 0..5, issues : SUBSET Nat]
  /\ steps \subseteq StepSet
  /\ chords \in Seq(ChordSet)
  /\ tasks \subseteq TaskSet
  /\ worker \in [Workers -> WorkerSet]
  /\ env \in [FaultKinds -> Nat]
Types == RowsOK /\ ControlOK

\* What depends on an issue goes with it.
Cascades ==
  /\ \A i \in DOMAIN issues : \/ issues[i].exists
                              \/ issues[i].classes = 0 /\ issues[i].assessments = <<>>
  /\ links \subseteq Existing \X controls
  /\ \A r \in DOMAIN risks : risks[r].issue \in Existing \cup {0}

\* A worker is at a step of its task, and its local variables refer to rows.
Fits(x) ==
  /\ x.pc = "idle" <=> x.task = NoTask
  /\ x.pc \in DerivePcs => x.task.kind \in {"issues", "replace"}
  /\ x.pc = "wipe" => x.task.kind = "replace"
  /\ x.pc \in EachPcs => x.task.kind \in {"classify", "score"}
  /\ x.pc \in FindPcs => x.task.kind = "discover"
  /\ x.pc \in RiskPcs => x.task.kind = "promote"
Refers(x, D) ==
  /\ x.pc \in {"assign", "each", "write", "create"} => x.ids \subseteq D
  /\ x.pc = "write" => x.cur \in x.ids
  /\ x.pc = "create" => /\ \A y \in x.out : y.issue \in x.ids
                        /\ \A y, z \in x.out : y.issue = z.issue => y = z
                        /\ IsFiniteSet(x.out)
WorkersOK == \A w \in Workers : Fits(worker[w]) /\ Refers(worker[w], DOMAIN issues)
\* The job of a user belongs to no chord; results refer to rows.
Alone(t) == t.kind = "replace" => t.chord = 0
TasksOK ==
  /\ \A t \in tasks : Alone(t)
  /\ \A w \in Workers : Alone(Of(w))
  /\ \A s \in steps : s.result \subseteq DOMAIN issues
  /\ run.issues \subseteq DOMAIN issues
Inv == Types /\ Cascades /\ WorkersOK /\ TasksOK

-----------------------------------------------------------------------------
\* No job that replaces all issues is under way.
NoReplace == /\ \A t \in tasks : t.kind # "replace"
             /\ \A w \in Workers : Of(w).kind # "replace"
\* No issue was deleted.
AllExist == \A i \in DOMAIN issues : issues[i].exists

\* An issue is linked, or the worker that inserted it will do so next.
Linked(i) == \/ \A c \in Cites[issues[i].fp] : <<i, c>> \in links
             \/ \E w \in Workers : Pc(w) = "assign" /\ i \in worker[w].ids
\* All are, and what is about to be inserted cites controls that exist.
LinksOK ==
  /\ NoReplace /\ AllExist
  /\ \A i \in DOMAIN issues : Cites[issues[i].fp] \subseteq controls /\ Linked(i)
  /\ \A w \in Workers : Pc(w) \in InsertPcs =>
       \A f \in worker[w].fps : Cites[f] \subseteq controls
LinksInv == Only({"unacked", "advances"}) => LinksOK
-----------------------------------------------------------------------------
\* A worker has the join of score_risks, which promotes.
Promoting(w) == Of(w).kind = "promote"
\* The chords of the run are its stages in order, all joined but the last.
Steady ==
  /\ Len(chords) = IF run.stage = 5 THEN 4 ELSE run.stage
  /\ \A k \in DOMAIN chords : /\ chords[k].stage = Stages[k]
                              /\ k < Len(chords) => chords[k].joined
\* There is one promotion at most, waiting or at work.
OnePromotion ==
  /\ \A t, u \in tasks : t.kind = "promote" /\ u.kind = "promote" => t = u
  /\ \A t \in tasks, w \in Workers : t.kind = "promote" => ~Promoting(w)
  /\ \A v, w \in Workers : Promoting(v) /\ Promoting(w) => v = w
\* The last stage has been joined, which it is before any promotion.
Scored == Len(chords) = 4 /\ chords[4].joined
Promotes ==
  \/ \E t \in tasks : t.kind = "promote"
  \/ \E w \in Workers : Promoting(w)
  \/ run.stage = 5
\* What the promotion works on has no risk yet.
Unpromoted ==
  \A w \in Workers : Pc(w) \in {"assess", "create"} => worker[w].ids \cap AlreadyPromoted = {}
OneRisk ==
  \A r, q \in DOMAIN risks : risks[r].issue = risks[q].issue /\ risks[r].issue # 0 => r = q
PromotionOK == Steady /\ OnePromotion /\ (Promotes => Scored) /\ Unpromoted /\ OneRisk
PromotionInv == Only({"crashes", "unacked", "extracts", "jobs"}) => PromotionOK
-----------------------------------------------------------------------------
\* Workers may be lost before a task is done, and controls extracted again.
Quiet == Only({"crashes", "extracts"})
\* A part of a chord that has not reported.
IsOpen(t) ==
  /\ t.chord = Len(chords) /\ t.chord \in DOMAIN chords
  /\ t.kind = chords[t.chord].stage /\ t.ids \in chords[t.chord].open
\* What waits or is worked on belongs to the chord that is not joined.
OpenOK ==
  /\ \A t \in tasks : t.kind # "promote" => IsOpen(t)
  /\ \A w \in Workers : Live(w) /\ ~Promoting(w) => IsOpen(Of(w))
\* A task waits or is worked on by one worker.
Apart ==
  /\ \A w \in Workers : Live(w) => Of(w) \notin tasks
  /\ \A v, w \in Workers : Live(v) /\ Live(w) /\ Of(v) = Of(w) => v = w
\* Open batches have no id in common, and have not been completed.
ChordsOK ==
  \A k \in DOMAIN chords :
    /\ chords[k].joined => chords[k].open = {}
    /\ \A B, C \in chords[k].open : B = C \/ B \cap C = {}
    /\ chords[k].stage \in {"classify", "score"} => {} \notin chords[k].open
    /\ \A s \in steps : s.stage = chords[k].stage => s.ids \notin chords[k].open
StepsOK == \A s \in steps : \E k \in DOMAIN chords : s.stage = chords[k].stage
\* A worker loops over issues of its batch, and writes a row where there is none.
Within(w) ==
  /\ Pc(w) \in EachPcs => worker[w].ids \subseteq Of(w).ids /\ worker[w].ids # {}
  /\ Pc(w) = "write" /\ Of(w).kind = "classify" => issues[worker[w].cur].classes = 0
  /\ Pc(w) = "write" /\ Of(w).kind = "score" => issues[worker[w].cur].assessments = <<>>
\* An issue has one classification and one assessment at most.
OneRow == \A i \in DOMAIN issues : issues[i].classes <= 1 /\ Len(issues[i].assessments) <= 1
BatchesOK == NoReplace /\ OpenOK /\ Apart /\ ChordsOK /\ StepsOK
WithinOK == AllExist /\ OneRow /\ \A w \in Workers : Within(w)
QuietInv == Quiet => BatchesOK /\ WithinOK
-----------------------------------------------------------------------------
\* The risk that is created for an issue.
Assessment(i) == [issue |-> i, rating |-> RatingOf(i)]
\* The issues of the run are classified, or in a batch that has not reported.
ClassesOK ==
  UseLlmFallback =>
    /\ Len(chords) = 2 => /\ \A B \in chords[2].open : B \subseteq run.issues
                          /\ \A i \in run.issues : \/ issues[i].classes = 1
                                                  \/ \E B \in chords[2].open : i \in B
    /\ Len(chords) > 2 => \A i \in run.issues : issues[i].classes = 1
    /\ \A w \in Workers : Pc(w) \in EachPcs /\ Of(w).kind = "classify" =>
         \A i \in Of(w).ids : i \in worker[w].ids \/ issues[i].classes = 1
\* There are no risks before the promotion; it works on all issues of the run,
\* and leaves a risk for each that was assessed.
Promoted ==
  /\ run.stage # 5 => risks = <<>>
  /\ run.stage = 5 => \A w \in Workers : ~Live(w)
  /\ run.stage = 5 => tasks = {}
  /\ \A t \in tasks : t.kind = "promote" => t.ids = run.issues
  /\ \A w \in Workers : Promoting(w) => Of(w).ids = run.issues
  /\ \A w \in Workers : Pc(w) \in {"promoted", "assess"} => worker[w].ids = run.issues
  /\ \A w \in Workers : Pc(w) = "create" =>
        worker[w].out = {Assessment(i) : i \in {j \in run.issues : issues[j].assessments # <<>>}}
  /\ run.stage = 5 => \A r \in DOMAIN risks : risks[r].rating = RatingOf(risks[r].issue)
  /\ run.stage = 5 => \A i \in run.issues : issues[i].assessments # <<>> <=> i \in AlreadyPromoted
CompleteInv == Quiet => ClassesOK /\ Promoted
-----------------------------------------------------------------------------
(* Sequences and slices.                                                   *)

\* Listing a finite set gives each of its elements once.
LEMMA Listing ==
  ASSUME NEW S, IsFiniteSet(S)
  PROVE  /\ SetToSeq(S) \in Seq(S)
         /\ Cardinality(S) \in Nat
         /\ Len(SetToSeq(S)) = Cardinality(S)
         /\ DOMAIN SetToSeq(S) = 1..Cardinality(S)
         /\ \A i, j \in 1..Cardinality(S) : SetToSeq(S)[i] = SetToSeq(S)[j] => i = j
         /\ \A x \in S : \E i \in 1..Cardinality(S) : SetToSeq(S)[i] = x
<1> DEFINE n == Cardinality(S)
           q == SetToSeq(S)
<1>1. n \in Nat /\ ExistsBijection(1..n, S)
  BY FS_CardinalityType
<1>2. \E f \in [1..n -> S] : IsInjective(f)
  BY <1>1 DEF ExistsBijection, Bijection, Injection
<1>3. q \in [1..n -> S] /\ IsInjective(q)
  BY <1>2 DEF SetToSeq
<1>4. q \in Injection(1..n, S)
  BY <1>3 DEF Injection
<1>5. Cardinality(1..n) = n /\ IsFiniteSet(1..n)
  BY <1>1, FS_Interval
<1>6. q \in Surjection(1..n, S)
  BY <1>4, <1>5, FS_Injection
<1>7. q \in Seq(S) /\ Len(q) = n /\ DOMAIN q = 1..n
  BY <1>1, <1>3
<1>8. \A x \in S : \E i \in 1..n : q[i] = x
  BY <1>6 DEF Surjection
<1>9. \A i, j \in 1..n : q[i] = q[j] => i = j
  BY <1>3, <1>7 DEF IsInjective
<1> QED
  BY <1>1, <1>7, <1>8, <1>9

\* The smaller of two numbers.
LEMMA Smaller ==
  ASSUME NEW a \in Int, NEW b \in Int
  PROVE  /\ Min({a, b}) \in {a, b}
         /\ Min({a, b}) <= a
         /\ Min({a, b}) <= b
<1>1. \E x \in {a, b} : \A y \in {a, b} : x =< y
  OBVIOUS
<1>2. Min({a, b}) \in {a, b} /\ \A y \in {a, b} : Min({a, b}) =< y
  BY <1>1 DEF Min
<1> QED
  BY <1>2

\* Every position is in a slice, and in one only.
LEMMA SliceOf ==
  ASSUME NEW j \in Nat \ {0}
  PROVE  \E b \in Nat : b * BatchSize + 1 <= j /\ j <= (b + 1) * BatchSize
<1> DEFINE T == {b \in Nat : j <= (b + 1) * BatchSize}
<1> USE BatchAssumption
<1>1. (j + 1) * BatchSize >= j
  OBVIOUS
<1>2. j \in T
  BY <1>1
<1>3. T # {} /\ T \subseteq Nat
  BY <1>2
<1> HIDE DEF T
<1>4. PICK b \in T : \A c \in T : ~(<<c, b>> \in OpToRel(<, Nat))
  BY <1>3, NatLessThanWellFounded, WFMin
<1>5. \A c \in T : ~(c < b)
  BY <1>3, <1>4 DEF OpToRel
<1>6. b \in Nat /\ j <= (b + 1) * BatchSize
  BY <1>4 DEF T
<1>7. b * BatchSize + 1 <= j
  <2>1. CASE b = 0
    BY <2>1
  <2>2. CASE b # 0
    <3>1. b - 1 \in Nat /\ b - 1 < b /\ (b - 1) + 1 = b
      BY <1>6, <2>2
    <3>2. b - 1 \notin T
      BY <1>5, <3>1
    <3>3. ~(j <= b * BatchSize)
      BY <3>1, <3>2 DEF T
    <3>4. b * BatchSize \in Nat
      BY <1>6
    <3> QED
      BY <3>3, <3>4
  <2> QED
    BY <2>1, <2>2
<1> QED
  BY <1>6, <1>7

\* Slices of different numbers do not overlap.
LEMMA SlicesApart ==
  ASSUME NEW a \in Nat, NEW b \in Nat, a < b
  PROVE  (a + 1) * BatchSize <= b * BatchSize
<1> USE BatchAssumption
<1> DEFINE c == b - (a + 1)
<1>1. c \in Nat /\ b = (a + 1) + c
  OBVIOUS
<1>2. c * BatchSize \in Nat
  BY <1>1
<1> HIDE DEF c
<1>3. ((a + 1) + c) * BatchSize = (a + 1) * BatchSize + c * BatchSize
  BY <1>1
<1> QED
  BY <1>1, <1>2, <1>3

\* _chunk: the batches of a set of ids divide it.
LEMMA ChunksDivide ==
  ASSUME NEW S, IsFiniteSet(S)
  PROVE  /\ \A B \in Chunks(S) : B \subseteq S /\ B # {}
         /\ \A B, C \in Chunks(S) : B = C \/ B \cap C = {}
         /\ \A x \in S : \E B \in Chunks(S) : x \in B
<1> DEFINE q == SetToSeq(S)
           n == Cardinality(S)
           top(b) == Min({(b + 1) * BatchSize, Len(q)})
           slice(b) == {q[j] : j \in (b * BatchSize + 1)..top(b)}
           bs == {x \in 0..Len(q) : x * BatchSize < Len(q)}
<1>1. /\ n \in Nat /\ Len(q) = n /\ q \in [1..n -> S]
      /\ \A i, j \in 1..n : q[i] = q[j] => i = j
      /\ \A x \in S : \E i \in 1..n : q[i] = x
  BY Listing
<1>2. Chunks(S) = {slice(b) : b \in bs}
  BY DEF Chunks
<1>3. \A b \in bs : b \in Nat /\ b * BatchSize \in Nat /\ (b + 1) * BatchSize \in Nat
                   /\ b * BatchSize < n /\ (b + 1) * BatchSize = b * BatchSize + BatchSize
  BY <1>1, BatchAssumption
<1>4. \A b \in bs : /\ top(b) \in Int /\ top(b) <= n /\ top(b) <= (b + 1) * BatchSize
                    /\ top(b) \in {(b + 1) * BatchSize, n}
  <2> SUFFICES ASSUME NEW b \in bs
               PROVE  /\ top(b) \in Int /\ top(b) <= n /\ top(b) <= (b + 1) * BatchSize
                      /\ top(b) \in {(b + 1) * BatchSize, n}
    OBVIOUS
  <2> DEFINE C == (b + 1) * BatchSize
  <2>1. C \in Nat /\ Len(q) = n /\ n \in Nat
    BY <1>1, <1>3
  <2>2. top(b) = Min({C, n})
    BY <2>1
  <2> HIDE DEF C, n, top
  <2>3. top(b) \in {C, n} /\ top(b) <= C /\ top(b) <= n
    BY <2>1, <2>2, Smaller
  <2> QED
    BY <2>1, <2>3 DEF C
<1> HIDE DEF top, bs, q, n
<1>5. \A b \in bs : slice(b) \subseteq S /\ slice(b) # {}
  <2> SUFFICES ASSUME NEW b \in bs PROVE slice(b) \subseteq S /\ slice(b) # {}
    OBVIOUS
  <2> DEFINE B == b * BatchSize
             C == (b + 1) * BatchSize
  <2>1. B \in Nat /\ C \in Nat /\ B < n /\ C = B + BatchSize /\ top(b) \in Int /\ top(b) <= n
        /\ top(b) \in {C, n}
    BY <1>3, <1>4
  <2> HIDE DEF B, C
  <2>2. B + 1 \in (B + 1)..top(b)
    BY <1>1, <2>1, BatchAssumption
  <2>3. (B + 1)..top(b) \subseteq 1..n
    BY <1>1, <2>1
  <2> QED
    BY <1>1, <2>2, <2>3 DEF B
<1>6. \A b, c \in bs : b < c => slice(b) \cap slice(c) = {}
  <2> SUFFICES ASSUME NEW b \in bs, NEW c \in bs, b < c,
                      NEW i \in (b * BatchSize + 1)..top(b), NEW j \in (c * BatchSize + 1)..top(c),
                      q[i] = q[j]
               PROVE  FALSE
    OBVIOUS
  <2>1. (b + 1) * BatchSize <= c * BatchSize
    BY <1>3, SlicesApart
  <2> DEFINE B == b * BatchSize
             B1 == (b + 1) * BatchSize
             C == c * BatchSize
  <2>2. B \in Nat /\ B1 \in Nat /\ C \in Nat /\ B1 <= C /\ top(b) \in Int /\ top(c) \in Int
        /\ top(b) <= n /\ top(c) <= n /\ top(b) <= B1
    BY <1>3, <1>4, <2>1
  <2>3. i \in (B + 1)..top(b) /\ j \in (C + 1)..top(c)
    OBVIOUS
  <2> HIDE DEF B, B1, C
  <2>4. i \in 1..n /\ j \in 1..n /\ i < j
    BY <1>1, <2>2, <2>3
  <2> QED
    BY <1>1, <2>4
<1>7. \A B, C \in Chunks(S) : B = C \/ B \cap C = {}
  <2> SUFFICES ASSUME NEW b \in bs, NEW c \in bs
               PROVE  slice(b) = slice(c) \/ slice(b) \cap slice(c) = {}
    BY <1>2
  <2>1. b \in Nat /\ c \in Nat
    BY <1>3
  <2>2. CASE b < c
    BY <1>6, <2>2
  <2>3. CASE c < b
    BY <1>6, <2>3
  <2>4. CASE b = c
    BY <2>4
  <2>5. b < c \/ c < b \/ b = c
    BY <2>1
  <2> HIDE DEF slice
  <2> QED
    BY <2>2, <2>3, <2>4, <2>5
<1>8. ASSUME NEW x \in S PROVE \E B \in Chunks(S) : x \in B
  <2>1. PICK j \in 1..n : q[j] = x
    BY <1>1
  <2>2. j \in Nat \ {0} /\ j <= n
    BY <1>1, <2>1
  <2>3. PICK b \in Nat : b * BatchSize + 1 <= j /\ j <= (b + 1) * BatchSize
    BY <2>2, SliceOf
  <2>4. b * BatchSize \in Nat /\ b <= b * BatchSize
    BY BatchAssumption
  <2>5. b \in bs
    BY <1>1, <2>2, <2>3, <2>4 DEF bs
  <2>6. j <= top(b)
    BY <1>1, <1>4, <2>2, <2>3, <2>5
  <2>7. j \in (b * BatchSize + 1)..top(b)
    BY <1>4, <2>2, <2>3, <2>4, <2>5, <2>6
  <2>8. x \in slice(b)
    BY <2>1, <2>7
  <2> QED
    BY <1>2, <2>5, <2>8
<1>9. \A B \in Chunks(S) : B \subseteq S /\ B # {}
  <2> SUFFICES ASSUME NEW b \in bs PROVE slice(b) \subseteq S /\ slice(b) # {}
    BY <1>2
  <2> QED
    BY <1>5
<1> QED
  BY <1>7, <1>8, <1>9

-----------------------------------------------------------------------------
(* Types of the operators.                                                 *)

\* The plan of a stage consists of sets of ids.
LEMMA PlanTypes ==
  ASSUME Finite, NEW stage \in StageSet, NEW ids \in SUBSET Nat, IsFiniteSet(ids)
  PROVE  /\ Plan(stage, ids) \in SUBSET SUBSET Ids
         /\ Chord(stage, ids) \in ChordSet
         /\ \A k \in Nat : \A t \in BatchTasks(k, stage, ids) :
               t \in TaskSet /\ t.kind = stage /\ t.chord = k /\ t.ids \in Plan(stage, ids)
<1>1. \A B \in Chunks(ids) : B \subseteq Ids
  BY ChunksDivide DEF Ids
<1>2. \A B \in Chunks(FirstControls) : B \subseteq Ids
  BY ChunksDivide, ControlsAssumption DEF Ids, Finite
<1>3. \A B \in Plan(stage, ids) : B \subseteq Ids
  <2>1. CASE stage = "issues"
    BY <1>2, <2>1 DEF Plan
  <2>2. CASE stage = "classify"
    BY <1>1, <2>2 DEF Plan
  <2>3. CASE stage = "score"
    BY <1>1, <2>3 DEF Plan
  <2>4. CASE stage = "discover"
    BY <2>4 DEF Plan
  <2> QED
    BY <2>1, <2>2, <2>3, <2>4 DEF StageSet
<1>4. Plan(stage, ids) \in SUBSET SUBSET Ids
  BY <1>3
<1>5. Chord(stage, ids) \in ChordSet
  BY <1>4 DEF Chord, ChordSet
<1>6. ASSUME NEW k \in Nat, NEW t \in BatchTasks(k, stage, ids)
      PROVE  t \in TaskSet /\ t.kind = stage /\ t.chord = k /\ t.ids \in Plan(stage, ids)
  <2>1. PICK B \in Plan(stage, ids) : t = [kind |-> stage, chord |-> k, ids |-> B]
    BY <1>6 DEF BatchTasks
  <2> QED
    BY <1>3, <2>1 DEF TaskSet, KindSet
<1> QED
  BY <1>4, <1>5, <1>6

\* A chord as it is dispatched.
LEMMA ChordOf ==
  ASSUME NEW stage, NEW ids
  PROVE  /\ Chord(stage, ids).stage = stage
         /\ Chord(stage, ids).open = Plan(stage, ids)
         /\ Chord(stage, ids).joined = FALSE
BY DEF Chord

\* score_from_judgment: the words of an assessment are within their scales.
LEMMA ScoresTyped ==
  ASSUME NEW j \in JudgmentsOfLLM, InVocabulary(j)
  PROVE  ScoreFromJudgment(j) \in Scores
<1>1. j.likelihood \in 1..5 /\ j.consequence \in 1..5 /\ j.velocity \in 1..5
  BY DEF InVocabulary
<1> DEFINE inherent == ComputeInherentRisk(j.likelihood, j.consequence, j.velocity)
           overall == ComputeOverallEffectiveness(j.controls)
           residual == ComputeResidualRisk(inherent, overall)
<1>2. InherentMatrix[j.consequence][j.likelihood] \in 1..4
  BY <1>1 DEF InherentMatrix, Low, Medium, High, Extreme
<1>3. inherent \in 1..4
  BY <1>2 DEF ComputeInherentRisk, Escalated, High
<1>4. overall \in 1..4
  BY DEF ComputeOverallEffectiveness
<1> HIDE DEF inherent, overall
<1>5. residual \in 1..4
  BY <1>3, <1>4 DEF ComputeResidualRisk, ResidualMatrix, Low, Medium, High, Extreme
<1> HIDE DEF residual
<1>6. RecommendResponse(residual, j.insurable) \in {"Accept", "Transfer", "Mitigate"}
  BY DEF RecommendResponse
<1>7. ScoreFromJudgment(j) = [inherent |-> inherent, overall |-> overall, residual |-> residual,
                              response |-> RecommendResponse(residual, j.insurable)]
  BY DEF ScoreFromJudgment, inherent, overall, residual
<1> QED
  BY <1>3, <1>4, <1>5, <1>6, <1>7 DEF Scores

\* A task that is taken up starts at the first step of its kind.
LEMMA Starts ==
  ASSUME NEW t \in TaskSet
  PROVE  /\ t.kind = "issues" => Position[t.kind] = "llm"
         /\ t.kind = "replace" => Position[t.kind] = "wipe"
         /\ t.kind \in {"classify", "score"} => Position[t.kind] = "select"
         /\ t.kind = "discover" => Position[t.kind] = "bundle"
         /\ t.kind = "promote" => Position[t.kind] = "promoted"
BY DEF TaskSet, KindSet, StageSet, Position

-----------------------------------------------------------------------------
(* How a step of a worker goes on.                                         *)

\* The local variables of an idle worker are typed.
LEMMA IdleTyped == Idle \in WorkerSet
BY DEF Idle, NoTask, WorkerSet, Pcs, TaskSet

\* A worker that is at work has a task.
LEMMA AtWork ==
  ASSUME Inv, NEW w \in Workers
  PROVE  /\ worker[w] \in WorkerSet
         /\ worker[w] = [task |-> Of(w), pc |-> Pc(w), fps |-> worker[w].fps,
                         ids |-> worker[w].ids, cur |-> worker[w].cur,
                         out |-> worker[w].out, n |-> worker[w].n]
         /\ Pc(w) # "idle" => Of(w) \in TaskSet
         /\ Fits(worker[w]) /\ Refers(worker[w], DOMAIN issues) /\ Alone(Of(w))
<1>1. worker[w] \in WorkerSet
  BY DEF Inv, Types, ControlOK
<1> QED
  BY <1>1 DEF Inv, WorkersOK, TasksOK, Fits, Of, Pc, WorkerSet

\* The worker that is done waits to acknowledge.
Acking(w) == [Idle EXCEPT !.task = Of(w), !.pc = "ack"]

\* The worker that waits to acknowledge keeps its task.
LEMMA AckingTyped ==
  ASSUME Inv, NEW w \in Workers, Live(w)
  PROVE  /\ Acking(w) \in WorkerSet
         /\ Acking(w).pc = "ack" /\ Acking(w).task = Of(w)
         /\ Of(w) \in TaskSet
<1>1. Of(w) \in TaskSet
  BY AtWork DEF Live
<1>2. Idle \in WorkerSet
  BY IdleTyped
<1>3. "ack" \in Pcs
  BY DEF Pcs
<1> QED
  BY <1>1, <1>2, <1>3 DEF Acking, WorkerSet

\* A batch that has reported is no longer open.
Closed(q, k, B) == [q EXCEPT ![k].open = @ \ {B}]

\* The chord of the batch loses it, the other chords are untouched.
LEMMA ClosedAt ==
  ASSUME NEW q \in Seq(ChordSet), NEW k \in Nat, NEW B \in SUBSET Ids, NEW c \in DOMAIN q
  PROVE  /\ Closed(q, k, B)[c] \in ChordSet
         /\ Closed(q, k, B)[c].stage = q[c].stage /\ Closed(q, k, B)[c].joined = q[c].joined
         /\ c = k => Closed(q, k, B)[c].open = q[c].open \ {B}
         /\ c # k => Closed(q, k, B)[c].open = q[c].open
<1> DEFINE p == Closed(q, k, B)
<1>1. DOMAIN q = 1..Len(q) /\ Len(q) \in Nat /\ q \in [1..Len(q) -> ChordSet]
  BY LenProperties
<1>2. p[c] = IF c = k THEN [q[c] EXCEPT !.open = @ \ {B}] ELSE q[c]
  BY <1>1 DEF Closed
<1> HIDE DEF p
<1>3. CASE c = k
  <2>1. PICK s \in StageSet, o \in SUBSET SUBSET Ids, j \in BOOLEAN :
           q[c] = [stage |-> s, open |-> o, joined |-> j]
    BY <1>1 DEF ChordSet
  <2>2. p[c] = [stage |-> s, open |-> o \ {B}, joined |-> j]
    <3>1. p[c] = [[stage |-> s, open |-> o, joined |-> j] EXCEPT !.open = @ \ {B}]
      BY <1>2, <1>3, <2>1
    <3> QED
      BY <3>1
  <2>3. o \ {B} \in SUBSET SUBSET Ids
    OBVIOUS
  <2>4. p[c] \in ChordSet
    BY <2>2, <2>3 DEF ChordSet
  <2> QED
    BY <1>3, <2>1, <2>2, <2>4 DEF p
<1>4. CASE c # k
  <2>1. p[c] = q[c]
    BY <1>2, <1>4
  <2> QED
    BY <1>1, <1>4, <2>1 DEF p
<1> QED
  BY <1>3, <1>4

\* A chord that loses a batch is a chord.
LEMMA ChordEdited ==
  ASSUME NEW q \in Seq(ChordSet), NEW k \in Nat, NEW B \in SUBSET Ids
  PROVE  /\ Closed(q, k, B) \in Seq(ChordSet)
         /\ Len(Closed(q, k, B)) = Len(q) /\ DOMAIN Closed(q, k, B) = DOMAIN q
<1> DEFINE p == Closed(q, k, B)
<1>1. DOMAIN q = 1..Len(q) /\ Len(q) \in Nat
  BY LenProperties
<1>2. DOMAIN p = 1..Len(q) /\ p = [c \in 1..Len(q) |-> p[c]]
  BY <1>1 DEF Closed
<1> HIDE DEF p
<1>3. \A c \in 1..Len(q) : p[c] \in ChordSet
  BY <1>1, ClosedAt DEF p
<1>4. p \in [1..Len(q) -> ChordSet]
  BY <1>2, <1>3
<1>5. p \in Seq(ChordSet) /\ Len(p) = Len(q)
  BY <1>1, <1>4
<1> QED
  BY <1>1, <1>2, <1>5 DEF p

\* What an outcome does to everything but the rows.
Others(w) == \A v \in Workers \ {w} : worker'[v] = worker[v]

\* Report: the task is done, its result recorded, a job perhaps followed by another.
LEMMA Reports ==
  ASSUME Inv, NEW w \in Workers, NEW result \in SUBSET Nat, Live(w), Report(w, result),
         env' = env
  PROVE  /\ ControlOK' /\ Others(w) /\ worker'[w] = Acking(w)
         /\ run'.issues = run.issues
         /\ \A t \in tasks' : t \in tasks \/ t.kind = "classify"
         /\ tasks \subseteq tasks'
         /\ Of(w).kind # "replace" => tasks' = tasks
         /\ \A s \in steps' : s \in steps \/ s = [stage |-> Of(w).kind, ids |-> Of(w).ids, result |-> result]
<1>1. Of(w) \in TaskSet /\ Acking(w) \in WorkerSet
  BY AckingTyped
<1>2. ControlOK /\ Alone(Of(w))
  BY AtWork DEF Inv, Types
<1>3. worker' = [worker EXCEPT ![w] = Acking(w)]
  BY DEF Report, Acking, Of
<1>4. worker' \in [Workers -> WorkerSet] /\ Others(w) /\ worker'[w] = Acking(w)
  BY <1>1, <1>2, <1>3 DEF ControlOK, Others
<1>5. /\ tasks' = tasks \cup FollowUp(w, result)
      /\ Of(w).kind # "replace" => FollowUp(w, result) = {}
      /\ \A t \in FollowUp(w, result) : t \in TaskSet /\ t.kind = "classify"
  <2>1. tasks' = tasks \cup FollowUp(w, result)
    BY DEF Report
  <2>2. result \subseteq Ids
    BY DEF Ids
  <2>3. [kind |-> "classify", chord |-> 0, ids |-> result] \in TaskSet
    BY <2>2 DEF TaskSet, KindSet, StageSet
  <2>4. FollowUp(w, result) \in {{}, {[kind |-> "classify", chord |-> 0, ids |-> result]}}
    BY DEF FollowUp
  <2>5. Of(w).kind # "replace" => FollowUp(w, result) = {}
    BY DEF FollowUp, Of
  <2> QED
    BY <2>1, <2>3, <2>4, <2>5
<1>6. tasks' \subseteq TaskSet /\ \A t \in tasks' : t \in tasks \/ t.kind = "classify"
  BY <1>2, <1>5 DEF ControlOK
<1> DEFINE new == [stage |-> Of(w).kind, ids |-> Of(w).ids, result |-> result]
<1>7. CASE Of(w).kind = "promote"
  <2>1. run' = [run EXCEPT !.stage = 5] /\ UNCHANGED <<steps, chords>>
    BY <1>7 DEF Report, Of
  <2>2. run' \in [stage : 0..5, issues : SUBSET Nat] /\ run'.issues = run.issues
    BY <1>2, <2>1 DEF ControlOK
  <2> QED
    BY <1>2, <1>4, <1>5, <1>6, <2>1, <2>2 DEF ControlOK
<1>8. CASE Of(w).kind # "promote" /\ Of(w).chord = 0
  <2>1. UNCHANGED <<run, steps, chords>>
    BY <1>8 DEF Report, Of
  <2> QED
    BY <1>2, <1>4, <1>5, <1>6, <2>1 DEF ControlOK
<1>9. CASE Of(w).kind # "promote" /\ Of(w).chord # 0
  <2>1. /\ steps' = {s \in steps : s.stage # Of(w).kind \/ s.ids # Of(w).ids} \cup {new}
        /\ chords' = Closed(chords, Of(w).chord, Of(w).ids)
        /\ run' = run
    BY <1>9 DEF Report, Of, Closed
  <2>2. Of(w).kind \in StageSet
    BY <1>1, <1>2, <1>9 DEF Alone, TaskSet, KindSet
  <2>3. new \in StepSet
    BY <1>1, <2>2 DEF StepSet, TaskSet
  <2>4. steps' \subseteq StepSet /\ \A s \in steps' : s \in steps \/ s = new
    BY <1>2, <2>1, <2>3 DEF ControlOK
  <2>5. chords' \in Seq(ChordSet)
    BY <1>1, <1>2, <2>1, ChordEdited DEF ControlOK, TaskSet
  <2> QED
    BY <1>2, <1>4, <1>5, <1>6, <2>1, <2>4, <2>5 DEF ControlOK
<1> QED
  BY <1>7, <1>8, <1>9

\* Raise: the task is over, and only its chord hears of it.
LEMMA Raises ==
  ASSUME Inv, NEW w \in Workers, Live(w), Raise(w), env' = env
  PROVE  /\ ControlOK' /\ Others(w) /\ worker'[w] = Acking(w)
         /\ UNCHANGED <<run, steps, tasks>>
<1>1. Of(w) \in TaskSet /\ Acking(w) \in WorkerSet
  BY AckingTyped
<1>2. ControlOK
  BY DEF Inv, Types
<1>3. worker' = [worker EXCEPT ![w] = Acking(w)] /\ UNCHANGED <<run, steps, tasks>>
  BY DEF Raise, Acking, Of
<1>4. worker' \in [Workers -> WorkerSet] /\ Others(w) /\ worker'[w] = Acking(w)
  BY <1>1, <1>2, <1>3 DEF ControlOK, Others
<1>5. \/ chords' = chords
      \/ chords' = Closed(chords, Of(w).chord, Of(w).ids)
  BY DEF Raise, Of, Closed
<1>6. chords' \in Seq(ChordSet)
  <2>1. chords \in Seq(ChordSet)
    BY <1>2 DEF ControlOK
  <2>2. Closed(chords, Of(w).chord, Of(w).ids) \in Seq(ChordSet)
    BY <1>1, <2>1, ChordEdited DEF TaskSet
  <2> QED
    BY <1>5, <2>1, <2>2
<1> QED
  BY <1>2, <1>3, <1>4, <1>6 DEF ControlOK

\* Moves: the task goes on, with typed local variables.
LEMMA GoesOn ==
  ASSUME Inv, NEW w \in Workers, NEW new \in WorkerSet, Moves(w, new), env' = env
  PROVE  /\ ControlOK' /\ Others(w) /\ worker'[w] = new
         /\ UNCHANGED <<run, steps, chords, tasks>>
<1>1. ControlOK
  BY DEF Inv, Types
<1>2. worker' = [worker EXCEPT ![w] = new] /\ UNCHANGED <<run, steps, chords, tasks>>
  BY DEF Moves
<1>3. worker' \in [Workers -> WorkerSet] /\ Others(w) /\ worker'[w] = new
  BY <1>1, <1>2 DEF ControlOK, Others
<1> QED
  BY <1>1, <1>2, <1>3 DEF ControlOK

\* An id that was given stays given.
LEMMA RefersGrows ==
  ASSUME NEW x, NEW D, NEW E, D \subseteq E, Refers(x, D)
  PROVE  Refers(x, E)
BY DEF Refers

\* What a worker at "ack" needs is little.
LEMMA AckingFits ==
  ASSUME Inv, NEW w \in Workers, Live(w), NEW D
  PROVE  Fits(Acking(w)) /\ Refers(Acking(w), D)
<1>1. Acking(w).pc = "ack" /\ Acking(w).task = Of(w) /\ Of(w) \in TaskSet
  BY AckingTyped
<1>2. Of(w) # NoTask
  BY <1>1 DEF NoTask, TaskSet, KindSet, StageSet
<1> QED
  BY <1>1, <1>2 DEF Fits, Refers, DerivePcs, InsertPcs, EachPcs, FindPcs, RiskPcs

-----------------------------------------------------------------------------
(* The invariant holds again, whichever the outcome, if the rows are right. *)

RowsNext ==
  /\ RowsOK' /\ Cascades'
  /\ DOMAIN issues \subseteq DOMAIN issues'

\* Workers fit their tasks again when one of them changed as it should.
LEMMA WorkersNext ==
  ASSUME Inv, RowsNext, NEW w \in Workers, Others(w),
         Fits(worker'[w]), Refers(worker'[w], DOMAIN issues')
  PROVE  WorkersOK'
<1> SUFFICES ASSUME NEW v \in Workers
             PROVE  Fits(worker'[v]) /\ Refers(worker'[v], DOMAIN issues')
  BY DEF WorkersOK, Fits, Refers
<1>1. CASE v = w
  BY <1>1
<1>2. CASE v # w
  <2>1. worker'[v] = worker[v]
    BY <1>2 DEF Others
  <2>2. Fits(worker[v]) /\ Refers(worker[v], DOMAIN issues)
    BY DEF Inv, WorkersOK
  <2> QED
    BY <2>1, <2>2, RefersGrows DEF RowsNext
<1> QED
  BY <1>1, <1>2

\* The invariant after a step that reports.
LEMMA ReportInv ==
  ASSUME Inv, RowsNext, NEW w \in Workers, Live(w), NEW result \in SUBSET Nat,
         result \subseteq DOMAIN issues', Report(w, result), env' = env
  PROVE  Inv'
<1>1. /\ ControlOK' /\ Others(w) /\ worker'[w] = Acking(w)
      /\ run'.issues = run.issues
      /\ \A t \in tasks' : t \in tasks \/ t.kind = "classify"
      /\ \A s \in steps' : s \in steps \/ s = [stage |-> Of(w).kind, ids |-> Of(w).ids, result |-> result]
  BY Reports
<1>2. WorkersOK'
  BY <1>1, AckingFits, WorkersNext
<1>3. \A v \in Workers : Of(v)' = Of(v)
  <2> SUFFICES ASSUME NEW v \in Workers PROVE worker'[v].task = worker[v].task
    BY DEF Of
  <2> QED
    BY <1>1, AckingTyped DEF Others, Of
<1>4. TasksOK'
  <2>1. \A t \in tasks' : Alone(t)
    BY <1>1 DEF Inv, TasksOK, Alone
  <2>2. \A v \in Workers : Alone(Of(v))'
    BY <1>3 DEF Inv, TasksOK, Alone
  <2>3. ASSUME NEW s \in steps' PROVE s.result \subseteq DOMAIN issues'
    <3>1. CASE s \in steps
      BY <3>1 DEF Inv, TasksOK, RowsNext
    <3>2. CASE s = [stage |-> Of(w).kind, ids |-> Of(w).ids, result |-> result]
      BY <3>2
    <3> QED
      BY <1>1, <3>1, <3>2
  <2>4. run'.issues \subseteq DOMAIN issues'
    BY <1>1 DEF Inv, TasksOK, RowsNext
  <2> QED
    BY <2>1, <2>2, <2>3, <2>4 DEF TasksOK, Alone
<1> QED
  BY <1>1, <1>2, <1>4 DEF Inv, Types, RowsNext

\* The invariant after a step that raises.
LEMMA RaiseInv ==
  ASSUME Inv, RowsNext, NEW w \in Workers, Live(w), Raise(w), env' = env
  PROVE  Inv'
<1>1. /\ ControlOK' /\ Others(w) /\ worker'[w] = Acking(w)
      /\ UNCHANGED <<run, steps, tasks>>
  BY Raises
<1>2. WorkersOK'
  BY <1>1, AckingFits, WorkersNext
<1>3. \A v \in Workers : Of(v)' = Of(v)
  <2> SUFFICES ASSUME NEW v \in Workers PROVE worker'[v].task = worker[v].task
    BY DEF Of
  <2> QED
    BY <1>1, AckingTyped DEF Others, Of
<1>4. TasksOK'
  BY <1>1, <1>3 DEF Inv, TasksOK, Alone, RowsNext
<1> QED
  BY <1>1, <1>2, <1>4 DEF Inv, Types, RowsNext

\* The invariant after a step that goes on.
LEMMA MoveInv ==
  ASSUME Inv, RowsNext, NEW w \in Workers, NEW new \in WorkerSet, Moves(w, new), env' = env,
         new.task = Of(w), Fits(new), Refers(new, DOMAIN issues')
  PROVE  Inv'
<1>1. /\ ControlOK' /\ Others(w) /\ worker'[w] = new
      /\ UNCHANGED <<run, steps, tasks>>
  BY GoesOn
<1>2. WorkersOK'
  BY <1>1, WorkersNext
<1>3. \A v \in Workers : Of(v)' = Of(v)
  <2> SUFFICES ASSUME NEW v \in Workers PROVE worker'[v].task = worker[v].task
    BY DEF Of
  <2> QED
    BY <1>1 DEF Others, Of
<1>4. TasksOK'
  BY <1>1, <1>3 DEF Inv, TasksOK, Alone, RowsNext
<1> QED
  BY <1>1, <1>2, <1>4 DEF Inv, Types, RowsNext

\* Steps that write no rows.
LEMMA RowsStay ==
  ASSUME Inv, UNCHANGED rows
  PROVE  RowsNext /\ DOMAIN issues' = DOMAIN issues
BY DEF Inv, Types, rows, RowsNext, RowsOK, Cascades, Existing

\* One issue gets another row: its classifications or its assessments change.
LEMMA IssueEdited ==
  ASSUME Inv, NEW i \in DOMAIN issues, NEW row \in IssueSet,
         row.exists = issues[i].exists, row.fp = issues[i].fp,
         row.exists \/ (row.classes = 0 /\ row.assessments = <<>>),
         issues' = [issues EXCEPT ![i] = row],
         UNCHANGED <<controls, links, candidates, risks>>
  PROVE  /\ RowsNext
         /\ Existing' = Existing
         /\ DOMAIN issues' = DOMAIN issues
         /\ \A j \in DOMAIN issues : issues'[j] = IF j = i THEN row ELSE issues[j]
<1>1. issues \in Seq(IssueSet)
  BY DEF Inv, Types, RowsOK
<1>2. /\ issues' \in Seq(IssueSet) /\ DOMAIN issues' = DOMAIN issues
      /\ \A j \in DOMAIN issues : issues'[j] = IF j = i THEN row ELSE issues[j]
  BY <1>1
<1>3. Existing' = Existing
  BY <1>2 DEF Existing
<1>4. RowsOK'
  BY <1>2 DEF Inv, Types, RowsOK
<1>5. Cascades'
  <2>1. \A j \in DOMAIN issues' : \/ issues'[j].exists
                                  \/ issues'[j].classes = 0 /\ issues'[j].assessments = <<>>
    BY <1>2 DEF Inv, Cascades
  <2>2. links \subseteq Existing \X controls /\ \A q \in DOMAIN risks : risks[q].issue \in Existing \cup {0}
    BY DEF Inv, Cascades
  <2> QED
    BY <1>3, <2>1, <2>2 DEF Cascades
<1> QED
  BY <1>2, <1>3, <1>4, <1>5 DEF RowsNext

\* A worker that goes on with the work of its kind still fits its task.
LEMMA GroupFits ==
  ASSUME NEW x, NEW y, Fits(x), y.task = x.task,
         \/ x.pc \in DerivePcs \cup {"wipe"} /\ y.pc \in DerivePcs
         \/ x.pc \in EachPcs /\ y.pc \in EachPcs
         \/ x.pc \in FindPcs /\ y.pc \in FindPcs
         \/ x.pc \in RiskPcs /\ y.pc \in RiskPcs
  PROVE  Fits(y)
BY DEF Fits, DerivePcs, InsertPcs, EachPcs, FindPcs, RiskPcs

\* Where a worker is, is a step of some group.
LEMMA GroupLive ==
  ASSUME NEW w \in Workers,
         Pc(w) \in DerivePcs \cup {"wipe"} \cup EachPcs \cup FindPcs \cup RiskPcs
  PROVE  Live(w)
BY DEF Live, DerivePcs, InsertPcs, EachPcs, FindPcs, RiskPcs

-----------------------------------------------------------------------------
(* Steps of a worker.                                                      *)

\* generate_issues_for_control_batch up to the persistence keeps the invariant.
LEMMA DeriveInv ==
  ASSUME Inv, NEW w \in Workers, DeriveIssues(w)
  PROVE  Inv'
<1>1. Pc(w) = "llm" /\ UNCHANGED rows /\ env' = env
  BY DEF DeriveIssues, Pc
<1>2. RowsNext /\ Live(w) /\ worker[w] \in WorkerSet /\ Fits(worker[w])
  BY <1>1, RowsStay, AtWork DEF Live
<1>3. CASE Report(w, {})
  BY <1>1, <1>2, <1>3, ReportInv
<1>4. CASE ~Report(w, {})
  <2>1. PICK F \in SUBSET Fingerprints :
           Moves(w, [worker[w] EXCEPT !.pc = "precheck", !.fps = F, !.ids = {}])
    BY <1>4 DEF DeriveIssues, LlmBatch
  <2> DEFINE new == [worker[w] EXCEPT !.pc = "precheck", !.fps = F, !.ids = {}]
  <2>2. /\ new \in WorkerSet /\ new.task = Of(w) /\ new.pc = "precheck"
    BY <1>2 DEF WorkerSet, Pcs, DerivePcs, InsertPcs, Of
  <2> HIDE DEF new
  <2>3. Fits(new)
    BY <1>1, <1>2, <2>2, GroupFits DEF DerivePcs, InsertPcs, Pc, Of
  <2>4. Refers(new, DOMAIN issues')
    BY <2>2 DEF Refers
  <2>5. Moves(w, new)
    BY <2>1 DEF new
  <2> QED
    BY <1>1, <1>2, <2>2, <2>3, <2>4, <2>5, MoveInv
<1> QED
  BY <1>3, <1>4

\* list_fingerprints keeps the invariant.
LEMMA PrecheckInv ==
  ASSUME Inv, NEW w \in Workers, Precheck(w)
  PROVE  Inv'
<1>1. Pc(w) \in {"precheck", "recheck"} /\ UNCHANGED rows /\ env' = env
  BY DEF Precheck, Pc
<1>2. RowsNext /\ Live(w) /\ worker[w] \in WorkerSet /\ Fits(worker[w])
  BY <1>1, RowsStay, AtWork DEF Live
<1>3. CASE Report(w, {})
  BY <1>1, <1>2, <1>3, ReportInv
<1>4. CASE ~Report(w, {})
  <2> DEFINE fresh == worker[w].fps \ Persisted
             new == [worker[w] EXCEPT !.fps = fresh,
                        !.pc = IF @ = "precheck" THEN "insert" ELSE "reinsert"]
  <2>1. Moves(w, new)
    BY <1>4 DEF Precheck
  <2>2. /\ new \in WorkerSet /\ new.task = Of(w) /\ new.pc \in {"insert", "reinsert"}
    BY <1>2 DEF WorkerSet, Pcs, DerivePcs, InsertPcs, Of
  <2> HIDE DEF new
  <2>3. Fits(new)
    BY <1>1, <1>2, <2>2, GroupFits DEF DerivePcs, InsertPcs, Pc, Of
  <2>4. Refers(new, DOMAIN issues')
    BY <2>2 DEF Refers
  <2> QED
    BY <1>1, <1>2, <2>1, <2>2, <2>3, <2>4, MoveInv
<1> QED
  BY <1>3, <1>4

\* A deleted row keeps its fingerprint.
LEMMA DeletedTyped ==
  ASSUME NEW row \in IssueSet
  PROVE  /\ Deleted(row) \in IssueSet /\ Deleted(row).exists = FALSE
         /\ Deleted(row).classes = 0 /\ Deleted(row).assessments = <<>>
         /\ Deleted(row).fp = row.fp
<1>1. <<>> \in Seq(Scores)
  OBVIOUS
<1>2. Deleted(row) \in IssueSet
  BY <1>1 DEF Deleted, IssueSet
<1>3. /\ Deleted(row).exists = FALSE /\ Deleted(row).classes = 0
      /\ Deleted(row).assessments = <<>> /\ Deleted(row).fp = row.fp
  BY DEF Deleted, IssueSet
<1> QED
  BY <1>2, <1>3

\* The legacy job deletes the rows that were derived, and what depends on them.
LEMMA WipeRows ==
  ASSUME Inv, issues' = [i \in DOMAIN issues |-> Deleted(issues[i])], links' = {},
         risks' = [r \in DOMAIN risks |-> [risks[r] EXCEPT !.issue = 0]],
         UNCHANGED <<controls, candidates>>
  PROVE  RowsNext /\ DOMAIN issues' = DOMAIN issues
<1>1. /\ issues \in Seq(IssueSet) /\ Len(issues) \in Nat /\ DOMAIN issues = 1..Len(issues)
      /\ risks \in Seq(RiskSet) /\ Len(risks) \in Nat /\ DOMAIN risks = 1..Len(risks)
  BY DEF Inv, Types, RowsOK
<1>2. ASSUME NEW i \in DOMAIN issues
      PROVE  /\ Deleted(issues[i]) \in IssueSet /\ Deleted(issues[i]).exists = FALSE
             /\ Deleted(issues[i]).classes = 0 /\ Deleted(issues[i]).assessments = <<>>
  <2>1. issues[i] \in IssueSet
    BY <1>1
  <2> QED
    BY <2>1, DeletedTyped
<1>3. issues' \in Seq(IssueSet) /\ DOMAIN issues' = DOMAIN issues
  <2>1. issues' \in [1..Len(issues) -> IssueSet]
    BY <1>1, <1>2
  <2> QED
    BY <1>1, <2>1
<1>4. ASSUME NEW q \in DOMAIN risks
      PROVE  [risks[q] EXCEPT !.issue = 0] \in RiskSet /\ [risks[q] EXCEPT !.issue = 0].issue = 0
  <2>1. risks[q] \in RiskSet
    BY <1>1
  <2>2. PICK i \in Nat, x \in 1..4 : risks[q] = [issue |-> i, rating |-> x]
    BY <2>1 DEF RiskSet
  <2>3. [risks[q] EXCEPT !.issue = 0] = [issue |-> 0, rating |-> x]
    BY <2>2
  <2> QED
    BY <2>3 DEF RiskSet
<1>5. risks' \in Seq(RiskSet) /\ DOMAIN risks' = DOMAIN risks
  <2>1. risks' \in [1..Len(risks) -> RiskSet]
    BY <1>1, <1>4
  <2> QED
    BY <1>1, <2>1
<1>6. RowsOK'
  BY <1>3, <1>5 DEF RowsOK, Inv, Types
<1>7. Cascades'
  BY <1>2, <1>3, <1>4, <1>5 DEF Cascades
<1> QED
  BY <1>3, <1>6, <1>7 DEF RowsNext

\* delete_derived_for_org keeps the invariant.
LEMMA WipeInv ==
  ASSUME Inv, NEW w \in Workers, WipeDerived(w)
  PROVE  Inv'
<1>1. Pc(w) = "wipe" /\ UNCHANGED <<controls, candidates>> /\ env' = env
  BY DEF WipeDerived, Pc
<1>2. Live(w) /\ worker[w] \in WorkerSet /\ Fits(worker[w])
  BY <1>1, AtWork DEF Live
<1>3. CASE controls = {}
  <2>1. Report(w, {}) /\ UNCHANGED rows
    BY <1>3 DEF WipeDerived, rows
  <2> QED
    BY <1>1, <1>2, <2>1, RowsStay, ReportInv
<1>4. CASE controls # {}
  <2> DEFINE new == [worker[w] EXCEPT !.pc = "llm", !.ids = controls]
  <2>1. /\ issues' = [i \in DOMAIN issues |-> Deleted(issues[i])] /\ links' = {}
        /\ risks' = [r \in DOMAIN risks |-> [risks[r] EXCEPT !.issue = 0]]
        /\ Moves(w, new)
    BY <1>4 DEF WipeDerived
  <2>2. RowsNext
    BY <1>1, <2>1, WipeRows
  <2>3. controls \subseteq Ids
    BY DEF Inv, Types, RowsOK, Ids
  <2>4. /\ new \in WorkerSet /\ new.task = Of(w) /\ new.pc = "llm"
    BY <1>2, <2>3 DEF WorkerSet, Pcs, DerivePcs, InsertPcs, Of
  <2> HIDE DEF new
  <2>5. Fits(new)
    BY <1>1, <1>2, <2>4, GroupFits DEF DerivePcs, InsertPcs, Pc, Of
  <2>6. Refers(new, DOMAIN issues')
    BY <2>4 DEF Refers
  <2> QED
    BY <1>1, <1>2, <2>1, <2>2, <2>4, <2>5, <2>6, MoveInv
<1> QED
  BY <1>3, <1>4

\* insert_many: the new rows follow the old ones, one for each fingerprint.
LEMMA InsertedRows ==
  ASSUME Inv, NEW fps \in SUBSET Fingerprints, IsFiniteSet(fps),
         issues' = issues \o [n \in DOMAIN SetToSeq(fps) |-> NewIssue(SetToSeq(fps)[n])]
  PROVE  /\ issues' \in Seq(IssueSet)
         /\ Cardinality(fps) \in Nat
         /\ Len(issues') = Len(issues) + Cardinality(fps)
         /\ \A i \in DOMAIN issues : i \in DOMAIN issues' /\ issues'[i] = issues[i]
         /\ \A i \in DOMAIN issues' :
              \/ i \in DOMAIN issues
              \/ i \in (Len(issues) + 1)..(Len(issues) + Cardinality(fps))
         /\ \A i \in (Len(issues) + 1)..(Len(issues) + Cardinality(fps)) :
              /\ i \in DOMAIN issues' /\ i \notin DOMAIN issues
              /\ \E f \in fps : issues'[i] = NewIssue(f)
         /\ \A i, j \in (Len(issues) + 1)..(Len(issues) + Cardinality(fps)) :
              issues'[i].fp = issues'[j].fp => i = j
<1> DEFINE q == SetToSeq(fps)
           n == Cardinality(fps)
           new == [m \in DOMAIN q |-> NewIssue(q[m])]
           L == Len(issues)
<1>1. /\ q \in Seq(fps) /\ n \in Nat /\ Len(q) = n /\ DOMAIN q = 1..n
      /\ \A i, j \in 1..n : q[i] = q[j] => i = j
  BY Listing
<1>2. issues \in Seq(IssueSet) /\ L \in Nat /\ DOMAIN issues = 1..L
  BY DEF Inv, Types, RowsOK
<1>3. \A m \in 1..n : q[m] \in fps
  BY <1>1
<1> HIDE DEF q, n, L
<1>4. \A f \in fps : NewIssue(f) \in IssueSet /\ NewIssue(f).fp = f
  <2>1. <<>> \in Seq(Scores)
    OBVIOUS
  <2> QED
    BY <2>1 DEF NewIssue, IssueSet
<1>5. new \in Seq(IssueSet) /\ Len(new) = n /\ \A m \in 1..n : new[m] = NewIssue(q[m])
  <2>1. new \in [1..n -> IssueSet]
    BY <1>1, <1>3, <1>4
  <2> QED
    BY <1>1, <2>1
<1>6. issues' = issues \o new
  BY DEF q
<1> HIDE DEF new
<1>7. /\ issues' \in Seq(IssueSet) /\ Len(issues') = L + n
      /\ \A i \in 1..(L + n) : issues'[i] = IF i <= L THEN issues[i] ELSE new[i - L]
  <2>1. L = Len(issues) /\ issues \in Seq(IssueSet)
    BY <1>2 DEF L
  <2>2. /\ issues \o new \in Seq(IssueSet)
        /\ Len(issues \o new) = Len(issues) + Len(new)
        /\ \A i \in 1..(Len(issues) + Len(new)) :
              (issues \o new)[i] = IF i <= Len(issues) THEN issues[i] ELSE new[i - Len(issues)]
    BY <1>5, <2>1, ConcatProperties
  <2> QED
    BY <1>5, <1>6, <2>1, <2>2
<1>8. DOMAIN issues' = 1..(L + n)
  BY <1>1, <1>2, <1>7
<1>9. \A i \in (L + 1)..(L + n) : i - L \in 1..n /\ issues'[i] = NewIssue(q[i - L])
  BY <1>1, <1>2, <1>5, <1>7
<1>10. \A i, j \in (L + 1)..(L + n) : issues'[i].fp = issues'[j].fp => i = j
  <2> SUFFICES ASSUME NEW i \in (L + 1)..(L + n), NEW j \in (L + 1)..(L + n),
                      issues'[i].fp = issues'[j].fp
               PROVE  i = j
    OBVIOUS
  <2>1. q[i - L] = q[j - L]
    BY <1>3, <1>4, <1>9
  <2>2. i - L = j - L
    BY <1>1, <1>9, <2>1
  <2> QED
    BY <1>1, <1>2, <2>2
<1>11. ASSUME NEW i \in (L + 1)..(L + n)
       PROVE  /\ i \in DOMAIN issues' /\ i \notin DOMAIN issues
              /\ \E f \in fps : issues'[i] = NewIssue(f)
  <2>1. i \in DOMAIN issues' /\ i \notin DOMAIN issues
    BY <1>1, <1>2, <1>8
  <2>2. i - L \in 1..n /\ issues'[i] = NewIssue(q[i - L])
    BY <1>9
  <2>3. q[i - L] \in fps
    BY <1>3, <2>2
  <2> QED
    BY <2>1, <2>2, <2>3
<1>12. \A i \in DOMAIN issues : i \in DOMAIN issues' /\ issues'[i] = issues[i]
  BY <1>1, <1>2, <1>7, <1>8
<1>13. \A i \in DOMAIN issues' : i \in DOMAIN issues \/ i \in (L + 1)..(L + n)
  BY <1>1, <1>2, <1>8
<1> QED
  BY <1>1, <1>7, <1>10, <1>11, <1>12, <1>13 DEF n, L

\* A worker inserts finitely many issues at once.
LEMMA FpsFinite ==
  ASSUME Inv, Finite, NEW w \in Workers
  PROVE  worker[w].fps \in SUBSET Fingerprints /\ IsFiniteSet(worker[w].fps)
<1>1. worker[w].fps \in SUBSET Fingerprints
  BY AtWork DEF WorkerSet
<1> QED
  BY <1>1, FS_Subset DEF Finite

\* insert_many keeps the invariant, whether the unique index lets it pass or not.
LEMMA InsertIssuesInv ==
  ASSUME Inv, Finite, NEW w \in Workers, InsertIssues(w)
  PROVE  Inv'
<1> DEFINE fps == worker[w].fps
           ids == (Len(issues) + 1)..(Len(issues) + Cardinality(fps))
<1>1. Pc(w) \in {"insert", "reinsert"} /\ UNCHANGED <<controls, links, candidates, risks, env>>
  BY DEF InsertIssues, Pc
<1>2. Live(w) /\ worker[w] \in WorkerSet /\ Fits(worker[w])
  BY <1>1, AtWork DEF Live
<1>3. fps \in SUBSET Fingerprints /\ IsFiniteSet(fps)
  BY FpsFinite
<1>4. CASE ~Collides(fps)
  <2> DEFINE new == [worker[w] EXCEPT !.pc = "assign", !.ids = ids]
  <2>1. /\ issues' = issues \o [n \in DOMAIN SetToSeq(fps) |-> NewIssue(SetToSeq(fps)[n])]
        /\ Moves(w, new)
    BY <1>4 DEF InsertIssues
  <2> HIDE DEF fps
  <2>2. /\ issues' \in Seq(IssueSet)
        /\ \A i \in DOMAIN issues : i \in DOMAIN issues' /\ issues'[i] = issues[i]
        /\ \A i \in DOMAIN issues' : i \in DOMAIN issues \/ i \in ids
        /\ \A i \in ids : /\ i \in DOMAIN issues' /\ i \notin DOMAIN issues
                          /\ \E f \in fps : issues'[i] = NewIssue(f)
    BY <1>3, <2>1, InsertedRows
  <2>3. ids \subseteq Ids
    <3>1. Cardinality(fps) \in Nat /\ Len(issues) \in Nat
      BY <1>3, FS_CardinalityType DEF Inv, Types, RowsOK
    <3> QED
      BY <3>1 DEF Ids
  <2> HIDE DEF ids
  <2>4. \A i \in ids : issues'[i].exists
    <3>1. \A f : NewIssue(f).exists = TRUE
      BY DEF NewIssue
    <3> QED
      BY <2>2, <3>1
  <2>5. Existing \subseteq Existing'
    BY <2>2 DEF Existing
  <2>6. Cascades'
    <3>1. \A i \in DOMAIN issues' : \/ issues'[i].exists
                                    \/ issues'[i].classes = 0 /\ issues'[i].assessments = <<>>
      BY <2>2, <2>4 DEF Inv, Cascades
    <3>2. links' \subseteq Existing' \X controls'
      BY <1>1, <2>5 DEF Inv, Cascades
    <3>3. \A q \in DOMAIN risks' : risks'[q].issue \in Existing' \cup {0}
      BY <1>1, <2>5 DEF Inv, Cascades
    <3> QED
      BY <3>1, <3>2, <3>3 DEF Cascades
  <2>7. RowsNext
    BY <1>1, <2>2, <2>6 DEF RowsNext, RowsOK, Inv, Types
  <2>8. /\ new \in WorkerSet /\ new.task = Of(w) /\ new.pc = "assign" /\ new.ids = ids
    BY <1>2, <2>3 DEF WorkerSet, Pcs, DerivePcs, InsertPcs, Of
  <2> HIDE DEF new
  <2>9. Fits(new)
    BY <1>1, <1>2, <2>8, GroupFits DEF DerivePcs, InsertPcs, Pc, Of
  <2>10. Refers(new, DOMAIN issues')
    BY <2>2, <2>8 DEF Refers
  <2> QED
    BY <1>1, <1>2, <2>1, <2>7, <2>8, <2>9, <2>10, MoveInv
<1>5. CASE Collides(fps)
  <2>1. UNCHANGED rows
    BY <1>1, <1>5 DEF InsertIssues, rows
  <2>2. RowsNext
    BY <2>1, RowsStay
  <2>3. CASE Raise(w)
    BY <1>1, <1>2, <2>2, <2>3, RaiseInv
  <2>4. CASE ~Raise(w)
    <3> DEFINE new == [worker[w] EXCEPT !.pc = "recheck"]
    <3>1. Moves(w, new)
      BY <1>5, <2>4 DEF InsertIssues
    <3>2. /\ new \in WorkerSet /\ new.task = Of(w) /\ new.pc = "recheck"
      BY <1>2 DEF WorkerSet, Pcs, DerivePcs, InsertPcs, Of
    <3> HIDE DEF new
    <3>3. Fits(new)
      BY <1>1, <1>2, <3>2, GroupFits DEF DerivePcs, InsertPcs, Pc, Of
    <3>4. Refers(new, DOMAIN issues')
      BY <3>2 DEF Refers
    <3> QED
      BY <1>1, <1>2, <2>2, <3>1, <3>2, <3>3, <3>4, MoveInv
  <2> QED
    BY <2>3, <2>4
<1> QED
  BY <1>4, <1>5

\* assign_many keeps the invariant: links refer to rows that exist.
LEMMA AssignInv ==
  ASSUME Inv, NEW w \in Workers, AssignControls(w)
  PROVE  Inv'
<1> DEFINE ids == worker[w].ids
<1>1. Pc(w) = "assign" /\ UNCHANGED <<controls, issues, candidates, risks, env>>
  BY DEF AssignControls, Pc
<1>2. Live(w) /\ ids \subseteq DOMAIN issues
  BY <1>1, AtWork DEF Live, Refers, Pc
<1>3. CASE ids \subseteq Existing /\ \A l \in NewLinks(ids) : l[2] \in controls
  <2>1. links' = links \cup NewLinks(ids) /\ Report(w, ids)
    BY <1>3 DEF AssignControls
  <2>2. NewLinks(ids) \subseteq Existing \X controls
    <3> SUFFICES ASSUME NEW l \in NewLinks(ids) PROVE l \in Existing \X controls
      OBVIOUS
    <3>1. PICK i \in ids : l \in {i} \X Cites[issues[i].fp]
      BY DEF NewLinks
    <3>2. i \in Existing /\ l[2] \in controls
      BY <1>3
    <3> QED
      BY <3>1, <3>2
  <2>3. links' \subseteq Existing' \X controls'
    BY <1>1, <2>1, <2>2 DEF Inv, Cascades, Existing
  <2>4. RowsNext
    BY <1>1, <2>3 DEF RowsNext, RowsOK, Cascades, Existing, Inv, Types
  <2>5. ids \in SUBSET Nat /\ ids \subseteq DOMAIN issues'
    BY <1>1, <1>2 DEF Inv, Types, RowsOK
  <2> QED
    BY <1>1, <1>2, <2>1, <2>4, <2>5, ReportInv
<1>4. CASE ~(ids \subseteq Existing /\ \A l \in NewLinks(ids) : l[2] \in controls)
  <2>1. UNCHANGED rows /\ Raise(w)
    BY <1>1, <1>4 DEF AssignControls, rows
  <2> QED
    BY <1>1, <1>2, <2>1, RowsStay, RaiseInv
<1> QED
  BY <1>3, <1>4

\* Selecting the rows of a batch keeps the invariant.
LEMMA SelectInv ==
  ASSUME Inv, NEW w \in Workers, SelectIssues(w)
  PROVE  Inv'
<1>1. Pc(w) = "select" /\ UNCHANGED rows /\ env' = env
  BY DEF SelectIssues, Pc
<1>2. RowsNext /\ Live(w) /\ worker[w] \in WorkerSet /\ Fits(worker[w])
  BY <1>1, RowsStay, AtWork DEF Live
<1>3. CASE Report(w, {})
  BY <1>1, <1>2, <1>3, ReportInv
<1>4. CASE ~Report(w, {})
  <2> DEFINE named == IF worker[w].ids = {} THEN Existing ELSE worker[w].ids \cap Existing
             todo == IF worker[w].task.kind = "classify" THEN Unclassified(named) ELSE named
             new == [worker[w] EXCEPT !.pc = "each", !.ids = todo]
  <2>1. Moves(w, new)
    BY <1>4 DEF SelectIssues
  <2>2. todo \subseteq Existing
    BY DEF Unclassified
  <2>3. Existing \subseteq DOMAIN issues /\ DOMAIN issues \subseteq Ids
    BY DEF Existing, Ids, Inv, Types, RowsOK
  <2> HIDE DEF todo
  <2>4. /\ new \in WorkerSet /\ new.task = Of(w) /\ new.pc = "each" /\ new.ids = todo
    BY <1>2, <2>2, <2>3 DEF WorkerSet, Pcs, EachPcs, Of
  <2> HIDE DEF new
  <2>5. Fits(new)
    BY <1>1, <1>2, <2>4, GroupFits DEF EachPcs, Pc, Of
  <2>6. Refers(new, DOMAIN issues')
    BY <1>2, <2>2, <2>3, <2>4 DEF Refers, RowsNext
  <2> QED
    BY <1>1, <1>2, <2>1, <2>4, <2>5, <2>6, MoveInv
<1> QED
  BY <1>3, <1>4

\* The next issue of the batch, or the end of it.
LEMMA AfterInv ==
  ASSUME Inv, RowsNext, NEW w \in Workers, Pc(w) \in {"each", "write"}, NEW i, After(w, i),
         env' = env
  PROVE  Inv'
<1>1. Live(w) /\ worker[w] \in WorkerSet /\ Fits(worker[w]) /\ worker[w].ids \subseteq DOMAIN issues
  BY AtWork DEF Live, Refers, Pc
<1>2. CASE Report(w, {})
  BY <1>1, <1>2, ReportInv
<1>3. CASE ~Report(w, {})
  <2> DEFINE new == [worker[w] EXCEPT !.pc = "each", !.ids = @ \ {i}, !.cur = 0]
  <2>1. Moves(w, new)
    BY <1>3 DEF After
  <2>2. /\ new \in WorkerSet /\ new.task = Of(w) /\ new.pc = "each" /\ new.ids = worker[w].ids \ {i}
    BY <1>1 DEF WorkerSet, Pcs, EachPcs, Of
  <2> HIDE DEF new
  <2>3. Fits(new)
    BY <1>1, <2>2, GroupFits DEF EachPcs, Pc, Of
  <2>4. Refers(new, DOMAIN issues')
    BY <1>1, <2>2 DEF Refers, RowsNext
  <2> QED
    BY <1>1, <2>1, <2>2, <2>3, <2>4, MoveInv
<1> QED
  BY <1>2, <1>3

\* Skipping an issue keeps the invariant.
LEMMA SkipInv ==
  ASSUME Inv, NEW w \in Workers, SkipIssue(w)
  PROVE  Inv'
<1>1. Pc(w) = "each" /\ UNCHANGED rows /\ env' = env
  BY DEF SkipIssue, Pc
<1>2. PICK i \in worker[w].ids : After(w, i)
  BY DEF SkipIssue
<1> QED
  BY <1>1, <1>2, RowsStay, AfterInv

\* The row of an issue without its classifications, or without its assessments.
Cleared(kind, row) ==
  IF kind = "classify" THEN [row EXCEPT !.classes = 0] ELSE [row EXCEPT !.assessments = <<>>]

\* delete_for_issue takes the rows of one kind and leaves those of the other.
LEMMA ClearedTyped ==
  ASSUME NEW row \in IssueSet, NEW kind
  PROVE  /\ Cleared(kind, row) \in IssueSet
         /\ Cleared(kind, row).exists = row.exists /\ Cleared(kind, row).fp = row.fp
         /\ Cleared(kind, row).classes = IF kind = "classify" THEN 0 ELSE row.classes
         /\ Cleared(kind, row).assessments = IF kind = "classify" THEN row.assessments ELSE <<>>
<1>1. <<>> \in Seq(Scores)
  OBVIOUS
<1>2. CASE kind = "classify"
  BY <1>2 DEF Cleared, IssueSet
<1>3. CASE kind # "classify"
  BY <1>1, <1>3 DEF Cleared, IssueSet
<1> QED
  BY <1>2, <1>3

\* delete_for_issue: one issue of the batch is cleared, and the worker goes on
\* to write its new row.
LEMMA DeletedPrior ==
  ASSUME Inv, NEW w \in Workers, DeletePrior(w)
  PROVE  \E i \in worker[w].ids :
           LET new == [worker[w] EXCEPT !.pc = "write", !.cur = i]
           IN  /\ i \in DOMAIN issues
               /\ issues' = [issues EXCEPT ![i] = Cleared(Of(w).kind, issues[i])]
               /\ RowsNext /\ Existing' = Existing /\ DOMAIN issues' = DOMAIN issues
               /\ issues'[i] = Cleared(Of(w).kind, issues[i])
               /\ \A j \in DOMAIN issues \ {i} : issues'[j] = issues[j]
               /\ new \in WorkerSet /\ Moves(w, new)
<1>1. Pc(w) = "each" /\ UNCHANGED <<controls, links, candidates, risks, env>>
  BY DEF DeletePrior, Pc
<1>2. worker[w] \in WorkerSet /\ worker[w].ids \subseteq DOMAIN issues
  BY <1>1, AtWork DEF Refers, Pc
<1>3. PICK i \in worker[w].ids :
        /\ issues' = IF worker[w].task.kind = "classify"
                     THEN [issues EXCEPT ![i].classes = 0]
                     ELSE [issues EXCEPT ![i].assessments = <<>>]
        /\ Moves(w, [worker[w] EXCEPT !.pc = "write", !.cur = i])
  BY DEF DeletePrior
<1>4. issues \in Seq(IssueSet) /\ i \in DOMAIN issues /\ issues[i] \in IssueSet /\ i \in Nat
  BY <1>2 DEF Inv, Types, RowsOK
<1> DEFINE row == Cleared(Of(w).kind, issues[i])
<1>5. issues' = [issues EXCEPT ![i] = row]
  BY <1>3 DEF Cleared, Of
<1>6. /\ row \in IssueSet /\ row.exists = issues[i].exists /\ row.fp = issues[i].fp
      /\ row.classes \in {0, issues[i].classes}
      /\ row.assessments \in {<<>>, issues[i].assessments}
  BY <1>4, ClearedTyped
<1>7. row.exists \/ (row.classes = 0 /\ row.assessments = <<>>)
  <2>1. issues[i].exists \/ (issues[i].classes = 0 /\ issues[i].assessments = <<>>)
    BY <1>4 DEF Inv, Cascades
  <2> HIDE DEF row
  <2> QED
    BY <1>6, <2>1
<1> HIDE DEF row
<1>8. /\ RowsNext /\ Existing' = Existing /\ DOMAIN issues' = DOMAIN issues
      /\ \A j \in DOMAIN issues : issues'[j] = IF j = i THEN row ELSE issues[j]
  BY <1>1, <1>4, <1>5, <1>6, <1>7, IssueEdited
<1> DEFINE new == [worker[w] EXCEPT !.pc = "write", !.cur = i]
<1>9. new \in WorkerSet
  BY <1>2, <1>4 DEF WorkerSet, Pcs, EachPcs
<1> HIDE DEF new
<1>10. Moves(w, new)
  BY <1>3 DEF new
<1> QED
  BY <1>4, <1>5, <1>8, <1>9, <1>10 DEF row, new

\* delete_for_issue keeps the invariant.
LEMMA DeletePriorInv ==
  ASSUME Inv, NEW w \in Workers, DeletePrior(w)
  PROVE  Inv'
<1>1. Pc(w) = "each" /\ env' = env
  BY DEF DeletePrior, Pc
<1>2. Live(w) /\ worker[w] \in WorkerSet /\ Fits(worker[w]) /\ worker[w].ids \subseteq DOMAIN issues
  BY <1>1, AtWork DEF Live, Refers, Pc
<1>3. PICK i \in worker[w].ids :
         /\ RowsNext
         /\ [worker[w] EXCEPT !.pc = "write", !.cur = i] \in WorkerSet
         /\ Moves(w, [worker[w] EXCEPT !.pc = "write", !.cur = i])
  BY DeletedPrior
<1> DEFINE new == [worker[w] EXCEPT !.pc = "write", !.cur = i]
<1>4. new \in WorkerSet /\ Moves(w, new)
  BY <1>3
<1>5. /\ new.task = Of(w) /\ new.pc = "write" /\ new.ids = worker[w].ids /\ new.cur = i
  BY <1>2 DEF WorkerSet, Of
<1> HIDE DEF new
<1>6. Fits(new)
  BY <1>1, <1>2, <1>5, GroupFits DEF EachPcs, Pc, Of
<1>7. Refers(new, DOMAIN issues')
  BY <1>2, <1>3, <1>5 DEF Refers, RowsNext
<1> QED
  BY <1>1, <1>2, <1>3, <1>4, <1>5, <1>6, <1>7, MoveInv

\* The row of an issue with one more classification, or one more assessment.
LEMMA WrittenTyped ==
  ASSUME NEW row \in IssueSet, NEW kind,
         NEW new \in IF kind = "classify" THEN {Classified(row)} ELSE Assessed(row)
  PROVE  /\ new \in IssueSet /\ new.exists = row.exists /\ new.fp = row.fp
         /\ new.classes = IF kind = "classify" THEN row.classes + 1 ELSE row.classes
         /\ \/ kind = "classify" /\ new.assessments = row.assessments
            \/ kind # "classify" /\ \E x \in Scores : new.assessments = Append(row.assessments, x)
<1>1. CASE kind = "classify"
  <2>1. new = [row EXCEPT !.classes = @ + 1]
    BY <1>1 DEF Classified
  <2> QED
    BY <1>1, <2>1 DEF IssueSet
<1>2. CASE kind # "classify"
  <2>1. PICK j \in JudgmentsOfLLM : /\ InVocabulary(j)
                                    /\ new = [row EXCEPT !.assessments = Append(@, ScoreFromJudgment(j))]
    BY <1>2 DEF Assessed
  <2> DEFINE x == ScoreFromJudgment(j)
             a == Append(row.assessments, x)
  <2>2. x \in Scores
    BY <2>1, ScoresTyped
  <2> HIDE DEF x
  <2>3. row.assessments \in Seq(Scores)
    BY DEF IssueSet
  <2>4. a \in Seq(Scores)
    BY <2>2, <2>3
  <2>5. new = [row EXCEPT !.assessments = a]
    BY <2>1 DEF IssueSet, x
  <2> HIDE DEF a
  <2>6. new \in IssueSet /\ new.exists = row.exists /\ new.fp = row.fp
        /\ new.classes = row.classes /\ new.assessments = a
    BY <2>4, <2>5 DEF IssueSet
  <2> QED
    BY <1>2, <2>2, <2>6 DEF a
<1> QED
  BY <1>1, <1>2

\* The insert after it, of an issue that is still there.
LEMMA InsertedRow ==
  ASSUME Inv, NEW w \in Workers, InsertRow(w), worker[w].cur \in Existing
  PROVE  LET i == worker[w].cur
         IN  /\ i \in DOMAIN issues /\ i \in worker[w].ids /\ After(w, i)
             /\ RowsNext /\ Existing' = Existing /\ DOMAIN issues' = DOMAIN issues
             /\ \A j \in DOMAIN issues \ {i} : issues'[j] = issues[j]
             /\ issues'[i].fp = issues[i].fp
             /\ issues'[i].classes
                  = IF Of(w).kind = "classify" THEN issues[i].classes + 1 ELSE issues[i].classes
             /\ \/ Of(w).kind = "classify" /\ issues'[i].assessments = issues[i].assessments
                \/ Of(w).kind # "classify"
                   /\ \E x \in Scores : issues'[i].assessments = Append(issues[i].assessments, x)
<1> DEFINE i == worker[w].cur
<1>1. Pc(w) = "write" /\ UNCHANGED <<controls, links, candidates, risks, env>>
  BY DEF InsertRow, Pc
<1>2. i \in worker[w].ids
  BY <1>1, AtWork DEF Refers, Pc
<1>3. /\ After(w, i)
      /\ \E row \in IF worker[w].task.kind = "classify"
                     THEN {Classified(issues[i])} ELSE Assessed(issues[i]) :
            issues' = [issues EXCEPT ![i] = row]
  BY DEF InsertRow
<1>4. i \in DOMAIN issues /\ issues[i] \in IssueSet /\ issues[i].exists
  BY DEF Existing, Inv, Types, RowsOK
<1> HIDE DEF i
<1>5. PICK row \in IF Of(w).kind = "classify"
                   THEN {Classified(issues[i])} ELSE Assessed(issues[i]) :
         issues' = [issues EXCEPT ![i] = row]
  BY <1>3 DEF Of
<1>6. /\ row \in IssueSet /\ row.exists = issues[i].exists /\ row.fp = issues[i].fp
      /\ row.classes = IF Of(w).kind = "classify" THEN issues[i].classes + 1 ELSE issues[i].classes
      /\ \/ Of(w).kind = "classify" /\ row.assessments = issues[i].assessments
         \/ Of(w).kind # "classify" /\ \E x \in Scores : row.assessments = Append(issues[i].assessments, x)
  <2> DEFINE kind == Of(w).kind
             old == issues[i]
  <2>1. old \in IssueSet /\ row \in IF kind = "classify" THEN {Classified(old)} ELSE Assessed(old)
    BY <1>4, <1>5
  <2> HIDE DEF kind, old
  <2>2. /\ row \in IssueSet /\ row.exists = old.exists /\ row.fp = old.fp
        /\ row.classes = IF kind = "classify" THEN old.classes + 1 ELSE old.classes
        /\ \/ kind = "classify" /\ row.assessments = old.assessments
           \/ kind # "classify" /\ \E x \in Scores : row.assessments = Append(old.assessments, x)
    BY <2>1, WrittenTyped
  <2> QED
    BY <2>2 DEF kind, old
<1>7. /\ RowsNext /\ Existing' = Existing /\ DOMAIN issues' = DOMAIN issues
      /\ \A j \in DOMAIN issues : issues'[j] = IF j = i THEN row ELSE issues[j]
  BY <1>1, <1>4, <1>5, <1>6, IssueEdited
<1>8. issues'[i] = row /\ \A j \in DOMAIN issues \ {i} : issues'[j] = issues[j]
  BY <1>4, <1>7
<1> QED
  BY <1>2, <1>3, <1>4, <1>6, <1>7, <1>8 DEF i

\* The insert after it keeps the invariant, and raises if the issue is gone.
LEMMA InsertRowInv ==
  ASSUME Inv, NEW w \in Workers, InsertRow(w)
  PROVE  Inv'
<1>1. Pc(w) = "write" /\ UNCHANGED <<controls, links, candidates, risks, env>>
  BY DEF InsertRow, Pc
<1>2. CASE worker[w].cur \in Existing
  <2>1. RowsNext /\ After(w, worker[w].cur)
    BY <1>2, InsertedRow
  <2> QED
    BY <1>1, <2>1, AfterInv
<1>3. CASE worker[w].cur \notin Existing
  <2>1. Raise(w) /\ UNCHANGED rows /\ Live(w)
    BY <1>1, <1>3 DEF InsertRow, rows, Live
  <2> QED
    BY <1>1, <2>1, RowsStay, RaiseInv
<1> QED
  BY <1>2, <1>3

\* list_issue_ids_with_auto_risks keeps the invariant.
LEMMA FilterInv ==
  ASSUME Inv, NEW w \in Workers, FilterPromoted(w)
  PROVE  Inv'
<1>1. Pc(w) = "promoted" /\ UNCHANGED rows /\ env' = env
  BY DEF FilterPromoted, Pc
<1>2. RowsNext /\ Live(w) /\ worker[w] \in WorkerSet /\ Fits(worker[w])
  BY <1>1, RowsStay, AtWork DEF Live
<1>3. CASE Report(w, {})
  BY <1>1, <1>2, <1>3, ReportInv
<1>4. CASE ~Report(w, {})
  <2> DEFINE wanted == worker[w].ids \ AlreadyPromoted
             new == [worker[w] EXCEPT !.pc = "assess", !.ids = wanted]
  <2>1. Moves(w, new)
    BY <1>4 DEF FilterPromoted
  <2>2. /\ new \in WorkerSet /\ new.task = Of(w) /\ new.pc = "assess"
    BY <1>2 DEF WorkerSet, Pcs, RiskPcs, Of
  <2> HIDE DEF new
  <2>3. Fits(new)
    BY <1>1, <1>2, <2>2, GroupFits DEF RiskPcs, Pc, Of
  <2>4. Refers(new, DOMAIN issues')
    BY <2>2 DEF Refers
  <2> QED
    BY <1>1, <1>2, <2>1, <2>2, <2>3, <2>4, MoveInv
<1> QED
  BY <1>3, <1>4

\* The risks to be created: one for each issue that was found.
Found(ids) == {i \in ids \cap Existing : issues[i].assessments # <<>>}
Loaded(w) == [worker[w] EXCEPT !.pc = "create", !.ids = Found(worker[w].ids),
                !.out = {Assessment(i) : i \in Found(worker[w].ids)}]

\* The assessments that are found are those of rows, and finitely many.
LEMMA FoundTyped ==
  ASSUME Inv, NEW ids
  PROVE  /\ Found(ids) \subseteq DOMAIN issues /\ Found(ids) \subseteq Ids
         /\ {Assessment(i) : i \in Found(ids)} \subseteq RiskSet
         /\ IsFiniteSet({Assessment(i) : i \in Found(ids)})
<1> DEFINE F == Found(ids)
           out == {Assessment(i) : i \in F}
<1>1. issues \in Seq(IssueSet) /\ DOMAIN issues = 1..Len(issues) /\ Len(issues) \in Nat
  BY DEF Inv, Types, RowsOK
<1>2. F \subseteq DOMAIN issues
  BY DEF Found, Existing
<1>3. ASSUME NEW i \in F PROVE Assessment(i) \in RiskSet
  <2> DEFINE a == issues[i].assessments
  <2>1. i \in Nat /\ a \in Seq(Scores) /\ a # <<>>
    <3>1. i \in 1..Len(issues) /\ issues[i].assessments # <<>>
      BY <1>1, <1>2 DEF Found
    <3>2. issues[i] \in IssueSet
      BY <1>1, <3>1
    <3> QED
      BY <1>1, <3>1, <3>2 DEF IssueSet
  <2>2. Last(a) \in Scores
    BY <2>1 DEF Last
  <2>3. Last(a).residual \in 1..4
    BY <2>2 DEF Scores
  <2> QED
    BY <2>1, <2>3 DEF Assessment, RatingOf, RiskSet
<1>4. IsFiniteSet(F)
  <2>1. IsFiniteSet(DOMAIN issues)
    BY <1>1, FS_Interval
  <2> QED
    BY <1>2, <2>1, FS_Subset
<1> HIDE DEF F
<1> DEFINE f == [i \in F |-> Assessment(i)]
<1>5. f \in Surjection(F, out)
  BY DEF Surjection
<1>6. IsFiniteSet(out)
  BY <1>4, <1>5, FS_Surjection
<1>7. out \subseteq RiskSet
  BY <1>3
<1>8. F \subseteq Ids
  BY <1>1, <1>2 DEF Ids
<1> QED
  BY <1>2, <1>6, <1>7, <1>8 DEF F

\* The worker that has loaded them is typed.
LEMMA LoadedTyped ==
  ASSUME Inv, NEW w \in Workers
  PROVE  /\ Loaded(w) \in WorkerSet /\ Loaded(w).task = Of(w) /\ Loaded(w).pc = "create"
         /\ Loaded(w).ids = Found(worker[w].ids)
         /\ Loaded(w).out = {Assessment(i) : i \in Found(worker[w].ids)}
<1> DEFINE F == Found(worker[w].ids)
           out == {Assessment(i) : i \in F}
<1>1. F \subseteq Ids /\ out \subseteq RiskSet
  BY FoundTyped
<1>2. worker[w] \in WorkerSet
  BY AtWork
<1>3. Loaded(w) = [worker[w] EXCEPT !.pc = "create", !.ids = F, !.out = out]
  BY DEF Loaded
<1> HIDE DEF F, out
<1>4. /\ Loaded(w) \in WorkerSet /\ Loaded(w).task = Of(w) /\ Loaded(w).pc = "create"
      /\ Loaded(w).ids = F /\ Loaded(w).out = out
  BY <1>1, <1>2, <1>3 DEF WorkerSet, Pcs, RiskPcs, Of
<1> QED
  BY <1>4 DEF F, out

\* LoadAssessments by its two outcomes: nothing was found, or something.
LEMMA LoadSteps ==
  ASSUME NEW w \in Workers, LoadAssessments(w)
  PROVE  /\ Pc(w) = "assess" /\ UNCHANGED rows /\ env' = env
         /\ \/ Found(worker[w].ids) = {} /\ Report(w, {})
            \/ Found(worker[w].ids) # {} /\ Moves(w, Loaded(w))
BY DEF LoadAssessments, Pc, Found, Loaded, Assessment

\* map_latest_for_issues keeps the invariant.
LEMMA LoadInv ==
  ASSUME Inv, NEW w \in Workers, LoadAssessments(w)
  PROVE  Inv'
<1>1. Pc(w) = "assess" /\ UNCHANGED rows /\ env' = env
  BY LoadSteps
<1>2. RowsNext /\ Live(w) /\ worker[w] \in WorkerSet /\ Fits(worker[w])
  BY <1>1, RowsStay, AtWork DEF Live
<1>3. CASE Report(w, {})
  BY <1>1, <1>2, <1>3, ReportInv
<1>4. CASE ~Report(w, {})
  <2>1. Moves(w, Loaded(w))
    BY <1>4, LoadSteps
  <2>2. /\ Loaded(w) \in WorkerSet /\ Loaded(w).task = Of(w) /\ Loaded(w).pc = "create"
        /\ Loaded(w).ids = Found(worker[w].ids)
        /\ Loaded(w).out = {Assessment(i) : i \in Found(worker[w].ids)}
    BY LoadedTyped
  <2>3. Fits(Loaded(w))
    BY <1>1, <1>2, <2>2, GroupFits DEF RiskPcs, Pc, Of
  <2>4. /\ Found(worker[w].ids) \subseteq DOMAIN issues'
        /\ IsFiniteSet({Assessment(i) : i \in Found(worker[w].ids)})
    BY <1>2, FoundTyped DEF RowsNext
  <2>5. \A i : Assessment(i).issue = i
    BY DEF Assessment
  <2>6. /\ \A y \in Loaded(w).out : y.issue \in Loaded(w).ids
        /\ \A y, z \in Loaded(w).out : y.issue = z.issue => y = z
    BY <2>2, <2>5
  <2>7. Refers(Loaded(w), DOMAIN issues')
    BY <2>2, <2>4, <2>6 DEF Refers
  <2> QED
    BY <1>1, <1>2, <2>1, <2>2, <2>3, <2>7, MoveInv
<1> QED
  BY <1>3, <1>4

\* create_many: a risk for each issue that was found, all of which are there.
LEMMA CreatedRisks ==
  ASSUME Inv, NEW w \in Workers, CreateRisks(w), worker[w].ids \subseteq Existing
  PROVE  LET out == worker[w].out
             n == Cardinality(out)
         IN  /\ Report(w, {}) /\ n \in Nat
             /\ risks' \in Seq(RiskSet) /\ DOMAIN risks' = 1..(Len(risks) + n)
             /\ \A r \in DOMAIN risks : r \in DOMAIN risks' /\ risks'[r] = risks[r]
             /\ \A r \in DOMAIN risks' :
                  \/ r \in DOMAIN risks
                  \/ /\ r \in (Len(risks) + 1)..(Len(risks) + n) /\ risks'[r] \in out
                     /\ risks'[r].issue \in Existing
             /\ \A q, r \in (Len(risks) + 1)..(Len(risks) + n) :
                  risks'[q].issue = risks'[r].issue => q = r
             /\ \A x \in out : \E r \in DOMAIN risks' : risks'[r] = x
<1> DEFINE out == worker[w].out
           n == Cardinality(out)
           q == SetToSeq(out)
           L == Len(risks)
<1>1. Pc(w) = "create" /\ risks' = risks \o q /\ Report(w, {})
  BY DEF CreateRisks, Pc
<1>2. /\ \A y \in out : y.issue \in worker[w].ids
      /\ \A y, z \in out : y.issue = z.issue => y = z
      /\ IsFiniteSet(out) /\ out \subseteq RiskSet
  BY <1>1, AtWork DEF Refers, WorkerSet, Pc
<1> HIDE DEF out
<1>3. /\ q \in Seq(out) /\ n \in Nat /\ Len(q) = n /\ DOMAIN q = 1..n
      /\ \A i, j \in 1..n : q[i] = q[j] => i = j
      /\ \A x \in out : \E i \in 1..n : q[i] = x
  BY <1>2, Listing
<1>4. risks \in Seq(RiskSet) /\ L \in Nat /\ DOMAIN risks = 1..L
  BY DEF Inv, Types, RowsOK
<1>5. q \in Seq(RiskSet) /\ \A m \in 1..n : q[m] \in out
  BY <1>2, <1>3
<1> HIDE DEF q, n
<1>6. /\ risks' \in Seq(RiskSet) /\ Len(risks') = L + n
      /\ \A i \in 1..(L + n) : risks'[i] = IF i <= L THEN risks[i] ELSE q[i - L]
  <2>1. /\ risks \o q \in Seq(RiskSet) /\ Len(risks \o q) = Len(risks) + Len(q)
        /\ \A i \in 1..(Len(risks) + Len(q)) :
              (risks \o q)[i] = IF i <= Len(risks) THEN risks[i] ELSE q[i - Len(risks)]
    BY <1>4, <1>5, ConcatProperties
  <2> QED
    BY <1>1, <1>3, <2>1
<1> HIDE DEF L
<1>7. DOMAIN risks' = 1..(L + n)
  BY <1>3, <1>4, <1>6
<1>8. ASSUME NEW i \in (L + 1)..(L + n)
      PROVE  i - L \in 1..n /\ risks'[i] = q[i - L] /\ risks'[i] \in out
  <2>1. i - L \in 1..n /\ risks'[i] = q[i - L]
    BY <1>3, <1>4, <1>6
  <2> QED
    BY <1>5, <2>1
<1>9. ASSUME NEW i \in (L + 1)..(L + n), NEW j \in (L + 1)..(L + n),
             risks'[i].issue = risks'[j].issue
      PROVE  i = j
  <2>1. q[i - L] = q[j - L]
    BY <1>2, <1>8, <1>9
  <2>2. i - L = j - L
    BY <1>3, <1>8, <2>1
  <2> QED
    BY <1>3, <1>4, <2>2
<1>10. ASSUME NEW x \in out PROVE \E r \in DOMAIN risks' : risks'[r] = x
  <2>1. PICK i \in 1..n : q[i] = x
    BY <1>3
  <2>2. i + L \in (L + 1)..(L + n) /\ (i + L) - L = i
    BY <1>3, <1>4
  <2>3. risks'[i + L] = x
    BY <1>8, <2>1, <2>2
  <2>4. i + L \in DOMAIN risks'
    BY <1>3, <1>4, <1>7, <2>2
  <2> QED
    BY <2>3, <2>4
<1>11. \A r \in DOMAIN risks : r \in DOMAIN risks' /\ risks'[r] = risks[r]
  BY <1>3, <1>4, <1>6, <1>7
<1>12. ASSUME NEW r \in DOMAIN risks'
       PROVE  \/ r \in DOMAIN risks
              \/ /\ r \in (L + 1)..(L + n) /\ risks'[r] \in out
                 /\ risks'[r].issue \in Existing
  <2>1. r \in DOMAIN risks \/ r \in (L + 1)..(L + n)
    BY <1>3, <1>4, <1>7
  <2>2. ASSUME r \in (L + 1)..(L + n) PROVE risks'[r] \in out /\ risks'[r].issue \in Existing
    BY <1>2, <1>8, <2>2
  <2> QED
    BY <2>1, <2>2
<1> QED
  BY <1>1, <1>3, <1>6, <1>7, <1>9, <1>10, <1>11, <1>12 DEF out, n, L

\* create_many keeps the invariant: a risk refers to an issue that exists.
LEMMA CreateInv ==
  ASSUME Inv, NEW w \in Workers, CreateRisks(w)
  PROVE  Inv'
<1>1. Pc(w) = "create" /\ UNCHANGED <<controls, issues, links, candidates, env>>
  BY DEF CreateRisks, Pc
<1>2. Live(w)
  BY <1>1 DEF Live
<1>3. CASE worker[w].ids \subseteq Existing
  <2>1. /\ Report(w, {}) /\ risks' \in Seq(RiskSet)
        /\ \A r \in DOMAIN risks : risks'[r] = risks[r]
        /\ \A r \in DOMAIN risks' : r \in DOMAIN risks \/ risks'[r].issue \in Existing
    BY <1>3, CreatedRisks
  <2>2. \A r \in DOMAIN risks' : risks'[r].issue \in Existing \cup {0}
    BY <2>1 DEF Inv, Cascades
  <2>3. Cascades'
    BY <1>1, <2>2 DEF Cascades, Existing, Inv
  <2>4. RowsNext
    BY <1>1, <2>1, <2>3 DEF RowsNext, RowsOK, Inv, Types
  <2> QED
    BY <1>1, <1>2, <2>1, <2>4, ReportInv
<1>4. CASE ~(worker[w].ids \subseteq Existing)
  <2>1. UNCHANGED rows /\ Raise(w)
    BY <1>1, <1>4 DEF CreateRisks, rows
  <2> QED
    BY <1>1, <1>2, <2>1, RowsStay, RaiseInv
<1> QED
  BY <1>3, <1>4

\* Grouping issues into candidates keeps the invariant.
LEMMA BundleInv ==
  ASSUME Inv, NEW w \in Workers, BundleIssues(w)
  PROVE  Inv'
<1>1. Pc(w) = "bundle" /\ UNCHANGED rows /\ env' = env
  BY DEF BundleIssues, Pc
<1>2. RowsNext /\ Live(w) /\ worker[w] \in WorkerSet /\ Fits(worker[w])
  BY <1>1, RowsStay, AtWork DEF Live
<1>3. CASE Report(w, {})
  BY <1>1, <1>2, <1>3, ReportInv
<1>4. CASE ~Report(w, {})
  <2>1. PICK n \in Bundles : Moves(w, [worker[w] EXCEPT !.pc = "clear", !.n = n])
    BY <1>4 DEF BundleIssues
  <2> DEFINE new == [worker[w] EXCEPT !.pc = "clear", !.n = n]
  <2>2. n \in Int
    BY DEF Bundles
  <2>3. /\ new \in WorkerSet /\ new.task = Of(w) /\ new.pc = "clear"
    BY <1>2, <2>2 DEF WorkerSet, Pcs, FindPcs, Of
  <2>4. Moves(w, new)
    BY <2>1
  <2> HIDE DEF new
  <2>5. Fits(new)
    BY <1>1, <1>2, <2>3, GroupFits DEF FindPcs, Pc, Of
  <2>6. Refers(new, DOMAIN issues')
    BY <2>3 DEF Refers
  <2> QED
    BY <1>1, <1>2, <2>3, <2>4, <2>5, <2>6, MoveInv
<1> QED
  BY <1>3, <1>4

\* Steps that write candidates only.
LEMMA CandidatesNext ==
  ASSUME Inv, candidates' \in Seq(Int), UNCHANGED <<controls, issues, links, risks>>
  PROVE  RowsNext
BY DEF Inv, Types, RowsNext, RowsOK, Cascades, Existing

\* clear_for_org keeps the invariant.
LEMMA ClearInv ==
  ASSUME Inv, NEW w \in Workers, ClearCandidates(w)
  PROVE  Inv'
<1> DEFINE new == [worker[w] EXCEPT !.pc = "candidate"]
<1>1. /\ Pc(w) = "clear" /\ UNCHANGED <<controls, issues, links, risks, env>>
      /\ candidates' = [c \in DOMAIN candidates |-> -1] /\ Moves(w, new)
  BY DEF ClearCandidates, Pc
<1>2. Live(w) /\ worker[w] \in WorkerSet /\ Fits(worker[w])
  BY <1>1, AtWork DEF Live
<1>3. candidates' \in Seq(Int)
  <2>1. candidates \in Seq(Int) /\ Len(candidates) \in Nat
    BY DEF Inv, Types, RowsOK
  <2>2. candidates' \in [1..Len(candidates) -> Int]
    BY <1>1, <2>1
  <2> QED
    BY <2>1, <2>2
<1>4. RowsNext
  BY <1>1, <1>3, CandidatesNext
<1>5. /\ new \in WorkerSet /\ new.task = Of(w) /\ new.pc = "candidate"
  BY <1>2 DEF WorkerSet, Pcs, FindPcs, Of
<1> HIDE DEF new
<1>6. Fits(new)
  BY <1>1, <1>2, <1>5, GroupFits DEF FindPcs, Pc, Of
<1>7. Refers(new, DOMAIN issues')
  BY <1>5 DEF Refers
<1> QED
  BY <1>1, <1>2, <1>4, <1>5, <1>6, <1>7, MoveInv

\* Inserting a candidate keeps the invariant.
LEMMA InsertCandidateInv ==
  ASSUME Inv, NEW w \in Workers, InsertCandidate(w)
  PROVE  Inv'
<1> DEFINE c == Len(candidates) + 1
           pc == IF worker[w].n = 1 THEN "match" ELSE "candidate"
           new == [worker[w] EXCEPT !.ids = @ \cup {c}, !.n = @ - 1, !.pc = pc]
<1>1. /\ Pc(w) = "candidate" /\ UNCHANGED <<controls, issues, links, risks, env>>
      /\ candidates' = Append(candidates, 0) /\ Moves(w, new)
  BY DEF InsertCandidate, Pc
<1>2. Live(w) /\ worker[w] \in WorkerSet /\ Fits(worker[w])
  BY <1>1, AtWork DEF Live
<1>3. candidates \in Seq(Int) /\ candidates' \in Seq(Int) /\ c \in Ids
  BY <1>1 DEF Inv, Types, RowsOK, Ids
<1>4. RowsNext
  BY <1>1, <1>3, CandidatesNext
<1>5. pc \in {"match", "candidate"}
  OBVIOUS
<1> HIDE DEF c, pc
<1>6. /\ new \in WorkerSet /\ new.task = Of(w) /\ new.pc = pc
  <2> DEFINE ids == worker[w].ids \cup {c}
             n == worker[w].n - 1
  <2>1. ids \in SUBSET Ids /\ n \in Int /\ pc \in Pcs
    BY <1>2, <1>3, <1>5 DEF WorkerSet, Pcs, FindPcs
  <2>2. new = [worker[w] EXCEPT !.ids = ids, !.n = n, !.pc = pc]
    BY <1>2 DEF WorkerSet
  <2> HIDE DEF ids, n, new
  <2> QED
    BY <1>2, <2>1, <2>2 DEF WorkerSet, Of
<1> HIDE DEF new
<1>7. Fits(new)
  BY <1>1, <1>2, <1>5, <1>6, GroupFits DEF FindPcs, Pc, Of
<1>8. Refers(new, DOMAIN issues')
  BY <1>5, <1>6 DEF Refers
<1> QED
  BY <1>1, <1>2, <1>4, <1>6, <1>7, <1>8, MoveInv

\* Inserting a discovery result keeps the invariant.
LEMMA InsertResultInv ==
  ASSUME Inv, NEW w \in Workers, InsertResult(w)
  PROVE  Inv'
<1> DEFINE c == Min(worker[w].ids)
           new == [worker[w] EXCEPT !.ids = @ \ {c}]
<1>1. Pc(w) = "match" /\ UNCHANGED <<controls, issues, links, risks, env>>
  BY DEF InsertResult, Pc
<1>2. Live(w) /\ worker[w] \in WorkerSet /\ Fits(worker[w])
  BY <1>1, AtWork DEF Live
<1>3. CASE candidates[c] = -1
  <2>1. UNCHANGED rows /\ Raise(w)
    BY <1>1, <1>3 DEF InsertResult, rows
  <2> QED
    BY <1>1, <1>2, <2>1, RowsStay, RaiseInv
<1>4. CASE candidates[c] # -1
  <2>1. /\ candidates' = [candidates EXCEPT ![c] = Matched(@)]
        /\ Report(w, {}) \/ Moves(w, new)
    BY <1>4 DEF InsertResult
  <2> HIDE DEF c
  <2>2. candidates' \in Seq(Int)
    <3>1. candidates \in Seq(Int) /\ Len(candidates) \in Nat /\ DOMAIN candidates = 1..Len(candidates)
      BY DEF Inv, Types, RowsOK
    <3>2. candidates' = [candidates EXCEPT ![c] = candidates[c] + 1]
      BY <2>1 DEF Matched
    <3>3. \A i \in 1..Len(candidates) : candidates[i] \in Int /\ candidates[i] + 1 \in Int
      BY <3>1
    <3>4. candidates' \in [1..Len(candidates) -> Int]
      BY <3>1, <3>2, <3>3
    <3> QED
      BY <3>1, <3>4
  <2>3. RowsNext
    BY <1>1, <2>2, CandidatesNext
  <2>4. CASE Report(w, {})
    BY <1>1, <1>2, <2>3, <2>4, ReportInv
  <2>5. CASE Moves(w, new)
    <3>1. /\ new \in WorkerSet /\ new.task = Of(w) /\ new.pc = "match"
      BY <1>1, <1>2 DEF WorkerSet, Pcs, FindPcs, Of, Pc
    <3>2. Moves(w, new)
      BY <2>5
    <3> HIDE DEF new
    <3>3. Fits(new)
      BY <1>1, <1>2, <3>1, GroupFits DEF FindPcs, Pc, Of
    <3>4. Refers(new, DOMAIN issues')
      BY <3>1 DEF Refers
    <3> QED
      BY <1>1, <1>2, <2>3, <3>1, <3>2, <3>3, <3>4, MoveInv
  <2> QED
    BY <2>1, <2>4, <2>5
<1> QED
  BY <1>3, <1>4

\* A message is delivered to an idle worker: its task starts with its items, or with none.
LEMMA TakeInv ==
  ASSUME Inv, NEW w \in Workers, TakeTask(w)
  PROVE  /\ Inv' /\ Others(w)
         /\ \E t \in tasks :
              /\ tasks' = tasks \ {t} /\ t \in TaskSet
              /\ worker'[w].task = t /\ worker'[w].pc = Position[t.kind]
              /\ worker'[w].ids = ItemIds(t) /\ worker'[w].out = {} /\ worker'[w].fps = {}
<1>1. PICK t \in tasks :
        /\ tasks' = tasks \ {t}
        /\ worker' = [worker EXCEPT ![w] = [Idle EXCEPT !.task = t, !.pc = Position[t.kind],
                                                        !.ids = ItemIds(t)]]
  BY DEF TakeTask
<1>2. UNCHANGED <<rows, run, steps, chords, env>>
  BY DEF TakeTask
<1> DEFINE new == [Idle EXCEPT !.task = t, !.pc = Position[t.kind], !.ids = ItemIds(t)]
<1>3. t \in TaskSet /\ Alone(t) /\ ControlOK
  BY DEF Inv, Types, ControlOK, TasksOK
<1>4. ItemIds(t) \in SUBSET Ids
  BY <1>3 DEF ItemIds, TaskSet
<1>5. /\ t.kind \in {"issues", "replace", "classify", "score", "discover", "promote"}
      /\ t.kind = "issues" => Position[t.kind] = "llm"
      /\ t.kind = "replace" => Position[t.kind] = "wipe"
      /\ t.kind \in {"classify", "score"} => Position[t.kind] = "select"
      /\ t.kind = "discover" => Position[t.kind] = "bundle"
      /\ t.kind = "promote" => Position[t.kind] = "promoted"
  BY <1>3, Starts DEF TaskSet, KindSet, StageSet
<1>6. Position[t.kind] \in {"llm", "wipe", "select", "bundle", "promoted"}
  BY <1>5
<1>7. Position[t.kind] \in Pcs
  BY <1>6 DEF Pcs, DerivePcs, EachPcs, FindPcs, RiskPcs
<1>8. /\ new \in WorkerSet /\ new.task = t /\ new.pc = Position[t.kind] /\ new.ids = ItemIds(t)
      /\ new.out = {} /\ new.fps = {}
  <2>1. Idle \in WorkerSet /\ Idle.out = {} /\ Idle.fps = {}
    BY IdleTyped DEF Idle
  <2> QED
    BY <1>3, <1>4, <1>7, <2>1 DEF WorkerSet
<1>9. worker' = [worker EXCEPT ![w] = new]
  BY <1>1
<1> HIDE DEF new
<1>10. worker' \in [Workers -> WorkerSet] /\ Others(w) /\ worker'[w] = new
  BY <1>3, <1>8, <1>9 DEF ControlOK, Others
<1>11. Fits(new)
  <2>1. t # NoTask
    BY <1>3 DEF NoTask, TaskSet, KindSet, StageSet
  <2> QED
    BY <1>5, <1>8, <2>1 DEF Fits, DerivePcs, InsertPcs, EachPcs, FindPcs, RiskPcs
<1>12. Refers(new, DOMAIN issues')
  BY <1>6, <1>8 DEF Refers
<1>13. RowsNext
  BY <1>2, RowsStay
<1>14. WorkersOK'
  BY <1>10, <1>11, <1>12, <1>13, WorkersNext
<1>15. TasksOK'
  <2>1. \A v \in Workers : Alone(worker'[v].task)
    <3> SUFFICES ASSUME NEW v \in Workers PROVE Alone(worker'[v].task)
      OBVIOUS
    <3>1. CASE v = w
      BY <1>3, <1>8, <1>10, <3>1
    <3>2. CASE v # w
      <4>1. worker'[v] = worker[v] /\ Alone(Of(v))
        BY <1>10, <3>2, AtWork DEF Others
      <4> QED
        BY <4>1 DEF Of
    <3> QED
      BY <3>1, <3>2
  <2>2. \A u \in tasks' : Alone(u)
    BY <1>1 DEF Inv, TasksOK
  <2>3. \A s \in steps' : s.result \subseteq DOMAIN issues'
    BY <1>2, <1>13 DEF Inv, TasksOK, RowsNext
  <2>4. run'.issues \subseteq DOMAIN issues'
    BY <1>2, <1>13 DEF Inv, TasksOK, RowsNext
  <2> QED
    BY <2>1, <2>2, <2>3, <2>4 DEF TasksOK, Alone, Of
<1>16. ControlOK'
  BY <1>1, <1>2, <1>3, <1>10 DEF ControlOK
<1>17. Inv'
  BY <1>13, <1>14, <1>15, <1>16 DEF Inv, Types, RowsNext
<1> QED
  BY <1>1, <1>3, <1>8, <1>10, <1>17

-----------------------------------------------------------------------------
(* The other steps.                                                        *)

\* What happens is counted, and nothing else is.
LEMMA Happened ==
  ASSUME Inv, NEW e \in FaultKinds, Happens(e)
  PROVE  /\ env' \in [FaultKinds -> Nat]
         /\ env'[e] = env[e] + 1 /\ env'[e] # 0
         /\ \A x \in FaultKinds \ {e} : env'[x] = env[x]
<1>1. env \in [FaultKinds -> Nat]
  BY DEF Inv, Types, ControlOK
<1> QED
  BY <1>1 DEF Happens

\* A worker is free again, and its task is done or back at the broker.
LEMMA FreedInv ==
  ASSUME Inv, NEW w \in Workers, Pc(w) # "idle", worker' = [worker EXCEPT ![w] = Idle],
         tasks' \in {tasks, tasks \cup {Of(w)}}, env' \in [FaultKinds -> Nat],
         UNCHANGED <<rows, run, steps, chords>>
  PROVE  Inv' /\ Others(w) /\ worker'[w] = Idle
<1>1. ControlOK /\ Of(w) \in TaskSet /\ Alone(Of(w))
  BY AtWork DEF Inv, Types
<1>2. worker' \in [Workers -> WorkerSet] /\ Others(w) /\ worker'[w] = Idle
  BY <1>1, IdleTyped DEF ControlOK, Others
<1>3. RowsNext
  BY RowsStay
<1>4. Fits(Idle) /\ Refers(Idle, DOMAIN issues') /\ Alone(Idle.task)
  BY DEF Fits, Refers, Idle, NoTask, Alone, DerivePcs, InsertPcs, EachPcs, FindPcs, RiskPcs
<1>5. WorkersOK'
  BY <1>2, <1>3, <1>4, WorkersNext
<1>6. ControlOK'
  BY <1>1, <1>2 DEF ControlOK
<1>7. TasksOK'
  <2>1. \A v \in Workers : Alone(worker'[v].task)
    <3> SUFFICES ASSUME NEW v \in Workers PROVE Alone(worker'[v].task)
      OBVIOUS
    <3>1. CASE v = w
      BY <1>2, <1>4, <3>1
    <3>2. CASE v # w
      <4>1. worker'[v] = worker[v] /\ Alone(Of(v))
        BY <1>2, <3>2, AtWork DEF Others
      <4> QED
        BY <4>1 DEF Of
    <3> QED
      BY <3>1, <3>2
  <2>2. \A t \in tasks' : Alone(t)
    BY <1>1 DEF Inv, TasksOK
  <2>3. \A s \in steps' : s.result \subseteq DOMAIN issues'
    BY <1>3 DEF Inv, TasksOK, RowsNext
  <2>4. run'.issues \subseteq DOMAIN issues'
    BY <1>3 DEF Inv, TasksOK, RowsNext
  <2> QED
    BY <2>1, <2>2, <2>3, <2>4 DEF TasksOK, Alone, Of
<1> QED
  BY <1>2, <1>3, <1>5, <1>6, <1>7 DEF Inv, Types, RowsNext

\* An acknowledged task is gone.
LEMMA AcknowledgeInv ==
  ASSUME Inv, NEW w \in Workers, Acknowledge(w)
  PROVE  /\ Inv' /\ Others(w) /\ worker'[w] = Idle
         /\ Pc(w) = "ack" /\ UNCHANGED <<rows, run, steps, chords, tasks, env>>
<1>1. /\ Pc(w) = "ack" /\ worker' = [worker EXCEPT ![w] = Idle]
      /\ UNCHANGED <<rows, run, steps, chords, tasks, env>>
  BY DEF Acknowledge, Pc
<1>2. env' \in [FaultKinds -> Nat]
  BY <1>1 DEF Inv, Types, ControlOK
<1> QED
  BY <1>1, <1>2, FreedInv

\* The task of a lost worker is delivered again.
LEMMA LostInv ==
  ASSUME Inv, NEW w \in Workers, WorkerLost(w)
  PROVE  /\ Inv' /\ Others(w) /\ worker'[w] = Idle /\ Pc(w) # "idle"
         /\ tasks' = tasks \cup {Of(w)} /\ UNCHANGED <<rows, run, steps, chords>>
         /\ Happens(IF Pc(w) = "ack" THEN "unacked" ELSE "crashes")
<1>1. /\ Pc(w) # "idle" /\ worker' = [worker EXCEPT ![w] = Idle]
      /\ tasks' = tasks \cup {Of(w)} /\ UNCHANGED <<rows, run, steps, chords>>
      /\ Happens(IF Pc(w) = "ack" THEN "unacked" ELSE "crashes")
  BY DEF WorkerLost, Pc, Of
<1>2. env' \in [FaultKinds -> Nat]
  BY <1>1, Happened DEF FaultKinds
<1> QED
  BY <1>1, <1>2, FreedInv

\* Another extraction replaces a control and takes its links along.
LEMMA ReextractInv ==
  ASSUME Inv, NEW c \in Controls, NEW d \in Controls, Reextract(c, d)
  PROVE  Inv'
<1>1. /\ controls' = (controls \ {c}) \cup {d} /\ links' = {l \in links : l[2] # c}
      /\ Happens("extracts")
      /\ UNCHANGED <<issues, candidates, risks, run, steps, chords, tasks, worker>>
  BY DEF Reextract
<1>2. env' \in [FaultKinds -> Nat]
  BY <1>1, Happened DEF FaultKinds
<1>3. RowsOK' /\ ControlOK'
  BY <1>1, <1>2 DEF Inv, Types, RowsOK, ControlOK
<1>4. Existing' = Existing
  BY <1>1 DEF Existing
<1>5. links' \subseteq Existing \X controls'
  <2> SUFFICES ASSUME NEW l \in links' PROVE l \in Existing \X controls'
    OBVIOUS
  <2>1. l \in Existing \X controls /\ l[2] # c
    BY <1>1 DEF Inv, Cascades
  <2> QED
    BY <1>1, <2>1
<1>6. Cascades'
  BY <1>1, <1>4, <1>5 DEF Inv, Cascades
<1>7. WorkersOK' /\ TasksOK'
  BY <1>1 DEF Inv, WorkersOK, TasksOK, Fits, Refers, Alone, Of
<1> QED
  BY <1>3, <1>6, <1>7 DEF Inv, Types

\* A dispatch: chords and messages are added.
LEMMA DispatchInv ==
  ASSUME Inv, chords' \in Seq(ChordSet), env' \in [FaultKinds -> Nat],
         run' \in [stage : 0..5, issues : SUBSET Nat], run'.issues \subseteq DOMAIN issues,
         \A t \in tasks' : t \in tasks \/ (t \in TaskSet /\ Alone(t)),
         UNCHANGED <<rows, steps, worker>>
  PROVE  Inv'
<1>1. RowsNext /\ DOMAIN issues' = DOMAIN issues
  BY RowsStay
<1>2. ControlOK'
  BY DEF Inv, Types, ControlOK
<1>3. WorkersOK'
  BY <1>1 DEF Inv, WorkersOK, Fits, Refers
<1>4. TasksOK'
  BY <1>1 DEF Inv, TasksOK, Alone, Of
<1> QED
  BY <1>1, <1>2, <1>3, <1>4 DEF Inv, Types, RowsNext

\* The dispatch of the first stage.
LEMMA StartRunSteps ==
  ASSUME Inv, Finite, StartRun
  PROVE  /\ Inv' /\ run.stage = 0 /\ run'.stage = 1 /\ run'.issues = run.issues
         /\ chords' = <<Chord("issues", {})>> /\ Chord("issues", {}) \in ChordSet
         /\ tasks' = tasks \cup BatchTasks(1, "issues", {})
         /\ \A t \in BatchTasks(1, "issues", {}) :
              t.kind = "issues" /\ t.chord = 1 /\ t.ids \in Plan("issues", {})
         /\ UNCHANGED <<rows, steps, worker, env>>
<1>1. /\ run.stage = 0 /\ run' = [run EXCEPT !.stage = 1]
      /\ chords' = <<Chord("issues", {})>>
      /\ tasks' = tasks \cup BatchTasks(1, "issues", {})
      /\ UNCHANGED <<rows, steps, worker, env>>
  BY DEF StartRun
<1>2. run \in [stage : 0..5, issues : SUBSET Nat] /\ env \in [FaultKinds -> Nat]
  BY DEF Inv, Types, ControlOK
<1>3. /\ run' \in [stage : 0..5, issues : SUBSET Nat] /\ run'.issues = run.issues
      /\ run'.stage = 1
  BY <1>1, <1>2
<1>4. IsFiniteSet({}) /\ {} \in SUBSET Nat /\ "issues" \in StageSet
  BY FS_EmptySet DEF StageSet
<1>5. /\ Chord("issues", {}) \in ChordSet
      /\ \A t \in BatchTasks(1, "issues", {}) :
           t \in TaskSet /\ t.kind = "issues" /\ t.chord = 1 /\ t.ids \in Plan("issues", {})
  BY <1>4, PlanTypes
<1>6. chords' \in Seq(ChordSet)
  BY <1>1, <1>5
<1>7. \A t \in tasks' : t \in tasks \/ (t \in TaskSet /\ Alone(t))
  BY <1>1, <1>5 DEF Alone
<1>8. run'.issues \subseteq DOMAIN issues
  BY <1>3 DEF Inv, TasksOK
<1>9. Inv'
  BY <1>1, <1>2, <1>3, <1>6, <1>7, <1>8, DispatchInv
<1> QED
  BY <1>1, <1>3, <1>5, <1>9

\* A chord that has been joined.
LEMMA ChordJoined ==
  ASSUME NEW q \in Seq(ChordSet), NEW k \in DOMAIN q
  PROVE  /\ [q EXCEPT ![k].joined = TRUE] \in Seq(ChordSet)
         /\ Len([q EXCEPT ![k].joined = TRUE]) = Len(q)
         /\ DOMAIN [q EXCEPT ![k].joined = TRUE] = DOMAIN q
         /\ \A c \in DOMAIN q :
              /\ [q EXCEPT ![k].joined = TRUE][c].stage = q[c].stage
              /\ [q EXCEPT ![k].joined = TRUE][c].open = q[c].open
              /\ [q EXCEPT ![k].joined = TRUE][c].joined = IF c = k THEN TRUE ELSE q[c].joined
<1> DEFINE p == [q EXCEPT ![k].joined = TRUE]
<1>1. DOMAIN q = 1..Len(q) /\ Len(q) \in Nat /\ q \in [1..Len(q) -> ChordSet]
  BY LenProperties
<1>2. \A c \in 1..Len(q) : p[c] = IF c = k THEN [q[c] EXCEPT !.joined = TRUE] ELSE q[c]
  BY <1>1
<1>3. DOMAIN p = 1..Len(q)
  BY <1>1
<1>4. p = [c \in 1..Len(q) |-> p[c]]
  BY <1>3
<1> HIDE DEF p
<1>5. ASSUME NEW c \in 1..Len(q)
      PROVE  /\ p[c] \in ChordSet
             /\ p[c].stage = q[c].stage /\ p[c].open = q[c].open
             /\ p[c].joined = IF c = k THEN TRUE ELSE q[c].joined
  <2>1. PICK s \in StageSet, o \in SUBSET SUBSET Ids, j \in BOOLEAN :
           q[c] = [stage |-> s, open |-> o, joined |-> j]
    BY <1>1 DEF ChordSet
  <2>2. CASE c = k
    <3>1. p[c] = [stage |-> s, open |-> o, joined |-> TRUE]
      BY <1>2, <2>1, <2>2
    <3> QED
      BY <2>1, <2>2, <3>1 DEF ChordSet
  <2>3. CASE c # k
    <3>1. p[c] = q[c]
      BY <1>2, <2>3
    <3> QED
      BY <1>1, <2>3, <3>1
  <2> QED
    BY <2>2, <2>3
<1>6. p \in [1..Len(q) -> ChordSet]
  BY <1>3, <1>4, <1>5
<1>7. p \in Seq(ChordSet) /\ Len(p) = Len(q)
  BY <1>1, <1>6
<1> QED
  BY <1>1, <1>3, <1>5, <1>7 DEF p

\* A run has finitely many issues, all of them rows.
LEMMA RunIdsFinite ==
  ASSUME Inv
  PROVE  /\ run.issues \in SUBSET Nat /\ IsFiniteSet(run.issues)
         /\ IssuesJoin \in SUBSET Nat /\ IsFiniteSet(IssuesJoin) /\ IssuesJoin \subseteq DOMAIN issues
         /\ run.issues \subseteq DOMAIN issues
<1>1. DOMAIN issues = 1..Len(issues) /\ Len(issues) \in Nat
  BY DEF Inv, Types, RowsOK
<1>2. IsFiniteSet(DOMAIN issues) /\ DOMAIN issues \subseteq Nat
  BY <1>1, FS_Interval
<1>3. IssuesJoin \subseteq DOMAIN issues /\ run.issues \subseteq DOMAIN issues
  BY DEF IssuesJoin, Inv, TasksOK
<1> QED
  BY <1>2, <1>3, FS_Subset

\* finalize_stage: a chord is joined, and the next one dispatched or, after
\* the last, the promotion.
JoinsLast(k) ==
  /\ chords[k].stage = "score"
  /\ chords' = [chords EXCEPT ![k].joined = TRUE]
  /\ tasks' = tasks \cup {[kind |-> "promote", chord |-> k, ids |-> run.issues]}
  /\ run' = run
JoinsTo(k, n) ==
  LET ids == IF chords[k].stage = "issues" THEN IssuesJoin ELSE run.issues
  IN  /\ chords[k].stage # "score" /\ n \in 2..4 /\ Stages[n - 1] = chords[k].stage
      /\ run' = [stage |-> n, issues |-> ids]
      /\ chords' = Append([chords EXCEPT ![k].joined = TRUE], Chord(Stages[n], ids))
      /\ tasks' = tasks \cup BatchTasks(Len(chords) + 1, Stages[n], ids)

\* A join dispatches the next stage or, after the last, the promotion.
LEMMA JoinCases ==
  ASSUME NEW k, Join(k)
  PROVE  /\ k \in DOMAIN chords /\ ~chords[k].joined /\ chords[k].open = {}
         /\ UNCHANGED <<rows, steps, worker, env>>
         /\ JoinsLast(k) \/ \E n \in 2..4 : JoinsTo(k, n)
BY DEF Join, JoinsLast, JoinsTo

\* The order of the stages.
LEMMA StagesTyped ==
  /\ \A n \in 1..4 : Stages[n] \in StageSet
  /\ \A n \in 2..4 : n - 1 \in 1..3 /\ Stages[n - 1] # "score"
  /\ Stages[1] = "issues" /\ Stages[2] = "classify" /\ Stages[3] = "discover" /\ Stages[4] = "score"
  /\ \A m, n \in 1..4 : Stages[m] = Stages[n] => m = n
BY DEF Stages, StageSet

\* A join that dispatches the next stage.
LEMMA JoinsToSteps ==
  ASSUME Inv, Finite, NEW k \in DOMAIN chords, NEW n \in 2..4, JoinsTo(k, n),
         UNCHANGED <<rows, steps, worker, env>>
  PROVE  /\ Inv'
         /\ run'.stage = n /\ Stages[n - 1] = chords[k].stage
         /\ run'.issues = IF chords[k].stage = "issues" THEN IssuesJoin ELSE run.issues
         /\ Len(chords') = Len(chords) + 1 /\ DOMAIN chords' = 1..(Len(chords) + 1)
         /\ chords'[Len(chords) + 1] = Chord(Stages[n], run'.issues)
         /\ \A c \in DOMAIN chords :
              /\ chords'[c].stage = chords[c].stage /\ chords'[c].open = chords[c].open
              /\ chords'[c].joined = IF c = k THEN TRUE ELSE chords[c].joined
         /\ tasks' = tasks \cup BatchTasks(Len(chords) + 1, Stages[n], run'.issues)
         /\ \A t \in BatchTasks(Len(chords) + 1, Stages[n], run'.issues) :
              /\ t.kind = Stages[n] /\ t.chord = Len(chords) + 1
              /\ t.ids \in Plan(Stages[n], run'.issues)
<1> DEFINE ids == IF chords[k].stage = "issues" THEN IssuesJoin ELSE run.issues
           p == [chords EXCEPT ![k].joined = TRUE]
           new == Chord(Stages[n], ids)
           j == Len(chords) + 1
<1>1. /\ Stages[n - 1] = chords[k].stage /\ run' = [stage |-> n, issues |-> ids]
      /\ chords' = Append(p, new) /\ tasks' = tasks \cup BatchTasks(j, Stages[n], ids)
  BY DEF JoinsTo
<1>2. ids \in SUBSET Nat /\ IsFiniteSet(ids) /\ ids \subseteq DOMAIN issues
  BY RunIdsFinite
<1> HIDE DEF ids
<1>3. chords \in Seq(ChordSet) /\ Len(chords) \in Nat /\ DOMAIN chords = 1..Len(chords) /\ j \in Nat /\ j # 0
  BY DEF Inv, Types, ControlOK
<1>4. Stages[n] \in StageSet
  BY StagesTyped
<1>5. /\ new \in ChordSet
      /\ \A t \in BatchTasks(j, Stages[n], ids) :
           t \in TaskSet /\ t.kind = Stages[n] /\ t.chord = j /\ t.ids \in Plan(Stages[n], ids)
  BY <1>2, <1>3, <1>4, PlanTypes
<1>6. /\ p \in Seq(ChordSet) /\ Len(p) = Len(chords) /\ DOMAIN p = DOMAIN chords
      /\ \A c \in DOMAIN chords :
           /\ p[c].stage = chords[c].stage /\ p[c].open = chords[c].open
           /\ p[c].joined = IF c = k THEN TRUE ELSE chords[c].joined
  BY <1>3, ChordJoined
<1> HIDE DEF p, new
<1>7. /\ chords' \in Seq(ChordSet) /\ Len(chords') = j /\ DOMAIN chords' = 1..j /\ chords'[j] = new
      /\ \A c \in DOMAIN chords : chords'[c] = p[c]
  BY <1>1, <1>3, <1>5, <1>6
<1>8. run' \in [stage : 0..5, issues : SUBSET Nat] /\ run'.issues = ids /\ run'.stage = n
  BY <1>1, <1>2
<1>9. \A t \in tasks' : t \in tasks \/ (t \in TaskSet /\ Alone(t))
  BY <1>1, <1>4, <1>5 DEF Alone, StageSet
<1>10. env' \in [FaultKinds -> Nat]
  BY DEF Inv, Types, ControlOK
<1>11. Inv'
  BY <1>2, <1>7, <1>8, <1>9, <1>10, DispatchInv
<1>12. run'.issues = IF chords[k].stage = "issues" THEN IssuesJoin ELSE run.issues
  BY <1>8 DEF ids
<1>13. chords'[j] = Chord(Stages[n], run'.issues)
  BY <1>7, <1>8 DEF new
<1>14. /\ tasks' = tasks \cup BatchTasks(j, Stages[n], run'.issues)
       /\ \A t \in BatchTasks(j, Stages[n], run'.issues) :
            t.kind = Stages[n] /\ t.chord = j /\ t.ids \in Plan(Stages[n], run'.issues)
  BY <1>1, <1>5, <1>8
<1>15. \A c \in DOMAIN chords :
          /\ chords'[c].stage = chords[c].stage /\ chords'[c].open = chords[c].open
          /\ chords'[c].joined = IF c = k THEN TRUE ELSE chords[c].joined
  BY <1>6, <1>7
<1> QED
  BY <1>1, <1>7, <1>8, <1>11, <1>12, <1>13, <1>14, <1>15

\* The join of the last stage dispatches the promotion of the issues of the run.
LEMMA JoinsLastSteps ==
  ASSUME Inv, NEW k \in DOMAIN chords, JoinsLast(k), UNCHANGED <<rows, steps, worker, env>>
  PROVE  /\ Inv' /\ run' = run /\ chords[k].stage = "score"
         /\ Len(chords') = Len(chords) /\ DOMAIN chords' = DOMAIN chords
         /\ \A c \in DOMAIN chords :
              /\ chords'[c].stage = chords[c].stage /\ chords'[c].open = chords[c].open
              /\ chords'[c].joined = IF c = k THEN TRUE ELSE chords[c].joined
         /\ tasks' = tasks \cup {[kind |-> "promote", chord |-> k, ids |-> run.issues]}
<1>1. /\ chords[k].stage = "score" /\ run' = run
      /\ chords' = [chords EXCEPT ![k].joined = TRUE]
      /\ tasks' = tasks \cup {[kind |-> "promote", chord |-> k, ids |-> run.issues]}
  BY DEF JoinsLast
<1>2. chords \in Seq(ChordSet) /\ run \in [stage : 0..5, issues : SUBSET Nat]
      /\ env' \in [FaultKinds -> Nat] /\ k \in Nat
  BY DEF Inv, Types, ControlOK
<1>3. /\ chords' \in Seq(ChordSet) /\ Len(chords') = Len(chords) /\ DOMAIN chords' = DOMAIN chords
      /\ \A c \in DOMAIN chords :
           /\ chords'[c].stage = chords[c].stage /\ chords'[c].open = chords[c].open
           /\ chords'[c].joined = IF c = k THEN TRUE ELSE chords[c].joined
  BY <1>1, <1>2, ChordJoined
<1>4. run.issues \subseteq DOMAIN issues /\ run.issues \subseteq Ids
  BY <1>2 DEF Inv, TasksOK, Ids
<1>5. \A t \in tasks' : t \in tasks \/ (t \in TaskSet /\ Alone(t))
  BY <1>1, <1>2, <1>4 DEF Alone, TaskSet, KindSet
<1>6. Inv'
  BY <1>1, <1>2, <1>3, <1>4, <1>5, DispatchInv
<1> QED
  BY <1>1, <1>3, <1>6

\* advance_pipeline keeps the invariant.
LEMMA AdvanceInv ==
  ASSUME Inv, Finite, Advance
  PROVE  /\ Inv' /\ Happens("advances") /\ UNCHANGED <<rows, run, steps, worker>>
         /\ \A t \in tasks' : t \in tasks \/ t.kind # "replace"
<1> DEFINE stage == Stages[run.stage]
           new == Chord(stage, run.issues)
           j == Len(chords) + 1
<1>1. /\ run.stage \in 1..4 /\ chords' = Append(chords, new)
      /\ tasks' = tasks \cup BatchTasks(j, stage, run.issues)
      /\ Happens("advances") /\ UNCHANGED <<rows, run, steps, worker>>
  BY DEF Advance
<1>2. run.issues \in SUBSET Nat /\ IsFiniteSet(run.issues) /\ run.issues \subseteq DOMAIN issues
  BY RunIdsFinite
<1>3. chords \in Seq(ChordSet) /\ j \in Nat /\ j # 0
      /\ run \in [stage : 0..5, issues : SUBSET Nat]
  BY DEF Inv, Types, ControlOK
<1>4. stage \in StageSet
  BY <1>1, StagesTyped
<1>5. /\ new \in ChordSet
      /\ \A t \in BatchTasks(j, stage, run.issues) : t \in TaskSet /\ t.kind = stage /\ t.chord = j
  BY <1>2, <1>3, <1>4, PlanTypes
<1> HIDE DEF new, stage
<1>6. chords' \in Seq(ChordSet)
  BY <1>1, <1>3, <1>5
<1>7. env' \in [FaultKinds -> Nat]
  BY <1>1, Happened DEF FaultKinds
<1>8. \A t \in tasks' : t \in tasks \/ (t \in TaskSet /\ Alone(t) /\ t.kind # "replace")
  BY <1>1, <1>4, <1>5 DEF Alone, StageSet
<1>9. Inv'
  BY <1>1, <1>2, <1>3, <1>6, <1>7, <1>8, DispatchInv
<1> QED
  BY <1>1, <1>8, <1>9

\* POST /jobs keeps the invariant.
LEMMA PostJobInv ==
  ASSUME Inv, NEW kind \in JobKinds, PostJob(kind)
  PROVE  /\ Inv' /\ Happens("jobs") /\ UNCHANGED <<rows, run, steps, chords, worker>>
         /\ \A t \in tasks' : t \in tasks \/ t.kind # "promote"
         /\ tasks \subseteq tasks'
<1>1. /\ tasks' = tasks \cup {[kind |-> kind, chord |-> 0, ids |-> {}]}
      /\ Happens("jobs") /\ UNCHANGED <<rows, run, steps, chords, worker>>
  BY DEF PostJob
<1>2. kind \in KindSet /\ kind # "promote"
  BY JobsAssumption DEF KindSet, StageSet
<1>3. \A t \in tasks' : t \in tasks \/ (t \in TaskSet /\ Alone(t) /\ t.kind # "promote")
  BY <1>1, <1>2 DEF Alone, TaskSet
<1>4. env' \in [FaultKinds -> Nat]
  BY <1>1, Happened DEF FaultKinds
<1>5. /\ chords' \in Seq(ChordSet) /\ run' \in [stage : 0..5, issues : SUBSET Nat]
      /\ run'.issues \subseteq DOMAIN issues
  BY <1>1 DEF Inv, Types, ControlOK, TasksOK
<1>6. Inv'
  BY <1>1, <1>3, <1>4, <1>5, DispatchInv
<1> QED
  BY <1>1, <1>3, <1>6

-----------------------------------------------------------------------------
(* The types, and one issue per fingerprint.                               *)

\* The invariant holds at first.
LEMMA InitInv == Init => Inv
<1> SUFFICES ASSUME Init PROVE Inv
  OBVIOUS
<1> USE DEF Init
<1>1. RowsOK
  BY ControlsAssumption DEF RowsOK
<1>2. ControlOK
  <2>1. worker \in [Workers -> WorkerSet]
    BY IdleTyped
  <2>2. env \in [FaultKinds -> Nat]
    OBVIOUS
  <2>3. run \in [stage : 0..5, issues : SUBSET Nat]
    OBVIOUS
  <2> QED
    BY <2>1, <2>2, <2>3 DEF ControlOK
<1>3. Cascades
  BY DEF Cascades
<1>4. WorkersOK
  BY DEF WorkersOK, Fits, Refers, Idle, NoTask, DerivePcs, InsertPcs, EachPcs, FindPcs, RiskPcs
<1>5. TasksOK
  BY DEF TasksOK, Alone, Of, Idle, NoTask
<1> QED
  BY <1>1, <1>2, <1>3, <1>4, <1>5 DEF Inv, Types

\* Every step of a worker keeps the invariant.
LEMMA StepInv ==
  ASSUME Inv, Finite, NEW w \in Workers, Step(w)
  PROVE  Inv'
BY TakeInv, AcknowledgeInv, DeriveInv, WipeInv, PrecheckInv, InsertIssuesInv, AssignInv, SelectInv,
   SkipInv, DeletePriorInv, InsertRowInv, FilterInv, LoadInv, CreateInv, BundleInv, ClearInv,
   InsertCandidateInv, InsertResultInv DEF Step

\* Every step keeps the invariant.
LEMMA InvNext ==
  ASSUME Inv, Finite, [Next]_vars
  PROVE  Inv'
<1>1. CASE StartRun
  BY <1>1, StartRunSteps
<1>2. CASE \E k \in DOMAIN chords : Join(k)
  <2>1. PICK k \in DOMAIN chords : Join(k)
    BY <1>2
  <2> QED
    BY <2>1, JoinCases, JoinsLastSteps, JoinsToSteps
<1>3. CASE Advance
  BY <1>3, AdvanceInv
<1>4. CASE \E kind \in JobKinds : PostJob(kind)
  BY <1>4, PostJobInv
<1>5. CASE \E w \in Workers : Step(w)
  BY <1>5, StepInv
<1>6. CASE \E w \in Workers : WorkerLost(w)
  BY <1>6, LostInv
<1>7. CASE \E c, d \in Controls : Reextract(c, d)
  BY <1>7, ReextractInv
<1>8. CASE UNCHANGED vars
  <2>1. RowsNext
    BY <1>8, RowsStay DEF vars
  <2> QED
    BY <1>8, <2>1 DEF vars, rows, Inv, Types, RowsOK, ControlOK, Cascades, Existing, WorkersOK,
       Fits,
       Refers, TasksOK, Alone, Of
<1> QED
  BY <1>1, <1>2, <1>3, <1>4, <1>5, <1>6, <1>7, <1>8 DEF Next

\* InvHolds: every row, message and local variable is of its type, what
\* depends on an issue goes with it, and a worker is at a step of its task
\* (whatever is redelivered, dispatched again or posted by users).
THEOREM InvHolds == Finite => (Spec => []Inv)
<1> SUFFICES ASSUME Finite PROVE Spec => []Inv
  OBVIOUS
<1>1. Init => Inv
  BY InitInv
<1>2. Inv /\ [Next]_vars => Inv'
  BY InvNext
<1> QED
  BY <1>1, <1>2, PTL DEF Spec

\* TypeOK: the rows are typed, and no link, risk, classification or
\* assessment outlives the issue it refers to (the foreign keys of
\* issue_repository.py and what delete_derived_for_org leaves).
THEOREM TypesHold == Finite => (Spec => []TypeOK)
<1> SUFFICES ASSUME Finite PROVE Spec => []TypeOK
  OBVIOUS
<1>1. Inv => TypeOK
  <2> SUFFICES ASSUME Inv PROVE TypeOK
    OBVIOUS
  <2>1. ASSUME NEW i \in DOMAIN issues
        PROVE  /\ issues[i].fp \in Fingerprints /\ issues[i].classes \in Nat
               /\ i \notin Existing => issues[i].classes = 0 /\ issues[i].assessments = <<>>
    <3>1. issues[i] \in IssueSet
      BY DEF Inv, Types, RowsOK
    <3> QED
      BY <3>1 DEF IssueSet, Inv, Cascades, Existing
  <2>2. run \in [stage : 0..5, issues : SUBSET DOMAIN issues]
    BY DEF Inv, Types, ControlOK, TasksOK
  <2>3. ASSUME NEW r \in DOMAIN risks
        PROVE  risks[r].issue \in Existing \cup {0} /\ risks[r].rating \in 1..4
    <3>1. risks[r] \in RiskSet
      BY DEF Inv, Types, RowsOK
    <3> QED
      BY <3>1 DEF RiskSet, Inv, Cascades
  <2> QED
    BY <2>1, <2>2, <2>3 DEF TypeOK, Inv, Types, RowsOK, Cascades
<1> QED
  BY <1>1, InvHolds, PTL

-----------------------------------------------------------------------------
\* The steps that write issues.
LEMMA IssuesChange ==
  ASSUME Next
  PROVE  \/ issues' = issues
         \/ \E w \in Workers :
              \/ WipeDerived(w) /\ controls # {}
              \/ InsertIssues(w) /\ ~Collides(worker[w].fps)
              \/ DeletePrior(w)
              \/ InsertRow(w) /\ worker[w].cur \in Existing
<1>1. CASE StartRun
  BY <1>1 DEF StartRun, rows
<1>2. CASE \E k \in DOMAIN chords : Join(k)
  BY <1>2 DEF Join, rows
<1>3. CASE Advance
  BY <1>3 DEF Advance, rows
<1>4. CASE \E kind \in JobKinds : PostJob(kind)
  BY <1>4 DEF PostJob, rows
<1>5. CASE \E w \in Workers : Step(w)
  <2>1. PICK w \in Workers : Step(w)
    BY <1>5
  <2>2. CASE WipeDerived(w)
    BY <2>2 DEF WipeDerived
  <2>3. CASE InsertIssues(w)
    BY <2>3 DEF InsertIssues
  <2>4. CASE InsertRow(w)
    BY <2>4 DEF InsertRow
  <2>5. CASE DeletePrior(w)
    BY <2>5
  <2>6. CASE \/ TakeTask(w) \/ Acknowledge(w) \/ DeriveIssues(w) \/ Precheck(w)
             \/ SelectIssues(w) \/ SkipIssue(w) \/ FilterPromoted(w) \/ LoadAssessments(w)
             \/ BundleIssues(w)
    BY <2>6 DEF TakeTask, Acknowledge, DeriveIssues, Precheck, SelectIssues, SkipIssue,
       FilterPromoted, LoadAssessments, BundleIssues, rows
  <2>7. CASE AssignControls(w) \/ CreateRisks(w) \/ ClearCandidates(w) \/ InsertCandidate(w)
             \/ InsertResult(w)
    BY <2>7 DEF AssignControls, CreateRisks, ClearCandidates, InsertCandidate, InsertResult
  <2> QED
    BY <2>1, <2>2, <2>3, <2>4, <2>5, <2>6, <2>7 DEF Step
<1>6. CASE \E w \in Workers : WorkerLost(w)
  BY <1>6 DEF WorkerLost, rows
<1>7. CASE \E c, d \in Controls : Reextract(c, d)
  BY <1>7 DEF Reextract
<1> QED
  BY <1>1, <1>2, <1>3, <1>4, <1>5, <1>6, <1>7 DEF Next

\* A successful insert, with what it does to the worker.
LEMMA Inserted ==
  ASSUME Inv, Finite, NEW w \in Workers, InsertIssues(w), ~Collides(worker[w].fps)
  PROVE  LET fps == worker[w].fps
             ids == (Len(issues) + 1)..(Len(issues) + Cardinality(fps))
             new == [worker[w] EXCEPT !.pc = "assign", !.ids = ids]
         IN  /\ Pc(w) \in {"insert", "reinsert"} /\ fps \in SUBSET Fingerprints
             /\ \A i \in DOMAIN issues : i \in DOMAIN issues' /\ issues'[i] = issues[i]
             /\ \A i \in DOMAIN issues' : i \in DOMAIN issues \/ i \in ids
             /\ \A i \in ids : /\ i \in DOMAIN issues' /\ i \notin DOMAIN issues
                               /\ \E f \in fps : issues'[i] = NewIssue(f)
             /\ \A i, j \in ids : issues'[i].fp = issues'[j].fp => i = j
             /\ Moves(w, new) /\ new.pc = "assign" /\ new.ids = ids /\ new.task = Of(w)
             /\ new \in WorkerSet
<1> DEFINE fps == worker[w].fps
           ids == (Len(issues) + 1)..(Len(issues) + Cardinality(fps))
           new == [worker[w] EXCEPT !.pc = "assign", !.ids = ids]
<1>1. /\ Pc(w) \in {"insert", "reinsert"} /\ Moves(w, new)
      /\ issues' = issues \o [n \in DOMAIN SetToSeq(fps) |-> NewIssue(SetToSeq(fps)[n])]
  BY DEF InsertIssues, Pc
<1>2. fps \in SUBSET Fingerprints /\ IsFiniteSet(fps)
  BY FpsFinite
<1> HIDE DEF fps
<1>3. /\ \A i \in DOMAIN issues : i \in DOMAIN issues' /\ issues'[i] = issues[i]
      /\ \A i \in DOMAIN issues' : i \in DOMAIN issues \/ i \in ids
      /\ \A i \in ids : /\ i \in DOMAIN issues' /\ i \notin DOMAIN issues
                        /\ \E f \in fps : issues'[i] = NewIssue(f)
      /\ \A i, j \in ids : issues'[i].fp = issues'[j].fp => i = j
  BY <1>1, <1>2, InsertedRows
<1>4. Cardinality(fps) \in Nat /\ Len(issues) \in Nat
  BY <1>2, FS_CardinalityType DEF Inv, Types, RowsOK
<1>5. ids \subseteq Ids
  BY <1>4 DEF Ids
<1> HIDE DEF ids
<1>6. worker[w] \in WorkerSet
  BY AtWork
<1>7. new.pc = "assign" /\ new.ids = ids /\ new.task = Of(w) /\ new \in WorkerSet
  BY <1>5, <1>6 DEF WorkerSet, Of, Pcs, DerivePcs
<1> HIDE DEF new
<1> QED
  BY <1>1, <1>2, <1>3, <1>7 DEF fps, ids, new

\* All other steps keep the fingerprints, and bring no issue back.
LEMMA FingerprintsKept ==
  ASSUME Inv, Finite, Next, issues' # issues,
         ~(\E w \in Workers : InsertIssues(w) /\ ~Collides(worker[w].fps))
  PROVE  /\ DOMAIN issues' = DOMAIN issues
         /\ \A i \in DOMAIN issues : issues'[i].fp = issues[i].fp
         /\ Existing' \subseteq Existing
<1>1. PICK w \in Workers : \/ WipeDerived(w) /\ controls # {}
                           \/ DeletePrior(w)
                           \/ InsertRow(w) /\ worker[w].cur \in Existing
  BY IssuesChange
<1>2. CASE WipeDerived(w) /\ controls # {}
  <2>1. issues' = [i \in DOMAIN issues |-> Deleted(issues[i])]
    BY <1>2 DEF WipeDerived
  <2>2. \A i \in DOMAIN issues : issues[i] \in IssueSet
    BY DEF Inv, Types, RowsOK
  <2>3. \A i \in DOMAIN issues : issues'[i].fp = issues[i].fp /\ issues'[i].exists = FALSE
    BY <2>1, <2>2, DeletedTyped
  <2> QED
    BY <2>1, <2>3 DEF Existing
<1>3. CASE DeletePrior(w)
  <2>1. PICK i \in worker[w].ids :
          /\ i \in DOMAIN issues
          /\ Existing' = Existing /\ DOMAIN issues' = DOMAIN issues
          /\ issues'[i] = Cleared(Of(w).kind, issues[i])
          /\ \A j \in DOMAIN issues \ {i} : issues'[j] = issues[j]
    BY <1>3, DeletedPrior
  <2>2. issues[i] \in IssueSet
    BY <2>1 DEF Inv, Types, RowsOK
  <2>3. issues'[i].fp = issues[i].fp
    BY <2>1, <2>2, ClearedTyped
  <2> QED
    BY <2>1, <2>3
<1>4. CASE InsertRow(w) /\ worker[w].cur \in Existing
  <2> DEFINE c == worker[w].cur
  <2>1. /\ Existing' = Existing /\ DOMAIN issues' = DOMAIN issues
        /\ \A j \in DOMAIN issues \ {c} : issues'[j] = issues[j]
        /\ issues'[c].fp = issues[c].fp
    BY <1>4, InsertedRow
  <2> HIDE DEF c
  <2> QED
    BY <2>1
<1> QED
  BY <1>1, <1>2, <1>3, <1>4

\* Only an insert adds fingerprints, and the unique index has passed it.
LEMMA OneIssueNext ==
  ASSUME Inv, Finite, OneIssuePerFingerprint, [Next]_vars
  PROVE  OneIssuePerFingerprint'
<1>1. CASE issues' = issues
  BY <1>1 DEF OneIssuePerFingerprint, Existing
<1>2. CASE \E w \in Workers : InsertIssues(w) /\ ~Collides(worker[w].fps)
  <2>1. PICK w \in Workers : InsertIssues(w) /\ ~Collides(worker[w].fps)
    BY <1>2
  <2> DEFINE fps == worker[w].fps
             ids == (Len(issues) + 1)..(Len(issues) + Cardinality(fps))
  <2>2. /\ \A i \in DOMAIN issues : i \in DOMAIN issues' /\ issues'[i] = issues[i]
        /\ \A i \in DOMAIN issues' : i \in DOMAIN issues \/ i \in ids
        /\ \A i \in ids : /\ i \in DOMAIN issues' /\ i \notin DOMAIN issues
                          /\ \E f \in fps : issues'[i] = NewIssue(f)
        /\ \A i, j \in ids : issues'[i].fp = issues'[j].fp => i = j
    BY <2>1, Inserted
  <2>4. \A i \in Existing : issues[i].fp \notin fps
    BY <2>1 DEF Collides, Persisted
  <2> HIDE DEF fps, ids
  <2>3. \A i \in ids : issues'[i].fp \in fps
    <3>1. \A f : NewIssue(f).fp = f
      BY DEF NewIssue
    <3> QED
      BY <2>2, <3>1
  <2> SUFFICES ASSUME NEW i \in DOMAIN issues', NEW j \in DOMAIN issues',
                      issues'[i].exists, issues'[j].exists, issues'[i].fp = issues'[j].fp
               PROVE  i = j
    BY DEF OneIssuePerFingerprint, Existing
  <2>5. CASE i \in DOMAIN issues /\ j \in DOMAIN issues
    BY <2>2, <2>5 DEF OneIssuePerFingerprint, Existing
  <2>6. CASE i \in ids /\ j \in ids
    BY <2>2, <2>6
  <2>7. CASE i \in DOMAIN issues /\ j \in ids
    BY <2>2, <2>3, <2>4, <2>7 DEF Existing
  <2>8. CASE i \in ids /\ j \in DOMAIN issues
    BY <2>2, <2>3, <2>4, <2>8 DEF Existing
  <2> QED
    BY <2>2, <2>5, <2>6, <2>7, <2>8
<1>3. CASE issues' # issues /\ ~(\E w \in Workers : InsertIssues(w) /\ ~Collides(worker[w].fps))
  <2>1. Next
    BY <1>3 DEF vars, rows
  <2>2. /\ \A i \in DOMAIN issues : issues'[i].fp = issues[i].fp
        /\ Existing' \subseteq Existing
    BY <1>3, <2>1, FingerprintsKept
  <2>3. Existing \subseteq DOMAIN issues
    BY DEF Existing
  <2> QED
    BY <2>2, <2>3 DEF OneIssuePerFingerprint
<1> QED
  BY <1>1, <1>2, <1>3

\* OneIssuePerFingerprint: whatever runs again or at the same time, no two
\* issues are derived from the same controls under the same title
\* (_persist_issue_rows: check, insert under the unique index, one retry).
THEOREM IssuesAreDerivedOnce == Finite => (Spec => []OneIssuePerFingerprint)
<1> SUFFICES ASSUME Finite PROVE Spec => []OneIssuePerFingerprint
  OBVIOUS
<1>1. Init => OneIssuePerFingerprint
  BY DEF Init, OneIssuePerFingerprint, Existing
<1>2. Inv /\ OneIssuePerFingerprint /\ [Next]_vars => OneIssuePerFingerprint'
  BY OneIssueNext
<1>3. Spec => []Inv
  BY InvHolds
<1> QED
  BY <1>1, <1>2, <1>3, PTL DEF Spec

-----------------------------------------------------------------------------
(* What happened, and how the steps of a worker go on.                     *)

\* The other steps of a worker: all but those that start and end a task.
Works(w) == Step(w) /\ ~TakeTask(w) /\ ~Acknowledge(w)

\* The steps the environment is not counted for.
LEMMA EnvStays ==
  ASSUME Next
  PROVE  \/ env' = env
         \/ \E e \in FaultKinds : Happens(e)
<1>1. CASE StartRun
  BY <1>1 DEF StartRun
<1>2. CASE \E k \in DOMAIN chords : Join(k)
  BY <1>2 DEF Join
<1>3. CASE Advance
  BY <1>3 DEF Advance, FaultKinds
<1>4. CASE \E kind \in JobKinds : PostJob(kind)
  BY <1>4 DEF PostJob, FaultKinds
<1>5. CASE \E w \in Workers : Step(w)
  BY <1>5 DEF Step, TakeTask, Acknowledge, DeriveIssues, WipeDerived, Precheck, InsertIssues,
     AssignControls, SelectIssues, SkipIssue, DeletePrior, InsertRow, FilterPromoted,
     LoadAssessments, CreateRisks, BundleIssues, ClearCandidates, InsertCandidate, InsertResult
<1>6. CASE \E w \in Workers : WorkerLost(w)
  BY <1>6 DEF WorkerLost, FaultKinds
<1>7. CASE \E c, d \in Controls : Reextract(c, d)
  BY <1>7 DEF Reextract, FaultKinds
<1> QED
  BY <1>1, <1>2, <1>3, <1>4, <1>5, <1>6, <1>7 DEF Next

\* What has not happened after a step had not happened before.
LEMMA OnlyBefore ==
  ASSUME Inv, [Next]_vars, NEW S, \A e \in FaultKinds \ S : env'[e] = 0
  PROVE  Only(S)
<1>1. env \in [FaultKinds -> Nat]
  BY DEF Inv, Types, ControlOK
<1>2. CASE env' = env
  BY <1>2 DEF Only
<1>3. CASE \E e \in FaultKinds : Happens(e)
  <2>1. PICK e \in FaultKinds : Happens(e)
    BY <1>3
  <2>2. env'[e] # 0 /\ \A x \in FaultKinds \ {e} : env'[x] = env[x]
    BY <2>1, Happened
  <2> QED
    BY <2>2 DEF Only
<1> QED
  BY <1>2, <1>3, EnvStays DEF vars

\* What Moves says of the workers.
LEMMA Moved ==
  ASSUME Inv, NEW w \in Workers, NEW new, Moves(w, new)
  PROVE  Others(w) /\ worker'[w] = new /\ UNCHANGED <<run, steps, chords, tasks>>
<1>1. worker \in [Workers -> WorkerSet]
  BY DEF Inv, Types, ControlOK
<1> QED
  BY <1>1 DEF Moves, Others

\* The end of the batch, or the rest of it.
LEMMA AfterOutcome ==
  ASSUME Inv, NEW w \in Workers, NEW i, After(w, i), Live(w)
  PROVE  \/ Report(w, {})
         \/ \E new : /\ Moves(w, new) /\ new.task = Of(w) /\ new.pc = "each"
                     /\ new.ids = worker[w].ids \ {i} /\ worker[w].ids # {i}
<1>1. worker[w] \in WorkerSet
  BY AtWork
<1> DEFINE new == [worker[w] EXCEPT !.pc = "each", !.ids = @ \ {i}, !.cur = 0]
<1>2. new.task = Of(w) /\ new.pc = "each" /\ new.ids = worker[w].ids \ {i}
  BY <1>1 DEF WorkerSet, Of
<1>3. Report(w, {}) \/ (Moves(w, new) /\ worker[w].ids # {i})
  BY DEF After
<1> HIDE DEF new
<1> QED
  BY <1>2, <1>3

\* A working step reports, raises or moves on with its task.
LEMMA Outcome ==
  ASSUME Inv, NEW w \in Workers, Works(w)
  PROVE  /\ Live(w) /\ env' = env
         /\ \/ \E result \in SUBSET Nat : Report(w, result)
            \/ Raise(w)
            \/ \E new : Moves(w, new) /\ new.task = Of(w) /\ new.pc \notin {"idle", "ack"}
<1>0. worker[w] \in WorkerSet /\ {} \in SUBSET Nat
  BY AtWork
<1> DEFINE goal == /\ Live(w) /\ env' = env
                   /\ \/ \E result \in SUBSET Nat : Report(w, result)
                      \/ Raise(w)
                      \/ \E new : Moves(w, new) /\ new.task = Of(w) /\ new.pc \notin {"idle", "ack"}
<1>1. ASSUME DeriveIssues(w) PROVE goal
  <2>1. Live(w) /\ env' = env
    BY <1>1 DEF DeriveIssues, Live, Pc
  <2>2. CASE ~Report(w, {})
    <3>1. PICK F : Moves(w, [worker[w] EXCEPT !.pc = "precheck", !.fps = F, !.ids = {}])
      BY <1>1, <2>2 DEF DeriveIssues
    <3> DEFINE new == [worker[w] EXCEPT !.pc = "precheck", !.fps = F, !.ids = {}]
    <3>2. new.task = Of(w) /\ new.pc = "precheck"
      BY <1>0 DEF WorkerSet, Of
    <3>3. Moves(w, new)
      BY <3>1
    <3> HIDE DEF new
    <3> QED
      BY <2>1, <3>2, <3>3
  <2> QED
    BY <1>0, <2>1, <2>2
<1>2. ASSUME WipeDerived(w) PROVE goal
  <2> DEFINE new == [worker[w] EXCEPT !.pc = "llm", !.ids = controls]
  <2>1. Live(w) /\ env' = env /\ (Report(w, {}) \/ Moves(w, new))
    BY <1>2 DEF WipeDerived, Live, Pc
  <2>2. new.task = Of(w) /\ new.pc = "llm"
    BY <1>0 DEF WorkerSet, Of
  <2> HIDE DEF new
  <2> QED
    BY <1>0, <2>1, <2>2
<1>3. ASSUME Precheck(w) PROVE goal
  <2> DEFINE new == [worker[w] EXCEPT !.fps = worker[w].fps \ Persisted,
                        !.pc = IF @ = "precheck" THEN "insert" ELSE "reinsert"]
  <2>1. Live(w) /\ env' = env /\ (Report(w, {}) \/ Moves(w, new))
    BY <1>3 DEF Precheck, Live, Pc
  <2>2. new.task = Of(w) /\ new.pc \in {"insert", "reinsert"}
    BY <1>0 DEF WorkerSet, Of
  <2> HIDE DEF new
  <2> QED
    BY <1>0, <2>1, <2>2
<1>4. ASSUME InsertIssues(w) PROVE goal
  <2> DEFINE ids == (Len(issues) + 1)..(Len(issues) + Cardinality(worker[w].fps))
             new == [worker[w] EXCEPT !.pc = "assign", !.ids = ids]
             again == [worker[w] EXCEPT !.pc = "recheck"]
  <2>1. Live(w) /\ env' = env /\ (Moves(w, new) \/ Moves(w, again) \/ Raise(w))
    BY <1>4 DEF InsertIssues, Live, Pc
  <2> HIDE DEF ids
  <2>2. new.task = Of(w) /\ new.pc = "assign" /\ again.task = Of(w) /\ again.pc = "recheck"
    BY <1>0 DEF WorkerSet, Of
  <2> HIDE DEF new, again
  <2> QED
    BY <2>1, <2>2
<1>5. ASSUME AssignControls(w) PROVE goal
  <2>1. Live(w) /\ env' = env /\ (Report(w, worker[w].ids) \/ Raise(w))
    BY <1>5 DEF AssignControls, Live, Pc
  <2>2. worker[w].ids \in SUBSET Nat
    <3>1. worker[w].ids \subseteq DOMAIN issues
      BY <1>5, AtWork DEF AssignControls, Refers
    <3> QED
      BY <3>1 DEF Inv, Types, RowsOK
  <2> QED
    BY <2>1, <2>2
<1>6. ASSUME SelectIssues(w) PROVE goal
  <2> DEFINE named == IF worker[w].ids = {} THEN Existing ELSE worker[w].ids \cap Existing
             todo == IF worker[w].task.kind = "classify" THEN Unclassified(named) ELSE named
             new == [worker[w] EXCEPT !.pc = "each", !.ids = todo]
  <2>1. Live(w) /\ env' = env /\ (Report(w, {}) \/ Moves(w, new))
    BY <1>6 DEF SelectIssues, Live, Pc
  <2> HIDE DEF todo
  <2>2. new.task = Of(w) /\ new.pc = "each"
    BY <1>0 DEF WorkerSet, Of
  <2> HIDE DEF new
  <2> QED
    BY <1>0, <2>1, <2>2
<1>7. ASSUME SkipIssue(w) PROVE goal
  <2>1. Live(w) /\ env' = env /\ \E i \in worker[w].ids : After(w, i)
    BY <1>7 DEF SkipIssue, Live, Pc
  <2>2. PICK i \in worker[w].ids : After(w, i)
    BY <2>1
  <2>3. CASE Report(w, {})
    BY <1>0, <2>1, <2>3
  <2>4. CASE ~Report(w, {})
    <3>1. PICK new : Moves(w, new) /\ new.task = Of(w) /\ new.pc = "each"
      BY <2>1, <2>2, <2>4, AfterOutcome
    <3> QED
      BY <2>1, <3>1
  <2> QED
    BY <2>3, <2>4
<1>8. ASSUME DeletePrior(w) PROVE goal
  <2>1. Live(w) /\ env' = env
    BY <1>8 DEF DeletePrior, Live, Pc
  <2>2. PICK i \in worker[w].ids : Moves(w, [worker[w] EXCEPT !.pc = "write", !.cur = i])
    BY <1>8 DEF DeletePrior
  <2> DEFINE new == [worker[w] EXCEPT !.pc = "write", !.cur = i]
  <2>3. new.task = Of(w) /\ new.pc = "write"
    BY <1>0 DEF WorkerSet, Of
  <2>4. Moves(w, new)
    BY <2>2
  <2> HIDE DEF new
  <2> QED
    BY <2>1, <2>3, <2>4
<1>9. ASSUME InsertRow(w) PROVE goal
  <2>1. Live(w) /\ env' = env /\ (Raise(w) \/ After(w, worker[w].cur))
    BY <1>9 DEF InsertRow, Live, Pc
  <2>2. CASE Raise(w) \/ Report(w, {})
    BY <1>0, <2>1, <2>2
  <2>3. CASE ~(Raise(w) \/ Report(w, {}))
    <3>1. PICK new : Moves(w, new) /\ new.task = Of(w) /\ new.pc = "each"
      BY <2>1, <2>3, AfterOutcome
    <3> QED
      BY <2>1, <3>1
  <2> QED
    BY <2>2, <2>3
<1>10. ASSUME FilterPromoted(w) PROVE goal
  <2> DEFINE new == [worker[w] EXCEPT !.pc = "assess", !.ids = worker[w].ids \ AlreadyPromoted]
  <2>1. Live(w) /\ env' = env /\ (Report(w, {}) \/ Moves(w, new))
    BY <1>10 DEF FilterPromoted, Live, Pc
  <2>2. new.task = Of(w) /\ new.pc = "assess"
    BY <1>0 DEF WorkerSet, Of
  <2> HIDE DEF new
  <2> QED
    BY <1>0, <2>1, <2>2
<1>11. ASSUME LoadAssessments(w) PROVE goal
  <2>1. /\ Live(w) /\ env' = env /\ (Report(w, {}) \/ Moves(w, Loaded(w)))
    BY <1>11, LoadSteps DEF Live
  <2>2. Loaded(w).task = Of(w) /\ Loaded(w).pc = "create"
    BY LoadedTyped
  <2> QED
    BY <1>0, <2>1, <2>2
<1>12. ASSUME CreateRisks(w) PROVE goal
  BY <1>0, <1>12 DEF CreateRisks, Live, Pc
<1>13. ASSUME BundleIssues(w) PROVE goal
  <2>1. Live(w) /\ env' = env
    BY <1>13 DEF BundleIssues, Live, Pc
  <2>2. CASE Report(w, {})
    BY <1>0, <2>1, <2>2
  <2>3. CASE ~Report(w, {})
    <3>1. PICK n : Moves(w, [worker[w] EXCEPT !.pc = "clear", !.n = n])
      BY <1>13, <2>3 DEF BundleIssues
    <3> DEFINE new == [worker[w] EXCEPT !.pc = "clear", !.n = n]
    <3>2. new.task = Of(w) /\ new.pc = "clear"
      BY <1>0 DEF WorkerSet, Of
    <3>3. Moves(w, new)
      BY <3>1
    <3> HIDE DEF new
    <3> QED
      BY <2>1, <3>2, <3>3
  <2> QED
    BY <2>2, <2>3
<1>14. ASSUME ClearCandidates(w) PROVE goal
  <2> DEFINE new == [worker[w] EXCEPT !.pc = "candidate"]
  <2>1. Live(w) /\ env' = env /\ Moves(w, new)
    BY <1>14 DEF ClearCandidates, Live, Pc
  <2>2. new.task = Of(w) /\ new.pc = "candidate"
    BY <1>0 DEF WorkerSet, Of
  <2> HIDE DEF new
  <2> QED
    BY <2>1, <2>2
<1>15. ASSUME InsertCandidate(w) PROVE goal
  <2> DEFINE c == Len(candidates) + 1
             pc == IF worker[w].n = 1 THEN "match" ELSE "candidate"
             new == [worker[w] EXCEPT !.ids = @ \cup {c}, !.n = @ - 1, !.pc = pc]
  <2>1. Live(w) /\ env' = env /\ Moves(w, new)
    BY <1>15 DEF InsertCandidate, Live, Pc
  <2>2. pc \in {"match", "candidate"}
    OBVIOUS
  <2> HIDE DEF c, pc
  <2>3. new.task = Of(w) /\ new.pc = pc
    BY <1>0 DEF WorkerSet, Of
  <2> HIDE DEF new
  <2> QED
    BY <2>1, <2>2, <2>3
<1>16. ASSUME InsertResult(w) PROVE goal
  <2> DEFINE new == [worker[w] EXCEPT !.ids = @ \ {Min(worker[w].ids)}]
  <2>1. /\ Live(w) /\ env' = env /\ Pc(w) = "match"
        /\ (Report(w, {}) \/ Raise(w) \/ Moves(w, new))
    BY <1>16 DEF InsertResult, Live, Pc
  <2>2. new.task = Of(w) /\ new.pc = "match"
    BY <1>0, <2>1 DEF WorkerSet, Of, Pc
  <2> HIDE DEF new
  <2> QED
    BY <1>0, <2>1, <2>2
<1> HIDE DEF goal
<1>17. goal
  BY <1>1, <1>2, <1>3, <1>4, <1>5, <1>6, <1>7, <1>8, <1>9, <1>10, <1>11, <1>12, <1>13, <1>14, <1>15,
     <1>16 DEF Works, Step
<1> QED
  BY <1>17 DEF goal

\* What a working step leaves alone, and what it does to the rest.
LEMMA WorkFacts ==
  ASSUME Inv, NEW w \in Workers, Works(w)
  PROVE  /\ Live(w) /\ env' = env /\ Others(w)
         /\ \A v \in Workers : worker'[v].task = worker[v].task
         /\ \A t \in tasks' : t \in tasks \/ t.kind = "classify"
         /\ Of(w).kind # "replace" => tasks' = tasks
         /\ tasks \subseteq tasks'
         /\ worker'[w].pc # "idle"
         /\ \/ worker'[w] = Acking(w) /\ Raise(w) /\ UNCHANGED <<run, steps, tasks>>
            \/ worker'[w] = Acking(w) /\ \E result \in SUBSET Nat : Report(w, result)
            \/ worker'[w].pc # "ack" /\ UNCHANGED <<run, steps, chords, tasks>>
         /\ run'.issues = run.issues
<1>1. Live(w) /\ env' = env
  BY Outcome
<1>2. Acking(w).task = Of(w) /\ Acking(w).pc = "ack"
  BY <1>1, AckingTyped
<1>3. CASE \E result \in SUBSET Nat : Report(w, result)
  <2>1. PICK result \in SUBSET Nat : Report(w, result)
    BY <1>3
  <2>2. /\ Others(w) /\ worker'[w] = Acking(w) /\ run'.issues = run.issues
        /\ \A t \in tasks' : t \in tasks \/ t.kind = "classify"
        /\ tasks \subseteq tasks'
        /\ Of(w).kind # "replace" => tasks' = tasks
    BY <1>1, <2>1, Reports
  <2>3. \A v \in Workers : worker'[v].task = worker[v].task
    BY <1>2, <2>2 DEF Others, Of
  <2> QED
    BY <1>1, <1>2, <2>1, <2>2, <2>3
<1>4. CASE Raise(w)
  <2>1. Others(w) /\ worker'[w] = Acking(w) /\ UNCHANGED <<run, steps, tasks>>
    BY <1>1, <1>4, Raises
  <2>2. \A v \in Workers : worker'[v].task = worker[v].task
    BY <1>2, <2>1 DEF Others, Of
  <2> QED
    BY <1>1, <1>2, <1>4, <2>1, <2>2
<1>5. CASE \E new : Moves(w, new) /\ new.task = Of(w) /\ new.pc \notin {"idle", "ack"}
  <2>1. PICK new : Moves(w, new) /\ new.task = Of(w) /\ new.pc \notin {"idle", "ack"}
    BY <1>5
  <2>2. Others(w) /\ worker'[w] = new /\ UNCHANGED <<run, steps, chords, tasks>>
    BY <2>1, Moved
  <2>3. \A v \in Workers : worker'[v].task = worker[v].task
    BY <2>1, <2>2 DEF Others, Of
  <2> QED
    BY <1>1, <2>1, <2>2, <2>3
<1> QED
  BY <1>3, <1>4, <1>5, Outcome
-----------------------------------------------------------------------------
\* What a step may be, when the environment acted in the ways of S only.
Happening(S) ==
  \/ UNCHANGED vars
  \/ StartRun
  \/ \E k \in DOMAIN chords : Join(k)
  \/ Advance /\ "advances" \in S
  \/ \E kind \in JobKinds : PostJob(kind) /\ "jobs" \in S
  \/ \E w \in Workers : TakeTask(w)
  \/ \E w \in Workers : Acknowledge(w)
  \/ \E w \in Workers : Works(w)
  \/ \E w \in Workers : WorkerLost(w) /\ (IF Pc(w) = "ack" THEN "unacked" ELSE "crashes") \in S
  \/ \E c, d \in Controls : Reextract(c, d) /\ "extracts" \in S

(* A step is one of those that the faults of S allow.                      *)
LEMMA Cases ==
  ASSUME Inv, [Next]_vars, NEW S, \A e \in FaultKinds \ S : env'[e] = 0
  PROVE  Happening(S)
<1>1. ASSUME NEW e \in FaultKinds, Happens(e) PROVE e \in S
  BY <1>1, Happened
<1>2. \A e \in {"advances", "jobs", "unacked", "crashes", "extracts"} : e \in FaultKinds
  BY DEF FaultKinds
<1>3. CASE Advance
  <2>1. "advances" \in S
    BY <1>1, <1>2, <1>3 DEF Advance
  <2> QED
    BY <1>3, <2>1 DEF Happening
<1>4. CASE \E kind \in JobKinds : PostJob(kind)
  <2>1. PICK kind \in JobKinds : PostJob(kind)
    BY <1>4
  <2>2. "jobs" \in S
    BY <1>1, <1>2, <2>1 DEF PostJob
  <2> QED
    BY <2>1, <2>2 DEF Happening
<1>5. CASE \E w \in Workers : Step(w)
  BY <1>5 DEF Happening, Works
<1>6. CASE \E w \in Workers : WorkerLost(w)
  <2>1. PICK w \in Workers : WorkerLost(w)
    BY <1>6
  <2>2. Happens(IF Pc(w) = "ack" THEN "unacked" ELSE "crashes")
    BY <2>1 DEF WorkerLost, Pc
  <2>3. (IF Pc(w) = "ack" THEN "unacked" ELSE "crashes") \in S
    <3>1. CASE Pc(w) = "ack"
      BY <1>1, <1>2, <2>2, <3>1
    <3>2. CASE Pc(w) # "ack"
      BY <1>1, <1>2, <2>2, <3>2
    <3> QED
      BY <3>1, <3>2
  <2> QED
    BY <2>1, <2>3 DEF Happening
<1>7. CASE \E c, d \in Controls : Reextract(c, d)
  <2>1. PICK c \in Controls, d \in Controls : Reextract(c, d)
    BY <1>7
  <2>2. "extracts" \in S
    BY <1>1, <1>2, <2>1 DEF Reextract
  <2> QED
    BY <2>1, <2>2 DEF Happening
<1>8. CASE StartRun \/ (\E k \in DOMAIN chords : Join(k)) \/ UNCHANGED vars
  BY <1>8 DEF Happening
<1> QED
  BY <1>3, <1>4, <1>5, <1>6, <1>7, <1>8 DEF Next

\* The rows a working step may write.
LEMMA Written ==
  ASSUME NEW w \in Workers, Works(w)
  PROVE  /\ controls' = controls
         /\ links' = links \/ AssignControls(w) \/ (WipeDerived(w) /\ controls # {})
         /\ risks' = risks \/ CreateRisks(w) \/ (WipeDerived(w) /\ controls # {})
         /\ \/ issues' = issues
            \/ WipeDerived(w) /\ controls # {}
            \/ InsertIssues(w) /\ ~Collides(worker[w].fps)
            \/ DeletePrior(w)
            \/ InsertRow(w) /\ worker[w].cur \in Existing
<1>1. CASE WipeDerived(w)
  BY <1>1 DEF WipeDerived
<1>2. CASE InsertIssues(w)
  BY <1>2 DEF InsertIssues
<1>3. CASE InsertRow(w)
  BY <1>3 DEF InsertRow
<1>4. CASE DeletePrior(w)
  BY <1>4 DEF DeletePrior
<1>5. CASE \/ DeriveIssues(w) \/ Precheck(w) \/ SelectIssues(w) \/ SkipIssue(w)
           \/ FilterPromoted(w) \/ LoadAssessments(w) \/ BundleIssues(w)
  BY <1>5 DEF DeriveIssues, Precheck, SelectIssues, SkipIssue, FilterPromoted, LoadAssessments,
     BundleIssues, rows
<1>6. CASE AssignControls(w) \/ CreateRisks(w) \/ ClearCandidates(w) \/ InsertCandidate(w)
           \/ InsertResult(w)
  BY <1>6 DEF AssignControls, CreateRisks, ClearCandidates, InsertCandidate, InsertResult
<1> QED
  BY <1>1, <1>2, <1>3, <1>4, <1>5, <1>6 DEF Works, Step

\* The steps of each kind of task.
LEMMA StepsOf ==
  ASSUME Inv, NEW w \in Workers, Works(w)
  PROVE  /\ Of(w) \in TaskSet
         /\ Of(w).kind \in {"issues", "replace"} =>
              \/ DeriveIssues(w) \/ WipeDerived(w) \/ Precheck(w) \/ InsertIssues(w)
              \/ AssignControls(w)
         /\ Of(w).kind \in {"classify", "score"} =>
              SelectIssues(w) \/ SkipIssue(w) \/ DeletePrior(w) \/ InsertRow(w)
         /\ Of(w).kind = "promote" =>
              FilterPromoted(w) \/ LoadAssessments(w) \/ CreateRisks(w)
         /\ Of(w).kind = "discover" =>
              BundleIssues(w) \/ ClearCandidates(w) \/ InsertCandidate(w) \/ InsertResult(w)
         /\ WipeDerived(w) => Of(w).kind = "replace"
<1>1. Fits(worker[w])
  BY AtWork
<1>2. /\ DeriveIssues(w) \/ Precheck(w) \/ InsertIssues(w) \/ AssignControls(w) => Pc(w) \in DerivePcs
      /\ WipeDerived(w) => Pc(w) = "wipe"
      /\ SelectIssues(w) \/ SkipIssue(w) \/ DeletePrior(w) \/ InsertRow(w) => Pc(w) \in EachPcs
      /\ FilterPromoted(w) \/ LoadAssessments(w) \/ CreateRisks(w) => Pc(w) \in RiskPcs
      /\ BundleIssues(w) \/ ClearCandidates(w) \/ InsertCandidate(w) \/ InsertResult(w)
           => Pc(w) \in FindPcs
  BY DEF DeriveIssues, Precheck, InsertIssues, AssignControls, WipeDerived, SelectIssues, SkipIssue,
     DeletePrior, InsertRow, FilterPromoted, LoadAssessments, CreateRisks, BundleIssues,
     ClearCandidates, InsertCandidate, InsertResult, Pc, DerivePcs, InsertPcs, EachPcs, RiskPcs, FindPcs
<1>3. Live(w)
  BY Outcome
<1>4. Of(w) \in TaskSet
  BY <1>3, AtWork DEF Live
<1>5. /\ Pc(w) \in DerivePcs => Of(w).kind \in {"issues", "replace"}
      /\ Pc(w) = "wipe" => Of(w).kind = "replace"
      /\ Pc(w) \in EachPcs => Of(w).kind \in {"classify", "score"}
      /\ Pc(w) \in FindPcs => Of(w).kind = "discover"
      /\ Pc(w) \in RiskPcs => Of(w).kind = "promote"
  BY <1>1 DEF Fits, Pc, Of
<1> QED
  BY <1>2, <1>4, <1>5 DEF Works, Step

-----------------------------------------------------------------------------
(* The links.                                                              *)

\* Links that are complete stay so while rows, batches and the worker that links stay.
LEMMA LinksStay ==
  ASSUME Inv, LinksOK, NoReplace', controls' = controls, links \subseteq links',
         DOMAIN issues' = DOMAIN issues, AllExist',
         \A i \in DOMAIN issues : issues'[i].fp = issues[i].fp,
         \A w \in Workers : Pc(w) = "assign" =>
           \A i \in worker[w].ids : i \in DOMAIN issues => Linked(i)',
         \A w \in Workers : worker'[w].pc \in InsertPcs =>
           \A f \in worker'[w].fps : Cites[f] \subseteq controls
  PROVE  LinksOK'
<1>1. ASSUME NEW i \in DOMAIN issues' PROVE Cites[issues'[i].fp] \subseteq controls' /\ Linked(i)'
  <2>1. Cites[issues'[i].fp] \subseteq controls' /\ Linked(i)
    BY <1>1 DEF LinksOK
  <2>2. CASE \A c \in Cites[issues[i].fp] : <<i, c>> \in links
    BY <1>1, <2>1, <2>2 DEF Linked
  <2>3. CASE \E w \in Workers : Pc(w) = "assign" /\ i \in worker[w].ids
    BY <1>1, <2>1, <2>3
  <2> QED
    BY <2>1, <2>2, <2>3 DEF Linked
<1>2. \A w \in Workers : Pc(w)' \in InsertPcs =>
        \A f \in worker'[w].fps : Cites[f] \subseteq controls'
  BY DEF Pc
<1> QED
  BY <1>1, <1>2 DEF LinksOK

\* A working step keeps what is linked complete: what insert_many adds, the same
\* worker links at once.
LEMMA LinksWork ==
  ASSUME Inv, Finite, Inv', LinksOK, NEW w \in Workers, Works(w)
  PROVE  LinksOK'
<1>1. /\ Live(w) /\ Others(w) /\ Of(w).kind # "replace"
      /\ \A v \in Workers : worker'[v].task = worker[v].task
      /\ tasks' = tasks
  BY WorkFacts DEF LinksOK, NoReplace
<1>2. NoReplace'
  BY <1>1 DEF LinksOK, NoReplace, Of
<1>3. ~WipeDerived(w)
  BY <1>1, StepsOf
<1>4. /\ controls' = controls
      /\ links' = links \/ AssignControls(w)
      /\ \/ issues' = issues
         \/ InsertIssues(w) /\ ~Collides(worker[w].fps)
         \/ DeletePrior(w)
         \/ InsertRow(w) /\ worker[w].cur \in Existing
  BY <1>3, Written
<1>5. worker[w] \in WorkerSet /\ Of(w) \in TaskSet
  BY <1>1, AtWork DEF Live
<1>6. ASSUME NEW v \in Workers \ {w}
      PROVE  /\ worker'[v].pc \in InsertPcs => \A f \in worker'[v].fps : Cites[f] \subseteq controls
             /\ worker'[v].pc = Pc(v) /\ worker'[v].ids = worker[v].ids
  BY <1>1 DEF Others, LinksOK, Pc
<1>7. CASE Of(w).kind \notin {"issues", "replace"}
  <2>1. Pc(w) \notin DerivePcs
    BY <1>7, AtWork DEF Fits, Pc, Of
  <2>2. worker'[w].pc \notin DerivePcs
    <3>1. Fits(worker'[w])
      BY DEF Inv, WorkersOK
    <3> QED
      BY <1>1, <1>7, <3>1 DEF Fits, Of
  <2>3. links' = links
    BY <1>4, <2>1 DEF AssignControls, DerivePcs, Pc
  <2>4. /\ DOMAIN issues' = DOMAIN issues
        /\ \A i \in DOMAIN issues : issues'[i].fp = issues[i].fp /\ issues'[i].exists
    <3>1. CASE issues' = issues
      BY <3>1 DEF LinksOK, AllExist
    <3>2. CASE issues' # issues
      <4>1. ~(\E v \in Workers : InsertIssues(v) /\ ~Collides(worker[v].fps))
        <5>1. SUFFICES ASSUME NEW v \in Workers, InsertIssues(v), ~Collides(worker[v].fps)
                       PROVE  FALSE
          OBVIOUS
        <5>2. v # w
          BY <2>1, <5>1 DEF InsertIssues, DerivePcs, InsertPcs, Pc
        <5>3. worker'[v] # worker[v]
          <6> DEFINE ids == (Len(issues) + 1)..(Len(issues) + Cardinality(worker[v].fps))
                     new == [worker[v] EXCEPT !.pc = "assign", !.ids = ids]
          <6>1. Moves(v, new) /\ new.pc = "assign" /\ Pc(v) \in {"insert", "reinsert"}
            BY <5>1, Inserted
          <6> HIDE DEF new
          <6>2. worker'[v] = new
            BY <6>1, Moved
          <6> QED
            BY <6>1, <6>2 DEF Pc
        <5> QED
          BY <1>1, <5>2, <5>3 DEF Others
      <4>2. CASE DeletePrior(w)
        <5>1. PICK i \in worker[w].ids :
                /\ i \in DOMAIN issues
                /\ Existing' = Existing /\ DOMAIN issues' = DOMAIN issues
                /\ issues'[i] = Cleared(Of(w).kind, issues[i])
                /\ \A j \in DOMAIN issues \ {i} : issues'[j] = issues[j]
          BY <4>2, DeletedPrior
        <5>2. issues[i] \in IssueSet
          BY <5>1 DEF Inv, Types, RowsOK
        <5>3. issues'[i].fp = issues[i].fp /\ issues'[i].exists = issues[i].exists
          BY <5>1, <5>2, ClearedTyped
        <5> QED
          BY <5>1, <5>3 DEF LinksOK, AllExist
      <4>3. CASE InsertRow(w) /\ worker[w].cur \in Existing
        <5> DEFINE c == worker[w].cur
        <5>1. /\ Existing' = Existing /\ DOMAIN issues' = DOMAIN issues
              /\ \A j \in DOMAIN issues \ {c} : issues'[j] = issues[j]
              /\ issues'[c].fp = issues[c].fp
              /\ c \in DOMAIN issues
          BY <4>3, InsertedRow
        <5> HIDE DEF c
        <5>2. \A j \in DOMAIN issues : j \in Existing
          BY DEF LinksOK, AllExist, Existing
        <5>3. \A j \in DOMAIN issues : issues'[j].exists
          BY <5>1, <5>2 DEF Existing
        <5> QED
          BY <5>1, <5>3
      <4> QED
        BY <1>4, <3>2, <4>1, <4>2, <4>3
    <3> QED
      BY <3>1, <3>2
  <2>5. \A v \in Workers : Pc(v) = "assign" =>
          \A i \in worker[v].ids : i \in DOMAIN issues => Linked(i)'
    <3>1. ASSUME NEW v \in Workers, Pc(v) = "assign" PROVE worker'[v] = worker[v]
      BY <1>1, <2>1, <3>1 DEF Others, DerivePcs
    <3> QED
      BY <3>1 DEF Linked, Pc
  <2>6. AllExist'
    BY <2>4 DEF AllExist
  <2>7. \A v \in Workers : worker'[v].pc \in InsertPcs =>
           \A f \in worker'[v].fps : Cites[f] \subseteq controls
    BY <1>6, <2>2 DEF DerivePcs
  <2> QED
    BY <1>2, <1>4, <2>3, <2>4, <2>5, <2>6, <2>7, LinksStay
<1>8. CASE DeriveIssues(w) \/ Precheck(w) \/ (InsertIssues(w) /\ Collides(worker[w].fps))
  <2>1. issues' = issues /\ links' = links /\ Pc(w) # "assign"
    BY <1>8 DEF DeriveIssues, Precheck, InsertIssues, rows, Pc
  <2>2. worker'[w].pc \in InsertPcs => \A f \in worker'[w].fps : Cites[f] \subseteq controls
    <3>1. CASE worker'[w] = Acking(w)
      BY <1>1, <3>1, AckingTyped DEF InsertPcs
    <3>2. CASE DeriveIssues(w) /\ worker'[w] # Acking(w)
      <4>1. ~Report(w, {})
        BY <1>1, <3>2, WorkFacts, Reports
      <4>2. PICK F \in LlmBatch(worker[w].ids \cap controls) :
               Moves(w, [worker[w] EXCEPT !.pc = "precheck", !.fps = F, !.ids = {}])
        BY <3>2, <4>1 DEF DeriveIssues
      <4>3. \A f \in F : Cites[f] \subseteq controls
        BY <4>2 DEF LlmBatch
      <4>4. worker'[w] = [worker[w] EXCEPT !.pc = "precheck", !.fps = F, !.ids = {}]
        BY <4>2, Moved
      <4>5. worker'[w].fps = F
        BY <1>5, <4>4 DEF WorkerSet
      <4> QED
        BY <4>3, <4>5
    <3>3. CASE Precheck(w) /\ worker'[w] # Acking(w)
      <4> DEFINE new == [worker[w] EXCEPT !.fps = worker[w].fps \ Persisted,
                            !.pc = IF @ = "precheck" THEN "insert" ELSE "reinsert"]
      <4>1. ~Report(w, {})
        BY <1>1, <3>3, WorkFacts, Reports
      <4>2. Moves(w, new) /\ Pc(w) \in InsertPcs
        BY <3>3, <4>1 DEF Precheck, InsertPcs, Pc
      <4>3. new.fps = worker[w].fps \ Persisted
        BY <1>5 DEF WorkerSet
      <4> HIDE DEF new
      <4>4. worker'[w].fps \subseteq worker[w].fps
        BY <4>2, <4>3, Moved
      <4> QED
        BY <4>2, <4>4 DEF LinksOK
    <3>4. CASE InsertIssues(w) /\ Collides(worker[w].fps) /\ worker'[w] # Acking(w)
      <4> DEFINE new == [worker[w] EXCEPT !.pc = "recheck"]
      <4>1. ~Raise(w)
        BY <1>1, <3>4, WorkFacts, Raises
      <4>2. Moves(w, new) /\ Pc(w) \in InsertPcs
        BY <3>4, <4>1 DEF InsertIssues, InsertPcs, Pc
      <4>3. new.fps = worker[w].fps
        BY <1>5 DEF WorkerSet
      <4> HIDE DEF new
      <4>4. worker'[w].fps = worker[w].fps
        BY <4>2, <4>3, Moved
      <4> QED
        BY <4>2, <4>4 DEF LinksOK
    <3> QED
      BY <1>8, <3>1, <3>2, <3>3, <3>4
  <2>3. \A v \in Workers : Pc(v) = "assign" =>
          \A i \in worker[v].ids : i \in DOMAIN issues => Linked(i)'
    <3>1. ASSUME NEW v \in Workers, Pc(v) = "assign" PROVE worker'[v] = worker[v]
      BY <1>1, <2>1, <3>1 DEF Others
    <3> QED
      BY <3>1 DEF Linked, Pc
  <2>4. AllExist' /\ \A i \in DOMAIN issues : issues'[i].fp = issues[i].fp
    BY <2>1 DEF LinksOK, AllExist
  <2>5. \A v \in Workers : worker'[v].pc \in InsertPcs =>
           \A f \in worker'[v].fps : Cites[f] \subseteq controls
    BY <1>6, <2>2
  <2> QED
    BY <1>2, <1>4, <2>1, <2>3, <2>4, <2>5, LinksStay
<1>9. CASE InsertIssues(w) /\ ~Collides(worker[w].fps)
  <2> DEFINE fps == worker[w].fps
             ids == (Len(issues) + 1)..(Len(issues) + Cardinality(fps))
             new == [worker[w] EXCEPT !.pc = "assign", !.ids = ids]
  <2>1. /\ Pc(w) \in {"insert", "reinsert"}
        /\ \A i \in DOMAIN issues : i \in DOMAIN issues' /\ issues'[i] = issues[i]
        /\ \A i \in DOMAIN issues' : i \in DOMAIN issues \/ i \in ids
        /\ \A i \in ids : \E f \in fps : issues'[i] = NewIssue(f)
        /\ Moves(w, new) /\ new.pc = "assign" /\ new.ids = ids
    BY <1>9, Inserted
  <2>2. \A f \in fps : Cites[f] \subseteq controls
    BY <2>1 DEF LinksOK, InsertPcs
  <2>3. links' = links
    BY <1>9 DEF InsertIssues
  <2> HIDE DEF fps, ids, new
  <2>4. worker'[w].pc = "assign" /\ worker'[w].ids = ids
    BY <2>1, Moved
  <2>5. \A f : NewIssue(f).fp = f /\ NewIssue(f).exists
    BY DEF NewIssue
  <2>6. ASSUME NEW i \in DOMAIN issues'
        PROVE  issues'[i].exists /\ Cites[issues'[i].fp] \subseteq controls' /\ Linked(i)'
    <3>1. CASE i \in DOMAIN issues
      <4>1. issues'[i] = issues[i] /\ issues[i].exists /\ Cites[issues[i].fp] \subseteq controls
            /\ Linked(i)
        BY <2>1, <3>1 DEF LinksOK, AllExist
      <4>2. CASE \A c \in Cites[issues[i].fp] : <<i, c>> \in links
        BY <1>4, <2>3, <4>1, <4>2 DEF Linked
      <4>3. CASE \E v \in Workers : Pc(v) = "assign" /\ i \in worker[v].ids
        <5>1. PICK v \in Workers : Pc(v) = "assign" /\ i \in worker[v].ids
          BY <4>3
        <5>2. v # w
          BY <2>1, <5>1
        <5> QED
          BY <1>4, <1>6, <4>1, <5>1, <5>2 DEF Linked, Pc
      <4> QED
        BY <4>1, <4>2, <4>3 DEF Linked
    <3>2. CASE i \in ids
      <4>1. PICK f \in fps : issues'[i] = NewIssue(f)
        BY <2>1, <3>2
      <4> QED
        BY <1>4, <2>2, <2>4, <2>5, <3>2, <4>1 DEF Linked, Pc
    <3> QED
      BY <2>1, <3>1, <3>2
  <2>7. \A v \in Workers : Pc(v)' \in InsertPcs => \A f \in worker'[v].fps : Cites[f] \subseteq controls'
    BY <1>4, <1>6, <2>4 DEF InsertPcs, Pc
  <2> QED
    BY <1>2, <2>6, <2>7 DEF LinksOK, AllExist
<1>10. CASE AssignControls(w)
  <2> DEFINE ids == worker[w].ids
  <2>1. Pc(w) = "assign" /\ issues' = issues
    BY <1>10 DEF AssignControls, Pc
  <2>2. ids \subseteq DOMAIN issues
    BY <2>1, AtWork DEF Refers, Pc
  <2>3. ids \subseteq Existing
    BY <2>2 DEF LinksOK, AllExist, Existing
  <2>4. \A l \in NewLinks(ids) : l[2] \in controls
    <3>1. SUFFICES ASSUME NEW i \in ids, NEW l \in {i} \X Cites[issues[i].fp]
                   PROVE  l[2] \in controls
      BY DEF NewLinks
    <3>2. Cites[issues[i].fp] \subseteq controls
      BY <2>2 DEF LinksOK
    <3> QED
      BY <3>2
  <2>5. links' = links \cup NewLinks(ids) /\ Report(w, ids)
    BY <1>10, <2>3, <2>4 DEF AssignControls
  <2>6. ASSUME NEW i \in ids, NEW c \in Cites[issues[i].fp] PROVE <<i, c>> \in links'
    BY <2>5 DEF NewLinks
  <2>7. worker'[w].pc = "ack"
    <3>1. ids \in SUBSET Nat /\ env' = env
      BY <2>2, WorkFacts DEF Inv, Types, RowsOK
    <3>2. worker'[w] = Acking(w)
      BY <1>1, <2>5, <3>1, Reports
    <3> QED
      BY <1>1, <3>2, AckingTyped
  <2>8. \A v \in Workers : Pc(v) = "assign" =>
          \A i \in worker[v].ids : i \in DOMAIN issues => Linked(i)'
    <3>1. ASSUME NEW v \in Workers, Pc(v) = "assign", NEW i \in worker[v].ids, v # w
          PROVE  Linked(i)'
      BY <1>6, <3>1 DEF Linked, Pc
    <3>2. ASSUME NEW i \in ids PROVE Linked(i)'
      BY <2>1, <2>6 DEF Linked
    <3> QED
      BY <3>1, <3>2
  <2>9. AllExist' /\ \A i \in DOMAIN issues : issues'[i].fp = issues[i].fp
    BY <2>1 DEF LinksOK, AllExist
  <2>10. \A v \in Workers : worker'[v].pc \in InsertPcs =>
            \A f \in worker'[v].fps : Cites[f] \subseteq controls
    BY <1>6, <2>7 DEF InsertPcs
  <2> QED
    BY <1>2, <1>4, <2>1, <2>5, <2>8, <2>9, <2>10, LinksStay
<1> QED
  BY <1>3, <1>5, <1>7, <1>8, <1>9, <1>10, StepsOf

\* Every step does, while the environment is as Only says.
LEMMA LinksNext ==
  ASSUME Inv, Finite, LinksInv, [Next]_vars
  PROVE  LinksInv'
<1> DEFINE S == {"unacked", "advances"}
<1> SUFFICES ASSUME \A e \in FaultKinds \ S : env'[e] = 0
             PROVE  LinksOK'
  BY DEF LinksInv, Only
<1>1. LinksOK
  BY OnlyBefore DEF LinksInv
<1>2. Inv' /\ Happening(S)
  BY InvNext, Cases
<1>3. ASSUME NoReplace', UNCHANGED rows,
             NEW v, \A w \in Workers \ {v} : worker'[w] = worker[w],
             v \in Workers => Pc(v) # "assign" /\ worker'[v].pc \notin InsertPcs
      PROVE  LinksOK'
  <2>1. /\ controls' = controls /\ links' = links /\ issues' = issues
    BY <1>3 DEF rows
  <2>2. AllExist' /\ \A i \in DOMAIN issues : issues'[i].fp = issues[i].fp
    BY <1>1, <2>1 DEF LinksOK, AllExist
  <2>3. \A w \in Workers : Pc(w) = "assign" =>
          \A i \in worker[w].ids : i \in DOMAIN issues => Linked(i)'
    <3>1. ASSUME NEW w \in Workers, Pc(w) = "assign" PROVE worker'[w] = worker[w]
      BY <1>3, <3>1
    <3> QED
      BY <3>1 DEF Linked, Pc
  <2>4. \A w \in Workers : worker'[w].pc \in InsertPcs =>
          \A f \in worker'[w].fps : Cites[f] \subseteq controls
    <3>1. ASSUME NEW w \in Workers, worker'[w].pc \in InsertPcs PROVE worker'[w] = worker[w]
      BY <1>3, <3>1
    <3> QED
      BY <1>1, <3>1 DEF LinksOK, Pc
  <2> QED
    BY <1>1, <1>3, <2>1, <2>2, <2>3, <2>4, LinksStay
<1>4. ASSUME UNCHANGED <<rows, worker>>, \A t \in tasks' : t \in tasks \/ t.kind # "replace"
      PROVE  LinksOK'
  <2>1. NoReplace'
    BY <1>1, <1>4 DEF LinksOK, NoReplace, Of
  <2>2. PICK v : v \notin Workers
    BY NoSetContainsEverything
  <2> QED
    BY <1>3, <1>4, <2>1, <2>2
<1>5. CASE UNCHANGED vars
  BY <1>4, <1>5 DEF vars
<1>6. CASE StartRun
  <2>1. UNCHANGED <<rows, worker>> /\ \A t \in tasks' : t \in tasks \/ t.kind = "issues"
    BY <1>6, StartRunSteps
  <2> QED
    BY <1>4, <2>1
<1>7. CASE \E k \in DOMAIN chords : Join(k)
  <2>1. PICK k \in DOMAIN chords : Join(k)
    BY <1>7
  <2>2. UNCHANGED <<rows, steps, worker, env>> /\ (JoinsLast(k) \/ \E n \in 2..4 : JoinsTo(k, n))
    BY <2>1, JoinCases
  <2>3. \A t \in tasks' : t \in tasks \/ t.kind # "replace"
    <3>1. CASE JoinsLast(k)
      <4>1. tasks' = tasks \cup {[kind |-> "promote", chord |-> k, ids |-> run.issues]}
        BY <3>1 DEF JoinsLast
      <4> QED
        BY <4>1
    <3>2. ASSUME NEW n \in 2..4, JoinsTo(k, n)
          PROVE  \A t \in tasks' : t \in tasks \/ t.kind # "replace"
      <4>1. \A t \in tasks' : t \in tasks \/ t.kind = Stages[n]
        <5>1. /\ tasks' = tasks \cup BatchTasks(Len(chords) + 1, Stages[n], run'.issues)
              /\ \A t \in BatchTasks(Len(chords) + 1, Stages[n], run'.issues) : t.kind = Stages[n]
          BY <2>1, <2>2, <3>2, JoinsToSteps
        <5> QED
          BY <5>1
      <4>2. Stages[n] \in StageSet
        BY StagesTyped
      <4> QED
        BY <4>1, <4>2 DEF StageSet
    <3> QED
      BY <2>2, <3>1, <3>2
  <2> QED
    BY <1>4, <2>2, <2>3
<1>8. CASE Advance
  BY <1>4, <1>8, AdvanceInv
<1>9. CASE \E w \in Workers : TakeTask(w)
  <2>1. PICK w \in Workers : TakeTask(w)
    BY <1>9
  <2>2. PICK t \in tasks : /\ Others(w) /\ tasks' = tasks \ {t} /\ t \in TaskSet
                           /\ worker'[w].task = t /\ worker'[w].pc = Position[t.kind]
    BY <2>1, TakeInv
  <2>3. UNCHANGED rows /\ Pc(w) = "idle"
    BY <2>1 DEF TakeTask, Pc
  <2>4. NoReplace'
    BY <1>1, <2>2 DEF LinksOK, NoReplace, Others, Of
  <2>5. Position[t.kind] \notin InsertPcs
    BY <2>2, Starts DEF TaskSet, KindSet, StageSet, InsertPcs
  <2> QED
    BY <1>3, <2>2, <2>3, <2>4, <2>5 DEF Others
<1>10. ASSUME NEW w \in Workers, Others(w), worker'[w] = Idle, Pc(w) # "assign", UNCHANGED rows,
              tasks' \subseteq tasks \cup {Of(w)}
       PROVE  LinksOK'
  <2>1. Idle.pc = "idle" /\ Idle.task.kind = "none"
    BY DEF Idle, NoTask
  <2>2. NoReplace'
    BY <1>1, <1>10, <2>1 DEF LinksOK, NoReplace, Others, Of
  <2> QED
    BY <1>3, <1>10, <2>1, <2>2 DEF Others, InsertPcs
<1>11. CASE \E w \in Workers : Acknowledge(w)
  <2>1. PICK w \in Workers : Acknowledge(w)
    BY <1>11
  <2>2. Others(w) /\ worker'[w] = Idle /\ Pc(w) = "ack" /\ UNCHANGED <<rows, tasks>>
    BY <2>1, AcknowledgeInv
  <2> QED
    BY <1>10, <2>2
<1>12. CASE \E w \in Workers : WorkerLost(w) /\ (IF Pc(w) = "ack" THEN "unacked" ELSE "crashes") \in S
  <2>1. PICK w \in Workers : WorkerLost(w) /\ (IF Pc(w) = "ack" THEN "unacked" ELSE "crashes") \in S
    BY <1>12
  <2>2. Pc(w) = "ack"
    BY <2>1
  <2>3. Others(w) /\ worker'[w] = Idle /\ tasks' = tasks \cup {Of(w)} /\ UNCHANGED rows
    BY <2>1, LostInv
  <2> QED
    BY <1>10, <2>2, <2>3
<1>13. CASE \E w \in Workers : Works(w)
  BY <1>1, <1>2, <1>13, LinksWork
<1>14. "jobs" \notin S /\ "extracts" \notin S
  OBVIOUS
<1> HIDE DEF S
<1> QED
  BY <1>2, <1>5, <1>6, <1>7, <1>8, <1>9, <1>11, <1>12, <1>13, <1>14 DEF Happening

\* LinksComplete: every issue is linked to each control it cites, or the
\* worker that inserted it is about to link it (insert_many, then
\* assign_many), even if a done task is redelivered or a stage dispatched again.
THEOREM LinksAreComplete == Finite => (Spec => []LinksComplete)
<1> SUFFICES ASSUME Finite PROVE Spec => []LinksComplete
  OBVIOUS
<1>1. Init => LinksInv
  <2> SUFFICES ASSUME Init PROVE LinksOK
    BY DEF LinksInv
  <2>1. \A w \in Workers : worker[w] = Idle
    BY DEF Init
  <2>2. Idle.pc = "idle" /\ Idle.task.kind = "none"
    BY DEF Idle, NoTask
  <2> QED
    BY <2>1, <2>2 DEF Init, LinksOK, NoReplace, AllExist, Pc, Of, InsertPcs
<1>2. Inv /\ LinksInv /\ [Next]_vars => LinksInv'
  BY LinksNext
<1>3. Inv /\ LinksInv => LinksComplete
  <2> SUFFICES ASSUME Inv, LinksOK, NEW i \in Existing
               PROVE  \/ \A c \in Cites[issues[i].fp] : <<i, c>> \in links
                      \/ \E w \in Working({"issues"}) : i \in worker[w].ids
    BY DEF LinksInv, LinksComplete
  <2>1. Linked(i)
    BY DEF LinksOK, Existing
  <2>2. ASSUME NEW w \in Workers, Pc(w) = "assign" PROVE w \in Working({"issues"})
    <3>1. Of(w).kind \in {"issues", "replace"}
      BY <2>2, AtWork DEF Fits, Pc, Of, DerivePcs
    <3>2. Of(w).kind = "issues"
      BY <3>1 DEF LinksOK, NoReplace
    <3> QED
      BY <2>2, <3>2 DEF Working, Pc, Of
  <2> QED
    BY <2>1, <2>2 DEF Linked
<1>4. Spec => []Inv
  BY InvHolds
<1> QED
  BY <1>1, <1>2, <1>3, <1>4, PTL DEF Spec
-----------------------------------------------------------------------------
(* The promotion.                                                          *)

\* What a working step does to the run and its chords.
LEMMA ChordsWork ==
  ASSUME Inv, NEW w \in Workers, Works(w)
  PROVE  /\ Len(chords') = Len(chords) /\ DOMAIN chords' = DOMAIN chords
         /\ \A c \in DOMAIN chords :
              /\ chords'[c].stage = chords[c].stage /\ chords'[c].joined = chords[c].joined
              /\ chords'[c].open = IF worker'[w].pc = "ack" /\ Of(w).kind # "promote" /\ c = Of(w).chord
                                   THEN chords[c].open \ {Of(w).ids} ELSE chords[c].open
         /\ \/ run' = run
            \/ worker'[w].pc = "ack" /\ Of(w).kind = "promote" /\ run'.stage = 5
         /\ \/ steps' = steps
            \/ /\ worker'[w].pc = "ack"
               /\ \A s \in steps' : s \in steps \/ (s.stage = Of(w).kind /\ s.ids = Of(w).ids)
               /\ Of(w).kind # "promote" /\ Of(w).chord # 0
<1>1. /\ Live(w) /\ worker \in [Workers -> WorkerSet] /\ chords \in Seq(ChordSet)
      /\ run \in [stage : 0..5, issues : SUBSET Nat] /\ Of(w) \in TaskSet
  BY Outcome, AtWork DEF Inv, Types, ControlOK, Live
<1>2. Acking(w).pc = "ack"
  BY <1>1, AckingTyped
<1> DEFINE k == Of(w).chord
           edited == Closed(chords, k, Of(w).ids)
<1>3. /\ edited \in Seq(ChordSet) /\ Len(edited) = Len(chords) /\ DOMAIN edited = DOMAIN chords
      /\ \A c \in DOMAIN chords :
           /\ edited[c].stage = chords[c].stage /\ edited[c].joined = chords[c].joined
           /\ edited[c].open = IF c = k THEN chords[c].open \ {Of(w).ids} ELSE chords[c].open
  <2>1. chords \in Seq(ChordSet) /\ k \in Nat /\ Of(w).ids \in SUBSET Ids
    BY <1>1 DEF TaskSet
  <2> DEFINE B == Of(w).ids
  <2> HIDE DEF k, B
  <2>2. ASSUME NEW c \in DOMAIN chords
        PROVE  /\ edited[c].stage = chords[c].stage /\ edited[c].joined = chords[c].joined
               /\ edited[c].open = IF c = k THEN chords[c].open \ {Of(w).ids} ELSE chords[c].open
    <3>1. chords \in Seq(ChordSet) /\ k \in Nat /\ B \in SUBSET Ids
      BY <2>1 DEF B
    <3>2. /\ Closed(chords, k, B)[c].stage = chords[c].stage
          /\ Closed(chords, k, B)[c].joined = chords[c].joined
          /\ c = k => Closed(chords, k, B)[c].open = chords[c].open \ {B}
          /\ c # k => Closed(chords, k, B)[c].open = chords[c].open
      BY <3>1, ClosedAt
    <3> QED
      BY <3>2 DEF B
  <2>3. edited \in Seq(ChordSet) /\ Len(edited) = Len(chords) /\ DOMAIN edited = DOMAIN chords
    BY <2>1, ChordEdited
  <2> QED
    BY <2>2, <2>3
<1>4. \A c \in DOMAIN chords : c # 0
  BY <1>1
<1>5. CASE Raise(w) /\ worker'[w] = Acking(w) /\ UNCHANGED <<run, steps, tasks>>
  <2>1. chords' = IF k = 0 \/ Of(w).kind = "promote" THEN chords ELSE edited
    BY <1>5 DEF Raise, Of, Closed
  <2> HIDE DEF edited, k
  <2>2. CASE k = 0 \/ Of(w).kind = "promote"
    BY <1>2, <1>4, <1>5, <2>1, <2>2 DEF k
  <2>3. CASE ~(k = 0 \/ Of(w).kind = "promote")
    BY <1>2, <1>3, <1>5, <2>1, <2>3 DEF k
  <2> QED
    BY <2>2, <2>3
<1>6. CASE worker'[w] = Acking(w) /\ \E result \in SUBSET Nat : Report(w, result)
  <2>1. PICK result \in SUBSET Nat : Report(w, result)
    BY <1>6
  <2>2. worker'[w].pc = "ack"
    BY <1>2, <1>6
  <2>3. CASE Of(w).kind = "promote"
    <3>1. run' = [run EXCEPT !.stage = 5] /\ UNCHANGED <<steps, chords>>
      BY <2>1, <2>3 DEF Report, Of
    <3>2. run'.stage = 5
      BY <1>1, <3>1
    <3> QED
      BY <2>2, <2>3, <3>1, <3>2
  <2>4. CASE Of(w).kind # "promote" /\ k = 0
    <3>1. UNCHANGED <<run, steps, chords>>
      BY <2>1, <2>4 DEF Report, Of
    <3> QED
      BY <1>4, <2>4, <3>1
  <2>5. CASE Of(w).kind # "promote" /\ k # 0
    <3>1. /\ chords' = edited /\ run' = run
          /\ steps' = {s \in steps : s.stage # Of(w).kind \/ s.ids # Of(w).ids}
                      \cup {[stage |-> Of(w).kind, ids |-> Of(w).ids, result |-> result]}
      BY <2>1, <2>5 DEF Report, Of, Closed
    <3>2. \A s \in steps' : s \in steps \/ (s.stage = Of(w).kind /\ s.ids = Of(w).ids)
      BY <3>1
    <3> HIDE DEF edited, k
    <3> QED
      BY <1>3, <2>2, <2>5, <3>1, <3>2 DEF k
  <2> QED
    BY <2>3, <2>4, <2>5
<1>7. CASE worker'[w].pc # "ack" /\ UNCHANGED <<run, steps, chords, tasks>>
  BY <1>7
<1> QED
  BY <1>5, <1>6, <1>7, WorkFacts

\* A working step promotes no issue twice.
LEMMA PromotionWork ==
  ASSUME Inv, Inv', Finite, PromotionOK, NEW w \in Workers, Works(w)
  PROVE  PromotionOK'
<1>1. /\ Live(w) /\ Others(w) /\ env' = env
      /\ \A v \in Workers : worker'[v].task = worker[v].task
      /\ \A t \in tasks' : t \in tasks \/ t.kind = "classify"
  BY WorkFacts
<1>2. /\ Len(chords') = Len(chords) /\ DOMAIN chords' = DOMAIN chords
      /\ \A c \in DOMAIN chords :
           chords'[c].stage = chords[c].stage /\ chords'[c].joined = chords[c].joined
      /\ run' = run \/ (Of(w).kind = "promote" /\ run'.stage = 5)
  BY ChordsWork
<1>3. Of(w).kind = "promote" => Scored
  BY DEF PromotionOK, Promotes, Promoting
<1>4. Len(chords) \in Nat /\ DOMAIN chords = 1..Len(chords)
  BY DEF Inv, Types, ControlOK
<1>5. Steady'
  <2>1. Len(chords') = IF run'.stage = 5 THEN 4 ELSE run'.stage
    BY <1>2, <1>3 DEF PromotionOK, Steady, Scored
  <2> QED
    BY <1>2, <2>1 DEF PromotionOK, Steady
<1>6. OnePromotion'
  <2>1. \A v \in Workers : Promoting(v)' <=> Promoting(v)
    BY <1>1 DEF Promoting, Of
  <2> QED
    BY <1>1, <2>1 DEF PromotionOK, OnePromotion
<1>7. (Promotes => Scored)'
  <2>1. Promotes' => Scored
    BY <1>1, <1>2, <1>3 DEF PromotionOK, Promotes, Promoting, Of
  <2>2. Scored => Scored'
    BY <1>2, <1>4 DEF Scored
  <2> QED
    BY <2>1, <2>2
<1>8. risks \in Seq(RiskSet) /\ DOMAIN risks = 1..Len(risks) /\ Len(risks) \in Nat
  BY DEF Inv, Types, RowsOK
<1>9. Unpromoted' /\ OneRisk'
  <2>1. CASE risks' = risks
    <3>1. AlreadyPromoted' = AlreadyPromoted
      BY <2>1 DEF AlreadyPromoted
    <3>2. ASSUME worker'[w].pc \in {"assess", "create"}
          PROVE  worker'[w].ids \cap AlreadyPromoted = {}
      <4>1. Of(w).kind = "promote"
        <5>1. Fits(worker'[w])
          BY DEF Inv, WorkersOK
        <5> QED
          BY <1>1, <3>2, <5>1 DEF Fits, Of, RiskPcs
      <4>2. worker'[w] # Acking(w)
        BY <1>1, <3>2, AckingTyped
      <4>3. (\A result \in SUBSET Nat : ~Report(w, result)) /\ ~Raise(w) /\ {} \in SUBSET Nat
        BY <1>1, <4>2, Reports, Raises
      <4>4. CASE FilterPromoted(w)
        <5> DEFINE new == [worker[w] EXCEPT !.pc = "assess", !.ids = worker[w].ids \ AlreadyPromoted]
        <5>1. Moves(w, new)
          BY <4>3, <4>4 DEF FilterPromoted
        <5>2. new.ids = worker[w].ids \ AlreadyPromoted
          BY AtWork DEF WorkerSet
        <5> HIDE DEF new
        <5>3. worker'[w].ids = worker[w].ids \ AlreadyPromoted
          BY <5>1, <5>2, Moved
        <5> QED
          BY <5>3
      <4>5. CASE LoadAssessments(w)
        <5>1. Moves(w, Loaded(w)) /\ Pc(w) = "assess"
          BY <4>3, <4>5, LoadSteps
        <5>2. worker'[w].ids = Found(worker[w].ids)
          BY <5>1, Moved, LoadedTyped
        <5> QED
          BY <5>1, <5>2 DEF Found, PromotionOK, Unpromoted
      <4>6. CASE CreateRisks(w)
        BY <4>3, <4>6 DEF CreateRisks
      <4> QED
        BY <4>1, <4>4, <4>5, <4>6, StepsOf
    <3>3. Unpromoted'
      BY <1>1, <3>1, <3>2 DEF PromotionOK, Unpromoted, Others, Pc
    <3> QED
      BY <2>1, <3>3 DEF PromotionOK, OneRisk
  <2>2. CASE WipeDerived(w) /\ controls # {}
    <3>1. risks' = [r \in DOMAIN risks |-> [risks[r] EXCEPT !.issue = 0]]
      BY <2>2 DEF WipeDerived
    <3>2. \A r \in DOMAIN risks : risks[r] \in RiskSet
      BY <1>8
    <3>3. DOMAIN risks' = DOMAIN risks /\ \A r \in DOMAIN risks : risks'[r].issue = 0
      BY <3>1, <3>2 DEF RiskSet
    <3>4. AlreadyPromoted' = {}
      BY <3>3 DEF AlreadyPromoted
    <3> QED
      BY <3>3, <3>4 DEF Unpromoted, OneRisk
  <2>3. CASE CreateRisks(w) /\ risks' # risks
    <3> DEFINE out == worker[w].out
               n == Cardinality(out)
    <3>1. worker[w].ids \subseteq Existing /\ Pc(w) = "create"
      BY <2>3 DEF CreateRisks, Pc
    <3>2. /\ Report(w, {}) /\ n \in Nat
          /\ DOMAIN risks' = 1..(Len(risks) + n)
          /\ \A r \in DOMAIN risks : r \in DOMAIN risks' /\ risks'[r] = risks[r]
          /\ \A r \in DOMAIN risks' :
               \/ r \in DOMAIN risks
               \/ r \in (Len(risks) + 1)..(Len(risks) + n) /\ risks'[r] \in out
          /\ \A q, r \in (Len(risks) + 1)..(Len(risks) + n) :
               risks'[q].issue = risks'[r].issue => q = r
      BY <2>3, <3>1, CreatedRisks
    <3>3. \A y \in out : y.issue \in worker[w].ids
      BY <3>1, AtWork DEF Refers, Pc
    <3>4. worker[w].ids \cap AlreadyPromoted = {}
      BY <3>1 DEF PromotionOK, Unpromoted
    <3> HIDE DEF out, n
    <3>5. \A r \in DOMAIN risks' : r \notin DOMAIN risks => risks'[r].issue \notin AlreadyPromoted
      BY <3>2, <3>3, <3>4
    <3>6. \A r \in DOMAIN risks : risks[r].issue # 0 => risks[r].issue \in AlreadyPromoted
      BY DEF AlreadyPromoted
    <3>7. OneRisk'
      <4> SUFFICES ASSUME NEW r \in DOMAIN risks', NEW q \in DOMAIN risks',
                          risks'[r].issue = risks'[q].issue, risks'[r].issue # 0
                   PROVE  r = q
        BY DEF OneRisk
      <4>1. CASE r \in DOMAIN risks /\ q \in DOMAIN risks
        BY <3>2, <4>1 DEF PromotionOK, OneRisk
      <4>2. CASE r \in DOMAIN risks /\ q \notin DOMAIN risks
        BY <3>2, <3>5, <3>6, <4>2
      <4>3. CASE r \notin DOMAIN risks /\ q \in DOMAIN risks
        BY <3>2, <3>5, <3>6, <4>3
      <4>4. CASE r \notin DOMAIN risks /\ q \notin DOMAIN risks
        BY <3>2, <4>4
      <4> QED
        BY <4>1, <4>2, <4>3, <4>4
    <3>8. Unpromoted'
      <4> SUFFICES ASSUME NEW v \in Workers, worker'[v].pc \in {"assess", "create"}
                   PROVE  FALSE
        BY DEF Unpromoted, Pc
      <4>1. Fits(worker'[v]) /\ Fits(worker[w])
        BY DEF Inv, WorkersOK
      <4>2. worker'[v].task.kind = "promote" /\ Of(w).kind = "promote"
        BY <3>1, <4>1 DEF Fits, RiskPcs, Pc, Of
      <4>3. v = w
        BY <1>1, <4>2 DEF PromotionOK, OnePromotion, Promoting, Of
      <4>4. worker'[w] = Acking(w)
        BY <1>1, <3>2, Reports
      <4> QED
        BY <1>1, <4>3, <4>4, AckingTyped
    <3> QED
      BY <3>7, <3>8
  <2> QED
    BY <2>1, <2>2, <2>3, Written
<1> QED
  BY <1>5, <1>6, <1>7, <1>9 DEF PromotionOK

\* Every step keeps the promotion single, while no stage is dispatched again.
LEMMA PromotionNext ==
  ASSUME Inv, Finite, PromotionInv, [Next]_vars
  PROVE  PromotionInv'
<1> DEFINE S == {"crashes", "unacked", "extracts", "jobs"}
<1> SUFFICES ASSUME \A e \in FaultKinds \ S : env'[e] = 0
             PROVE  PromotionOK'
  BY DEF PromotionInv, Only
<1>1. PromotionOK
  BY OnlyBefore DEF PromotionInv
<1>2. Inv' /\ Happening(S)
  BY InvNext, Cases
<1>3. chords \in Seq(ChordSet) /\ Len(chords) \in Nat /\ DOMAIN chords = 1..Len(chords)
  BY DEF Inv, Types, ControlOK
<1>4. ASSUME UNCHANGED risks, NEW v, \A w \in Workers \ {v} : worker'[w] = worker[w],
             v \in Workers => worker'[v].pc \notin {"assess", "create"}
      PROVE  Unpromoted' /\ OneRisk'
  BY <1>1, <1>4 DEF PromotionOK, Unpromoted, OneRisk, AlreadyPromoted, Pc
<1>5. ASSUME UNCHANGED <<risks, worker>> PROVE Unpromoted' /\ OneRisk'
  BY <1>1, <1>5 DEF PromotionOK, Unpromoted, OneRisk, AlreadyPromoted, Pc
<1>6. ASSUME UNCHANGED <<run, chords>>, Promotes' => Promotes
      PROVE  Steady' /\ (Promotes => Scored)'
  BY <1>1, <1>6 DEF PromotionOK, Steady, Scored
<1>7. CASE UNCHANGED vars
  <2>1. UNCHANGED <<risks, run, chords, tasks, worker>>
    BY <1>7 DEF vars, rows
  <2>2. OnePromotion' /\ (Promotes' => Promotes)
    BY <1>1, <2>1 DEF PromotionOK, OnePromotion, Promotes, Promoting, Of
  <2> QED
    BY <1>5, <1>6, <2>1, <2>2 DEF PromotionOK
<1>8. CASE StartRun
  <2>1. /\ run.stage = 0 /\ run'.stage = 1 /\ chords' = <<Chord("issues", {})>>
        /\ tasks' = tasks \cup BatchTasks(1, "issues", {})
        /\ \A t \in BatchTasks(1, "issues", {}) : t.kind = "issues"
        /\ UNCHANGED <<rows, steps, worker, env>>
    BY <1>8, StartRunSteps
  <2>2. Len(chords) = 0
    BY <1>1, <2>1 DEF PromotionOK, Steady
  <2>3. ~Promotes
    BY <1>1, <2>2 DEF PromotionOK, Scored
  <2>4. \A t \in tasks' : t.kind # "promote"
    BY <2>1, <2>3 DEF Promotes
  <2>5. \A w \in Workers : ~Promoting(w)'
    BY <2>1, <2>3 DEF Promotes, Promoting, Of
  <2>6. OnePromotion' /\ ~Promotes'
    BY <2>1, <2>4, <2>5 DEF OnePromotion, Promotes
  <2>7. Steady'
    <3>1. Len(chords') = 1 /\ DOMAIN chords' = {1} /\ chords'[1] = Chord("issues", {})
      BY <2>1
    <3>2. Chord("issues", {}).stage = "issues" /\ Stages[1] = "issues"
      BY ChordOf, StagesTyped
    <3>3. \A c \in DOMAIN chords' : chords'[c].stage = Stages[c] /\ ~(c < Len(chords'))
      BY <3>1, <3>2
    <3> QED
      BY <2>1, <3>1, <3>3 DEF Steady
  <2> QED
    BY <1>5, <2>1, <2>6, <2>7 DEF PromotionOK, rows
<1>9. CASE \E k \in DOMAIN chords : Join(k)
  <2>1. PICK k \in DOMAIN chords : Join(k)
    BY <1>9
  <2>2. /\ UNCHANGED <<rows, steps, worker, env>> /\ ~chords[k].joined
        /\ JoinsLast(k) \/ \E n \in 2..4 : JoinsTo(k, n)
    BY <2>1, JoinCases
  <2>3. k = Len(chords) /\ chords[k].stage = Stages[k] /\ Len(chords) \in 1..4
    <3>1. k = Len(chords) /\ chords[k].stage = Stages[k]
      BY <1>1, <1>3, <2>1, <2>2 DEF PromotionOK, Steady
    <3>2. Len(chords) <= 4
      BY <1>1 DEF PromotionOK, Steady, Inv, Types, ControlOK, Promotes, Scored
    <3> QED
      BY <1>3, <2>1, <3>1, <3>2
  <2>4. ~Promotes /\ run.stage = k
    BY <1>1, <2>2, <2>3 DEF PromotionOK, Scored, Steady, Promotes
  <2>5. (\A t \in tasks : t.kind # "promote") /\ \A w \in Workers : ~Promoting(w)'
    BY <2>2, <2>4 DEF Promotes, Promoting, Of
  <2>6. Unpromoted' /\ OneRisk'
    BY <1>5, <2>2 DEF rows
  <2>7. CASE JoinsLast(k)
    <3> DEFINE new == [kind |-> "promote", chord |-> k, ids |-> run.issues]
    <3>1. /\ run' = run /\ chords[k].stage = "score"
          /\ Len(chords') = Len(chords) /\ DOMAIN chords' = DOMAIN chords
          /\ \A c \in DOMAIN chords :
               /\ chords'[c].stage = chords[c].stage
               /\ chords'[c].joined = IF c = k THEN TRUE ELSE chords[c].joined
          /\ tasks' = tasks \cup {new}
      BY <2>1, <2>2, <2>7, JoinsLastSteps
    <3>2. k = 4
      <4>1. k \in 1..4 /\ 4 \in 1..4 /\ Stages[k] = Stages[4]
        BY <2>3, <3>1, StagesTyped
      <4> QED
        BY <4>1, StagesTyped
    <3>3. Steady'
      BY <1>1, <3>1 DEF PromotionOK, Steady
    <3>4. Scored'
      BY <2>1, <2>3, <3>1, <3>2 DEF Scored
    <3> HIDE DEF new
    <3>5. OnePromotion'
      BY <2>5, <3>1 DEF OnePromotion
    <3> QED
      BY <2>6, <3>3, <3>4, <3>5 DEF PromotionOK
  <2>8. ASSUME NEW n \in 2..4, JoinsTo(k, n) PROVE PromotionOK'
    <3>1. /\ run'.stage = n /\ Stages[n - 1] = chords[k].stage
          /\ Len(chords') = Len(chords) + 1 /\ DOMAIN chords' = 1..(Len(chords) + 1)
          /\ chords'[Len(chords) + 1] = Chord(Stages[n], run'.issues)
          /\ \A c \in DOMAIN chords :
               /\ chords'[c].stage = chords[c].stage
               /\ chords'[c].joined = IF c = k THEN TRUE ELSE chords[c].joined
          /\ tasks' = tasks \cup BatchTasks(Len(chords) + 1, Stages[n], run'.issues)
          /\ \A t \in BatchTasks(Len(chords) + 1, Stages[n], run'.issues) : t.kind = Stages[n]
      BY <2>1, <2>2, <2>8, JoinsToSteps
    <3>2. n - 1 = k
      <4>1. n - 1 \in 1..4 /\ k \in 1..4 /\ Stages[n - 1] = Stages[k]
        BY <2>3, <3>1
      <4> QED
        BY <4>1, StagesTyped
    <3>3. Stages[n] \in StageSet
      BY StagesTyped
    <3>4. Chord(Stages[n], run'.issues).stage = Stages[n]
      BY ChordOf
    <3>5. Steady'
      <4>1. Len(chords') = IF run'.stage = 5 THEN 4 ELSE run'.stage
        BY <2>3, <3>1, <3>2
      <4>2. ASSUME NEW c \in DOMAIN chords'
            PROVE  chords'[c].stage = Stages[c] /\ (c < Len(chords') => chords'[c].joined)
        <5>1. CASE c \in DOMAIN chords
          <6>1. chords'[c].stage = Stages[c]
            BY <1>1, <3>1, <5>1 DEF PromotionOK, Steady
          <6>2. CASE c = k
            BY <3>1, <5>1, <6>1, <6>2
          <6>3. CASE c # k
            <7>1. c < Len(chords)
              BY <1>3, <2>3, <5>1, <6>3
            <7>2. chords[c].joined
              BY <1>1, <5>1, <7>1 DEF PromotionOK, Steady
            <7> QED
              BY <3>1, <5>1, <6>1, <6>3, <7>2
          <6> QED
            BY <6>2, <6>3
        <5>2. CASE c = n
          <6>1. n = Len(chords) + 1
            BY <2>3, <3>2
          <6>2. chords'[n] = Chord(Stages[n], run'.issues) /\ ~(n < Len(chords'))
            BY <1>3, <3>1, <6>1
          <6> QED
            BY <3>4, <5>2, <6>2
        <5>3. c \in DOMAIN chords \/ c = n
          BY <1>3, <2>3, <3>1, <3>2
        <5> QED
          BY <5>1, <5>2, <5>3
      <4> QED
        BY <4>1, <4>2 DEF Steady
    <3>6. \A t \in tasks' : t.kind # "promote"
      BY <2>5, <3>1, <3>3 DEF StageSet
    <3>7. OnePromotion' /\ ~Promotes'
      BY <2>5, <3>1, <3>6 DEF OnePromotion, Promotes
    <3> QED
      BY <2>6, <3>5, <3>7 DEF PromotionOK
  <2> QED
    BY <2>2, <2>7, <2>8
<1>10. CASE \E kind \in JobKinds : PostJob(kind)
  <2>1. PICK kind \in JobKinds : PostJob(kind)
    BY <1>10
  <2>2. /\ UNCHANGED <<rows, run, steps, chords, worker>>
        /\ \A t \in tasks' : t \in tasks \/ t.kind # "promote"
    BY <2>1, PostJobInv
  <2>3. Unpromoted' /\ OneRisk'
    BY <1>5, <2>2 DEF rows
  <2>4. OnePromotion' /\ (Promotes' => Promotes)
    BY <1>1, <2>2 DEF PromotionOK, OnePromotion, Promotes, Promoting, Of
  <2> QED
    BY <1>6, <2>2, <2>3, <2>4 DEF PromotionOK
<1>11. CASE \E w \in Workers : TakeTask(w)
  <2>1. PICK w \in Workers : TakeTask(w)
    BY <1>11
  <2>2. PICK t \in tasks : /\ Others(w) /\ tasks' = tasks \ {t} /\ t \in TaskSet
                           /\ worker'[w].task = t /\ worker'[w].pc = Position[t.kind]
    BY <2>1, TakeInv
  <2>3. UNCHANGED <<rows, run, steps, chords, env>>
    BY <2>1 DEF TakeTask
  <2>4. Position[t.kind] \notin {"assess", "create"}
    BY <2>2, Starts DEF TaskSet, KindSet, StageSet
  <2>5. Unpromoted' /\ OneRisk'
    BY <1>4, <2>2, <2>3, <2>4 DEF rows, Others
  <2>6. \A v \in Workers : Promoting(v)' => Promoting(v) \/ (v = w /\ t.kind = "promote")
    BY <2>2 DEF Promoting, Of, Others
  <2>7. OnePromotion'
    <3>1. OnePromotion /\ \A u \in tasks' : u \in tasks /\ u # t
      BY <1>1, <2>2 DEF PromotionOK
    <3>2. \A x, y \in tasks' : x.kind = "promote" /\ y.kind = "promote" => x = y
      BY <3>1 DEF OnePromotion
    <3>3. \A u \in tasks', v \in Workers : u.kind = "promote" => ~Promoting(v)'
      BY <2>2, <2>6, <3>1 DEF OnePromotion
    <3>4. \A u, v \in Workers : Promoting(u)' /\ Promoting(v)' => u = v
      BY <2>2, <2>6, <3>1 DEF OnePromotion
    <3> QED
      BY <3>2, <3>3, <3>4 DEF OnePromotion
  <2>8. Promotes' => Promotes
    BY <2>2, <2>3, <2>6 DEF Promotes
  <2> QED
    BY <1>6, <2>3, <2>5, <2>7, <2>8 DEF PromotionOK
<1>12. ASSUME NEW w \in Workers, Others(w), worker'[w] = Idle, Pc(w) # "idle",
              UNCHANGED <<rows, run, steps, chords>>, tasks' \in {tasks, tasks \cup {Of(w)}}
       PROVE  PromotionOK'
  <2>1. Idle.pc = "idle" /\ Idle.task.kind = "none"
    BY DEF Idle, NoTask
  <2>2. Unpromoted' /\ OneRisk'
    BY <1>4, <1>12, <2>1 DEF rows, Others
  <2>3. OnePromotion' /\ (Promotes' => Promotes)
    <3>1. ASSUME NEW t \in tasks' PROVE t \in tasks \/ (t = Of(w) /\ tasks' # tasks)
      BY <1>12
    <3>2. \A v \in Workers : Promoting(v)' => v # w /\ Promoting(v)
      BY <1>12, <2>1 DEF Promoting, Of, Others
    <3>3. OnePromotion /\ (Of(w).kind = "promote" <=> Promoting(w))
      BY <1>1 DEF PromotionOK, Promoting
    <3>4. \A x, y \in tasks' : x.kind = "promote" /\ y.kind = "promote" => x = y
      BY <3>1, <3>3 DEF OnePromotion
    <3>5. \A u \in tasks', v \in Workers : u.kind = "promote" => ~Promoting(v)'
      BY <3>1, <3>2, <3>3 DEF OnePromotion
    <3>6. \A u, v \in Workers : Promoting(u)' /\ Promoting(v)' => u = v
      BY <3>2, <3>3 DEF OnePromotion
    <3>7. Promotes' => Promotes
      BY <1>12, <3>1, <3>2, <3>3 DEF Promotes
    <3> QED
      BY <3>4, <3>5, <3>6, <3>7 DEF OnePromotion
  <2> QED
    BY <1>6, <1>12, <2>2, <2>3 DEF PromotionOK
<1>13. CASE \E w \in Workers : Acknowledge(w)
  <2>1. PICK w \in Workers : Acknowledge(w)
    BY <1>13
  <2> QED
    BY <1>12, <2>1, AcknowledgeInv
<1>14. ASSUME NEW w \in Workers, WorkerLost(w) PROVE PromotionOK'
  BY <1>12, <1>14, LostInv
<1>15. ASSUME NEW c \in Controls, NEW d \in Controls, Reextract(c, d) PROVE PromotionOK'
  <2>1. UNCHANGED <<risks, run, chords, tasks, worker>>
    BY <1>15 DEF Reextract
  <2>2. OnePromotion' /\ (Promotes' => Promotes)
    BY <1>1, <2>1 DEF PromotionOK, OnePromotion, Promotes, Promoting, Of
  <2> QED
    BY <1>5, <1>6, <2>1, <2>2 DEF PromotionOK
<1>16. CASE \E w \in Workers : Works(w)
  BY <1>1, <1>2, <1>16, PromotionWork
<1>17. "advances" \notin S
  OBVIOUS
<1> HIDE DEF S
<1> QED
  BY <1>2, <1>7, <1>8, <1>9, <1>10, <1>11, <1>13, <1>14, <1>15, <1>16, <1>17 DEF Happening

\* Nothing is promoted at first.
LEMMA InitPromotion == Init => PromotionInv
<1> SUFFICES ASSUME Init PROVE PromotionOK
  BY DEF PromotionInv
<1>1. \A w \in Workers : worker[w] = Idle
  BY DEF Init
<1>2. Idle.pc = "idle" /\ Idle.task.kind = "none"
  BY DEF Idle, NoTask
<1>3. tasks = {} /\ chords = <<>> /\ run.stage = 0 /\ risks = <<>>
  BY DEF Init
<1>4. OnePromotion /\ ~Promotes /\ Unpromoted
  BY <1>1, <1>2, <1>3 DEF OnePromotion, Promotes, Promoting, Unpromoted, Pc, Of
<1> QED
  BY <1>3, <1>4 DEF PromotionOK, Steady, OneRisk

\* PromotedOnce: an issue is promoted to at most one risk, however often the
\* join of score_risks is repeated (auto_promote_risks), as long as no stage
\* is dispatched again.
THEOREM IssuesArePromotedOnce == Finite => (Spec => []PromotedOnce)
<1> SUFFICES ASSUME Finite PROVE Spec => []PromotedOnce
  OBVIOUS
<1>1. Init => PromotionInv
  BY InitPromotion
<1>2. Inv /\ PromotionInv /\ [Next]_vars => PromotionInv'
  BY PromotionNext
<1>3. PromotionInv => PromotedOnce
  BY DEF PromotionInv, PromotionOK, OneRisk, PromotedOnce
<1>4. Spec => []Inv
  BY InvHolds
<1> QED
  BY <1>1, <1>2, <1>3, <1>4, PTL DEF Spec
-----------------------------------------------------------------------------
(* The batches of a run, without redelivery of what was done.              *)

\* The batches of a stage are disjoint, not empty and cover the ids.
LEMMA PlanDivides ==
  ASSUME Finite, NEW stage \in StageSet, NEW ids, IsFiniteSet(ids)
  PROVE  /\ \A B, C \in Plan(stage, ids) : B = C \/ B \cap C = {}
         /\ stage \in {"classify", "score"} =>
              /\ {} \notin Plan(stage, ids)
              /\ \A x \in ids : \E B \in Plan(stage, ids) : x \in B
<1>1. CASE stage = "issues"
  <2>1. Plan(stage, ids) = Chunks(FirstControls)
    BY <1>1 DEF Plan
  <2> QED
    BY <1>1, <2>1, ChunksDivide DEF Finite
<1>2. CASE stage \in {"classify", "score"}
  <2>1. Plan(stage, ids) = Chunks(ids)
    BY <1>2 DEF Plan
  <2> QED
    BY <2>1, ChunksDivide
<1>3. CASE stage = "discover"
  BY <1>3 DEF Plan
<1> QED
  BY <1>1, <1>2, <1>3 DEF StageSet

\* Two parts of the chord that has not been joined have no id in common.
LEMMA BatchesApart ==
  ASSUME OpenOK, ChordsOK, NEW t \in TaskSet, NEW u \in TaskSet, IsOpen(t), IsOpen(u), t # u
  PROVE  t.kind = u.kind /\ t.chord = u.chord /\ t.ids # u.ids /\ t.ids \cap u.ids = {}
<1>1. t.kind = u.kind /\ t.chord = u.chord /\ t.chord \in DOMAIN chords
  BY DEF IsOpen
<1>2. t.ids # u.ids
  BY <1>1 DEF TaskSet
<1> QED
  BY <1>1, <1>2 DEF IsOpen, ChordsOK

\* A working step closes its own batch only.
LEMMA BatchesWork ==
  ASSUME Inv, Inv', PromotionOK, BatchesOK, NEW w \in Workers, Works(w)
  PROVE  BatchesOK'
<1>1. /\ Live(w) /\ Others(w) /\ tasks' = tasks
      /\ \A v \in Workers : worker'[v].task = worker[v].task
  BY WorkFacts DEF BatchesOK, NoReplace
<1>2. /\ Len(chords') = Len(chords) /\ DOMAIN chords' = DOMAIN chords
      /\ \A c \in DOMAIN chords :
           /\ chords'[c].stage = chords[c].stage /\ chords'[c].joined = chords[c].joined
           /\ chords'[c].open = IF worker'[w].pc = "ack" /\ Of(w).kind # "promote" /\ c = Of(w).chord
                                THEN chords[c].open \ {Of(w).ids} ELSE chords[c].open
      /\ \/ steps' = steps
         \/ /\ worker'[w].pc = "ack"
            /\ \A s \in steps' : s \in steps \/ (s.stage = Of(w).kind /\ s.ids = Of(w).ids)
            /\ Of(w).kind # "promote" /\ Of(w).chord # 0
  BY ChordsWork
<1>3. /\ \A v \in Workers : Live(v) => Of(v) \in TaskSet
      /\ tasks \subseteq TaskSet
  BY AtWork DEF Inv, Types, ControlOK, Live
<1>4. NoReplace'
  BY <1>1 DEF BatchesOK, NoReplace, Of
<1>5. \A v \in Workers : Live(v)' => Live(v)
  BY <1>1 DEF Others, Live, Pc
<1>6. Apart'
  BY <1>1, <1>5 DEF BatchesOK, Apart, Of
<1>7. ASSUME NEW t \in TaskSet, IsOpen(t), t # Of(w) \/ worker'[w].pc # "ack" PROVE IsOpen(t)'
  <2>1. CASE worker'[w].pc = "ack" /\ Of(w).kind # "promote"
    <3>1. IsOpen(Of(w))
      BY <1>1, <2>1 DEF BatchesOK, OpenOK, Promoting
    <3>2. t.ids # Of(w).ids
      BY <1>1, <1>3, <1>7, <2>1, <3>1, BatchesApart DEF BatchesOK
    <3> QED
      BY <1>2, <1>7, <3>2 DEF IsOpen
  <2>2. CASE ~(worker'[w].pc = "ack" /\ Of(w).kind # "promote")
    BY <1>2, <1>7, <2>2 DEF IsOpen
  <2> QED
    BY <2>1, <2>2
<1>8. OpenOK'
  <2>1. ASSUME NEW t \in tasks, t.kind # "promote" PROVE IsOpen(t)'
    <3>1. IsOpen(t) /\ t # Of(w)
      BY <1>1, <2>1 DEF BatchesOK, OpenOK, Apart
    <3> QED
      BY <1>3, <1>7, <3>1
  <2>2. ASSUME NEW v \in Workers, Live(v)', ~Promoting(v)' PROVE IsOpen(Of(v))'
    <3>1. Live(v) /\ ~Promoting(v) /\ Of(v)' = Of(v)
      BY <1>1, <1>5, <2>2 DEF Promoting, Of
    <3>2. IsOpen(Of(v)) /\ Of(v) \in TaskSet
      BY <1>3, <3>1 DEF BatchesOK, OpenOK
    <3>3. Of(v) # Of(w) \/ worker'[w].pc # "ack"
      BY <1>1, <2>2, <3>1 DEF BatchesOK, Apart, Live, Pc
    <3> DEFINE t == Of(v)
    <3>4. IsOpen(t)'
      BY <1>7, <3>1, <3>2, <3>3 DEF IsOpen
    <3> QED
      BY <3>1, <3>4 DEF IsOpen
  <2> QED
    BY <1>1, <2>1, <2>2 DEF OpenOK
<1>9. ASSUME NEW s \in steps', s \notin steps
      PROVE  /\ s.stage = Of(w).kind /\ s.ids = Of(w).ids /\ worker'[w].pc = "ack"
             /\ Of(w).kind # "promote" /\ IsOpen(Of(w))
  BY <1>1, <1>2, <1>9 DEF BatchesOK, OpenOK, Promoting
<1>10. StepsOK'
  <2>1. ASSUME NEW s \in steps' PROVE \E k \in DOMAIN chords : s.stage = chords[k].stage
    <3>1. CASE s \in steps
      BY <3>1 DEF BatchesOK, StepsOK
    <3>2. CASE s \notin steps
      BY <1>9, <3>2 DEF IsOpen
    <3> QED
      BY <3>1, <3>2
  <2>2. DOMAIN chords' = DOMAIN chords /\ \A c \in DOMAIN chords : chords'[c].stage = chords[c].stage
    BY <1>2
  <2>3. ASSUME NEW s \in steps' PROVE \E k \in DOMAIN chords' : s.stage = chords'[k].stage
    BY <2>1, <2>2
  <2> QED
    BY <2>3 DEF StepsOK
<1>11. ChordsOK'
  <2> SUFFICES ASSUME NEW k \in DOMAIN chords
               PROVE  /\ chords'[k].joined => chords'[k].open = {}
                      /\ \A B, C \in chords'[k].open : B = C \/ B \cap C = {}
                      /\ chords'[k].stage \in {"classify", "score"} => {} \notin chords'[k].open
                      /\ \A s \in steps' : s.stage = chords'[k].stage => s.ids \notin chords'[k].open
    BY <1>2 DEF ChordsOK
  <2>1. /\ chords'[k].stage = chords[k].stage /\ chords'[k].joined = chords[k].joined
        /\ chords'[k].open \subseteq chords[k].open
    BY <1>2
  <2>2. ASSUME NEW s \in steps', s.stage = chords'[k].stage PROVE s.ids \notin chords'[k].open
    <3>1. CASE s \in steps
      BY <2>1, <2>2, <3>1 DEF BatchesOK, ChordsOK
    <3>2. CASE s \notin steps
      <4>1. /\ s.ids = Of(w).ids /\ worker'[w].pc = "ack" /\ Of(w).kind # "promote"
            /\ chords[Of(w).chord].stage = chords[k].stage /\ Of(w).chord \in DOMAIN chords
        BY <1>9, <2>1, <2>2, <3>2 DEF IsOpen
      <4>2. DOMAIN chords \subseteq 1..4
        BY DEF PromotionOK, Steady, Promotes, Scored, Inv, Types, ControlOK
      <4>3. Of(w).chord = k
        BY <4>1, <4>2, StagesTyped DEF PromotionOK, Steady
      <4> QED
        BY <1>2, <4>1, <4>3
    <3> QED
      BY <3>1, <3>2
  <2> QED
    BY <2>1, <2>2 DEF BatchesOK, ChordsOK
<1> QED
  BY <1>4, <1>6, <1>8, <1>10, <1>11 DEF BatchesOK
-----------------------------------------------------------------------------
(* The rows of the issues, while no job wipes them.                        *)

\* delete_for_issue, and the insert after it.
Erases(w, i) ==
  /\ Pc(w) = "each" /\ i \in DOMAIN issues
  /\ \A j \in DOMAIN issues \ {i} : issues'[j] = issues[j]
  /\ worker'[w].pc = "write" /\ worker'[w].cur = i /\ worker'[w].ids = worker[w].ids
  /\ Of(w).kind = "classify" =>
       issues'[i].classes = 0 /\ issues'[i].assessments = issues[i].assessments
  /\ Of(w).kind # "classify" =>
       issues'[i].assessments = <<>> /\ issues'[i].classes = issues[i].classes
Adds(w, i) ==
  /\ Pc(w) = "write" /\ i \in DOMAIN issues /\ i \in worker[w].ids /\ After(w, i)
  /\ \A j \in DOMAIN issues \ {i} : issues'[j] = issues[j]
  /\ Of(w).kind = "classify" =>
       issues'[i].classes = issues[i].classes + 1 /\ issues'[i].assessments = issues[i].assessments
  /\ Of(w).kind # "classify" =>
       /\ issues'[i].classes = issues[i].classes
       /\ \E x \in Scores : issues'[i].assessments = Append(issues[i].assessments, x)

\* The rows of issues change by one erased or added row, or by new issues.
LEMMA RowsWork ==
  ASSUME Inv, Finite, NoReplace, AllExist, NEW w \in Workers, Works(w)
  PROVE  /\ AllExist' /\ DOMAIN issues \subseteq DOMAIN issues'
         /\ \A j \in DOMAIN issues' :
              j \in DOMAIN issues \/ (issues'[j].classes = 0 /\ issues'[j].assessments = <<>>)
         /\ \/ (\A j \in DOMAIN issues : issues'[j] = issues[j]) /\ ~DeletePrior(w)
            \/ \E i \in worker[w].ids : Erases(w, i)
            \/ Adds(w, worker[w].cur)
<1>1. ~WipeDerived(w)
  BY StepsOf DEF NoReplace
<1>2. CASE issues' = issues /\ ~DeletePrior(w)
  BY <1>2 DEF AllExist
<1>3. CASE InsertIssues(w) /\ ~Collides(worker[w].fps)
  <2> DEFINE fps == worker[w].fps
             ids == (Len(issues) + 1)..(Len(issues) + Cardinality(fps))
  <2>1. /\ \A i \in DOMAIN issues : i \in DOMAIN issues' /\ issues'[i] = issues[i]
        /\ \A i \in DOMAIN issues' : i \in DOMAIN issues \/ i \in ids
        /\ \A i \in ids : \E f \in fps : issues'[i] = NewIssue(f)
    BY <1>3, Inserted
  <2> HIDE DEF fps, ids
  <2>2. \A f : NewIssue(f).exists /\ NewIssue(f).classes = 0 /\ NewIssue(f).assessments = <<>>
    BY DEF NewIssue
  <2>3. ASSUME NEW j \in DOMAIN issues', j \notin DOMAIN issues
        PROVE  issues'[j].exists /\ issues'[j].classes = 0 /\ issues'[j].assessments = <<>>
    <3>1. PICK f \in fps : issues'[j] = NewIssue(f)
      BY <2>1, <2>3
    <3> QED
      BY <2>2, <3>1
  <2>4. ~DeletePrior(w)
    BY <1>3 DEF InsertIssues, DeletePrior
  <2> QED
    BY <2>1, <2>3, <2>4 DEF AllExist
<1>4. CASE DeletePrior(w)
  <2>1. PICK i \in worker[w].ids :
          /\ i \in DOMAIN issues
          /\ Existing' = Existing /\ DOMAIN issues' = DOMAIN issues
          /\ issues'[i] = Cleared(Of(w).kind, issues[i])
          /\ \A j \in DOMAIN issues \ {i} : issues'[j] = issues[j]
          /\ Moves(w, [worker[w] EXCEPT !.pc = "write", !.cur = i])
    BY <1>4, DeletedPrior
  <2> DEFINE new == [worker[w] EXCEPT !.pc = "write", !.cur = i]
  <2>2. new.pc = "write" /\ new.cur = i /\ new.ids = worker[w].ids
    BY AtWork DEF WorkerSet
  <2>3. Moves(w, new)
    BY <2>1
  <2> HIDE DEF new
  <2>4. worker'[w] = new
    BY <2>3, Moved
  <2>5. issues[i] \in IssueSet
    BY <2>1 DEF Inv, Types, RowsOK
  <2>6. /\ Of(w).kind = "classify" =>
             issues'[i].classes = 0 /\ issues'[i].assessments = issues[i].assessments
        /\ Of(w).kind # "classify" =>
             issues'[i].assessments = <<>> /\ issues'[i].classes = issues[i].classes
        /\ issues'[i].exists = issues[i].exists
    BY <2>1, <2>5, ClearedTyped
  <2>7. Pc(w) = "each"
    BY <1>4 DEF DeletePrior, Pc
  <2>8. Erases(w, i)
    BY <2>1, <2>2, <2>4, <2>6, <2>7 DEF Erases
  <2>9. AllExist'
    BY <2>1, <2>6 DEF AllExist
  <2> QED
    BY <2>1, <2>8, <2>9
<1>5. CASE InsertRow(w) /\ worker[w].cur \in Existing
  <2> DEFINE c == worker[w].cur
  <2>1. /\ c \in DOMAIN issues /\ c \in worker[w].ids /\ After(w, c)
        /\ Existing' = Existing /\ DOMAIN issues' = DOMAIN issues
        /\ \A j \in DOMAIN issues \ {c} : issues'[j] = issues[j]
        /\ issues'[c].classes
             = IF Of(w).kind = "classify" THEN issues[c].classes + 1 ELSE issues[c].classes
        /\ \/ Of(w).kind = "classify" /\ issues'[c].assessments = issues[c].assessments
           \/ Of(w).kind # "classify"
              /\ \E x \in Scores : issues'[c].assessments = Append(issues[c].assessments, x)
    BY <1>5, InsertedRow
  <2>2. Pc(w) = "write"
    BY <1>5 DEF InsertRow, Pc
  <2> HIDE DEF c
  <2>3. Adds(w, c)
    BY <2>1, <2>2 DEF Adds
  <2>4. AllExist'
    BY <2>1 DEF AllExist, Existing
  <2> QED
    BY <2>1, <2>3, <2>4 DEF c
<1> QED
  BY <1>1, <1>2, <1>3, <1>4, <1>5, Written

\* Where a worker gets in the loop over its batch.
LEMMA LoopWork ==
  ASSUME Inv, Inv', NEW w \in Workers, Works(w), worker'[w].pc \in EachPcs, BatchesOK, WithinOK
  PROVE  /\ Pc(w) \in EachPcs /\ ~Promoting(w)
         /\ worker'[w].ids \subseteq Of(w).ids /\ worker'[w].ids # {}
         /\ worker'[w].pc = "write" => DeletePrior(w)
<1>1. /\ Live(w) /\ Others(w) /\ env' = env
      /\ worker'[w].task = worker[w].task
  BY WorkFacts
<1>2. Of(w).kind \in {"classify", "score"}
  <2>1. Fits(worker'[w])
    BY DEF Inv, WorkersOK
  <2> QED
    BY <1>1, <2>1 DEF Fits, Of
<1>3. SelectIssues(w) \/ SkipIssue(w) \/ DeletePrior(w) \/ InsertRow(w)
  BY <1>2, StepsOf
<1>4. Pc(w) \in EachPcs
  BY <1>3 DEF SelectIssues, SkipIssue, DeletePrior, InsertRow, EachPcs, Pc
<1>5. worker[w].ids \subseteq Of(w).ids /\ worker[w].ids # {}
  BY <1>4 DEF WithinOK, Within
<1>6. worker[w] \in WorkerSet
  BY AtWork
<1>7. worker'[w] # Acking(w)
  BY <1>1, AckingTyped DEF EachPcs
<1>8. (\A result \in SUBSET Nat : ~Report(w, result)) /\ ~Raise(w) /\ {} \in SUBSET Nat
  BY <1>1, <1>7, Reports, Raises
<1>9. CASE SelectIssues(w)
  <2> DEFINE named == worker[w].ids \cap Existing
             todo == IF worker[w].task.kind = "classify" THEN Unclassified(named) ELSE named
             new == [worker[w] EXCEPT !.pc = "each", !.ids = todo]
  <2>1. Moves(w, new) /\ todo # {}
    BY <1>5, <1>8, <1>9 DEF SelectIssues
  <2>2. todo \subseteq worker[w].ids
    BY DEF Unclassified
  <2> HIDE DEF todo
  <2>3. new.ids = todo /\ new.pc = "each"
    BY <1>6 DEF WorkerSet
  <2> HIDE DEF new
  <2>4. worker'[w] = new
    BY <2>1, Moved
  <2> QED
    BY <1>2, <1>4, <1>5, <2>1, <2>2, <2>3, <2>4 DEF Promoting
<1>10. ASSUME NEW i, After(w, i) PROVE /\ worker'[w].pc = "each" /\ worker'[w].ids # {}
                                      /\ worker'[w].ids \subseteq worker[w].ids
  <2>1. PICK new : /\ Moves(w, new) /\ new.pc = "each"
                   /\ new.ids = worker[w].ids \ {i} /\ worker[w].ids # {i}
    BY <1>1, <1>8, <1>10, AfterOutcome
  <2> QED
    BY <1>5, <2>1, Moved
<1>11. CASE SkipIssue(w)
  <2>1. PICK i \in worker[w].ids : After(w, i)
    BY <1>11 DEF SkipIssue
  <2> QED
    BY <1>2, <1>4, <1>5, <1>10, <2>1 DEF Promoting
<1>12. CASE InsertRow(w)
  <2>1. After(w, worker[w].cur)
    BY <1>8, <1>12 DEF InsertRow
  <2> QED
    BY <1>2, <1>4, <1>5, <1>10, <2>1 DEF Promoting
<1>13. CASE DeletePrior(w)
  <2>1. PICK i \in worker[w].ids : Moves(w, [worker[w] EXCEPT !.pc = "write", !.cur = i])
    BY <1>13 DEF DeletePrior
  <2> DEFINE new == [worker[w] EXCEPT !.pc = "write", !.cur = i]
  <2>2. new.ids = worker[w].ids
    BY <1>6 DEF WorkerSet
  <2>3. Moves(w, new)
    BY <2>1
  <2> HIDE DEF new
  <2>4. worker'[w] = new
    BY <2>3, Moved
  <2> QED
    BY <1>2, <1>4, <1>5, <1>13, <2>2, <2>4 DEF Promoting
<1> QED
  BY <1>3, <1>9, <1>11, <1>12, <1>13
\* The issue a worker writes is in the batch of no other.
LEMMA RowsApart ==
  ASSUME Inv, BatchesOK, WithinOK, NEW v \in Workers, NEW w \in Workers, v # w,
         Pc(v) \in EachPcs, Pc(w) \in EachPcs
  PROVE  worker[v].ids \cap worker[w].ids = {}
<1>1. Live(v) /\ Live(w) /\ Of(v) \in TaskSet /\ Of(w) \in TaskSet
  BY GroupLive, AtWork DEF Live
<1>2. ~Promoting(v) /\ ~Promoting(w)
  BY AtWork DEF Fits, Promoting, Pc, Of
<1>3. IsOpen(Of(v)) /\ IsOpen(Of(w)) /\ Of(v) # Of(w)
  BY <1>1, <1>2 DEF BatchesOK, OpenOK, Apart
<1>4. Of(v).ids \cap Of(w).ids = {}
  BY <1>1, <1>3, BatchesApart DEF BatchesOK
<1>5. worker[v].ids \subseteq Of(v).ids /\ worker[w].ids \subseteq Of(w).ids
  BY DEF WithinOK, Within
<1> QED
  BY <1>4, <1>5

\* A working step leaves an issue at most one row of a kind.
LEMMA WithinWork ==
  ASSUME Inv, Inv', Finite, BatchesOK, WithinOK, NEW w \in Workers, Works(w)
  PROVE  WithinOK'
<1>1. /\ AllExist' /\ DOMAIN issues \subseteq DOMAIN issues'
      /\ \A j \in DOMAIN issues' :
           j \in DOMAIN issues \/ (issues'[j].classes = 0 /\ issues'[j].assessments = <<>>)
      /\ \/ (\A j \in DOMAIN issues : issues'[j] = issues[j]) /\ ~DeletePrior(w)
         \/ \E i \in worker[w].ids : Erases(w, i)
         \/ Adds(w, worker[w].cur)
  BY RowsWork DEF BatchesOK, WithinOK
<1>2. Live(w) /\ Others(w) /\ \A v \in Workers : worker'[v].task = worker[v].task
  BY WorkFacts
<1>3. Len(<<>>) = 0 /\ \A x : Len(Append(<<>>, x)) = 1
  OBVIOUS
<1>4. \A v \in Workers : Pc(v) \in EachPcs => Of(v).kind \in {"classify", "score"}
  BY AtWork DEF Fits, Pc, Of
<1>5. ASSUME Adds(w, worker[w].cur)
      PROVE  /\ Of(w).kind = "classify" => issues[worker[w].cur].classes = 0
             /\ Of(w).kind # "classify" => issues[worker[w].cur].assessments = <<>>
  <2>1. Pc(w) = "write"
    BY <1>5 DEF Adds
  <2> QED
    BY <1>4, <2>1 DEF WithinOK, Within, EachPcs
<1>6. OneRow'
  <2> SUFFICES ASSUME NEW j \in DOMAIN issues'
               PROVE  issues'[j].classes <= 1 /\ Len(issues'[j].assessments) <= 1
    BY DEF OneRow
  <2>1. CASE j \notin DOMAIN issues
    BY <1>1, <1>3, <2>1
  <2>2. CASE j \in DOMAIN issues /\ issues'[j] = issues[j]
    BY <2>2 DEF WithinOK, OneRow
  <2>3. ASSUME j \in DOMAIN issues, NEW i \in worker[w].ids, Erases(w, i)
        PROVE  issues'[j].classes <= 1 /\ Len(issues'[j].assessments) <= 1
    <3>1. issues[j].classes <= 1 /\ Len(issues[j].assessments) <= 1
      BY <2>3 DEF WithinOK, OneRow
    <3>2. CASE j # i
      BY <2>3, <3>1, <3>2 DEF Erases
    <3>3. CASE j = i
      BY <1>3, <2>3, <3>1, <3>3 DEF Erases
    <3> QED
      BY <3>2, <3>3
  <2>4. ASSUME j \in DOMAIN issues, Adds(w, worker[w].cur)
        PROVE  issues'[j].classes <= 1 /\ Len(issues'[j].assessments) <= 1
    <3> DEFINE c == worker[w].cur
    <3>1. issues[j].classes <= 1 /\ Len(issues[j].assessments) <= 1
      BY <2>4 DEF WithinOK, OneRow
    <3>2. /\ Of(w).kind = "classify" => issues[c].classes = 0
          /\ Of(w).kind # "classify" => issues[c].assessments = <<>>
      BY <1>5, <2>4
    <3>3. CASE j # c
      BY <2>4, <3>1, <3>3 DEF Adds
    <3>4. CASE j = c /\ Of(w).kind = "classify"
      <4>1. issues'[c].classes = 0 + 1 /\ issues'[c].assessments = issues[c].assessments
        BY <2>4, <3>2, <3>4 DEF Adds
      <4> QED
        BY <3>1, <3>4, <4>1
    <3>5. CASE j = c /\ Of(w).kind # "classify"
      <4>1. /\ issues'[c].classes = issues[c].classes
            /\ \E x \in Scores : issues'[c].assessments = Append(<<>>, x)
        BY <2>4, <3>2, <3>5 DEF Adds
      <4>2. Len(issues'[c].assessments) = 1
        BY <1>3, <4>1
      <4> QED
        BY <3>1, <3>5, <4>1, <4>2
    <3> QED
      BY <3>3, <3>4, <3>5
  <2> QED
    BY <1>1, <2>1, <2>2, <2>3, <2>4
<1>7. Within(w)'
  <2>1. ASSUME worker'[w].pc \in EachPcs
        PROVE  worker'[w].ids \subseteq Of(w).ids /\ worker'[w].ids # {}
    BY <2>1, LoopWork
  <2>2. ASSUME worker'[w].pc = "write"
        PROVE  /\ Of(w).kind = "classify" => issues'[worker'[w].cur].classes = 0
               /\ Of(w).kind # "classify" => issues'[worker'[w].cur].assessments = <<>>
    <3>1. DeletePrior(w)
      BY <2>2, LoopWork DEF EachPcs
    <3>2. ~Adds(w, worker[w].cur)
      BY <3>1 DEF DeletePrior, Adds, Pc
    <3>3. PICK i \in worker[w].ids : Erases(w, i)
      BY <1>1, <3>1, <3>2
    <3> QED
      BY <3>3 DEF Erases
  <2> QED
    BY <1>2, <2>1, <2>2 DEF Within, Pc, Of
<1>8. ASSUME NEW v \in Workers, v # w PROVE Within(v)'
  <2>1. worker'[v] = worker[v] /\ Within(v)
    BY <1>2, <1>8 DEF Others, WithinOK
  <2>2. ASSUME Pc(v) = "write"
        PROVE  /\ Of(v).kind = "classify" => issues'[worker[v].cur].classes = 0
               /\ Of(v).kind = "score" => issues'[worker[v].cur].assessments = <<>>
    <3> DEFINE j == worker[v].cur
    <3>1. j \in worker[v].ids /\ j \in DOMAIN issues
      BY <2>2, AtWork DEF Refers, Pc
    <3>2. /\ Of(v).kind = "classify" => issues[j].classes = 0
          /\ Of(v).kind = "score" => issues[j].assessments = <<>>
      BY <2>1, <2>2 DEF Within
    <3> HIDE DEF j
    <3>3. CASE issues'[j] = issues[j]
      BY <3>2, <3>3 DEF j
    <3>4. ASSUME NEW i \in worker[w].ids, Erases(w, i), issues'[j] # issues[j]
          PROVE  /\ Of(v).kind = "classify" => issues'[j].classes = 0
                 /\ Of(v).kind = "score" => issues'[j].assessments = <<>>
      <4>1. j = i
        BY <3>1, <3>4 DEF Erases
      <4> QED
        BY <3>2, <3>4, <4>1 DEF Erases
    <3>5. ASSUME Adds(w, worker[w].cur), issues'[j] # issues[j] PROVE FALSE
      <4>1. j = worker[w].cur /\ j \in worker[w].ids /\ Pc(w) = "write"
        BY <3>1, <3>5 DEF Adds
      <4>2. worker[v].ids \cap worker[w].ids = {}
        BY <1>8, <2>2, <4>1, RowsApart DEF EachPcs
      <4> QED
        BY <3>1, <4>1, <4>2
    <3> QED
      BY <1>1, <3>1, <3>3, <3>4, <3>5 DEF j
  <2> QED
    BY <2>1, <2>2 DEF Within, Pc, Of
<1> QED
  BY <1>1, <1>6, <1>7, <1>8 DEF WithinOK
\* Before the run starts and when a chord is joined, nothing is under way.
LEMMA NothingOpen ==
  ASSUME BatchesOK, ~Promotes, \A k \in DOMAIN chords : k = Len(chords) => chords[k].open = {}
  PROVE  tasks = {} /\ \A w \in Workers : ~Live(w)
<1>1. \A t : ~IsOpen(t)
  BY DEF IsOpen
<1> QED
  BY <1>1 DEF BatchesOK, OpenOK, Promotes

\* The rows stay in order when no issue and no loop changes.
LEMMA WithinStays ==
  ASSUME WithinOK, UNCHANGED issues,
         \A w \in Workers : \/ worker'[w] = worker[w]
                            \/ worker'[w].pc \notin EachPcs
                            \/ /\ worker'[w].pc = "select" /\ worker'[w].ids # {}
                               /\ worker'[w].ids = worker'[w].task.ids
  PROVE  WithinOK'
<1>1. ASSUME NEW w \in Workers PROVE Within(w)'
  <2>1. Within(w)
    BY DEF WithinOK
  <2>2. CASE worker'[w] = worker[w]
    BY <2>1, <2>2 DEF Within, Pc, Of
  <2>3. CASE worker'[w].pc \notin EachPcs
    BY <2>3 DEF Within, EachPcs, Pc
  <2>4. CASE /\ worker'[w].pc = "select" /\ worker'[w].ids # {}
             /\ worker'[w].ids = worker'[w].task.ids
    BY <2>4 DEF Within, Pc, Of
  <2> QED
    BY <2>2, <2>3, <2>4
<1> QED
  BY <1>1 DEF WithinOK, AllExist, OneRow

\* A chord is dispatched when nothing is under way.
LEMMA Dispatched ==
  ASSUME BatchesOK, tasks = {}, \A w \in Workers : ~Live(w), UNCHANGED <<worker, steps>>,
         Len(chords) \in Nat, DOMAIN chords = 1..Len(chords), Finite,
         Len(chords') = Len(chords) + 1, DOMAIN chords' = 1..(Len(chords) + 1),
         \A k \in DOMAIN chords : /\ chords'[k].stage = chords[k].stage
                                  /\ chords'[k].open = chords[k].open
                                  /\ chords'[k].joined => chords[k].open = {},
         NEW stage \in StageSet, NEW ids, IsFiniteSet(ids),
         \A k \in DOMAIN chords : chords[k].stage # stage,
         chords'[Len(chords) + 1] = Chord(stage, ids),
         \A t \in tasks' : t.kind = stage /\ t.chord = Len(chords) + 1 /\ t.ids \in Plan(stage, ids)
  PROVE  BatchesOK'
<1> DEFINE j == Len(chords) + 1
           new == Chord(stage, ids)
<1>1. new.stage = stage /\ new.open = Plan(stage, ids) /\ new.joined = FALSE
  BY ChordOf
<1>2. \A w \in Workers : ~Live(w)'
  BY DEF Live, Pc
<1> HIDE DEF new
<1>3. j \in DOMAIN chords' /\ chords'[j] = new /\ Len(chords') = j
  BY DEF new
<1>4. OpenOK'
  BY <1>1, <1>2, <1>3 DEF OpenOK, IsOpen
<1>5. Apart'
  BY <1>2 DEF Apart
<1>6. NoReplace'
  BY DEF NoReplace, BatchesOK, Of, StageSet
<1>7. \A s \in steps : s.stage # stage
  BY DEF BatchesOK, StepsOK
<1>8. StepsOK'
  <2>1. ASSUME NEW s \in steps PROVE \E k \in DOMAIN chords' : s.stage = chords'[k].stage
    <3>1. PICK k \in DOMAIN chords : s.stage = chords[k].stage
      BY DEF BatchesOK, StepsOK
    <3> QED
      BY <3>1
  <2> QED
    BY <2>1 DEF StepsOK
<1>9. ASSUME NEW k \in DOMAIN chords'
      PROVE  /\ chords'[k].joined => chords'[k].open = {}
             /\ \A B, C \in chords'[k].open : B = C \/ B \cap C = {}
             /\ chords'[k].stage \in {"classify", "score"} => {} \notin chords'[k].open
             /\ \A s \in steps : s.stage = chords'[k].stage => s.ids \notin chords'[k].open
  <2>1. CASE k \in DOMAIN chords
    <3>1. /\ chords'[k].stage = chords[k].stage /\ chords'[k].open = chords[k].open
          /\ chords'[k].joined => chords[k].open = {}
      BY <2>1
    <3> QED
      BY <2>1, <3>1 DEF BatchesOK, ChordsOK
  <2>2. CASE k = j
    <3>1. chords'[k].stage = stage /\ chords'[k].open = Plan(stage, ids) /\ chords'[k].joined = FALSE
      BY <1>1, <1>3, <2>2
    <3> QED
      BY <1>7, <3>1, PlanDivides
  <2> QED
    BY <2>1, <2>2
<1>10. ChordsOK'
  BY <1>9 DEF ChordsOK
<1> QED
  BY <1>4, <1>5, <1>6, <1>8, <1>10 DEF BatchesOK

\* When a chord is joined nothing is under way, and the run is at its stage.
LEMMA QuietJoin ==
  ASSUME Inv, Finite, PromotionOK, BatchesOK, NEW k \in DOMAIN chords, Join(k)
  PROVE  /\ BatchesOK' /\ tasks = {} /\ (\A w \in Workers : ~Live(w)) /\ k = Len(chords)
         /\ UNCHANGED <<rows, steps, worker, env>> /\ k \in 1..4 /\ run.stage = k
         /\ chords[k].stage = Stages[k] /\ chords[k].open = {} /\ ~chords[k].joined
<1>1. chords \in Seq(ChordSet) /\ Len(chords) \in Nat /\ DOMAIN chords = 1..Len(chords)
  BY DEF Inv, Types, ControlOK
<1>2. /\ UNCHANGED <<rows, steps, worker, env>> /\ ~chords[k].joined /\ chords[k].open = {}
      /\ JoinsLast(k) \/ \E n \in 2..4 : JoinsTo(k, n)
  BY JoinCases
<1>3. k = Len(chords) /\ chords[k].stage = Stages[k] /\ Len(chords) \in 1..4
  <2>1. k = Len(chords) /\ chords[k].stage = Stages[k]
    BY <1>1, <1>2 DEF PromotionOK, Steady
  <2>2. Len(chords) <= 4
    BY DEF PromotionOK, Steady, Inv, Types, ControlOK, Promotes, Scored
  <2> QED
    BY <1>1, <2>1, <2>2
<1>4. ~Promotes /\ run.stage = k
  BY <1>2, <1>3 DEF PromotionOK, Scored, Steady, Promotes
<1>5. tasks = {} /\ \A w \in Workers : ~Live(w)
  BY <1>2, <1>3, <1>4, NothingOpen
<1>6. CASE JoinsLast(k)
  <2> DEFINE new == [kind |-> "promote", chord |-> k, ids |-> run.issues]
  <2>1. /\ Len(chords') = Len(chords) /\ DOMAIN chords' = DOMAIN chords
        /\ \A c \in DOMAIN chords :
             /\ chords'[c].stage = chords[c].stage /\ chords'[c].open = chords[c].open
             /\ chords'[c].joined = IF c = k THEN TRUE ELSE chords[c].joined
        /\ tasks' = {new}
    BY <1>2, <1>5, <1>6, JoinsLastSteps
  <2>2. new.kind = "promote"
    OBVIOUS
  <2> HIDE DEF new
  <2>3. \A w \in Workers : ~Live(w)'
    BY <1>2, <1>5 DEF Live, Pc
  <2>4. OpenOK' /\ Apart'
    BY <2>1, <2>2, <2>3 DEF OpenOK, Apart
  <2>5. NoReplace'
    BY <1>2, <2>1, <2>2 DEF NoReplace, BatchesOK, Of
  <2>6. StepsOK'
    <3>1. ASSUME NEW s \in steps PROVE \E c \in DOMAIN chords' : s.stage = chords'[c].stage
      <4>1. PICK c \in DOMAIN chords : s.stage = chords[c].stage
        BY DEF BatchesOK, StepsOK
      <4> QED
        BY <2>1, <4>1
    <3> QED
      BY <1>2, <3>1 DEF StepsOK
  <2>7. ASSUME NEW c \in DOMAIN chords
        PROVE  /\ chords'[c].joined => chords'[c].open = {}
               /\ \A B, C \in chords'[c].open : B = C \/ B \cap C = {}
               /\ chords'[c].stage \in {"classify", "score"} => {} \notin chords'[c].open
               /\ \A s \in steps : s.stage = chords'[c].stage => s.ids \notin chords'[c].open
    <3>1. /\ chords'[c].stage = chords[c].stage /\ chords'[c].open = chords[c].open
          /\ chords'[c].joined => c = k \/ chords[c].joined
      BY <2>1
    <3> QED
      BY <1>2, <3>1 DEF BatchesOK, ChordsOK
  <2>8. ChordsOK'
    BY <1>2, <2>1, <2>7 DEF ChordsOK
  <2> QED
    BY <1>2, <1>3, <1>4, <1>5, <2>4, <2>5, <2>6, <2>8 DEF BatchesOK
<1>7. ASSUME NEW n \in 2..4, JoinsTo(k, n) PROVE BatchesOK'
  <2> DEFINE ids == run'.issues
  <2>1. /\ Stages[n - 1] = chords[k].stage /\ Inv'
        /\ Len(chords') = Len(chords) + 1 /\ DOMAIN chords' = 1..(Len(chords) + 1)
        /\ chords'[Len(chords) + 1] = Chord(Stages[n], ids)
        /\ \A c \in DOMAIN chords :
             /\ chords'[c].stage = chords[c].stage /\ chords'[c].open = chords[c].open
             /\ chords'[c].joined = IF c = k THEN TRUE ELSE chords[c].joined
        /\ tasks' = tasks \cup BatchTasks(Len(chords) + 1, Stages[n], ids)
        /\ \A t \in BatchTasks(Len(chords) + 1, Stages[n], ids) :
             /\ t.kind = Stages[n] /\ t.chord = Len(chords) + 1 /\ t.ids \in Plan(Stages[n], ids)
    BY <1>2, <1>7, JoinsToSteps
  <2>2. n - 1 = k
    <3>1. n - 1 \in 1..4 /\ k \in 1..4 /\ Stages[n - 1] = Stages[k]
      BY <1>3, <2>1
    <3> QED
      BY <3>1, StagesTyped
  <2>3. Stages[n] \in StageSet
    BY StagesTyped
  <2>4. IsFiniteSet(ids)
    <3>1. run'.issues = IF chords[k].stage = "issues" THEN IssuesJoin ELSE run.issues
      BY <1>2, <1>7, JoinsToSteps
    <3> QED
      BY <3>1, RunIdsFinite
  <2>5. ASSUME NEW c \in DOMAIN chords PROVE chords[c].stage # Stages[n]
    <3>1. c \in 1..4 /\ n \in 1..4 /\ c # n /\ chords[c].stage = Stages[c]
      BY <1>1, <1>3, <2>2 DEF PromotionOK, Steady
    <3> QED
      BY <3>1, StagesTyped
  <2>6. ASSUME NEW c \in DOMAIN chords
        PROVE  /\ chords'[c].stage = chords[c].stage /\ chords'[c].open = chords[c].open
               /\ chords'[c].joined => chords[c].open = {}
    <3>1. chords'[c].joined => c = k \/ chords[c].joined
      BY <2>1
    <3> QED
      BY <1>2, <2>1, <3>1 DEF BatchesOK, ChordsOK
  <2> HIDE DEF ids
  <2>7. \A t \in tasks' :
          t.kind = Stages[n] /\ t.chord = Len(chords) + 1 /\ t.ids \in Plan(Stages[n], ids)
    BY <1>5, <2>1
  <2> QED
    BY <1>1, <1>2, <1>5, <2>1, <2>3, <2>4, <2>5, <2>6, <2>7, Dispatched
<1> QED
  BY <1>2, <1>3, <1>4, <1>5, <1>6, <1>7

\* A batch that starts finds its items: it has not been completed before.
LEMMA QuietTake ==
  ASSUME Inv, BatchesOK, WithinOK, NEW w \in Workers, TakeTask(w)
  PROVE  /\ BatchesOK' /\ WithinOK' /\ Others(w) /\ UNCHANGED <<rows, run, steps, chords, env>>
         /\ Pc(w) = "idle"
         /\ \E t \in tasks :
              /\ tasks' = tasks \ {t} /\ t \in TaskSet
              /\ worker'[w].task = t /\ worker'[w].pc = Position[t.kind]
              /\ t.kind # "discover" => worker'[w].ids = t.ids
<1>1. PICK t \in tasks : /\ Others(w) /\ tasks' = tasks \ {t} /\ t \in TaskSet
                         /\ worker'[w].task = t /\ worker'[w].pc = Position[t.kind]
                         /\ worker'[w].ids = ItemIds(t)
  BY TakeInv
<1>2. UNCHANGED <<rows, run, steps, chords, env>> /\ Pc(w) = "idle"
  BY DEF TakeTask, Pc
<1>3. t.kind # "promote" => IsOpen(t)
  BY <1>1 DEF BatchesOK, OpenOK
<1>4. ItemIds(t) = t.ids
  <2>1. ASSUME NEW s \in steps, s.stage = t.kind, s.ids = t.ids PROVE FALSE
    <3>1. CASE t.kind = "promote"
      <4>1. s.stage \in StageSet
        BY DEF Inv, Types, ControlOK, StepSet
      <4> QED
        BY <2>1, <3>1, <4>1 DEF StageSet
    <3>2. CASE t.kind # "promote"
      BY <1>3, <2>1, <3>2 DEF IsOpen, BatchesOK, ChordsOK
    <3> QED
      BY <3>1, <3>2
  <2> QED
    BY <2>1 DEF ItemIds
<1>5. t.kind # "replace" /\ NoReplace'
  BY <1>1 DEF BatchesOK, NoReplace, Of, Others
<1>6. \A v \in Workers : Live(v)' => v = w \/ (Live(v) /\ Of(v)' = Of(v))
  BY <1>1 DEF Others, Live, Pc, Of
<1>7. Of(w)' = t
  BY <1>1 DEF Of
<1>8. ASSUME NEW u, IsOpen(u) PROVE IsOpen(u)'
  BY <1>2, <1>8 DEF IsOpen
<1>9. OpenOK'
  <2>1. \A u \in tasks' : u.kind # "promote" => IsOpen(u)'
    BY <1>1, <1>8 DEF BatchesOK, OpenOK
  <2>2. ASSUME NEW v \in Workers, Live(v)', ~Promoting(v)' PROVE IsOpen(Of(v))'
    <3>1. CASE v = w
      BY <1>2, <1>3, <1>7, <2>2, <3>1 DEF Promoting, IsOpen
    <3>2. CASE v # w
      <4>1. Live(v) /\ Of(v)' = Of(v) /\ ~Promoting(v)
        BY <1>6, <2>2, <3>2 DEF Promoting
      <4>2. IsOpen(Of(v))
        BY <4>1 DEF BatchesOK, OpenOK
      <4> QED
        BY <1>2, <4>1, <4>2 DEF IsOpen
    <3> QED
      BY <3>1, <3>2
  <2> QED
    BY <2>1, <2>2 DEF OpenOK
<1>10. Apart'
  <2>1. \A v \in Workers : Live(v)' => Of(v)' \notin tasks'
    BY <1>1, <1>6, <1>7 DEF BatchesOK, Apart
  <2>2. \A u, v \in Workers : Live(u)' /\ Live(v)' /\ Of(u)' = Of(v)' => u = v
    BY <1>1, <1>6, <1>7 DEF BatchesOK, Apart
  <2> QED
    BY <2>1, <2>2 DEF Apart
<1>11. ChordsOK' /\ StepsOK'
  BY <1>2 DEF BatchesOK, ChordsOK, StepsOK
<1>12. BatchesOK'
  BY <1>5, <1>9, <1>10, <1>11 DEF BatchesOK
<1>13. \/ worker'[w].pc \notin EachPcs
       \/ /\ worker'[w].pc = "select" /\ worker'[w].ids # {}
          /\ worker'[w].ids = worker'[w].task.ids
  <2>1. CASE t.kind \in {"classify", "score"}
    <3>1. t.ids # {}
      <4>1. /\ t.chord \in DOMAIN chords /\ t.kind = chords[t.chord].stage
            /\ t.ids \in chords[t.chord].open
        BY <1>3, <2>1 DEF IsOpen
      <4>2. {} \notin chords[t.chord].open
        BY <2>1, <4>1 DEF BatchesOK, ChordsOK
      <4> QED
        BY <4>1, <4>2
    <3>2. worker'[w].pc = "select"
      BY <1>1, <2>1, Starts
    <3> QED
      BY <1>1, <1>4, <3>1, <3>2
  <2>2. CASE t.kind \notin {"classify", "score"}
    BY <1>1, <2>2, Starts DEF TaskSet, KindSet, StageSet, EachPcs
  <2> QED
    BY <2>1, <2>2
<1>14. WithinOK'
  BY <1>1, <1>2, <1>13, WithinStays DEF rows, Others
<1> QED
  BY <1>1, <1>2, <1>4, <1>12, <1>14

\* A worker is free again: it has acknowledged its task, or was lost.
LEMMA QuietFreed ==
  ASSUME Inv, BatchesOK, WithinOK, NEW w \in Workers, Others(w), worker'[w] = Idle,
         UNCHANGED <<rows, run, steps, chords>>, Pc(w) # "idle", OnePromotion,
         \/ Pc(w) = "ack" /\ tasks' = tasks
         \/ Pc(w) # "ack" /\ tasks' = tasks \cup {Of(w)}
  PROVE  BatchesOK' /\ WithinOK'
<1>1. Idle.pc = "idle" /\ Idle.task.kind = "none"
  BY DEF Idle, NoTask
<1>2. \A v \in Workers : Live(v)' => v # w /\ Live(v) /\ Of(v)' = Of(v)
  BY <1>1 DEF Others, Live, Pc, Of
<1>3. NoReplace'
  BY <1>1 DEF BatchesOK, NoReplace, Others, Of
<1>4. \A u \in tasks' : u \in tasks \/ (u = Of(w) /\ Live(w))
  BY DEF Live
<1>5. ASSUME NEW u, IsOpen(u) PROVE IsOpen(u)'
  BY <1>5 DEF IsOpen
<1>6. OpenOK'
  <2>1. ASSUME NEW u \in tasks', u.kind # "promote" PROVE IsOpen(u)'
    <3>1. IsOpen(u)
      BY <1>4, <2>1 DEF BatchesOK, OpenOK, Promoting
    <3> QED
      BY <1>5, <3>1
  <2>2. ASSUME NEW v \in Workers, Live(v)', ~Promoting(v)' PROVE IsOpen(Of(v))'
    <3>1. Live(v) /\ Of(v)' = Of(v) /\ ~Promoting(v)
      BY <1>2, <2>2 DEF Promoting
    <3>2. IsOpen(Of(v))
      BY <3>1 DEF BatchesOK, OpenOK
    <3> QED
      BY <3>1, <3>2 DEF IsOpen
  <2> QED
    BY <2>1, <2>2 DEF OpenOK
<1>7. Apart'
  BY <1>2, <1>4 DEF BatchesOK, Apart
<1>8. ChordsOK' /\ StepsOK'
  BY DEF BatchesOK, ChordsOK, StepsOK
<1>9. WithinOK'
  BY <1>1, WithinStays DEF rows, Others, EachPcs
<1> QED
  BY <1>3, <1>6, <1>7, <1>8, <1>9 DEF BatchesOK

\* Every step keeps the batches apart, without redelivery of what was done.
LEMMA QuietNext ==
  ASSUME Inv, Finite, PromotionInv, QuietInv, [Next]_vars
  PROVE  QuietInv'
<1> DEFINE S == {"crashes", "extracts"}
<1> SUFFICES ASSUME \A e \in FaultKinds \ S : env'[e] = 0
             PROVE  BatchesOK' /\ WithinOK'
  BY DEF QuietInv, Quiet, Only
<1>1. Quiet
  BY OnlyBefore DEF Quiet
<1>2. BatchesOK /\ WithinOK
  BY <1>1 DEF QuietInv
<1>3. PromotionOK
  BY <1>1 DEF PromotionInv, Quiet, Only
<1>4. Inv' /\ Happening(S)
  BY InvNext, Cases
<1>5. chords \in Seq(ChordSet) /\ Len(chords) \in Nat /\ DOMAIN chords = 1..Len(chords)
  BY DEF Inv, Types, ControlOK
<1>6. ASSUME UNCHANGED <<issues, steps, chords, tasks, worker>> PROVE BatchesOK' /\ WithinOK'
  <2>1. WithinOK'
    BY <1>2, <1>6, WithinStays
  <2>2. NoReplace' /\ OpenOK' /\ Apart'
    BY <1>2, <1>6 DEF BatchesOK, NoReplace, OpenOK, Apart, IsOpen, Live, Promoting, Pc, Of
  <2>3. ChordsOK' /\ StepsOK'
    BY <1>2, <1>6 DEF BatchesOK, ChordsOK, StepsOK
  <2> QED
    BY <2>1, <2>2, <2>3 DEF BatchesOK
<1>7. CASE UNCHANGED vars
  BY <1>6, <1>7 DEF vars, rows
<1>8. CASE StartRun
  <2>1. /\ run.stage = 0 /\ chords' = <<Chord("issues", {})>>
        /\ tasks' = tasks \cup BatchTasks(1, "issues", {})
        /\ \A t \in BatchTasks(1, "issues", {}) :
             t.kind = "issues" /\ t.chord = 1 /\ t.ids \in Plan("issues", {})
        /\ UNCHANGED <<rows, steps, worker, env>>
    BY <1>8, StartRunSteps
  <2>2. Len(chords) = 0 /\ ~Promotes
    BY <1>3, <1>5, <2>1 DEF PromotionOK, Steady, Scored
  <2>3. tasks = {} /\ \A w \in Workers : ~Live(w)
    BY <1>2, <1>5, <2>2, NothingOpen
  <2>4. DOMAIN chords = {} /\ Len(chords') = 1 /\ DOMAIN chords' = 1..1
        /\ chords'[1] = Chord("issues", {})
    BY <1>5, <2>1, <2>2
  <2>5. "issues" \in StageSet /\ IsFiniteSet({})
    BY FS_EmptySet DEF StageSet
  <2>6. BatchesOK'
    <3>1. Len(chords') = Len(chords) + 1 /\ DOMAIN chords' = 1..(Len(chords) + 1)
          /\ Len(chords) + 1 = 1
      BY <2>2, <2>4
    <3>2. \A t \in tasks' : t.kind = "issues" /\ t.chord = Len(chords) + 1 /\ t.ids \in Plan("issues", {})
      BY <2>1, <2>3, <3>1
    <3> QED
      BY <1>2, <1>5, <2>1, <2>3, <2>4, <2>5, <3>1, <3>2, Dispatched
  <2>7. WithinOK'
    BY <1>2, <2>1, WithinStays DEF rows
  <2> QED
    BY <2>6, <2>7
<1>9. ASSUME NEW k \in DOMAIN chords, Join(k) PROVE BatchesOK' /\ WithinOK'
  <2>1. BatchesOK' /\ UNCHANGED <<rows, steps, worker, env>>
    BY <1>2, <1>3, <1>9, QuietJoin
  <2>2. WithinOK'
    BY <1>2, <2>1, WithinStays DEF rows
  <2> QED
    BY <2>1, <2>2
<1>10. ASSUME NEW w \in Workers, TakeTask(w) PROVE BatchesOK' /\ WithinOK'
  BY <1>2, <1>10, QuietTake
<1>11. ASSUME NEW w \in Workers, Acknowledge(w) PROVE BatchesOK' /\ WithinOK'
  <2>1. /\ Others(w) /\ worker'[w] = Idle /\ Pc(w) = "ack" /\ tasks' = tasks
        /\ UNCHANGED <<rows, run, steps, chords>>
    BY <1>11, AcknowledgeInv
  <2> QED
    BY <1>2, <1>3, <2>1, QuietFreed DEF PromotionOK
<1>12. ASSUME NEW w \in Workers, WorkerLost(w), (IF Pc(w) = "ack" THEN "unacked" ELSE "crashes") \in S
       PROVE  BatchesOK' /\ WithinOK'
  <2>1. Pc(w) # "ack"
    BY <1>12
  <2>2. /\ Others(w) /\ worker'[w] = Idle /\ Pc(w) # "idle" /\ tasks' = tasks \cup {Of(w)}
        /\ UNCHANGED <<rows, run, steps, chords>>
    BY <1>12, LostInv
  <2> QED
    BY <1>2, <1>3, <2>1, <2>2, QuietFreed DEF PromotionOK
<1>13. ASSUME NEW c \in Controls, NEW d \in Controls, Reextract(c, d) PROVE BatchesOK' /\ WithinOK'
  BY <1>6, <1>13 DEF Reextract
<1>14. ASSUME NEW w \in Workers, Works(w) PROVE BatchesOK' /\ WithinOK'
  BY <1>2, <1>3, <1>4, <1>14, BatchesWork, WithinWork
<1>15. "jobs" \notin S /\ "advances" \notin S
  OBVIOUS
<1> HIDE DEF S
<1> QED
  BY <1>4, <1>7, <1>8, <1>9, <1>10, <1>11, <1>12, <1>13, <1>14, <1>15 DEF Happening

\* The promotion, the batches and what they write stay in order, together.
LEMMA LayersHold == Finite => (Spec => [](Inv /\ PromotionInv /\ QuietInv))
<1> SUFFICES ASSUME Finite PROVE Spec => [](Inv /\ PromotionInv /\ QuietInv)
  OBVIOUS
<1>1. Init => Inv /\ PromotionInv
  BY InitInv, InitPromotion
<1>2. Init => QuietInv
  <2> SUFFICES ASSUME Init PROVE BatchesOK /\ WithinOK
    BY DEF QuietInv
  <2>1. \A w \in Workers : worker[w] = Idle
    BY DEF Init
  <2>2. Idle.pc = "idle" /\ Idle.task.kind = "none"
    BY DEF Idle, NoTask
  <2>3. tasks = {} /\ chords = <<>> /\ steps = {} /\ issues = <<>>
    BY DEF Init
  <2>4. NoReplace /\ OpenOK /\ Apart
    BY <2>1, <2>2, <2>3 DEF NoReplace, OpenOK, Apart, Live, Pc, Of
  <2>5. ChordsOK /\ StepsOK
    BY <2>3 DEF ChordsOK, StepsOK
  <2>6. WithinOK
    BY <2>1, <2>2, <2>3 DEF WithinOK, AllExist, OneRow, Within, EachPcs, Pc
  <2> QED
    BY <2>4, <2>5, <2>6 DEF BatchesOK
<1>3. Inv /\ PromotionInv /\ QuietInv /\ [Next]_vars => (Inv /\ PromotionInv /\ QuietInv)'
  BY InvNext, PromotionNext, QuietNext
<1> QED
  BY <1>1, <1>2, <1>3, PTL DEF Spec

\* OneRowPerIssue: an issue has at most one classification and one
\* assessment, even if workers are lost between delete_for_issue and the
\* insert after it (classify_issues, score_risks).
THEOREM IssuesHaveOneRow == Finite => (Spec => []OneRowPerIssue)
<1> SUFFICES ASSUME Finite PROVE Spec => []OneRowPerIssue
  OBVIOUS
<1>1. QuietInv => OneRowPerIssue
  BY DEF QuietInv, Quiet, WithinOK, OneRow, OneRowPerIssue
<1> QED
  BY <1>1, LayersHold, PTL
-----------------------------------------------------------------------------
(* What a run that ended has done.                                         *)

\* Once the promotion is dispatched, nothing else is under way.
LEMMA NoneOpen ==
  ASSUME PromotionOK, BatchesOK, Promotes, Len(chords) \in Nat, DOMAIN chords = 1..Len(chords)
  PROVE  /\ \A t : ~IsOpen(t)
         /\ \A t \in tasks : t.kind = "promote"
         /\ \A w \in Workers : Live(w) => Promoting(w)
<1>1. chords[4].open = {} /\ Len(chords) = 4 /\ 4 \in DOMAIN chords
  BY DEF PromotionOK, Scored, BatchesOK, ChordsOK
<1>2. \A t : ~IsOpen(t)
  BY <1>1 DEF IsOpen
<1> QED
  BY <1>2 DEF BatchesOK, OpenOK

\* A batch of classify_issues drops an issue only when it is classified.
LEMMA ClassifyWork ==
  ASSUME Inv, Inv', Finite, UseLlmFallback, BatchesOK, WithinOK, NEW w \in Workers, Works(w),
         Of(w).kind = "classify", Of(w).ids \subseteq DOMAIN issues,
         \A i \in Of(w).ids : i \in worker[w].ids \/ issues[i].classes = 1
  PROVE  /\ \A i \in Of(w).ids : \/ worker'[w].pc \in EachPcs /\ i \in worker'[w].ids
                                 \/ issues'[i].classes = 1
         /\ \A i \in DOMAIN issues \ Of(w).ids : issues'[i] = issues[i]
<1>1. SelectIssues(w) \/ SkipIssue(w) \/ DeletePrior(w) \/ InsertRow(w)
  BY StepsOf
<1>2. Pc(w) \in EachPcs
  BY <1>1 DEF SelectIssues, SkipIssue, DeletePrior, InsertRow, EachPcs, Pc
<1>3. worker[w].ids \subseteq Of(w).ids /\ worker[w].ids # {} /\ worker[w].ids \subseteq Existing
  BY <1>2 DEF WithinOK, Within, AllExist, Existing
<1>4. worker[w] \in WorkerSet
  BY AtWork
<1>5. \A i \in DOMAIN issues : issues[i].classes \in Nat /\ issues[i].classes <= 1
  <2> SUFFICES ASSUME NEW i \in DOMAIN issues
               PROVE  issues[i].classes \in Nat /\ issues[i].classes <= 1
    OBVIOUS
  <2>1. issues[i] \in IssueSet
    BY DEF Inv, Types, RowsOK
  <2> QED
    BY <2>1 DEF IssueSet, WithinOK, OneRow
<1>6. CASE SelectIssues(w)
  <2> DEFINE todo == Unclassified(worker[w].ids)
             new == [worker[w] EXCEPT !.pc = "each", !.ids = todo]
  <2>1. issues' = issues /\ (todo # {} => Moves(w, new))
    <3>1. worker[w].ids \cap Existing = worker[w].ids
      BY <1>3
    <3> QED
      BY <1>3, <1>6, <3>1 DEF SelectIssues, rows, Of
  <2>2. \A i \in worker[w].ids : i \in todo \/ issues[i].classes = 1
    BY <1>3, <1>5 DEF Unclassified, Existing
  <2> HIDE DEF todo
  <2>3. new.ids = todo /\ new.pc = "each"
    BY <1>4 DEF WorkerSet
  <2> HIDE DEF new
  <2>4. todo # {} => worker'[w] = new
    BY <2>1, Moved
  <2>5. ASSUME NEW i \in Of(w).ids
        PROVE  \/ worker'[w].pc \in EachPcs /\ i \in worker'[w].ids
               \/ issues'[i].classes = 1
    BY <2>1, <2>2, <2>3, <2>4 DEF EachPcs
  <2> QED
    BY <2>1, <2>5
<1>7. CASE SkipIssue(w)
  BY <1>7 DEF SkipIssue, FallsBack, Of
<1>8. CASE DeletePrior(w)
  <2>1. ~Adds(w, worker[w].cur)
    BY <1>8 DEF DeletePrior, Adds, Pc
  <2>2. PICK i \in worker[w].ids : Erases(w, i)
    BY <1>8, <2>1, RowsWork DEF BatchesOK, WithinOK
  <2>3. worker'[w].pc \in EachPcs /\ worker'[w].ids = worker[w].ids
        /\ \A j \in DOMAIN issues \ {i} : issues'[j] = issues[j]
    BY <2>2 DEF Erases, EachPcs
  <2> QED
    BY <1>3, <2>3
<1>9. CASE InsertRow(w)
  <2> DEFINE c == worker[w].cur
  <2>1. Pc(w) = "write"
    BY <1>9 DEF InsertRow, Pc
  <2>2. c \in worker[w].ids /\ c \in Existing
    BY <1>3, <2>1, AtWork DEF Refers, Pc
  <2>3. /\ c \in DOMAIN issues /\ After(w, c)
        /\ \A j \in DOMAIN issues \ {c} : issues'[j] = issues[j]
        /\ issues'[c].classes = issues[c].classes + 1
    BY <1>9, <2>2, InsertedRow
  <2>4. issues'[c].classes = 1
    BY <2>1, <2>3 DEF WithinOK, Within
  <2> HIDE DEF c
  <2>5. ASSUME NEW i \in Of(w).ids, i # c
        PROVE  \/ worker'[w].pc \in EachPcs /\ i \in worker'[w].ids
               \/ issues'[i].classes = 1
    <3>1. CASE i \notin worker[w].ids
      BY <2>3, <2>5, <3>1
    <3>2. CASE i \in worker[w].ids
      <4> DEFINE new == [worker[w] EXCEPT !.pc = "each", !.ids = @ \ {c}, !.cur = 0]
      <4>1. new.pc = "each" /\ new.ids = worker[w].ids \ {c}
        BY <1>4 DEF WorkerSet
      <4>2. Moves(w, new)
        BY <2>3, <2>5, <3>2 DEF After
      <4> HIDE DEF new
      <4>3. worker'[w] = new
        BY <4>2, Moved
      <4> QED
        BY <2>5, <3>2, <4>1, <4>3 DEF EachPcs
    <3> QED
      BY <3>1, <3>2
  <2> QED
    BY <1>3, <2>2, <2>3, <2>4, <2>5
<1> QED
  BY <1>1, <1>6, <1>7, <1>8, <1>9

\* A working step leaves every issue of the run classified or in an open batch.
LEMMA ClassesWork ==
  ASSUME Inv, Inv', Finite, PromotionOK, BatchesOK, WithinOK, ClassesOK, NEW w \in Workers, Works(w)
  PROVE  ClassesOK'
<1> SUFFICES ASSUME UseLlmFallback
             PROVE  /\ Len(chords') = 2 =>
                         /\ \A B \in chords'[2].open : B \subseteq run'.issues
                         /\ \A i \in run'.issues : \/ issues'[i].classes = 1
                                                   \/ \E B \in chords'[2].open : i \in B
                    /\ Len(chords') > 2 => \A i \in run'.issues : issues'[i].classes = 1
                    /\ \A v \in Workers : worker'[v].pc \in EachPcs /\ worker'[v].task.kind = "classify" =>
                         \A i \in worker'[v].task.ids : i \in worker'[v].ids \/ issues'[i].classes = 1
  BY DEF ClassesOK, Pc, Of
<1>1. /\ Live(w) /\ Others(w) /\ run'.issues = run.issues
      /\ \A v \in Workers : worker'[v].task = worker[v].task
  BY WorkFacts
<1>2. /\ Len(chords') = Len(chords) /\ DOMAIN chords' = DOMAIN chords
      /\ \A c \in DOMAIN chords :
           chords'[c].open = IF worker'[w].pc = "ack" /\ Of(w).kind # "promote" /\ c = Of(w).chord
                             THEN chords[c].open \ {Of(w).ids} ELSE chords[c].open
  BY ChordsWork
<1>3. /\ run.issues \subseteq DOMAIN issues /\ Len(chords) \in Nat /\ DOMAIN chords = 1..Len(chords)
  BY RunIdsFinite DEF Inv, Types, ControlOK
<1>4. ASSUME NEW v \in Workers, Live(v), ~Promoting(v)
      PROVE  /\ IsOpen(Of(v)) /\ Of(v) \in TaskSet
             /\ Of(v).kind = "classify" <=> Len(chords) = 2
             /\ Of(v).kind = "classify" => Of(v).ids \subseteq run.issues
  <2>1. IsOpen(Of(v)) /\ Of(v) \in TaskSet
    BY <1>4, AtWork DEF BatchesOK, OpenOK, Live
  <2>2. Of(v).chord = Len(chords) /\ Of(v).chord \in DOMAIN chords
        /\ Of(v).kind = Stages[Len(chords)] /\ Of(v).ids \in chords[Len(chords)].open
    BY <2>1 DEF IsOpen, PromotionOK, Steady
  <2>3. Len(chords) \in 1..4 /\ 2 \in 1..4
    BY <1>3, <2>2 DEF PromotionOK, Steady, Inv, Types, ControlOK, Promotes, Scored
  <2>4. Of(v).kind = "classify" <=> Len(chords) = 2
    BY <2>2, <2>3, StagesTyped
  <2> QED
    BY <2>1, <2>2, <2>4 DEF ClassesOK
<1>5. Promoting(w) => Len(chords) = 4
  BY DEF PromotionOK, Promotes, Scored
<1>6. ASSUME NEW v \in Workers, worker'[v].pc \in EachPcs, v # w
      PROVE  worker[v] = worker'[v] /\ Pc(v) \in EachPcs /\ Live(v) /\ ~Promoting(v)
  <2>1. worker[v] = worker'[v] /\ Pc(v) \in EachPcs
    BY <1>1, <1>6 DEF Others, Pc
  <2> QED
    BY <2>1, AtWork DEF Fits, Promoting, Live, EachPcs, Pc, Of
<1>7. CASE Of(w).kind # "classify"
  <2>1. Len(chords) # 2
    BY <1>1, <1>4, <1>5, <1>7
  <2>2. \A i \in DOMAIN issues : i \in DOMAIN issues' /\ issues'[i].classes = issues[i].classes
    <3>1. /\ DOMAIN issues \subseteq DOMAIN issues'
          /\ \/ \A j \in DOMAIN issues : issues'[j] = issues[j]
             \/ \E i \in worker[w].ids : Erases(w, i)
             \/ Adds(w, worker[w].cur)
      BY RowsWork DEF BatchesOK, WithinOK
    <3>2. ASSUME NEW i \in worker[w].ids, Erases(w, i), NEW j \in DOMAIN issues
          PROVE  issues'[j].classes = issues[j].classes
      BY <1>7, <3>2 DEF Erases
    <3>3. ASSUME Adds(w, worker[w].cur), NEW j \in DOMAIN issues
          PROVE  issues'[j].classes = issues[j].classes
      BY <1>7, <3>3 DEF Adds
    <3> QED
      BY <3>1, <3>2, <3>3
  <2>3. Len(chords) > 2 => \A i \in run.issues : issues'[i].classes = 1
    BY <1>3, <2>2 DEF ClassesOK
  <2>4. \A v \in Workers : ~(worker'[v].pc \in EachPcs /\ worker'[v].task.kind = "classify")
    <3> SUFFICES ASSUME NEW v \in Workers, worker'[v].pc \in EachPcs,
                        worker'[v].task.kind = "classify"
                 PROVE  FALSE
      OBVIOUS
    <3>1. v # w
      BY <1>1, <1>7 DEF Of
    <3> QED
      BY <1>4, <1>6, <2>1, <3>1 DEF Of
  <2> QED
    BY <1>1, <1>2, <2>1, <2>3, <2>4
<1>8. CASE Of(w).kind = "classify"
  <2>1. /\ IsOpen(Of(w)) /\ Of(w) \in TaskSet /\ Len(chords) = 2 /\ Of(w).ids \subseteq run.issues
    BY <1>1, <1>4, <1>8 DEF Promoting
  <2>2. Pc(w) \in EachPcs
    <3>1. SelectIssues(w) \/ SkipIssue(w) \/ DeletePrior(w) \/ InsertRow(w)
      BY <1>8, StepsOf
    <3> QED
      BY <3>1 DEF SelectIssues, SkipIssue, DeletePrior, InsertRow, EachPcs, Pc
  <2>3. \A i \in Of(w).ids : i \in worker[w].ids \/ issues[i].classes = 1
    BY <1>8, <2>2 DEF ClassesOK
  <2>4. /\ \A i \in Of(w).ids : \/ worker'[w].pc \in EachPcs /\ i \in worker'[w].ids
                                \/ issues'[i].classes = 1
        /\ \A i \in DOMAIN issues \ Of(w).ids : issues'[i] = issues[i]
    BY <1>3, <1>8, <2>1, <2>3, ClassifyWork
  <2>5. 2 \in DOMAIN chords /\ Of(w).chord = 2 /\ Of(w).ids \in chords[2].open
    BY <1>3, <2>1 DEF IsOpen
  <2>6. /\ worker'[w].pc = "ack" => chords'[2].open = chords[2].open \ {Of(w).ids}
        /\ worker'[w].pc # "ack" => chords'[2].open = chords[2].open
    BY <1>2, <1>8, <2>5
  <2>7. \A B \in chords'[2].open : B \subseteq run.issues
    BY <2>1, <2>6 DEF ClassesOK
  <2>8. ASSUME NEW i \in run.issues
        PROVE  issues'[i].classes = 1 \/ \E B \in chords'[2].open : i \in B
    <3>1. CASE i \in Of(w).ids
      BY <2>4, <2>5, <2>6, <3>1 DEF EachPcs
    <3>2. CASE i \notin Of(w).ids
      <4>1. issues'[i] = issues[i]
        BY <1>3, <2>4, <3>2
      <4>2. issues[i].classes = 1 \/ \E B \in chords[2].open : i \in B
        BY <2>1 DEF ClassesOK
      <4> QED
        BY <2>6, <3>2, <4>1, <4>2
    <3> QED
      BY <3>1, <3>2
  <2>9. ASSUME NEW v \in Workers, worker'[v].pc \in EachPcs, worker'[v].task.kind = "classify",
               NEW i \in worker'[v].task.ids
        PROVE  i \in worker'[v].ids \/ issues'[i].classes = 1
    <3>1. CASE v = w
      BY <1>1, <2>4, <2>9, <3>1 DEF Of
    <3>2. CASE v # w
      <4>1. worker[v] = worker'[v] /\ Pc(v) \in EachPcs /\ Live(v) /\ ~Promoting(v)
        BY <1>6, <2>9, <3>2
      <4>2. IsOpen(Of(v)) /\ Of(v) \in TaskSet /\ Of(v).ids \subseteq run.issues /\ i \in Of(v).ids
        BY <1>4, <2>9, <4>1 DEF Of
      <4>3. Of(v) # Of(w)
        BY <1>1, <3>2, <4>1 DEF BatchesOK, Apart
      <4>4. Of(v).ids \cap Of(w).ids = {}
        BY <2>1, <4>2, <4>3, BatchesApart DEF BatchesOK
      <4>5. issues'[i] = issues[i]
        BY <1>3, <2>4, <4>2, <4>4
      <4>6. i \in worker[v].ids \/ issues[i].classes = 1
        BY <2>9, <4>1, <4>2 DEF ClassesOK, Of
      <4> QED
        BY <4>1, <4>5, <4>6
    <3> QED
      BY <3>1, <3>2
  <2> QED
    BY <1>1, <1>2, <2>1, <2>7, <2>8, <2>9
<1> QED
  BY <1>7, <1>8
\* auto_promote_risks is alone when it runs.
LEMMA AlonePromoting ==
  ASSUME Inv, PromotionOK, BatchesOK, Promoted, NEW w \in Workers, Live(w), Promoting(w)
  PROVE  /\ tasks = {} /\ run.stage # 5 /\ risks = <<>> /\ AlreadyPromoted = {}
         /\ \A v \in Workers \ {w} : ~Live(v)
<1>1. Len(chords) \in Nat /\ DOMAIN chords = 1..Len(chords)
  BY DEF Inv, Types, ControlOK
<1>2. (\A t \in tasks : t.kind = "promote") /\ \A v \in Workers : Live(v) => Promoting(v)
  BY <1>1, NoneOpen DEF Promotes
<1>3. tasks = {} /\ \A v \in Workers \ {w} : ~Live(v)
  BY <1>2 DEF PromotionOK, OnePromotion
<1>4. run.stage # 5 /\ risks = <<>>
  BY DEF Promoted
<1>5. AlreadyPromoted = {}
  BY <1>4 DEF AlreadyPromoted
<1> QED
  BY <1>3, <1>4, <1>5

\* The last step of the promotion: what it leaves.
Ends(w) ==
  /\ worker'[w].pc = "ack"
  /\ \A r \in DOMAIN risks' : risks'[r].rating = RatingOf(risks'[r].issue)
  /\ \A i \in run.issues : issues[i].assessments # <<>> <=> i \in AlreadyPromoted'

\* The steps of auto_promote_risks, by what they leave.
LEMMA PromotingWork ==
  ASSUME Inv, Inv', PromotionOK, BatchesOK, WithinOK, Promoted, NEW w \in Workers, Works(w),
         Promoting(w)
  PROVE  /\ issues' = issues
         /\ \/ Ends(w) /\ run'.stage = 5
            \/ /\ risks' = risks /\ run' = run
               /\ \/ worker'[w].pc = "assess" /\ worker'[w].ids = run.issues
                  \/ /\ worker'[w].pc = "create"
                     /\ worker'[w].out =
                          {Assessment(i) : i \in {j \in run.issues : issues[j].assessments # <<>>}}
<1>1. Live(w) /\ env' = env
  BY WorkFacts
<1>2. /\ tasks = {} /\ run.stage # 5 /\ risks = <<>> /\ AlreadyPromoted = {}
      /\ \A v \in Workers \ {w} : ~Live(v)
  BY <1>1, AlonePromoting
<1>3. FilterPromoted(w) \/ LoadAssessments(w) \/ CreateRisks(w)
  BY StepsOf DEF Promoting
<1>4. run.issues \subseteq Existing /\ Existing = DOMAIN issues
  BY RunIdsFinite DEF WithinOK, AllExist, Existing
<1>5. worker[w] \in WorkerSet
  BY AtWork
<1>6. ASSUME Report(w, {}) PROVE worker'[w].pc = "ack" /\ run'.stage = 5
  <2>1. worker'[w] = Acking(w) /\ Acking(w).pc = "ack"
    <3>1. {} \in SUBSET Nat
      OBVIOUS
    <3> QED
      BY <1>1, <1>6, <3>1, Reports, AckingTyped
  <2>2. run' = [run EXCEPT !.stage = 5]
    BY <1>6 DEF Report, Promoting, Of
  <2>3. run \in [stage : 0..5, issues : SUBSET Nat]
    BY DEF Inv, Types, ControlOK
  <2> QED
    BY <2>1, <2>2, <2>3
<1>7. CASE FilterPromoted(w)
  <2>1. UNCHANGED rows /\ worker[w].ids = run.issues /\ worker[w].ids \ AlreadyPromoted = run.issues
    BY <1>2, <1>7 DEF FilterPromoted, Promoted, Pc
  <2>2. issues' = issues /\ risks' = risks /\ AlreadyPromoted' = {}
    BY <1>2, <2>1 DEF rows, AlreadyPromoted
  <2>3. CASE run.issues = {}
    <3>1. Report(w, {})
      BY <1>7, <2>1, <2>3 DEF FilterPromoted
    <3> QED
      BY <1>2, <1>6, <2>2, <2>3, <3>1 DEF Ends
  <2>4. CASE run.issues # {}
    <3> DEFINE new == [worker[w] EXCEPT !.pc = "assess", !.ids = run.issues]
    <3>1. Moves(w, new)
      BY <1>7, <2>1, <2>4 DEF FilterPromoted
    <3>2. new.pc = "assess" /\ new.ids = run.issues
      BY <1>5 DEF WorkerSet
    <3> HIDE DEF new
    <3>3. worker'[w] = new /\ run' = run
      BY <3>1, Moved
    <3> QED
      BY <2>2, <3>2, <3>3
  <2> QED
    BY <2>3, <2>4
<1>8. CASE LoadAssessments(w)
  <2>1. /\ Pc(w) = "assess" /\ UNCHANGED rows
        /\ \/ Found(worker[w].ids) = {} /\ Report(w, {})
           \/ Found(worker[w].ids) # {} /\ Moves(w, Loaded(w))
    BY <1>8, LoadSteps
  <2>2. worker[w].ids = run.issues
    BY <2>1 DEF Promoted
  <2>3. issues' = issues /\ risks' = risks /\ AlreadyPromoted' = {}
    BY <1>2, <2>1 DEF rows, AlreadyPromoted
  <2>4. Found(worker[w].ids) = {j \in run.issues : issues[j].assessments # <<>>}
    BY <1>4, <2>2 DEF Found
  <2>5. CASE Found(worker[w].ids) = {} /\ Report(w, {})
    <3>1. \A i \in run.issues : issues[i].assessments = <<>>
      BY <2>4, <2>5
    <3> QED
      BY <1>2, <1>6, <2>3, <2>5, <3>1 DEF Ends
  <2>6. CASE Moves(w, Loaded(w))
    <3>1. worker'[w] = Loaded(w) /\ run' = run
      BY <2>6, Moved
    <3>2. Loaded(w).pc = "create" /\ Loaded(w).out = {Assessment(i) : i \in Found(worker[w].ids)}
      BY LoadedTyped
    <3> QED
      BY <2>3, <2>4, <3>1, <3>2
  <2> QED
    BY <2>1, <2>5, <2>6
<1>9. CASE CreateRisks(w)
  <2> DEFINE out == worker[w].out
             n == Cardinality(out)
             F == {j \in run.issues : issues[j].assessments # <<>>}
  <2>1. Pc(w) = "create" /\ issues' = issues
    BY <1>9 DEF CreateRisks, Pc
  <2>2. worker[w].ids \subseteq Existing
    BY <1>4, <2>1, AtWork DEF Refers, Pc
  <2>3. out = {Assessment(i) : i \in F}
    BY <2>1 DEF Promoted
  <2>4. /\ Report(w, {})
        /\ \A r \in DOMAIN risks' : r \in DOMAIN risks \/ risks'[r] \in out
        /\ \A x \in out : \E r \in DOMAIN risks' : risks'[r] = x
    BY <1>9, <2>2, CreatedRisks
  <2>5. \A i : Assessment(i).issue = i /\ Assessment(i).rating = RatingOf(i)
    BY DEF Assessment
  <2> HIDE DEF out, n
  <2>6. ASSUME NEW r \in DOMAIN risks'
        PROVE  risks'[r].issue \in F /\ risks'[r].rating = RatingOf(risks'[r].issue)
    <3>1. risks'[r] \in out
      BY <1>2, <2>4
    <3>2. PICK i \in F : risks'[r] = Assessment(i)
      BY <2>3, <3>1
    <3> QED
      BY <2>5, <3>2
  <2>7. ASSUME NEW i \in F PROVE i \in AlreadyPromoted'
    <3>1. PICK r \in DOMAIN risks' : risks'[r] = Assessment(i)
      BY <2>3, <2>4
    <3>2. i # 0
      BY <1>4 DEF Inv, Types, RowsOK
    <3>3. risks'[r].issue = i
      BY <2>5, <3>1
    <3> QED
      BY <3>2, <3>3 DEF AlreadyPromoted
  <2>8. \A i \in AlreadyPromoted' : i \in F
    BY <2>6 DEF AlreadyPromoted
  <2>9. Ends(w)
    BY <1>6, <2>4, <2>6, <2>7, <2>8 DEF Ends
  <2> QED
    BY <1>6, <2>1, <2>4, <2>9
<1> QED
  BY <1>3, <1>7, <1>8, <1>9

\* A working step keeps the promotion complete.
LEMMA PromotedWork ==
  ASSUME Inv, Inv', PromotionOK, BatchesOK, WithinOK, Promoted, NEW w \in Workers, Works(w)
  PROVE  Promoted'
<1>1. /\ Live(w) /\ Others(w) /\ tasks' = tasks /\ run'.issues = run.issues
      /\ \A v \in Workers : worker'[v].task = worker[v].task
  BY WorkFacts DEF BatchesOK, NoReplace
<1>2. Len(chords) \in Nat /\ DOMAIN chords = 1..Len(chords)
  BY DEF Inv, Types, ControlOK
<1>3. \A v \in Workers : worker'[v].pc \in RiskPcs => Promoting(v)
  <2>1. \A v \in Workers : Fits(worker'[v])
    BY DEF Inv, WorkersOK
  <2> QED
    BY <1>1, <2>1 DEF Fits, Promoting, Of
<1>4. /\ \A t \in tasks' : t.kind = "promote" => t.ids = run'.issues
      /\ \A v \in Workers : worker'[v].task.kind = "promote" => worker'[v].task.ids = run'.issues
  BY <1>1 DEF Promoted, Promoting, Of
<1>5. CASE ~Promoting(w)
  <2>1. ~Promotes
    BY <1>1, <1>2, <1>5, NoneOpen
  <2>2. run' = run /\ run.stage # 5
    BY <1>5, <2>1, ChordsWork DEF Promoting, Promotes
  <2>3. risks' = risks
    <3>1. ~CreateRisks(w)
      BY <1>5, AtWork DEF CreateRisks, Fits, RiskPcs, Promoting, Of
    <3>2. ~WipeDerived(w)
      BY StepsOf DEF BatchesOK, NoReplace
    <3> QED
      BY <3>1, <3>2, Written
  <2>4. \A v \in Workers : worker'[v].pc \notin RiskPcs
    BY <1>3, <2>1 DEF Promotes
  <2> QED
    BY <1>4, <2>2, <2>3, <2>4 DEF Promoted, RiskPcs, Promoting, Pc, Of
<1>6. CASE Promoting(w)
  <2>1. /\ tasks = {} /\ run.stage # 5 /\ risks = <<>>
        /\ \A v \in Workers \ {w} : ~Live(v)
    BY <1>1, <1>6, AlonePromoting
  <2>2. \A v \in Workers \ {w} : worker'[v].pc \in {"idle", "ack"}
    BY <1>1, <2>1 DEF Others, Live, Pc
  <2>3. issues' = issues
    BY <1>6, PromotingWork
  <2>4. \A i : RatingOf(i)' = RatingOf(i)
    BY <2>3 DEF RatingOf
  <2>5. CASE Ends(w) /\ run'.stage = 5
    <3>1. \A v \in Workers : worker'[v].pc \in {"idle", "ack"}
      BY <2>2, <2>5 DEF Ends
    <3>2. \A r \in DOMAIN risks' :
            risks'[r].rating = Last(issues'[risks'[r].issue].assessments).residual
      BY <2>3, <2>5 DEF Ends, RatingOf
    <3>3. \A i \in run'.issues : issues'[i].assessments # <<>> <=> i \in AlreadyPromoted'
      BY <1>1, <2>3, <2>5 DEF Ends
    <3> QED
      BY <1>1, <1>4, <2>1, <2>5, <3>1, <3>2, <3>3 DEF Promoted, RatingOf, Live, Promoting, Pc, Of
  <2>6. CASE /\ risks' = risks /\ run' = run
             /\ worker'[w].pc = "assess" /\ worker'[w].ids = run.issues
    BY <1>4, <2>1, <2>2, <2>6 DEF Promoted, Promoting, Pc, Of
  <2>7. CASE /\ risks' = risks /\ run' = run /\ worker'[w].pc = "create"
             /\ worker'[w].out = {Assessment(i) : i \in {j \in run.issues : issues[j].assessments # <<>>}}
    <3> DEFINE F == {j \in run.issues : issues[j].assessments # <<>>}
    <3>1. \A i : Assessment(i)' = Assessment(i)
      BY <2>4 DEF Assessment
    <3>2. F' = F
      BY <2>3, <2>7
    <3>3. {Assessment(i)' : i \in F'} = {Assessment(i) : i \in F}
      BY <3>1, <3>2
    <3>4. \A v \in Workers : worker'[v].pc = "create" => worker'[v].out = {Assessment(i)' : i \in F'}
      BY <2>2, <2>7, <3>3
    <3>5. \A v \in Workers : worker'[v].pc \notin {"promoted", "assess"}
      BY <2>2, <2>7
    <3> QED
      BY <1>4, <2>1, <2>7, <3>4, <3>5 DEF Promoted, Promoting, Pc, Of
  <2> QED
    BY <1>6, <2>5, <2>6, <2>7, PromotingWork
<1> QED
  BY <1>5, <1>6

\* A stage is joined when all its issues are through, and promotion begins
\* with all issues of the run.
LEMMA CompleteJoin ==
  ASSUME Inv, Finite, PromotionOK, BatchesOK, ClassesOK, Promoted, NEW k \in DOMAIN chords, Join(k)
  PROVE  ClassesOK' /\ Promoted'
<1>1. /\ tasks = {} /\ (\A w \in Workers : ~Live(w)) /\ k = Len(chords)
      /\ UNCHANGED <<rows, steps, worker, env>> /\ k \in 1..4 /\ run.stage = k
      /\ chords[k].stage = Stages[k] /\ chords[k].open = {} /\ ~chords[k].joined
  BY QuietJoin
<1>2. UNCHANGED <<issues, risks>> /\ risks = <<>>
  <2>1. UNCHANGED <<issues, risks>>
    BY <1>1 DEF rows
  <2>2. k \in 1..4 /\ run.stage = k
    BY <1>1
  <2>3. run.stage # 5
    BY <2>2
  <2>4. run.stage # 5 => risks = <<>>
    BY DEF Promoted
  <2> QED
    BY <2>1, <2>3, <2>4
<1>3. \A w \in Workers : worker'[w].pc \in {"idle", "ack"}
  BY <1>1 DEF Live, Pc
<1>4. \A w \in Workers : worker'[w].task.kind # "promote"
  BY <1>1 DEF PromotionOK, Promotes, Scored, Promoting, Of
<1>5. JoinsLast(k) \/ \E n \in 2..4 : JoinsTo(k, n)
  BY JoinCases
<1>6. CASE JoinsLast(k)
  <2> DEFINE new == [kind |-> "promote", chord |-> k, ids |-> run.issues]
  <2>1. /\ run' = run /\ Len(chords') = Len(chords) /\ chords[k].stage = "score"
        /\ tasks' = tasks \cup {new}
    BY <1>1, <1>6, JoinsLastSteps
  <2>2. new.ids = run.issues
    OBVIOUS
  <2> HIDE DEF new
  <2>3. k = 4
    <3>1. k \in 1..4 /\ 4 \in 1..4 /\ Stages[k] = Stages[4]
      BY <1>1, <2>1, StagesTyped
    <3> QED
      BY <3>1, StagesTyped
  <2>4. ClassesOK'
    BY <1>1, <1>2, <1>3, <2>1, <2>3 DEF ClassesOK, EachPcs, Pc, Of
  <2>5. Promoted'
    BY <1>1, <1>2, <1>3, <1>4, <2>1, <2>2 DEF Promoted, Promoting, Pc, Of
  <2> QED
    BY <2>4, <2>5
<1>7. ASSUME NEW n \in 2..4, JoinsTo(k, n) PROVE ClassesOK' /\ Promoted'
  <2>0. PICK ids : ids = run'.issues
    OBVIOUS
  <2>1. /\ Stages[n - 1] = chords[k].stage /\ run'.stage = n
        /\ ids = IF chords[k].stage = "issues" THEN IssuesJoin ELSE run.issues
        /\ Len(chords') = Len(chords) + 1
        /\ chords'[Len(chords) + 1] = Chord(Stages[n], ids)
        /\ tasks' = tasks \cup BatchTasks(Len(chords) + 1, Stages[n], ids)
        /\ \A t \in BatchTasks(Len(chords) + 1, Stages[n], ids) : t.kind = Stages[n]
    <3>1. UNCHANGED <<rows, steps, worker, env>>
      BY <1>1
    <3>2. Stages[n - 1] = chords[k].stage /\ run'.stage = n /\ Len(chords') = Len(chords) + 1
      BY <1>7, <3>1, JoinsToSteps
    <3>3. ids = IF chords[k].stage = "issues" THEN IssuesJoin ELSE run.issues
      BY <1>7, <2>0, <3>1, JoinsToSteps
    <3>4. chords'[Len(chords) + 1] = Chord(Stages[n], ids)
      BY <1>7, <2>0, <3>1, JoinsToSteps
    <3>5. /\ tasks' = tasks \cup BatchTasks(Len(chords) + 1, Stages[n], ids)
          /\ \A t \in BatchTasks(Len(chords) + 1, Stages[n], ids) : t.kind = Stages[n]
      BY <1>7, <2>0, <3>1, JoinsToSteps
    <3> QED
      BY <3>2, <3>3, <3>4, <3>5
  <2>2. n - 1 = k
    <3>1. n - 1 \in 1..4 /\ k \in 1..4 /\ Stages[n - 1] = Stages[k]
      BY <1>1, <2>1
    <3> QED
      BY <3>1, StagesTyped
  <2>3. Stages[n] # "promote" /\ n # 5
    <3>1. n \in 1..4 /\ n # 5
      OBVIOUS
    <3>2. Stages[n] \in {"issues", "classify", "discover", "score"}
      BY <3>1, StagesTyped DEF StageSet
    <3> QED
      BY <3>1, <3>2
  <2>4. Promoted'
    <3>1. \A t \in tasks' : t.kind # "promote"
      BY <1>1, <2>1, <2>3
    <3> QED
      BY <1>2, <1>3, <1>4, <2>1, <2>3, <3>1 DEF Promoted, Promoting, Pc, Of
  <2>5. ClassesOK'
    <3> SUFFICES ASSUME UseLlmFallback
                 PROVE  /\ Len(chords') = 2 =>
                             /\ \A B \in chords'[2].open : B \subseteq ids
                             /\ \A i \in ids : issues'[i].classes = 1 \/ \E B \in chords'[2].open : i \in B
                        /\ Len(chords') > 2 => \A i \in ids : issues'[i].classes = 1
      BY <1>3, <2>0 DEF ClassesOK, EachPcs, Pc, Of
    <3>1. CASE k = 1
      <4>1. Len(chords') = 2 /\ chords'[2] = Chord("classify", ids)
        BY <1>1, <2>1, <2>2, <3>1, StagesTyped
      <4>2. chords'[2].open = Chunks(ids)
        <5>1. Plan("classify", ids) = Chunks(ids)
          BY DEF Plan
        <5>2. Chord("classify", ids).open = Plan("classify", ids)
          BY ChordOf
        <5>3. chords'[2].open = Chord("classify", ids).open
          BY <4>1
        <5> QED
          BY <5>1, <5>2, <5>3
      <4>3. IsFiniteSet(ids)
        BY <2>1, RunIdsFinite
      <4> QED
        BY <4>1, <4>2, <4>3, ChunksDivide
    <3>2. CASE k # 1
      <4>1. Len(chords') > 2 /\ Len(chords) \in 2..3
        BY <1>1, <2>1, <2>2, <3>2
      <4>2. chords[k].stage # "issues"
        BY <1>1, <3>2, StagesTyped
      <4>3. ids = run.issues
        BY <2>1, <4>2
      <4>4. \A i \in run.issues : issues[i].classes = 1
        BY <1>1, <4>1 DEF ClassesOK
      <4>5. issues' = issues
        BY <1>2
      <4>6. \A i \in ids : issues'[i].classes = 1
        BY <4>3, <4>4, <4>5
      <4>7. Len(chords') # 2
        BY <4>1
      <4> QED
        BY <4>6, <4>7
    <3> QED
      BY <3>1, <3>2
  <2> QED
    BY <2>4, <2>5
<1> QED
  BY <1>5, <1>6, <1>7

\* Every step keeps the run complete.
LEMMA CompleteNext ==
  ASSUME Inv, Finite, PromotionInv, QuietInv, CompleteInv, [Next]_vars
  PROVE  CompleteInv'
<1> DEFINE S == {"crashes", "extracts"}
<1> SUFFICES ASSUME \A e \in FaultKinds \ S : env'[e] = 0
             PROVE  ClassesOK' /\ Promoted'
  BY DEF CompleteInv, Quiet, Only
<1>1. Quiet
  BY OnlyBefore DEF Quiet
<1>2. BatchesOK /\ WithinOK /\ PromotionOK /\ ClassesOK /\ Promoted
  BY <1>1 DEF QuietInv, PromotionInv, CompleteInv, Quiet, Only
<1>3. Inv' /\ Happening(S)
  BY InvNext, Cases
<1>4. chords \in Seq(ChordSet) /\ Len(chords) \in Nat /\ DOMAIN chords = 1..Len(chords)
      /\ run \in [stage : 0..5, issues : SUBSET Nat]
  BY DEF Inv, Types, ControlOK
<1>5. ASSUME UNCHANGED <<issues, risks, run, chords, tasks, worker>> PROVE ClassesOK' /\ Promoted'
  BY <1>2, <1>5 DEF ClassesOK, Promoted, AlreadyPromoted, Assessment, RatingOf, Live, Promoting,
     Pc, Of
<1>6. CASE UNCHANGED vars
  BY <1>5, <1>6 DEF vars, rows
<1>7. CASE StartRun
  <2>1. /\ run.stage = 0 /\ run' = [run EXCEPT !.stage = 1]
        /\ chords' = <<Chord("issues", {})>>
        /\ tasks' = tasks \cup BatchTasks(1, "issues", {})
        /\ UNCHANGED <<rows, steps, worker, env>>
    BY <1>7 DEF StartRun
  <2>2. \A t \in BatchTasks(1, "issues", {}) : t.kind = "issues"
    BY <1>7, StartRunSteps
  <2>3. Len(chords) = 0 /\ ~Promotes
    BY <1>2, <1>4, <2>1 DEF PromotionOK, Steady, Scored
  <2>4. tasks = {} /\ \A w \in Workers : ~Live(w)
    BY <1>2, <1>4, <2>3, NothingOpen
  <2>5. Len(chords') = 1 /\ run'.stage = 1 /\ run'.issues = run.issues
    BY <1>4, <2>1
  <2>6. \A w \in Workers : worker'[w].pc \in {"idle", "ack"} /\ worker'[w].task.kind # "promote"
    BY <2>1, <2>3, <2>4 DEF Live, Promotes, Promoting, Pc, Of
  <2>7. \A t \in tasks' : t.kind # "promote"
    BY <2>1, <2>2, <2>4
  <2>8. risks' = <<>>
    BY <1>2, <2>1 DEF Promoted, rows
  <2> QED
    BY <2>5, <2>6, <2>7, <2>8 DEF ClassesOK, Promoted, EachPcs, Promoting, Pc, Of
<1>8. ASSUME NEW k \in DOMAIN chords, Join(k) PROVE ClassesOK' /\ Promoted'
  BY <1>2, <1>8, CompleteJoin
<1>9. ASSUME NEW w \in Workers, TakeTask(w) PROVE ClassesOK' /\ Promoted'
  <2>1. /\ Others(w) /\ UNCHANGED <<rows, run, steps, chords, env>> /\ Pc(w) = "idle"
        /\ \E t \in tasks :
             /\ tasks' = tasks \ {t} /\ t \in TaskSet
             /\ worker'[w].task = t /\ worker'[w].pc = Position[t.kind]
             /\ t.kind # "discover" => worker'[w].ids = t.ids
    BY <1>2, <1>9, QuietTake
  <2>2. PICK t \in tasks :
          /\ tasks' = tasks \ {t} /\ t \in TaskSet
          /\ worker'[w].task = t /\ worker'[w].pc = Position[t.kind]
          /\ t.kind # "discover" => worker'[w].ids = t.ids
    BY <2>1
  <2>3. UNCHANGED <<issues, risks, run, chords>>
    BY <2>1 DEF rows
  <2>4. ClassesOK'
    BY <1>2, <2>1, <2>2, <2>3 DEF ClassesOK, Others, Pc, Of
  <2>5. run.stage # 5
    BY <1>2, <2>2 DEF Promoted
  <2>6. worker'[w].pc \in RiskPcs => worker'[w].pc = "promoted" /\ t.kind = "promote"
    BY <2>2, Starts DEF RiskPcs, TaskSet, KindSet, StageSet
  <2>7. t.kind = "promote" => t.ids = run.issues
    BY <1>2, <2>2 DEF Promoted
  <2>8. \A v \in Workers : worker'[v].task.kind = "promote" => worker'[v].task.ids = run.issues
    BY <1>2, <2>1, <2>2, <2>7 DEF Promoted, Promoting, Others, Of
  <2>9. \A v \in Workers : worker'[v].pc \in {"promoted", "assess"} => worker'[v].ids = run.issues
    BY <1>2, <2>1, <2>2, <2>6, <2>7 DEF Promoted, RiskPcs, Others, Pc
  <2>10. \A v \in Workers : worker'[v].pc = "create" => v # w /\ worker'[v] = worker[v]
    BY <2>1, <2>6 DEF RiskPcs, Others
  <2>11. \A v \in Workers : worker'[v].pc = "create" =>
           worker'[v].out = {Assessment(i) : i \in {j \in run.issues : issues[j].assessments # <<>>}}
    BY <1>2, <2>10 DEF Promoted, Pc
  <2>12. \A u \in tasks' : u.kind = "promote" => u.ids = run.issues
    BY <1>2, <2>2 DEF Promoted
  <2>13. run' = run /\ risks' = risks /\ (run.stage # 5 => risks = <<>>)
    BY <1>2, <2>3 DEF Promoted
  <2>14. {Assessment(i)' : i \in {j \in run'.issues : issues'[j].assessments # <<>>}}
           = {Assessment(i) : i \in {j \in run.issues : issues[j].assessments # <<>>}}
    BY <2>3 DEF Assessment, RatingOf
  <2>15. Promoted'
    BY <2>5, <2>8, <2>9, <2>11, <2>12, <2>13, <2>14 DEF Promoted, Promoting, Pc, Of
  <2> QED
    BY <2>4, <2>15
<1>10. ASSUME NEW w \in Workers, Others(w), worker'[w] = Idle, UNCHANGED <<rows, run, chords>>,
              \/ tasks' = tasks
              \/ run.stage # 5 /\ tasks' = tasks \cup {Of(w)}
       PROVE  ClassesOK' /\ Promoted'
  <2>1. Idle.pc = "idle" /\ Idle.task.kind = "none"
    BY DEF Idle, NoTask
  <2>2. UNCHANGED <<issues, risks, run, chords>>
    BY <1>10 DEF rows
  <2>3. \A v \in Workers : v = w \/ worker'[v] = worker[v]
    BY <1>10 DEF Others
  <2>4. ClassesOK'
    BY <1>2, <1>10, <2>1, <2>2, <2>3 DEF ClassesOK, EachPcs, Pc, Of
  <2>5. \A u \in tasks' : u.kind = "promote" => u.ids = run.issues
    BY <1>2, <1>10 DEF Promoted, Promoting
  <2>6. {Assessment(i)' : i \in {j \in run'.issues : issues'[j].assessments # <<>>}}
           = {Assessment(i) : i \in {j \in run.issues : issues[j].assessments # <<>>}}
    BY <2>2 DEF Assessment, RatingOf
  <2>7. AlreadyPromoted' = AlreadyPromoted
    BY <2>2 DEF AlreadyPromoted
  <2>8. \A v \in Workers :
          /\ worker'[v].task.kind = "promote" => worker'[v].task.ids = run.issues
          /\ worker'[v].pc \in {"promoted", "assess"} => worker'[v].ids = run.issues
          /\ worker'[v].pc = "create" =>
               worker'[v].out = {Assessment(i) : i \in {j \in run.issues : issues[j].assessments # <<>>}}
    BY <1>2, <1>10, <2>1, <2>3 DEF Promoted, Promoting, Pc, Of
  <2>9. run.stage = 5 => tasks' = {} /\ \A v \in Workers : worker'[v].pc \in {"idle", "ack"}
    BY <1>2, <1>10, <2>1, <2>3 DEF Promoted, Live, Pc
  <2>10. /\ run.stage # 5 => risks' = <<>>
         /\ run.stage = 5 =>
              \A r \in DOMAIN risks' :
                risks'[r].rating = Last(issues'[risks'[r].issue].assessments).residual
         /\ run.stage = 5 =>
              \A i \in run.issues : issues'[i].assessments # <<>> <=> i \in AlreadyPromoted'
    BY <1>2, <2>2, <2>7 DEF Promoted, RatingOf
  <2>11. Promoted'
    BY <2>2, <2>5, <2>6, <2>8, <2>9, <2>10 DEF Promoted, RatingOf, Live, Promoting, Pc, Of
  <2> QED
    BY <2>4, <2>11
<1>11. ASSUME NEW w \in Workers, Acknowledge(w) PROVE ClassesOK' /\ Promoted'
  BY <1>10, <1>11, AcknowledgeInv
<1>12. ASSUME NEW w \in Workers, WorkerLost(w), (IF Pc(w) = "ack" THEN "unacked" ELSE "crashes") \in S
       PROVE  ClassesOK' /\ Promoted'
  <2>1. Pc(w) # "ack"
    BY <1>12
  <2>2. /\ Others(w) /\ worker'[w] = Idle /\ Pc(w) # "idle" /\ tasks' = tasks \cup {Of(w)}
        /\ UNCHANGED <<rows, run, steps, chords>>
    BY <1>12, LostInv
  <2>3. run.stage # 5
    BY <1>2, <2>1, <2>2 DEF Promoted, Live
  <2> QED
    BY <1>10, <2>2, <2>3
<1>13. ASSUME NEW c \in Controls, NEW d \in Controls, Reextract(c, d) PROVE ClassesOK' /\ Promoted'
  BY <1>5, <1>13 DEF Reextract
<1>14. ASSUME NEW w \in Workers, Works(w) PROVE ClassesOK' /\ Promoted'
  BY <1>2, <1>3, <1>14, ClassesWork, PromotedWork
<1>15. "jobs" \notin S /\ "advances" \notin S
  OBVIOUS
<1> HIDE DEF S
<1> QED
  BY <1>3, <1>6, <1>7, <1>8, <1>9, <1>11, <1>12, <1>13, <1>14, <1>15 DEF Happening

\* RunIsComplete: a run that ended has classified all its issues, if the
\* heuristic takes the place of a silent model, and has promoted exactly those
\* that were assessed, at the rating of their assessment (classify_issues,
\* score_risks and auto_promote_risks, whichever workers were lost).
THEOREM EndedRunsAreComplete == Finite => (Spec => []RunIsComplete)
<1> SUFFICES ASSUME Finite PROVE Spec => []RunIsComplete
  OBVIOUS
<1>1. Init => CompleteInv
  <2> SUFFICES ASSUME Init PROVE ClassesOK /\ Promoted
    BY DEF CompleteInv
  <2>1. \A w \in Workers : worker[w] = Idle
    BY DEF Init
  <2>2. Idle.pc = "idle" /\ Idle.task.kind = "none"
    BY DEF Idle, NoTask
  <2>3. tasks = {} /\ chords = <<>> /\ risks = <<>> /\ run.stage = 0 /\ Len(chords) = 0
    BY DEF Init
  <2>4. ClassesOK
    BY <2>1, <2>2, <2>3 DEF ClassesOK, EachPcs, Pc, Of
  <2>5. Promoted
    BY <2>1, <2>2, <2>3 DEF Promoted, Promoting, Pc, Of
  <2> QED
    BY <2>4, <2>5
<1>2. Inv /\ PromotionInv /\ QuietInv /\ CompleteInv /\ [Next]_vars => CompleteInv'
  BY CompleteNext
<1>3. Inv /\ PromotionInv /\ QuietInv /\ CompleteInv => RunIsComplete
  <2> SUFFICES ASSUME Inv, PromotionInv, QuietInv, CompleteInv, run.stage = 5,
                      Only({"crashes", "extracts"}), NEW i \in run.issues
               PROVE  /\ i \in Existing
                      /\ UseLlmFallback => issues[i].classes = 1
                      /\ \A r \in DOMAIN risks : risks[r].issue = i =>
                           risks[r].rating = Last(issues[i].assessments).residual
                      /\ issues[i].assessments # <<>> <=> i \in AlreadyPromoted
    BY DEF RunIsComplete
  <2>1. PromotionOK /\ WithinOK /\ ClassesOK /\ Promoted
    BY DEF PromotionInv, QuietInv, CompleteInv, Quiet, Only
  <2>2. Len(chords) = 4
    BY <2>1 DEF PromotionOK, Steady
  <2>3. i \in Existing
    BY <2>1, RunIdsFinite DEF WithinOK, AllExist, Existing
  <2>4. UseLlmFallback => issues[i].classes = 1
    BY <2>1, <2>2 DEF ClassesOK
  <2> QED
    BY <2>1, <2>3, <2>4 DEF Promoted, RatingOf
<1> QED
  BY <1>1, <1>2, <1>3, LayersHold, PTL DEF Spec
=============================================================================
