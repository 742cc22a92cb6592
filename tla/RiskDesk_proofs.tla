--------------------------- MODULE RiskDesk_proofs ---------------------------
(***************************************************************************)
(* Proofs about RiskDesk: its type, DecisionStands, OneOpenRecommendation, *)
(* RegisterExplained and CompletedJobsAreDone as invariants, and           *)
(* ReviewsStay as a property of every step, for finitely many risks and    *)
(* any number of sessions, passes, reviews and faults.                     *)
(*                                                                         *)
(* The invariant Inv has three layers. SessionsOK, RegisterOK and RowsOK   *)
(* say what a session's local variables and the rows of a risk can be      *)
(* where the session is. OwnOK and JobsOK: a job is with one session or    *)
(* one task, and counts the risks that session has left. FreshOK, the part *)
(* that makes DeskOK and ExplainedOK inductive: what a session read of a   *)
(* risk before its last commits is still so, unless the risk is raced;     *)
(* that is what Writing marks.                                             *)
(***************************************************************************)
EXTENDS RiskDesk, SequenceTheorems, FunctionTheorems, FiniteSetTheorems,
        WellFoundedInduction, TLAPS

\* The risks of an organisation: what a pass counts.
Finite == IsFiniteSet(Risks)

\* What the variables range over.
Values(k) == UNION (Proposals[k] \cup Selections[k])
All == Values("tags") \cup Values("owner")
RowSet == [id : Nat, status : {"open", "applied"}, reviewed : BOOLEAN]
TaskSet == [job : Nat, n : Nat, pass : Postings]
JobSet == [status : {"pending", "running", "completed", "failed"}, total : Nat, done : Nat]

PassPcs == {"next", "select", "delete", "insert"}
ReviewPcs == {"write", "latest", "record", "review"}
AtRisk == {"select", "delete", "insert"} \cup ReviewPcs
Pcs == {"idle", "boot", "create", "fill", "find", "read", "next", "ack"} \cup AtRisk
SessionSet ==
    [pc : Pcs, kind : Kinds, task : TaskSet \cup {NoTask}, job : Nat, snap : Nat,
     seen : [Risks -> SUBSET All], todo : SUBSET Risks, cur : SUBSET Risks,
     value : SUBSET All, replace : BOOLEAN, users : BOOLEAN, applied : BOOLEAN,
     ids : SUBSET Nat]

SessionsTyped == session \in [Sessions -> SessionSet]
StoreTyped ==
    /\ register \in [Kinds -> [Risks -> SUBSET All]]
    /\ chosen \in [Kinds -> [Risks -> SUBSET All]]
    /\ rows \in [Kinds -> [Risks -> SUBSET RowSet]]
    /\ serial \in Nat
    /\ raced \in SUBSET (Kinds \X Risks)
    /\ torn \in SUBSET (Kinds \X Risks)
    /\ count \in Nat
JobsTyped ==
    /\ snapshots \in Seq(BOOLEAN)
    /\ jobs \in Seq(JobSet)
    /\ inbox \in SUBSET TaskSet

\* Where a session is, it has these local variables.
Control(w) ==
    /\ w.pc = "idle" => w = Idle
    /\ w.job = 0 => w.task = NoTask
    /\ w.job # 0 => w.task \in TaskSet /\ w.task.job \in {0, w.job}
    /\ w.pc \in PassPcs \cup {"read", "ack"} => w.job # 0
    /\ w.pc \in ReviewPcs \cup {"find"} => w.job = 0
    /\ w.pc \notin AtRisk => w.cur = {}
    /\ w.pc \in AtRisk => \E r \in Risks : w.cur = {r} /\ r \notin w.todo
    /\ w.job = 0 /\ w.pc \in {"boot", "create", "fill", "find"} => \E r \in Risks : w.todo = {r}
    /\ w.job # 0 /\ w.pc \in {"boot", "create", "fill", "read"} => w.todo = {}
    /\ w.pc \in ReviewPcs => w.todo = {}
    /\ w.applied => w.pc \in {"select", "delete", "insert"}
    /\ w.pc = "select" => w.applied
Fits(w, n) ==
    /\ w.value \subseteq Values(w.kind)
    /\ \A r \in Risks : w.seen[r] \subseteq Values(w.kind)
    /\ w.ids \subseteq 1..n
SessionsOK == \A s \in Sessions : Control(session[s]) /\ Fits(session[s], serial)

RegisterOK == \A k \in Kinds, r \in Risks : register[k][r] \subseteq Values(k)
RowsFit(q, n) ==
    /\ \A x \in q : x.id \in 1..n /\ (x.reviewed => x.status = "applied")
    /\ \A x, y \in q : x.id = y.id => x = y
RowsOK == \A k \in Kinds, r \in Risks : RowsFit(rows[k][r], serial)

\* A job is with one session, or with one task at the broker.
OwnOK ==
    /\ \A s \in Sessions : session[s].job \in 0..Len(jobs)
    /\ \A m \in inbox : m.job \in 0..Len(jobs)
    /\ \A s, t \in Sessions : session[s].job # 0 /\ session[s].job = session[t].job => s = t
    /\ \A m \in inbox, s \in Sessions : m.job # 0 => m.job # session[s].job
    /\ \A m, n \in inbox : m.job # 0 /\ m.job = n.job => m = n
\* It runs while a session works on it, and counts what the session did.
Left(w) == Cardinality(w.todo) + Cardinality(w.cur)
Progress(w, job) ==
    /\ w.pc # "ack" => job.status = "running"
    /\ w.pc \in PassPcs => job.done + Left(w) = job.total
Counted(job) ==
    /\ job.done <= job.total
    /\ job.status = "completed" => job.done = job.total
JobsOK ==
    /\ \A j \in DOMAIN jobs : Counted(jobs[j])
    /\ \A s \in Sessions : session[s].job # 0 => Progress(session[s], jobs[session[s].job])

\* What a session read of a risk still holds, unless another wrote meanwhile:
\* value and q are what the register and the recommendations are now.
OpenOf(q) == {x.id : x \in {y \in q : y.status = "open"}}
Fresh(w, k, r, value, q) ==
    /\ w.pc \in PassPcs /\ r \in w.todo =>
          w.seen[r] = value /\ (w.task.pass.openOnly => ~IsSettled(k, value))
    /\ w.pc = "write" /\ r \in w.cur => w.seen[r] = value
    /\ w.pc = "delete" /\ r \in w.cur => w.ids = OpenOf(q)
    /\ w.pc = "insert" /\ r \in w.cur => OpenOf(q) = {}
    /\ w.pc = "review" /\ r \in w.cur =>
          /\ w.ids # {} => \E x \in q : x.id \in w.ids
          /\ w.ids = {} => q # {}
FreshOK ==
    \A s \in Sessions, r \in Risks : <<session[s].kind, r>> \notin raced =>
        Fresh(session[s], session[s].kind, r,
              register[session[s].kind][r], rows[session[s].kind][r])

\* Of the rows of a risk at most one is open; what reviewers chose is there.
OneOpen(q) == \A x, y \in q : x.status = "open" /\ y.status = "open" => x = y
DeskOK ==
    \A k \in Kinds, r \in Risks : <<k, r>> \notin raced =>
        chosen[k][r] \subseteq register[k][r] /\ OneOpen(rows[k][r])

\* A session that wrote the register and has its recommendation still to write.
Applying(w, k, r) == w.kind = k /\ r \in w.cur /\ w.applied
Deciding(w, k, r) == w.kind = k /\ r \in w.cur /\ w.pc \in {"latest", "record", "review"}
\* What is on the register of a risk, or was chosen for it, has its
\* recommendation, or a session is about to write it.
ValueExplained(k, r) ==
    \/ register[k][r] = {}
    \/ \E x \in rows[k][r] : x.status = "applied"
    \/ \E s \in Sessions : Applying(session[s], k, r) \/ Deciding(session[s], k, r)
ChoiceExplained(k, r) ==
    \/ chosen[k][r] = {}
    \/ \E x \in rows[k][r] : x.reviewed
    \/ \E s \in Sessions : Deciding(session[s], k, r)
ExplainedOK ==
    \A k \in Kinds, r \in Risks : <<k, r>> \notin raced \cup torn =>
        ValueExplained(k, r) /\ ChoiceExplained(k, r)

Types == SessionsTyped /\ StoreTyped /\ JobsTyped
Desk == FreshOK /\ DeskOK /\ ExplainedOK
Inv == Types /\ SessionsOK /\ RegisterOK /\ RowsOK /\ OwnOK /\ JobsOK /\ Desk
-----------------------------------------------------------------------------
\* A value of one desk is a value.
LEMMA KindValues == ASSUME NEW k \in Kinds PROVE Values(k) \subseteq All
BY DEF Kinds, All

\* What is known of a session.
LEMMA AtSession ==
  ASSUME Inv, NEW s \in Sessions
  PROVE  /\ session[s] \in SessionSet /\ Control(session[s]) /\ Fits(session[s], serial)
         /\ session[s].job \in 0..Len(jobs) /\ session[s].kind \in Kinds
         /\ \A r \in Risks : <<session[s].kind, r>> \notin raced =>
              Fresh(session[s], session[s].kind, r,
                    register[session[s].kind][r], rows[session[s].kind][r])
<1>1. session[s] \in SessionSet
  BY DEF Inv, Types, SessionsTyped
<1>2. session[s].kind \in Kinds
  BY <1>1 DEF SessionSet
<1> QED
  BY <1>1, <1>2 DEF Inv, SessionsOK, OwnOK, Desk, FreshOK

\* The sessions after one of them went on.
LEMMA SessionMoves ==
  ASSUME Inv, NEW s \in Sessions, NEW w \in SessionSet, Goes(s, w), Control(w),
         serial' \in Nat, serial <= serial', Fits(w, serial')
  PROVE  SessionsTyped' /\ SessionsOK'
<1>1. session \in [Sessions -> SessionSet] /\ serial \in Nat
  BY DEF Inv, Types, SessionsTyped, StoreTyped
<1>2. session' \in [Sessions -> SessionSet]
  BY <1>1 DEF Goes
<1>3. ASSUME NEW t \in Sessions PROVE Control(session'[t]) /\ Fits(session'[t], serial')
  <2>1. CASE t = s
    BY <1>1, <2>1 DEF Goes
  <2>2. CASE t # s
    <3>1. session'[t] = session[t]
      BY <1>1, <2>2 DEF Goes
    <3>2. Control(session[t]) /\ Fits(session[t], serial)
      BY DEF Inv, SessionsOK
    <3>3. 1..serial \subseteq 1..serial'
      BY <1>1
    <3>4. Fits(session[t], serial')
      BY <3>2, <3>3 DEF Fits
    <3> QED
      BY <3>1, <3>2, <3>4
  <2> QED
    BY <2>1, <2>2
<1> QED
  BY <1>2, <1>3 DEF SessionsTyped, SessionsOK

\* The session that moved is where it went, the others are where they were.
LEMMA Where ==
  ASSUME Inv, NEW s \in Sessions, NEW w \in SessionSet, Goes(s, w)
  PROVE  session'[s] = w /\ \A t \in Sessions : t # s => session'[t] = session[t]
BY DEF Inv, Types, SessionsTyped, Goes

\* The jobs when a session went on, or ended, and no job changed.
LEMMA JobMoves ==
  ASSUME Inv, NEW s \in Sessions, NEW w \in SessionSet, Goes(s, w), UNCHANGED <<jobs, inbox>>,
         w.job \in {0, session[s].job}, w.job # 0 => Progress(w, jobs[w.job])
  PROVE  OwnOK' /\ JobsOK'
<1>1. session'[s] = w /\ \A t \in Sessions : t # s => session'[t] = session[t]
  BY Where
<1>2. \A t \in Sessions : session'[t].job \in {0, session[t].job}
  BY <1>1
<1>3. OwnOK'
  BY <1>2 DEF Inv, OwnOK
<1>4. \A t \in Sessions : session'[t].job # 0 => Progress(session'[t], jobs[session'[t].job])
  BY <1>1 DEF Inv, JobsOK
<1> QED
  BY <1>3, <1>4 DEF Inv, JobsOK

\* The desk when a session went on and wrote nothing a reviewer or a pass reads.
LEMMA QuietMoves ==
  ASSUME Inv, NEW s \in Sessions, NEW w \in SessionSet, Goes(s, w),
         UNCHANGED <<register, rows, chosen, raced>>, torn \subseteq torn',
         \A r \in Risks : <<w.kind, r>> \notin raced =>
            Fresh(w, w.kind, r, register[w.kind][r], rows[w.kind][r]),
         \A r \in session[s].cur : <<session[s].kind, r>> \notin torn' =>
            /\ Applying(session[s], session[s].kind, r) => Applying(w, session[s].kind, r)
            /\ Deciding(session[s], session[s].kind, r) => Deciding(w, session[s].kind, r)
  PROVE  Desk'
<1>1. session'[s] = w /\ \A t \in Sessions : t # s => session'[t] = session[t]
  BY Where
<1>2. FreshOK'
  <2> SUFFICES ASSUME NEW t \in Sessions, NEW r \in Risks, <<session'[t].kind, r>> \notin raced
               PROVE  Fresh(session'[t], session'[t].kind, r,
                            register[session'[t].kind][r], rows[session'[t].kind][r])
    BY DEF FreshOK
  <2>1. CASE t = s
    BY <1>1, <2>1
  <2>2. CASE t # s
    BY <1>1, <2>2 DEF Inv, Desk, FreshOK
  <2> QED
    BY <2>1, <2>2
<1>3. DeskOK'
  BY DEF Inv, Desk, DeskOK, OneOpen
<1>4. ASSUME NEW k \in Kinds, NEW r \in Risks, <<k, r>> \notin raced \cup torn'
      PROVE  ValueExplained(k, r)' /\ ChoiceExplained(k, r)'
  <2>1. ValueExplained(k, r) /\ ChoiceExplained(k, r)
    BY <1>4 DEF Inv, Desk, ExplainedOK
  <2>2. \A t \in Sessions : /\ Applying(session[t], k, r) => Applying(session'[t], k, r)
                            /\ Deciding(session[t], k, r) => Deciding(session'[t], k, r)
    BY <1>1, <1>4 DEF Applying, Deciding
  <2> QED
    BY <2>1, <2>2 DEF ValueExplained, ChoiceExplained
<1> QED
  BY <1>2, <1>3, <1>4 DEF Desk, ExplainedOK
-----------------------------------------------------------------------------
\* A session that is not at a risk counts on nothing about it.
LEMMA NotHolding ==
  ASSUME Inv, NEW t \in Sessions, NEW r \in Risks, <<session[t].kind, r>> \notin Holding(t),
         NEW value, NEW q
  PROVE  Fresh(session[t], session[t].kind, r, value, q)
<1>1. session[t].pc \in {"idle", "boot", "read", "done", "ack"} \/ r \notin session[t].todo \cup session[t].cur
  BY DEF Holding
<1> QED
  BY <1>1 DEF Fresh, PassPcs

\* The desk when a session wrote the register or the recommendations of a risk.
LEMMA WriteMoves ==
  ASSUME Inv, NEW s \in Sessions, NEW w \in SessionSet, Goes(s, w), NEW r \in Risks,
         NEW k \in Kinds, k = session[s].kind, Writing(s, k, r), torn' = torn,
         \A l \in Kinds, q \in Risks : <<l, q>> # <<k, r>> =>
            /\ register'[l][q] = register[l][q] /\ rows'[l][q] = rows[l][q]
            /\ chosen'[l][q] = chosen[l][q],
         session[s].cur \subseteq {r},
         \A q \in Risks : <<w.kind, q>> \notin raced' =>
            Fresh(w, w.kind, q, register'[w.kind][q], rows'[w.kind][q]),
         <<k, r>> \notin raced' => chosen'[k][r] \subseteq register'[k][r] /\ OneOpen(rows'[k][r]),
         <<k, r>> \notin raced' \cup torn => ValueExplained(k, r)' /\ ChoiceExplained(k, r)'
  PROVE  Desk'
<1>1. session'[s] = w /\ \A t \in Sessions : t # s => session'[t] = session[t]
  BY Where
<1>2. raced \subseteq raced'
  BY DEF Writing
<1>3. FreshOK'
  <2> SUFFICES ASSUME NEW t \in Sessions, NEW q \in Risks, <<session'[t].kind, q>> \notin raced'
               PROVE  Fresh(session'[t], session'[t].kind, q,
                            register'[session'[t].kind][q], rows'[session'[t].kind][q])
    BY DEF FreshOK
  <2>1. CASE t = s
    BY <1>1, <2>1
  <2>2. CASE t # s /\ <<session[t].kind, q>> = <<k, r>>
    <3>1. <<session[t].kind, q>> \notin Holding(t)
      BY <1>1, <2>2 DEF Writing
    <3> QED
      BY <1>1, <2>2, <3>1, NotHolding
  <2>3. CASE t # s /\ <<session[t].kind, q>> # <<k, r>>
    <3>1. session[t].kind \in Kinds
      BY AtSession
    <3>2. Fresh(session[t], session[t].kind, q,
                register[session[t].kind][q], rows[session[t].kind][q])
      BY <1>1, <1>2, <2>3 DEF Inv, Desk, FreshOK
    <3>3. /\ register'[session[t].kind][q] = register[session[t].kind][q]
          /\ rows'[session[t].kind][q] = rows[session[t].kind][q]
      BY <2>3, <3>1
    <3> QED
      BY <1>1, <2>3, <3>2, <3>3
  <2> QED
    BY <2>1, <2>2, <2>3
<1>4. DeskOK'
  <2> SUFFICES ASSUME NEW l \in Kinds, NEW q \in Risks, <<l, q>> \notin raced'
               PROVE  chosen'[l][q] \subseteq register'[l][q] /\ OneOpen(rows'[l][q])
    BY DEF DeskOK
  <2>1. CASE <<l, q>> = <<k, r>>
    BY <2>1
  <2>2. CASE <<l, q>> # <<k, r>>
    BY <1>2, <2>2 DEF Inv, Desk, DeskOK
  <2> QED
    BY <2>1, <2>2
<1>5. ASSUME NEW l \in Kinds, NEW q \in Risks, <<l, q>> \notin raced' \cup torn'
      PROVE  ValueExplained(l, q)' /\ ChoiceExplained(l, q)'
  <2>1. CASE <<l, q>> = <<k, r>>
    BY <1>5, <2>1
  <2>2. CASE <<l, q>> # <<k, r>>
    <3>1. ValueExplained(l, q) /\ ChoiceExplained(l, q)
      BY <1>2, <1>5 DEF Inv, Desk, ExplainedOK
    <3>2. ~Applying(session[s], l, q) /\ ~Deciding(session[s], l, q)
      BY <2>2 DEF Applying, Deciding
    <3>3. \A t \in Sessions : /\ Applying(session[t], l, q) => Applying(session'[t], l, q)
                              /\ Deciding(session[t], l, q) => Deciding(session'[t], l, q)
      BY <1>1, <3>2
    <3>4. /\ register'[l][q] = register[l][q] /\ rows'[l][q] = rows[l][q]
          /\ chosen'[l][q] = chosen[l][q]
      BY <2>2
    <3> QED
      BY <3>1, <3>3, <3>4 DEF ValueExplained, ChoiceExplained
  <2> QED
    BY <2>1, <2>2
<1> QED
  BY <1>3, <1>4, <1>5 DEF Desk, ExplainedOK

-----------------------------------------------------------------------------
(* Passes asked for, taken up and ended.                                   *)

\* An idle session is well typed and counts on nothing.
LEMMA IdleFacts ==
  ASSUME NEW n \in Nat
  PROVE  /\ Idle \in SessionSet /\ Control(Idle) /\ Fits(Idle, n) /\ Idle.job = 0
         /\ \A k \in Kinds, r \in Risks : \A value, q : Fresh(Idle, k, r, value, q)
<1>1. Idle \in SessionSet
  BY DEF Idle, SessionSet, Kinds, Pcs
<1>2. Control(Idle)
  BY DEF Idle, Control, AtRisk, ReviewPcs, PassPcs
<1>3. Fits(Idle, n)
  BY DEF Idle, Fits
<1>4. \A k \in Kinds, r \in Risks : \A value, q : Fresh(Idle, k, r, value, q)
  BY DEF Idle, Fresh, PassPcs
<1> QED
  BY <1>1, <1>2, <1>3, <1>4 DEF Idle

\* A new job is with nobody yet, and has counted nothing.
LEMMA AskForPassKeeps ==
  ASSUME Inv, NEW p \in Postings, AskForPass(p)
  PROVE  Inv'
<1> DEFINE j == IF p.via = "job" THEN Len(jobs) + 1 ELSE 0
           m == [job |-> j, n |-> count, pass |-> p]
<1>1. /\ jobs' = IF j = 0 THEN jobs ELSE Append(jobs, Job("pending"))
      /\ inbox' = inbox \cup {m} \/ inbox' = inbox
      /\ count' = count + 1
      /\ UNCHANGED <<register, rows, serial, snapshots, session, chosen, raced, torn>>
  BY DEF AskForPass, More, history
<1>2. jobs \in Seq(JobSet) /\ Len(jobs) \in Nat /\ count \in Nat /\ inbox \in SUBSET TaskSet
  BY DEF Inv, Types, JobsTyped, StoreTyped
<1>3. j \in Nat /\ (j = 0 \/ j = Len(jobs) + 1)
  BY <1>2
<1>4. m \in TaskSet /\ m.job = j
  BY <1>2, <1>3 DEF TaskSet
<1>5. Job("pending") \in JobSet /\ Counted(Job("pending"))
  BY DEF Job, JobSet, Counted
<1> HIDE DEF m, j
<1>6. jobs' \in Seq(JobSet) /\ Len(jobs') >= Len(jobs) /\ Len(jobs') >= j /\ Len(jobs') \in Nat
  BY <1>1, <1>2, <1>3, <1>5
<1>7. \A i \in DOMAIN jobs : i \in DOMAIN jobs' /\ jobs'[i] = jobs[i]
  BY <1>1, <1>2, <1>5
<1>8. \A i \in DOMAIN jobs' : Counted(jobs'[i])
  <2>1. CASE j = 0
    BY <1>1, <2>1 DEF Inv, JobsOK
  <2>2. CASE j # 0
    <3>1. \A i \in DOMAIN jobs' : i \in DOMAIN jobs \/ jobs'[i] = Job("pending")
      BY <1>1, <1>2, <1>5, <2>2
    <3> QED
      BY <1>5, <1>7, <3>1 DEF Inv, JobsOK
  <2> QED
    BY <2>1, <2>2
<1>9. \A s \in Sessions : session[s].job # 0 => session[s].job \in DOMAIN jobs
  BY <1>2, AtSession
<1>10. JobsOK'
  BY <1>1, <1>7, <1>8, <1>9 DEF Inv, JobsOK
<1>11. OwnOK'
  <2>1. \A s \in Sessions : session[s].job \in 0..Len(jobs)
    BY DEF Inv, OwnOK
  <2>2. \A n \in inbox : n.job \in 0..Len(jobs)
    BY DEF Inv, OwnOK
  <2>3. \A n \in inbox' : n \in inbox \/ n = m
    BY <1>1
  <2>4. \A n \in inbox' : n.job \in 0..Len(jobs')
    BY <1>3, <1>4, <1>6, <2>2, <2>3
  <2>5. \A s \in Sessions : session[s].job \in 0..Len(jobs')
    BY <1>2, <1>6, <2>1
  <2>6. \A n \in inbox', s \in Sessions : n.job # 0 => n.job # session[s].job
    BY <1>2, <1>3, <1>4, <2>1, <2>3 DEF Inv, OwnOK
  <2>7. \A n, o \in inbox' : n.job # 0 /\ n.job = o.job => n = o
    BY <1>2, <1>3, <1>4, <2>2, <2>3 DEF Inv, OwnOK
  <2> QED
    BY <1>1, <2>4, <2>5, <2>6, <2>7 DEF Inv, OwnOK
<1>12. Types'
  BY <1>1, <1>2, <1>4, <1>6 DEF Inv, Types, SessionsTyped, StoreTyped, JobsTyped
<1>13. SessionsOK' /\ RegisterOK' /\ RowsOK'
  BY <1>1 DEF Inv, SessionsOK, RegisterOK, RowsOK
<1>14. Desk'
  BY <1>1 DEF Inv, Desk, FreshOK, DeskOK, ExplainedOK, OneOpen, ValueExplained, ChoiceExplained
<1> QED
  BY <1>10, <1>11, <1>12, <1>13, <1>14 DEF Inv
\* The invariant when a session went on with its own task, no job changed, and
\* it wrote nothing a reviewer or a pass reads.
LEMMA StepKeeps ==
  ASSUME Inv, NEW s \in Sessions, NEW w \in SessionSet, Goes(s, w),
         UNCHANGED <<register, rows, serial, jobs, inbox, chosen, raced>>,
         torn' \in SUBSET (Kinds \X Risks), torn \subseteq torn', count' \in Nat,
         snapshots' \in Seq(BOOLEAN), Control(w), Fits(w, serial),
         w.job \in {0, session[s].job}, w.job # 0 => Progress(w, jobs[w.job]),
         \A r \in Risks : <<w.kind, r>> \notin raced =>
            Fresh(w, w.kind, r, register[w.kind][r], rows[w.kind][r]),
         \A r \in session[s].cur : <<session[s].kind, r>> \notin torn' =>
            /\ Applying(session[s], session[s].kind, r) => Applying(w, session[s].kind, r)
            /\ Deciding(session[s], session[s].kind, r) => Deciding(w, session[s].kind, r)
  PROVE  Inv'
<1>1. serial \in Nat
  BY DEF Inv, Types, StoreTyped
<1>2. SessionsTyped' /\ SessionsOK'
  BY <1>1, SessionMoves
<1>3. OwnOK' /\ JobsOK'
  BY JobMoves
<1>4. Desk'
  BY QuietMoves
<1>5. StoreTyped' /\ JobsTyped' /\ RegisterOK' /\ RowsOK'
  BY DEF Inv, Types, StoreTyped, JobsTyped, RegisterOK, RowsOK
<1> QED
  BY <1>2, <1>3, <1>4, <1>5 DEF Inv, Types

\* The jobs when one session changed the row of its job.
LEMMA OwnJobMoves ==
  ASSUME Inv, NEW s \in Sessions, NEW w \in SessionSet, Goes(s, w), UNCHANGED inbox,
         session[s].job # 0, w.job = session[s].job, NEW job \in JobSet,
         jobs' = [jobs EXCEPT ![session[s].job] = job], Counted(job), Progress(w, job)
  PROVE  OwnOK' /\ JobsOK' /\ jobs' \in Seq(JobSet)
<1> DEFINE j == session[s].job
<1>1. jobs \in Seq(JobSet) /\ Len(jobs) \in Nat /\ DOMAIN jobs = 1..Len(jobs)
  BY DEF Inv, Types, JobsTyped
<1>2. j \in DOMAIN jobs
  BY <1>1, AtSession
<1>3. /\ jobs' \in Seq(JobSet) /\ DOMAIN jobs' = DOMAIN jobs /\ Len(jobs') = Len(jobs)
      /\ jobs'[j] = job /\ \A i \in DOMAIN jobs : i # j => jobs'[i] = jobs[i]
  BY <1>1, <1>2
<1>4. session'[s] = w /\ \A t \in Sessions : t # s => session'[t] = session[t]
  BY Where
<1>5. OwnOK'
  BY <1>3, <1>4 DEF Inv, OwnOK
<1>6. \A i \in DOMAIN jobs' : Counted(jobs'[i])
  BY <1>3 DEF Inv, JobsOK
<1>7. ASSUME NEW t \in Sessions, session'[t].job # 0
      PROVE  Progress(session'[t], jobs'[session'[t].job])
  <2>1. CASE t = s
    BY <1>3, <1>4, <2>1
  <2>2. CASE t # s
    <3>1. session[t].job \in DOMAIN jobs /\ session[t].job # j
      BY <1>1, <1>4, <1>7, <2>2, AtSession DEF Inv, OwnOK
    <3> QED
      BY <1>3, <1>4, <1>7, <2>2, <3>1 DEF Inv, JobsOK
  <2> QED
    BY <2>1, <2>2
<1> QED
  BY <1>3, <1>5, <1>6, <1>7 DEF JobsOK

\* The worker that takes a task has its job alone: the task is gone from the
\* broker, or the job is new.
LEMMA TakePassKeeps ==
  ASSUME Inv, NEW s \in Sessions, NEW m \in inbox, TakePass(s, m)
  PROVE  Inv'
<1> DEFINE j == IF OfStage(m) THEN Len(jobs) + 1 ELSE m.job
           w == [session[s] EXCEPT !.pc = IF m.pass.kind = "owner" THEN "boot" ELSE "read",
                                   !.kind = m.pass.kind, !.task = m, !.job = j]
<1>1. /\ session[s].pc = "idle" /\ inbox' = inbox \ {m} /\ Goes(s, w)
      /\ jobs' = IF OfStage(m) THEN Append(jobs, Job("running"))
                 ELSE [jobs EXCEPT ![j].status = "running"]
      /\ UNCHANGED <<register, rows, serial, snapshots, count, chosen, raced, torn>>
  BY DEF TakePass, At, history
<1>2. /\ jobs \in Seq(JobSet) /\ Len(jobs) \in Nat /\ DOMAIN jobs = 1..Len(jobs)
      /\ inbox \in SUBSET TaskSet /\ m \in TaskSet /\ serial \in Nat
  BY DEF Inv, Types, JobsTyped, StoreTyped
<1>3. m.pass \in Postings /\ m.job \in Nat /\ m.pass.kind \in Kinds
  BY <1>2, DeskAssumption DEF TaskSet
<1>4. session[s] = Idle /\ session[s] \in SessionSet
  BY <1>1, AtSession DEF Control
<1>5. m.job \in 0..Len(jobs) /\ \A t \in Sessions : session[t].job \in 0..Len(jobs)
  BY DEF Inv, OwnOK
<1>6. j \in Nat /\ j # 0 /\ m.job \in {0, j}
  BY <1>2, <1>3 DEF OfStage
<1>7. w \in SessionSet
  BY <1>2, <1>3, <1>4, <1>6 DEF SessionSet, Pcs
<1>8. /\ w.pc \in {"boot", "read"} /\ w.kind = m.pass.kind /\ w.task = m /\ w.job = j
      /\ w.seen = Idle.seen /\ w.todo = {} /\ w.cur = {} /\ w.value = {} /\ ~w.applied /\ w.ids = {}
  BY <1>4 DEF SessionSet, Idle
<1> HIDE DEF w
<1>9. Control(w)
  BY <1>2, <1>6, <1>8 DEF Control, AtRisk, PassPcs, ReviewPcs
<1>10. Fits(w, serial)
  BY <1>8 DEF Fits, Idle
<1>11. \A r \in Risks : Fresh(w, w.kind, r, register[w.kind][r], rows[w.kind][r])
  BY <1>8 DEF Fresh, PassPcs
<1>12. SessionsTyped' /\ SessionsOK'
  BY <1>1, <1>2, <1>7, <1>9, <1>10, SessionMoves
<1>13. session[s].cur = {}
  BY <1>4 DEF Idle
<1>14. Desk'
  BY <1>1, <1>7, <1>11, <1>13, QuietMoves
<1>15. session'[s] = w /\ \A t \in Sessions : t # s => session'[t] = session[t]
  BY <1>1, <1>7, Where
<1>16. \A t \in Sessions : session[t].job # j
  BY <1>2, <1>5, <1>6, <1>4 DEF Inv, OwnOK, Idle
<1>17. /\ jobs' \in Seq(JobSet) /\ Len(jobs') \in Nat /\ Len(jobs') >= Len(jobs) /\ j <= Len(jobs')
       /\ jobs'[j].status = "running"
       /\ \A i \in DOMAIN jobs' : (i \in DOMAIN jobs /\ jobs'[i] = jobs[i]) \/ i = j
       /\ \A i \in DOMAIN jobs : i # j => jobs'[i] = jobs[i]
       /\ Counted(jobs'[j])
  <2>1. CASE OfStage(m)
    <3>1. Job("running") \in JobSet /\ Job("running").status = "running" /\ Counted(Job("running"))
      BY DEF Job, JobSet, Counted
    <3>2. j = Len(jobs) + 1
      BY <2>1
    <3>3. jobs' = Append(jobs, Job("running"))
      BY <1>1, <2>1
    <3> HIDE DEF j
    <3> QED
      BY <1>2, <3>1, <3>2, <3>3
  <2>2. CASE ~OfStage(m)
    <3> DEFINE job == [jobs[j] EXCEPT !.status = "running"]
    <3>1. j \in DOMAIN jobs
      BY <1>2, <1>5, <2>2, <1>6 DEF OfStage
    <3>2. jobs' = [jobs EXCEPT ![j] = job]
      BY <1>1, <2>2
    <3>3. jobs[j] \in JobSet /\ Counted(jobs[j])
      BY <1>2, <3>1 DEF Inv, JobsOK
    <3>4. job \in JobSet /\ job.status = "running" /\ Counted(job)
      BY <3>3 DEF JobSet, Counted
    <3> HIDE DEF j, job
    <3> QED
      BY <1>2, <3>1, <3>2, <3>4
  <2> QED
    BY <2>1, <2>2
<1> HIDE DEF j
<1>18. JobsTyped'
  BY <1>1, <1>2, <1>17 DEF Inv, Types, JobsTyped
<1>19. OwnOK'
  <2>1. \A t \in Sessions : session'[t].job \in 0..Len(jobs')
    BY <1>2, <1>5, <1>6, <1>8, <1>15, <1>17
  <2>2. \A n \in inbox' : n \in inbox /\ n # m
    BY <1>1
  <2>3. \A n \in inbox' : n.job \in 0..Len(jobs')
    BY <1>2, <1>17, <2>2 DEF Inv, OwnOK
  <2>4. \A t, u \in Sessions : session'[t].job # 0 /\ session'[t].job = session'[u].job => t = u
    BY <1>8, <1>15, <1>16 DEF Inv, OwnOK
  <2>5. \A n \in inbox' : n.job # 0 => n.job # j
    <3> SUFFICES ASSUME NEW n \in inbox', n.job # 0, n.job = j PROVE FALSE
      OBVIOUS
    <3>1. n.job \in 0..Len(jobs) /\ n \in inbox /\ n # m
      BY <2>2 DEF Inv, OwnOK
    <3>2. m.job # j
      BY <3>1, <1>6 DEF Inv, OwnOK
    <3>3. m.job = 0
      BY <1>6, <3>2
    <3>4. j = Len(jobs) + 1
      BY <3>3 DEF j, OfStage
    <3> QED
      BY <1>2, <3>1, <3>4
  <2>6. \A n \in inbox', t \in Sessions : n.job # 0 => n.job # session'[t].job
    BY <1>8, <1>15, <2>2, <2>5 DEF Inv, OwnOK
  <2>7. \A n, o \in inbox' : n.job # 0 /\ n.job = o.job => n = o
    BY <2>2 DEF Inv, OwnOK
  <2> QED
    BY <2>1, <2>3, <2>4, <2>6, <2>7 DEF OwnOK
<1>20. JobsOK'
  <2>1. \A i \in DOMAIN jobs' : Counted(jobs'[i])
    BY <1>17 DEF Inv, JobsOK
  <2>2. ASSUME NEW t \in Sessions, session'[t].job # 0
        PROVE  Progress(session'[t], jobs'[session'[t].job])
    <3>1. CASE t = s
      BY <1>8, <1>15, <1>17, <3>1 DEF Progress, PassPcs
    <3>2. CASE t # s
      <4>1. session[t].job \in DOMAIN jobs /\ session[t].job # j
        BY <1>2, <1>5, <1>15, <1>16, <2>2, <3>2
      <4>2. jobs'[session[t].job] = jobs[session[t].job]
        BY <1>17, <4>1
      <4> QED
        BY <1>15, <2>2, <3>2, <4>2 DEF Inv, JobsOK
    <3> QED
      BY <3>1, <3>2
  <2> QED
    BY <2>1, <2>2 DEF JobsOK
<1>21. StoreTyped' /\ RegisterOK' /\ RowsOK'
  BY <1>1 DEF Inv, Types, StoreTyped, RegisterOK, RowsOK
<1> QED
  BY <1>12, <1>14, <1>18, <1>19, <1>20, <1>21 DEF Inv, Types
\* A pass that has no risk left to do has counted them all.
LEMMA FinishPassKeeps ==
  ASSUME Inv, NEW s \in Sessions, FinishPass(s)
  PROVE  Inv'
<1> DEFINE w == [session[s] EXCEPT !.pc = "ack"]
           j == session[s].job
           job == [jobs[j] EXCEPT !.status = "completed"]
<1>1. /\ session[s].pc = "next" /\ session[s].todo = {} /\ Goes(s, w)
      /\ jobs' = [jobs EXCEPT ![j] = job]
      /\ UNCHANGED <<register, rows, serial, snapshots, inbox, count, chosen, raced, torn>>
  BY DEF FinishPass, At, history
<1>2. /\ session[s] \in SessionSet /\ Control(session[s]) /\ Fits(session[s], serial)
      /\ j \in 0..Len(jobs)
  BY AtSession
<1>3. /\ w \in SessionSet /\ w.pc = "ack" /\ w.kind = session[s].kind /\ w.job = j
      /\ w.task = session[s].task /\ w.seen = session[s].seen /\ w.todo = session[s].todo
      /\ w.cur = session[s].cur /\ w.value = session[s].value /\ w.ids = session[s].ids
      /\ w.applied = session[s].applied
  BY <1>2 DEF SessionSet, Pcs
<1>4. j # 0 /\ session[s].cur = {} /\ ~session[s].applied
  BY <1>1, <1>2 DEF Control, PassPcs, AtRisk, ReviewPcs
<1>5. jobs \in Seq(JobSet) /\ serial \in Nat /\ j \in DOMAIN jobs /\ jobs[j] \in JobSet
  <2>1. jobs \in Seq(JobSet) /\ serial \in Nat
    BY DEF Inv, Types, JobsTyped, StoreTyped
  <2>2. j \in DOMAIN jobs
    BY <1>2, <1>4, <2>1
  <2> QED
    BY <2>1, <2>2
<1>6. job \in JobSet /\ job.status = "completed" /\ job.done = jobs[j].done /\ job.total = jobs[j].total
  BY <1>5 DEF JobSet
<1>7. jobs[j].done = jobs[j].total
  <2>1. Progress(session[s], jobs[j])
    BY <1>4 DEF Inv, JobsOK
  <2>2. Left(session[s]) = 0
    BY <1>1, <1>4, FS_EmptySet DEF Left
  <2> QED
    BY <1>1, <1>5, <2>1, <2>2 DEF Progress, PassPcs, JobSet
<1> HIDE DEF w, job
<1>8. Counted(job) /\ Progress(w, job)
  BY <1>3, <1>5, <1>6, <1>7 DEF Counted, Progress, PassPcs, JobSet
<1>9. Control(w)
  BY <1>1, <1>2, <1>3, <1>4 DEF Control, AtRisk, ReviewPcs, PassPcs
<1>10. Fits(w, serial)
  BY <1>2, <1>3 DEF Fits
<1>11. SessionsTyped' /\ SessionsOK'
  BY <1>1, <1>3, <1>5, <1>9, <1>10, SessionMoves
<1>12. OwnOK' /\ JobsOK' /\ jobs' \in Seq(JobSet)
  BY <1>1, <1>3, <1>4, <1>6, <1>8, OwnJobMoves
<1>13. \A r \in Risks : Fresh(w, w.kind, r, register[w.kind][r], rows[w.kind][r])
  BY <1>3 DEF Fresh, PassPcs
<1>14. Desk'
  BY <1>1, <1>3, <1>4, <1>13, QuietMoves
<1>15. StoreTyped' /\ JobsTyped' /\ RegisterOK' /\ RowsOK'
  BY <1>1, <1>12 DEF Inv, Types, StoreTyped, JobsTyped, RegisterOK, RowsOK
<1> QED
  BY <1>11, <1>12, <1>14, <1>15 DEF Inv, Types

\* A session that is done leaves its job as it is.
LEMMA AcknowledgePassKeeps ==
  ASSUME Inv, NEW s \in Sessions, AcknowledgePass(s)
  PROVE  Inv'
<1>1. /\ session[s].pc = "ack" /\ Goes(s, Idle)
      /\ UNCHANGED <<register, rows, serial, snapshots, jobs, inbox, count, chosen, raced, torn>>
  BY DEF AcknowledgePass, At, history, Goes
<1>2. serial \in Nat /\ torn \in SUBSET (Kinds \X Risks) /\ count \in Nat /\ snapshots \in Seq(BOOLEAN)
  BY DEF Inv, Types, StoreTyped, JobsTyped
<1>3. /\ Idle \in SessionSet /\ Control(Idle) /\ Fits(Idle, serial) /\ Idle.job = 0
      /\ \A r \in Risks : Fresh(Idle, Idle.kind, r, register[Idle.kind][r], rows[Idle.kind][r])
  <2>1. Idle.kind \in Kinds
    BY DEF Idle, Kinds
  <2> QED
    BY <1>2, <2>1, IdleFacts
<1>4. session[s].cur = {}
  BY <1>1, AtSession DEF Control, AtRisk, ReviewPcs
<1> QED
  BY <1>1, <1>2, <1>3, <1>4, StepKeeps

\* What a session tears is what it is at.
LEMMA TearFacts ==
  ASSUME Inv, NEW s \in Sessions, Tear(s)
  PROVE  /\ torn' \in SUBSET (Kinds \X Risks) /\ torn \subseteq torn'
         /\ \A r \in session[s].cur : <<session[s].kind, r>> \in torn'
<1>1. session[s].kind \in Kinds /\ session[s].cur \subseteq Risks
  BY AtSession DEF SessionSet
<1>2. torn \in SUBSET (Kinds \X Risks)
  BY DEF Inv, Types, StoreTyped
<1> QED
  BY <1>1, <1>2 DEF Tear

\* A pass that raises leaves the risk it was at torn, and its job failed.
LEMMA PassRaisesKeeps ==
  ASSUME Inv, NEW s \in Sessions, PassRaises(s)
  PROVE  Inv'
<1> DEFINE j == session[s].job
           job == [jobs[j] EXCEPT !.status = "failed"]
<1>1. /\ j # 0 /\ Goes(s, Idle) /\ Tear(s) /\ count' = count + 1
      /\ jobs' = IF OfStage(session[s].task) THEN jobs ELSE [jobs EXCEPT ![j] = job]
      /\ UNCHANGED <<register, rows, serial, snapshots, inbox, chosen, raced>>
  BY DEF PassRaises, Goes, More
<1>2. /\ serial \in Nat /\ count' \in Nat /\ snapshots' \in Seq(BOOLEAN) /\ jobs \in Seq(JobSet)
      /\ torn' \in SUBSET (Kinds \X Risks) /\ torn \subseteq torn'
      /\ \A r \in session[s].cur : <<session[s].kind, r>> \in torn'
  BY <1>1, TearFacts DEF Inv, Types, StoreTyped, JobsTyped
<1>3. /\ Idle \in SessionSet /\ Control(Idle) /\ Fits(Idle, serial) /\ Idle.job = 0
      /\ \A r \in Risks : Fresh(Idle, Idle.kind, r, register[Idle.kind][r], rows[Idle.kind][r])
  <2>1. Idle.kind \in Kinds
    BY DEF Idle, Kinds
  <2> QED
    BY <1>2, <2>1, IdleFacts
<1>4. SessionsTyped' /\ SessionsOK'
  BY <1>1, <1>2, <1>3, SessionMoves
<1>5. Desk'
  BY <1>1, <1>2, <1>3, QuietMoves
<1>6. OwnOK' /\ JobsOK' /\ jobs' \in Seq(JobSet)
  <2>1. CASE OfStage(session[s].task)
    BY <1>1, <1>2, <1>3, <2>1, JobMoves
  <2>2. CASE ~OfStage(session[s].task)
    <3>1. j \in DOMAIN jobs
      BY <1>1, <1>2, AtSession
    <3>2. jobs[j] \in JobSet /\ Counted(jobs[j])
      BY <1>2, <3>1 DEF Inv, JobsOK
    <3>3. job \in JobSet /\ Counted(job)
      BY <3>2 DEF JobSet, Counted
    <3>4. jobs' = [jobs EXCEPT ![j] = job]
      BY <1>1, <2>2
    <3> HIDE DEF job
    <3>5. /\ jobs' \in Seq(JobSet) /\ Len(jobs') = Len(jobs) /\ DOMAIN jobs' = DOMAIN jobs
          /\ jobs'[j] = job /\ \A i \in DOMAIN jobs : i # j => jobs'[i] = jobs[i]
      BY <1>2, <3>1, <3>3, <3>4
    <3>6. session'[s] = Idle /\ \A t \in Sessions : t # s => session'[t] = session[t]
      BY <1>1, <1>3, Where
    <3>7. OwnOK'
      <4>1. \A t \in Sessions : session'[t].job \in {0, session[t].job}
        BY <1>3, <3>6
      <4>2. UNCHANGED inbox /\ Len(jobs') = Len(jobs)
        BY <1>1, <3>5
      <4>3. \A t \in Sessions : session'[t].job \in 0..Len(jobs')
        BY <1>2, <4>1, <4>2 DEF Inv, OwnOK
      <4>4. \A t, u \in Sessions : session'[t].job # 0 /\ session'[t].job = session'[u].job => t = u
        BY <4>1 DEF Inv, OwnOK
      <4>5. \A n \in inbox', t \in Sessions : n.job # 0 => n.job # session'[t].job
        BY <4>1, <4>2 DEF Inv, OwnOK
      <4>6. \A n \in inbox' : n.job \in 0..Len(jobs')
        BY <4>2 DEF Inv, OwnOK
      <4>7. \A n, o \in inbox' : n.job # 0 /\ n.job = o.job => n = o
        BY <4>2 DEF Inv, OwnOK
      <4> QED
        BY <4>3, <4>4, <4>5, <4>6, <4>7 DEF OwnOK
    <3>8. ASSUME NEW t \in Sessions, session'[t].job # 0
          PROVE  Progress(session'[t], jobs'[session'[t].job])
      <4>1. t # s /\ session'[t] = session[t]
        BY <1>3, <3>6, <3>8
      <4>2. session[t].job # j /\ session[t].job \in DOMAIN jobs
        BY <1>2, <3>8, <4>1, AtSession DEF Inv, OwnOK
      <4> QED
        BY <3>5, <3>8, <4>1, <4>2 DEF Inv, JobsOK
    <3>9. \A i \in DOMAIN jobs' : Counted(jobs'[i])
      BY <3>3, <3>5 DEF Inv, JobsOK
    <3> QED
      BY <3>5, <3>7, <3>8, <3>9 DEF JobsOK
  <2> QED
    BY <2>1, <2>2
<1>7. StoreTyped' /\ JobsTyped' /\ RegisterOK' /\ RowsOK'
  BY <1>1, <1>2, <1>6 DEF Inv, Types, StoreTyped, JobsTyped, RegisterOK, RowsOK
<1> QED
  BY <1>4, <1>5, <1>6, <1>7 DEF Inv, Types

\* A session that is lost gives its task, and with it its job, back.
LEMMA SessionLostKeeps ==
  ASSUME Inv, NEW s \in Sessions, SessionLost(s)
  PROVE  Inv'
<1>1. /\ Goes(s, Idle) /\ Tear(s) /\ count' = count + 1
      /\ inbox' = IF session[s].job = 0 THEN inbox ELSE inbox \cup {session[s].task}
      /\ UNCHANGED <<register, rows, serial, snapshots, jobs, chosen, raced>>
  BY DEF SessionLost, Goes, More
<1>2. /\ serial \in Nat /\ count' \in Nat /\ snapshots' \in Seq(BOOLEAN) /\ jobs \in Seq(JobSet)
      /\ torn' \in SUBSET (Kinds \X Risks) /\ torn \subseteq torn' /\ Len(jobs) \in Nat
      /\ \A r \in session[s].cur : <<session[s].kind, r>> \in torn'
  BY <1>1, TearFacts DEF Inv, Types, StoreTyped, JobsTyped
<1>3. /\ Idle \in SessionSet /\ Control(Idle) /\ Fits(Idle, serial) /\ Idle.job = 0
      /\ \A r \in Risks : Fresh(Idle, Idle.kind, r, register[Idle.kind][r], rows[Idle.kind][r])
  <2>1. Idle.kind \in Kinds
    BY DEF Idle, Kinds
  <2> QED
    BY <1>2, <2>1, IdleFacts
<1>4. SessionsTyped' /\ SessionsOK'
  BY <1>1, <1>2, <1>3, SessionMoves
<1>5. Desk'
  BY <1>1, <1>2, <1>3, QuietMoves
<1>6. session'[s] = Idle /\ \A t \in Sessions : t # s => session'[t] = session[t]
  BY <1>1, <1>3, Where
<1>7. session[s].job # 0 => session[s].task \in TaskSet /\ session[s].task.job \in {0, session[s].job}
  BY AtSession DEF Control
<1>8. \A n \in inbox' : n \in inbox \/ (n = session[s].task /\ session[s].job # 0)
  BY <1>1
<1>9. inbox' \in SUBSET TaskSet
  BY <1>7, <1>8 DEF Inv, Types, JobsTyped
<1>10. OwnOK'
  <2>1. \A t \in Sessions : session'[t].job \in 0..Len(jobs)
    BY <1>2, <1>3, <1>6 DEF Inv, OwnOK
  <2>2. \A n \in inbox' : n.job \in 0..Len(jobs)
    BY <1>2, <1>7, <1>8 DEF Inv, OwnOK
  <2>3. \A t, u \in Sessions : session'[t].job # 0 /\ session'[t].job = session'[u].job => t = u
    BY <1>3, <1>6 DEF Inv, OwnOK
  <2>4. \A n \in inbox', t \in Sessions : n.job # 0 => n.job # session'[t].job
    <3> SUFFICES ASSUME NEW n \in inbox', NEW t \in Sessions, n.job # 0, n.job = session'[t].job
                 PROVE  FALSE
      OBVIOUS
    <3>1. t # s /\ session'[t] = session[t]
      BY <1>3, <1>6
    <3>2. CASE n \in inbox
      BY <3>1, <3>2 DEF Inv, OwnOK
    <3>3. CASE n = session[s].task /\ session[s].job # 0
      BY <1>7, <3>1, <3>3 DEF Inv, OwnOK
    <3> QED
      BY <1>8, <3>2, <3>3
  <2>5. \A n, o \in inbox' : n.job # 0 /\ n.job = o.job => n = o
    <3>1. \A n \in inbox : n.job # 0 => n.job # session[s].job
      BY DEF Inv, OwnOK
    <3>2. \A n, o \in inbox : n.job # 0 /\ n.job = o.job => n = o
      BY DEF Inv, OwnOK
    <3> QED
      BY <1>7, <1>8, <3>1, <3>2
  <2> QED
    BY <1>1, <2>1, <2>2, <2>3, <2>4, <2>5 DEF OwnOK
<1>11. JobsOK'
  BY <1>1, <1>3, <1>6 DEF Inv, JobsOK
<1>12. StoreTyped' /\ JobsTyped' /\ RegisterOK' /\ RowsOK'
  BY <1>1, <1>2, <1>9 DEF Inv, Types, StoreTyped, JobsTyped, RegisterOK, RowsOK
<1> QED
  BY <1>4, <1>5, <1>10, <1>11, <1>12 DEF Inv, Types
-----------------------------------------------------------------------------
(* The hierarchy.                                                          *)

\* A step before the risks are read.
LEMMA BootKeeps ==
  ASSUME Inv, NEW s \in Sessions, session[s].pc \in {"boot", "create", "fill"},
         NEW pc \in {"create", "fill", "find", "read"}, NEW n \in Nat,
         pc = "find" => session[s].job = 0, pc = "read" => session[s].job # 0,
         Goes(s, [session[s] EXCEPT !.pc = pc, !.snap = n]), snapshots' \in Seq(BOOLEAN),
         UNCHANGED <<register, rows, serial, jobs, inbox, count, chosen, raced, torn>>
  PROVE  Inv'
<1> DEFINE w == [session[s] EXCEPT !.pc = pc, !.snap = n]
<1>1. session[s] \in SessionSet /\ Control(session[s]) /\ Fits(session[s], serial)
  BY AtSession
<1>2. /\ w \in SessionSet /\ w.pc = pc /\ w.kind = session[s].kind /\ w.job = session[s].job
      /\ w.task = session[s].task /\ w.seen = session[s].seen /\ w.todo = session[s].todo
      /\ w.cur = session[s].cur /\ w.value = session[s].value /\ w.ids = session[s].ids
      /\ w.applied = session[s].applied
  BY <1>1 DEF SessionSet, Pcs
<1>3. Goes(s, w)
  OBVIOUS
<1>4. session[s].cur = {} /\ ~session[s].applied
  BY <1>1 DEF Control, AtRisk, ReviewPcs
<1> HIDE DEF w
<1>5. Control(w)
  BY <1>1, <1>2, <1>4 DEF Control, AtRisk, ReviewPcs, PassPcs
<1>6. Fits(w, serial)
  BY <1>1, <1>2 DEF Fits
<1>7. \A r \in Risks : Fresh(w, w.kind, r, register[w.kind][r], rows[w.kind][r])
  BY <1>2 DEF Fresh, PassPcs
<1>8. w.job # 0 => Progress(w, jobs[w.job])
  BY <1>2 DEF Inv, JobsOK, Progress, PassPcs
<1>9. torn' \in SUBSET (Kinds \X Risks) /\ count' \in Nat
  BY DEF Inv, Types, StoreTyped
<1> QED
  BY <1>2, <1>3, <1>4, <1>5, <1>6, <1>7, <1>8, <1>9, StepKeeps

\* The steps of ensure_default_hierarchy write nothing the invariant reads.
LEMMA HierarchyKeeps ==
  ASSUME Inv, NEW s \in Sessions, FindSnapshot(s) \/ CreateSnapshot(s) \/ InsertUsers(s)
  PROVE  Inv'
<1>1. /\ snapshots \in Seq(BOOLEAN) /\ Len(snapshots) \in Nat
      /\ session[s] \in SessionSet /\ session[s].snap \in Nat /\ session[s].job \in Nat
  BY AtSession DEF Inv, Types, JobsTyped, SessionSet
<1>2. CASE FindSnapshot(s) /\ snapshots = <<>>
  <2>1. [session[s] EXCEPT !.pc = "create"] = [session[s] EXCEPT !.pc = "create", !.snap = session[s].snap]
    BY <1>1 DEF SessionSet
  <2> QED
    BY <1>1, <1>2, <2>1, BootKeeps DEF FindSnapshot, At, history
<1>3. CASE FindSnapshot(s) /\ snapshots # <<>>
  BY <1>1, <1>3, BootKeeps DEF FindSnapshot, Booted, At, history
<1>4. CASE CreateSnapshot(s)
  <2>1. Append(snapshots, FALSE) \in Seq(BOOLEAN)
    BY <1>1, AppendProperties
  <2>2. snapshots' \in Seq(BOOLEAN) /\ Len(snapshots) + 1 \in Nat
    BY <1>1, <1>4, <2>1 DEF CreateSnapshot
  <2> QED
    BY <1>4, <2>2, BootKeeps DEF CreateSnapshot, At, history
<1>5. CASE InsertUsers(s)
  <2>1. snapshots' = [snapshots EXCEPT ![session[s].snap] = TRUE]
    BY <1>5 DEF InsertUsers
  <2>2. snapshots' \in Seq(BOOLEAN)
    <3>1. CASE session[s].snap \in 1..Len(snapshots)
      BY <1>1, <2>1, <3>1, ExceptSeq
    <3>2. CASE session[s].snap \notin 1..Len(snapshots)
      <4>1. DOMAIN snapshots = 1..Len(snapshots) /\ snapshots \in [1..Len(snapshots) -> BOOLEAN]
        BY <1>1, LenProperties
      <4>2. snapshots' = snapshots
        BY <2>1, <3>2, <4>1, Zenon
      <4> QED
        BY <1>1, <4>2
    <3> QED
      BY <3>1, <3>2
  <2> QED
    BY <1>1, <1>5, <2>2, BootKeeps DEF InsertUsers, Booted, At, history
<1> QED
  BY <1>2, <1>3, <1>4, <1>5

-----------------------------------------------------------------------------
(* A pass.                                                                 *)

\* A pass that reads its risks counts those that it will do, and holds them
\* as they are now.
LEMMA ReadRisksKeeps ==
  ASSUME Inv, Finite, NEW s \in Sessions, ReadRisks(s)
  PROVE  Inv'
<1> DEFINE k == session[s].kind
           j == session[s].job
           todo == Eligible(k, session[s].task.pass)
           job == [jobs[j] EXCEPT !.total = Cardinality(todo), !.done = 0]
           w == [session[s] EXCEPT !.pc = "next", !.seen = register[k], !.todo = todo,
                                   !.users = k = "tags" \/ snapshots[session[s].snap]]
<1>1. /\ session[s].pc = "read" /\ Goes(s, w) /\ jobs' = [jobs EXCEPT ![j] = job]
      /\ UNCHANGED <<register, rows, serial, snapshots, inbox, count, chosen, raced, torn>>
  BY DEF ReadRisks, ReadWith, At, history
<1>2. /\ session[s] \in SessionSet /\ Control(session[s]) /\ Fits(session[s], serial)
      /\ j \in 0..Len(jobs) /\ k \in Kinds
  BY AtSession
<1>3. todo \in SUBSET Risks /\ register[k] \in [Risks -> SUBSET All]
  BY <1>2 DEF Eligible, Inv, Types, StoreTyped
<1>4. /\ w \in SessionSet /\ w.pc = "next" /\ w.kind = k /\ w.job = j
      /\ w.task = session[s].task /\ w.seen = register[k] /\ w.todo = todo
      /\ w.cur = session[s].cur /\ w.value = session[s].value /\ w.ids = session[s].ids
      /\ w.applied = session[s].applied
  <2> HIDE DEF todo
  <2> QED
    BY <1>2, <1>3 DEF SessionSet, Pcs
<1>5. j # 0 /\ session[s].cur = {} /\ ~session[s].applied
  BY <1>1, <1>2 DEF Control, PassPcs, AtRisk, ReviewPcs
<1>6. jobs \in Seq(JobSet) /\ serial \in Nat /\ j \in DOMAIN jobs /\ jobs[j] \in JobSet
  <2>1. jobs \in Seq(JobSet) /\ serial \in Nat
    BY DEF Inv, Types, JobsTyped, StoreTyped
  <2>2. j \in DOMAIN jobs
    BY <1>2, <1>5, <2>1
  <2> QED
    BY <2>1, <2>2
<1>7. Cardinality(todo) \in Nat
  BY <1>3, FS_Subset, FS_CardinalityType DEF Finite
<1>8. /\ job \in JobSet /\ job.status = jobs[j].status /\ job.done = 0
      /\ job.total = Cardinality(todo)
  <2> HIDE DEF todo
  <2> QED
    BY <1>6, <1>7 DEF JobSet
<1>9. \A r \in Risks : Fresh(w, w.kind, r, register[w.kind][r], rows[w.kind][r])
  <2> SUFFICES ASSUME NEW r \in Risks PROVE Fresh(w, w.kind, r, register[w.kind][r], rows[w.kind][r])
    OBVIOUS
  <2>1. r \in todo => (session[s].task.pass.openOnly => ~IsSettled(k, register[k][r]))
    BY DEF Eligible
  <2> HIDE DEF w, todo
  <2> QED
    BY <1>4, <2>1 DEF Fresh
<1> HIDE DEF w, job, todo
<1>10. Counted(job) /\ Progress(w, job)
  <2>1. jobs[j].status = "running"
    BY <1>1, <1>5 DEF Inv, JobsOK, Progress
  <2>2. Left(w) = Cardinality(todo)
    BY <1>4, <1>5, <1>7, FS_EmptySet DEF Left
  <2> QED
    BY <1>4, <1>7, <1>8, <2>1, <2>2 DEF Counted, Progress
<1>11. Control(w)
  BY <1>1, <1>2, <1>4, <1>5 DEF Control, AtRisk, ReviewPcs, PassPcs
<1>12. Fits(w, serial)
  BY <1>2, <1>4 DEF Fits, Inv, RegisterOK
<1>13. SessionsTyped' /\ SessionsOK'
  BY <1>1, <1>4, <1>6, <1>11, <1>12, SessionMoves
<1>14. OwnOK' /\ JobsOK' /\ jobs' \in Seq(JobSet)
  BY <1>1, <1>4, <1>5, <1>8, <1>10, OwnJobMoves
<1>15. Desk'
  BY <1>1, <1>4, <1>5, <1>9, QuietMoves
<1>16. StoreTyped' /\ JobsTyped' /\ RegisterOK' /\ RowsOK'
  BY <1>1, <1>14 DEF Inv, Types, StoreTyped, JobsTyped, RegisterOK, RowsOK
<1> QED
  BY <1>13, <1>14, <1>15, <1>16 DEF Inv, Types

\* What a pass has left when it takes up one of its risks.
LEMMA LeftAfter ==
  ASSUME Finite, NEW todo \in SUBSET Risks, NEW r \in todo
  PROVE  Cardinality(todo \ {r}) + Cardinality({r}) = Cardinality(todo) + Cardinality({})
<1>1. IsFiniteSet(todo)
  BY FS_Subset DEF Finite
<1>2. Cardinality(todo \ {r}) = Cardinality(todo) - 1 /\ Cardinality(todo) \in Nat
  BY <1>1, FS_RemoveElement, FS_CardinalityType
<1> QED
  BY <1>2, FS_Singleton, FS_EmptySet

\* The next risk moves from what is to be done to what is being done.
LEMMA RecommendKeeps ==
  ASSUME Inv, Finite, NEW s \in Sessions, NEW r \in Risks, Recommend(s, r)
  PROVE  Inv'
<1> DEFINE k == session[s].kind
           w == [session[s] EXCEPT !.pc = "delete", !.cur = {r}, !.todo = @ \ {r},
                                   !.ids = OpenIds(k, r)]
<1>1. /\ session[s].pc = "next" /\ r \in session[s].todo /\ Goes(s, w)
      /\ UNCHANGED <<register, rows, serial, snapshots, jobs, inbox, count, chosen, raced, torn>>
  BY DEF Recommend, At, history
<1>2. /\ session[s] \in SessionSet /\ Control(session[s]) /\ Fits(session[s], serial) /\ k \in Kinds
      /\ \A q \in Risks : <<k, q>> \notin raced =>
            Fresh(session[s], k, q, register[k][q], rows[k][q])
  BY AtSession
<1>3. OpenIds(k, r) = OpenOf(rows[k][r]) /\ OpenIds(k, r) \subseteq 1..serial /\ OpenIds(k, r) \in SUBSET Nat
  BY <1>2 DEF OpenIds, OpenOf, Inv, RowsOK, RowsFit
<1>4. /\ w \in SessionSet /\ w.pc = "delete" /\ w.kind = k /\ w.job = session[s].job
      /\ w.task = session[s].task /\ w.seen = session[s].seen /\ w.todo = session[s].todo \ {r}
      /\ w.cur = {r} /\ w.value = session[s].value /\ w.ids = OpenOf(rows[k][r])
      /\ w.applied = session[s].applied
  BY <1>2, <1>3 DEF SessionSet, Pcs, AtRisk
<1>5. session[s].job # 0 /\ session[s].cur = {} /\ ~session[s].applied /\ session[s].todo \in SUBSET Risks
  BY <1>1, <1>2 DEF Control, PassPcs, AtRisk, ReviewPcs, SessionSet
<1> HIDE DEF w
<1>6. Control(w)
  BY <1>1, <1>2, <1>4, <1>5 DEF Control, AtRisk, ReviewPcs, PassPcs
<1>7. Fits(w, serial)
  BY <1>2, <1>3, <1>4 DEF Fits
<1>8. \A q \in Risks : <<w.kind, q>> \notin raced =>
         Fresh(w, w.kind, q, register[w.kind][q], rows[w.kind][q])
  BY <1>1, <1>2, <1>4 DEF Fresh, PassPcs
<1>9. Progress(w, jobs[w.job])
  <2>1. Progress(session[s], jobs[session[s].job])
    BY <1>5 DEF Inv, JobsOK
  <2>2. Left(w) = Left(session[s])
    BY <1>1, <1>4, <1>5, LeftAfter DEF Left
  <2> QED
    BY <1>1, <1>4, <2>1, <2>2 DEF Progress, PassPcs
<1>10. torn' \in SUBSET (Kinds \X Risks) /\ count' \in Nat /\ snapshots' \in Seq(BOOLEAN)
  BY <1>1 DEF Inv, Types, StoreTyped, JobsTyped
<1> QED
  BY <1>1, <1>4, <1>5, <1>6, <1>7, <1>8, <1>9, <1>10, StepKeeps
\* The risk a session is at.
LEMMA CurrentRisk ==
  ASSUME Inv, NEW s \in Sessions, session[s].pc \in AtRisk
  PROVE  /\ Current(s) \in Risks /\ session[s].cur = {Current(s)}
         /\ Current(s) \notin session[s].todo
<1>1. PICK r \in Risks : session[s].cur = {r} /\ r \notin session[s].todo
  BY AtSession DEF Control
<1>2. Current(s) = r
  BY <1>1 DEF Current
<1> QED
  BY <1>1, <1>2

\* The rows that a pass selects are the open ones.
LEMMA SelectOpenKeeps ==
  ASSUME Inv, NEW s \in Sessions, SelectOpen(s)
  PROVE  Inv'
<1> DEFINE k == session[s].kind
           r == Current(s)
           w == [session[s] EXCEPT !.pc = "delete", !.ids = OpenIds(k, r)]
<1>1. /\ session[s].pc = "select" /\ Goes(s, w)
      /\ UNCHANGED <<register, rows, serial, snapshots, jobs, inbox, count, chosen, raced, torn>>
  BY DEF SelectOpen, At, history
<1>2. /\ session[s] \in SessionSet /\ Control(session[s]) /\ Fits(session[s], serial) /\ k \in Kinds
      /\ \A q \in Risks : <<k, q>> \notin raced =>
            Fresh(session[s], k, q, register[k][q], rows[k][q])
  BY AtSession
<1>3. r \in Risks /\ session[s].cur = {r}
  BY <1>1, CurrentRisk DEF AtRisk
<1> HIDE DEF r
<1>4. OpenIds(k, r) = OpenOf(rows[k][r]) /\ OpenIds(k, r) \subseteq 1..serial /\ OpenIds(k, r) \in SUBSET Nat
  BY <1>2, <1>3 DEF OpenIds, OpenOf, Inv, RowsOK, RowsFit
<1>5. /\ w \in SessionSet /\ w.pc = "delete" /\ w.kind = k /\ w.job = session[s].job
      /\ w.task = session[s].task /\ w.seen = session[s].seen /\ w.todo = session[s].todo
      /\ w.cur = session[s].cur /\ w.value = session[s].value /\ w.ids = OpenOf(rows[k][r])
      /\ w.applied = session[s].applied
  BY <1>2, <1>4 DEF SessionSet, Pcs, AtRisk
<1> HIDE DEF w
<1>6. Control(w)
  BY <1>1, <1>2, <1>5 DEF Control, AtRisk, ReviewPcs, PassPcs
<1>7. Fits(w, serial)
  BY <1>2, <1>4, <1>5 DEF Fits
<1>8. \A q \in Risks : <<w.kind, q>> \notin raced =>
         Fresh(w, w.kind, q, register[w.kind][q], rows[w.kind][q])
  BY <1>1, <1>2, <1>3, <1>5 DEF Fresh, PassPcs
<1>9. w.job # 0 => Progress(w, jobs[w.job])
  BY <1>1, <1>5 DEF Inv, JobsOK, Progress, PassPcs, Left
<1>10. torn' \in SUBSET (Kinds \X Risks) /\ count' \in Nat /\ snapshots' \in Seq(BOOLEAN)
  BY <1>1 DEF Inv, Types, StoreTyped, JobsTyped
<1>11. \A q \in session[s].cur : /\ Applying(session[s], k, q) => Applying(w, k, q)
                                 /\ ~Deciding(session[s], k, q)
  BY <1>1, <1>5 DEF Applying, Deciding
<1> QED
  BY <1>1, <1>5, <1>6, <1>7, <1>8, <1>9, <1>10, <1>11, StepKeeps

-----------------------------------------------------------------------------
(* The writes.                                                             *)

\* One entry of the register or of the recommendations changes.
LEMMA Entry ==
  ASSUME NEW S, NEW f \in [Kinds -> [Risks -> S]], NEW k \in Kinds, NEW r \in Risks,
         NEW v \in S, NEW g, g = [f EXCEPT ![k][r] = v]
  PROVE  /\ g \in [Kinds -> [Risks -> S]] /\ g[k][r] = v
         /\ \A l \in Kinds, q \in Risks : <<l, q>> # <<k, r>> => g[l][q] = f[l][q]
OBVIOUS

\* Nobody else is at a risk that was written and is not raced.
LEMMA Alone ==
  ASSUME Inv, NEW s \in Sessions, NEW k \in Kinds, NEW r \in Risks,
         Writing(s, k, r), <<k, r>> \notin raced', NEW t \in Sessions, t # s
  PROVE  ~Applying(session[t], k, r) /\ ~Deciding(session[t], k, r)
<1>1. <<k, r>> \notin Holding(t)
  BY DEF Writing
<1>2. Control(session[t])
  BY AtSession
<1> QED
  BY <1>1, <1>2 DEF Holding, Applying, Deciding, Control

\* What explains the register before the write.
LEMMA OwnExplanation ==
  ASSUME Inv, NEW s \in Sessions, NEW k \in Kinds, NEW r \in Risks,
         Writing(s, k, r), <<k, r>> \notin raced' \cup torn
  PROVE  /\ \/ register[k][r] = {} \/ \E x \in rows[k][r] : x.status = "applied"
            \/ Applying(session[s], k, r) \/ Deciding(session[s], k, r)
         /\ \/ chosen[k][r] = {} \/ \E x \in rows[k][r] : x.reviewed
            \/ Deciding(session[s], k, r)
<1>1. ValueExplained(k, r) /\ ChoiceExplained(k, r)
  BY DEF Writing, Inv, Desk, ExplainedOK
<1>2. \A t \in Sessions : t # s => ~Applying(session[t], k, r) /\ ~Deciding(session[t], k, r)
  BY Alone
<1> QED
  BY <1>1, <1>2 DEF ValueExplained, ChoiceExplained

\* The invariant after a session wrote the register or the rows of the risk
\* it is at: what is to be shown is about that risk alone.
LEMMA WriteKeeps ==
  ASSUME Inv, NEW s \in Sessions, NEW w \in SessionSet, Goes(s, w), NEW r \in Risks,
         NEW k \in Kinds, k = session[s].kind, w.kind = k \/ w = Idle,
         session[s].cur \subseteq {r}, Writing(s, k, r), torn' = torn, count' = count,
         Control(w), serial' \in Nat, serial <= serial', Fits(w, serial'),
         OwnOK', JobsOK', JobsTyped',
         register' \in [Kinds -> [Risks -> SUBSET All]],
         chosen' \in [Kinds -> [Risks -> SUBSET All]],
         rows' \in [Kinds -> [Risks -> SUBSET RowSet]],
         register'[k][r] \subseteq Values(k), RowsFit(rows'[k][r], serial'),
         \A l \in Kinds, q \in Risks : <<l, q>> # <<k, r>> =>
            /\ register'[l][q] = register[l][q] /\ rows'[l][q] = rows[l][q]
            /\ chosen'[l][q] = chosen[l][q],
         <<k, r>> \notin raced' =>
            /\ chosen'[k][r] \subseteq register'[k][r] /\ OneOpen(rows'[k][r])
            /\ Fresh(w, k, r, register'[k][r], rows'[k][r]),
         \A q \in Risks : q # r /\ <<k, q>> \notin raced =>
            Fresh(w, k, q, register[k][q], rows[k][q]),
         <<k, r>> \notin raced' \cup torn =>
            /\ \/ register'[k][r] = {} \/ \E x \in rows'[k][r] : x.status = "applied"
               \/ Applying(w, k, r) \/ Deciding(w, k, r)
            /\ \/ chosen'[k][r] = {} \/ \E x \in rows'[k][r] : x.reviewed
               \/ Deciding(w, k, r)
  PROVE  Inv'
<1>1. serial \in Nat /\ raced \in SUBSET (Kinds \X Risks)
  BY DEF Inv, Types, StoreTyped
<1>2. SessionsTyped' /\ SessionsOK'
  BY <1>1, SessionMoves
<1>3. raced' \in SUBSET (Kinds \X Risks) /\ raced \subseteq raced'
  BY <1>1 DEF Writing
<1>4. StoreTyped'
  BY <1>3 DEF Inv, Types, StoreTyped
<1>5. RegisterOK'
  <2> SUFFICES ASSUME NEW l \in Kinds, NEW q \in Risks PROVE register'[l][q] \subseteq Values(l)
    BY DEF RegisterOK
  <2>1. register[l][q] \subseteq Values(l)
    BY DEF Inv, RegisterOK
  <2> QED
    BY <2>1
<1>6. RowsOK'
  <2> SUFFICES ASSUME NEW l \in Kinds, NEW q \in Risks PROVE RowsFit(rows'[l][q], serial')
    BY DEF RowsOK
  <2>1. RowsFit(rows[l][q], serial) /\ 1..serial \subseteq 1..serial'
    BY <1>1 DEF Inv, RowsOK
  <2>2. RowsFit(rows[l][q], serial')
    BY <2>1 DEF RowsFit
  <2> QED
    BY <2>2
<1>7. session'[s] = w
  BY Where
<1>8. \A q \in Risks : <<w.kind, q>> \notin raced' =>
         Fresh(w, w.kind, q, register'[w.kind][q], rows'[w.kind][q])
  <2>1. CASE w = Idle
    <3>1. w.kind \in Kinds
      BY <2>1 DEF Idle, Kinds
    <3> QED
      BY <1>1, <2>1, <3>1, IdleFacts
  <2>2. CASE w.kind = k
    <3> SUFFICES ASSUME NEW q \in Risks, <<k, q>> \notin raced'
                 PROVE  Fresh(w, k, q, register'[k][q], rows'[k][q])
      BY <2>2
    <3>1. CASE q = r
      BY <3>1
    <3>2. CASE q # r
      BY <1>3, <3>2
    <3> QED
      BY <3>1, <3>2
  <2> QED
    BY <2>1, <2>2
<1>9. <<k, r>> \notin raced' \cup torn => ValueExplained(k, r)' /\ ChoiceExplained(k, r)'
  BY <1>7 DEF ValueExplained, ChoiceExplained
<1>10. Desk'
  BY <1>8, <1>9, WriteMoves
<1> QED
  BY <1>2, <1>4, <1>5, <1>6, <1>10 DEF Inv, Types
\* Every tag has a dimension of the register.
LEMMA TagsHaveDims ==
  ASSUME NEW t \in Values("tags")
  PROVE  t[1] \in Dims
BY DeskAssumption DEF Values

\* Merging proposals adds to the register only what was proposed, and takes
\* nothing from it unless it is told to overwrite.
LEMMA MergeAppliedFacts ==
  ASSUME NEW old, old \subseteq Values("tags"), NEW new, NEW overwrite \in BOOLEAN
  PROVE  /\ MergeApplied(old, new, overwrite) \subseteq old \cup new
         /\ ~overwrite => old \subseteq MergeApplied(old, new, overwrite)
<1>1. MergeApplied(old, new, overwrite) \subseteq old \cup new
  BY DEF MergeApplied, In
<1>2. ASSUME ~overwrite, NEW t \in old PROVE t \in MergeApplied(old, new, overwrite)
  <2>1. t[1] \in Dims
    BY TagsHaveDims
  <2>2. t \in In(t[1], old)
    BY DEF In
  <2> QED
    BY <1>2, <2>1, <2>2 DEF MergeApplied
<1> QED
  BY <1>1, <1>2

\* A pass writes the register: merged into what a reviewer chose, or told to
\* overwrite it; where it is not alone, the risk is raced.
LEMMA AutoApplyKeeps ==
  ASSUME Inv, Finite, NEW s \in Sessions, NEW r \in Risks,
         NEW new \in Recommended(session[s].kind), AutoApply(s, r, new)
  PROVE  Inv'
<1> DEFINE k == session[s].kind
           p == session[s].task.pass
           value == IF k = "tags" THEN MergeApplied(session[s].seen[r], new, p.overwrite) ELSE new
           told == IF k = "tags" THEN p.overwrite ELSE ~p.openOnly
           kept == IF told THEN {} ELSE chosen[k][r]
           w == [session[s] EXCEPT !.pc = "select", !.cur = {r}, !.todo = @ \ {r},
                                   !.applied = TRUE]
<1>1. /\ session[s].pc = "next" /\ r \in session[s].todo /\ Goes(s, w)
      /\ register' = [register EXCEPT ![k][r] = value] /\ Writing(s, k, r)
      /\ chosen' = IF told THEN [chosen EXCEPT ![k][r] = {}] ELSE chosen
      /\ UNCHANGED <<rows, serial, snapshots, jobs, inbox, count, torn>>
  BY DEF AutoApply, At
<1>2. /\ session[s] \in SessionSet /\ Control(session[s]) /\ Fits(session[s], serial) /\ k \in Kinds
      /\ \A q \in Risks : <<k, q>> \notin raced =>
            Fresh(session[s], k, q, register[k][q], rows[k][q])
  BY AtSession
<1>3. /\ session[s].job # 0 /\ session[s].cur = {} /\ ~session[s].applied
      /\ session[s].todo \in SUBSET Risks /\ session[s].task \in TaskSet
  BY <1>1, <1>2 DEF Control, PassPcs, AtRisk, ReviewPcs, SessionSet
<1>4. p.overwrite \in BOOLEAN /\ p.openOnly \in BOOLEAN
  BY <1>3, DeskAssumption DEF TaskSet
<1>5. /\ w \in SessionSet /\ w.pc = "select" /\ w.kind = k /\ w.job = session[s].job
      /\ w.task = session[s].task /\ w.seen = session[s].seen /\ w.todo = session[s].todo \ {r}
      /\ w.cur = {r} /\ w.value = session[s].value /\ w.ids = session[s].ids /\ w.applied
  BY <1>2 DEF SessionSet, Pcs, AtRisk
<1> HIDE DEF w
<1>6. /\ register \in [Kinds -> [Risks -> SUBSET All]] /\ chosen \in [Kinds -> [Risks -> SUBSET All]]
      /\ rows \in [Kinds -> [Risks -> SUBSET RowSet]] /\ serial \in Nat
  BY DEF Inv, Types, StoreTyped
<1>7. new \subseteq Values(k)
  BY DEF Recommended, Values
<1>8. value \subseteq Values(k)
  <2>1. CASE k = "tags"
    <3>1. session[s].seen[r] \subseteq Values("tags")
      BY <1>2, <2>1 DEF Fits
    <3>2. MergeApplied(session[s].seen[r], new, p.overwrite) \subseteq session[s].seen[r] \cup new
      BY <1>4, <3>1, MergeAppliedFacts
    <3> QED
      BY <1>7, <2>1, <3>1, <3>2
  <2>2. CASE k # "tags"
    BY <1>7, <2>2
  <2> QED
    BY <2>1, <2>2
<1>9. value \in SUBSET All
  BY <1>2, <1>8, KindValues
<1>10. <<k, r>> \notin raced' => kept \subseteq value
  <2> SUFFICES ASSUME <<k, r>> \notin raced', ~told PROVE chosen[k][r] \subseteq value
    OBVIOUS
  <2>1. <<k, r>> \notin raced
    BY <1>1 DEF Writing
  <2>2. chosen[k][r] \subseteq register[k][r]
    BY <1>2, <2>1 DEF Inv, Desk, DeskOK
  <2>3. session[s].seen[r] = register[k][r] /\ (p.openOnly => ~IsSettled(k, register[k][r]))
    BY <1>1, <1>2, <2>1 DEF Fresh, PassPcs
  <2>4. CASE k = "tags"
    <3>1. session[s].seen[r] \subseteq Values("tags")
      BY <1>2, <2>4 DEF Fits
    <3>2. session[s].seen[r] \subseteq MergeApplied(session[s].seen[r], new, p.overwrite)
      BY <1>4, <2>4, <3>1, MergeAppliedFacts
    <3> QED
      BY <2>2, <2>3, <2>4, <3>2
  <2>5. CASE k # "tags"
    <3>1. register[k][r] = {}
      BY <2>3, <2>5 DEF IsSettled
    <3> QED
      BY <2>2, <3>1
  <2> QED
    BY <2>4, <2>5
<1> HIDE DEF value
<1>11. /\ register' \in [Kinds -> [Risks -> SUBSET All]] /\ register'[k][r] = value
       /\ \A l \in Kinds, q \in Risks : <<l, q>> # <<k, r>> => register'[l][q] = register[l][q]
  BY <1>1, <1>2, <1>6, <1>9, Entry
<1>12. /\ chosen' \in [Kinds -> [Risks -> SUBSET All]] /\ chosen'[k][r] = kept
       /\ \A l \in Kinds, q \in Risks : <<l, q>> # <<k, r>> => chosen'[l][q] = chosen[l][q]
  <2>1. CASE told
    <3>1. chosen' = [chosen EXCEPT ![k][r] = {}] /\ kept = {}
      BY <1>1, <2>1
    <3>2. {} \in SUBSET All
      OBVIOUS
    <3> HIDE DEF kept, told
    <3> QED
      BY <1>2, <1>6, <3>1, <3>2, Entry
  <2>2. CASE ~told
    <3>1. chosen' = chosen /\ kept = chosen[k][r]
      BY <1>1, <2>2
    <3> HIDE DEF kept
    <3> QED
      BY <1>6, <3>1
  <2> QED
    BY <2>1, <2>2
<1>13. Control(w)
  BY <1>1, <1>2, <1>3, <1>5 DEF Control, AtRisk, ReviewPcs, PassPcs
<1>14. Fits(w, serial)
  BY <1>2, <1>5 DEF Fits
<1>15. OwnOK' /\ JobsOK'
  <2>1. Progress(session[s], jobs[session[s].job])
    BY <1>3 DEF Inv, JobsOK
  <2>2. Left(w) = Left(session[s])
    BY <1>1, <1>3, <1>5, LeftAfter DEF Left
  <2>3. Progress(w, jobs[w.job])
    BY <1>1, <1>5, <2>1, <2>2 DEF Progress, PassPcs
  <2> QED
    BY <1>1, <1>5, <2>3, JobMoves
<1>16. RowsFit(rows[k][r], serial)
  BY <1>2 DEF Inv, RowsOK
<1>17. <<k, r>> \notin raced' => /\ chosen'[k][r] \subseteq register'[k][r] /\ OneOpen(rows'[k][r])
                                 /\ Fresh(w, k, r, register'[k][r], rows'[k][r])
  <2>1. ASSUME <<k, r>> \notin raced' PROVE OneOpen(rows[k][r])
    BY <1>1, <1>2, <2>1 DEF Writing, Inv, Desk, DeskOK
  <2>2. Fresh(w, k, r, register'[k][r], rows'[k][r])
    BY <1>5 DEF Fresh
  <2>3. rows' = rows
    BY <1>1
  <2>4. <<k, r>> \notin raced' => chosen'[k][r] \subseteq register'[k][r]
    BY <1>10, <1>11, <1>12
  <2> QED
    BY <2>1, <2>2, <2>3, <2>4
<1>18. \A q \in Risks : q # r /\ <<k, q>> \notin raced => Fresh(w, k, q, register[k][q], rows[k][q])
  BY <1>1, <1>2, <1>5 DEF Fresh, PassPcs
<1>19. Applying(w, k, r)
  BY <1>5 DEF Applying
<1>20. <<k, r>> \notin raced' \cup torn => chosen'[k][r] = {} \/ \E x \in rows'[k][r] : x.reviewed
  <2>1. ~Deciding(session[s], k, r)
    BY <1>1 DEF Deciding
  <2> QED
    BY <1>1, <1>2, <1>12, <2>1, OwnExplanation
<1>21. JobsTyped'
  BY <1>1 DEF Inv, Types, JobsTyped
<1>22. /\ serial' \in Nat /\ serial <= serial' /\ rows' \in [Kinds -> [Risks -> SUBSET RowSet]]
       /\ RowsFit(rows'[k][r], serial') /\ Fits(w, serial') /\ register'[k][r] \subseteq Values(k)
       /\ session[s].cur \subseteq {r} /\ torn' = torn /\ count' = count
  BY <1>1, <1>3, <1>6, <1>8, <1>11, <1>14, <1>16
<1>23. \A l \in Kinds, q \in Risks : <<l, q>> # <<k, r>> =>
          /\ register'[l][q] = register[l][q] /\ rows'[l][q] = rows[l][q]
          /\ chosen'[l][q] = chosen[l][q]
  BY <1>1, <1>11, <1>12
<1>24. <<k, r>> \notin raced' \cup torn =>
          /\ \/ register'[k][r] = {} \/ \E x \in rows'[k][r] : x.status = "applied"
             \/ Applying(w, k, r) \/ Deciding(w, k, r)
          /\ \/ chosen'[k][r] = {} \/ \E x \in rows'[k][r] : x.reviewed
             \/ Deciding(w, k, r)
  BY <1>19, <1>20
<1>25. k \in Kinds /\ k = session[s].kind /\ w.kind = k /\ Goes(s, w) /\ Writing(s, k, r)
  BY <1>1, <1>2, <1>5
<1> HIDE DEF k, kept, told
<1> QED
  BY <1>5, <1>11, <1>12, <1>13, <1>15, <1>17, <1>18, <1>21, <1>22, <1>23, <1>24, <1>25, WriteKeeps, ZenonT(30)
\* A recommendation that is applied is not among the open ones.
LEMMA AppliedIsNotOpen ==
  ASSUME NEW q, NEW n \in Nat, RowsFit(q, n), NEW x \in q, x.status = "applied"
  PROVE  x.id \notin OpenOf(q)
BY DEF RowsFit, OpenOf

\* Deleting the open rows leaves the risk with none, and with those applied.
LEMMA DeleteOpenKeeps ==
  ASSUME Inv, NEW s \in Sessions, DeleteOpen(s)
  PROVE  Inv'
<1> DEFINE k == session[s].kind
           r == Current(s)
           q == {x \in rows[k][r] : x.id \notin session[s].ids}
           w == [session[s] EXCEPT !.pc = "insert", !.ids = {}]
<1>1. /\ session[s].pc = "delete" /\ Goes(s, w) /\ Writing(s, k, r)
      /\ rows' = [rows EXCEPT ![k][r] = q]
      /\ UNCHANGED <<register, serial, snapshots, jobs, inbox, count, chosen, torn>>
  BY DEF DeleteOpen, At
<1>2. /\ session[s] \in SessionSet /\ Control(session[s]) /\ Fits(session[s], serial) /\ k \in Kinds
      /\ \A p \in Risks : <<k, p>> \notin raced =>
            Fresh(session[s], k, p, register[k][p], rows[k][p])
  BY AtSession
<1>3. r \in Risks /\ session[s].cur = {r} /\ r \notin session[s].todo
  BY <1>1, CurrentRisk DEF AtRisk
<1> HIDE DEF r
<1>4. /\ w \in SessionSet /\ w.pc = "insert" /\ w.kind = k /\ w.job = session[s].job
      /\ w.task = session[s].task /\ w.seen = session[s].seen /\ w.todo = session[s].todo
      /\ w.cur = session[s].cur /\ w.value = session[s].value /\ w.ids = {}
      /\ w.applied = session[s].applied
  BY <1>2 DEF SessionSet, Pcs, AtRisk
<1> HIDE DEF w
<1>5. /\ register \in [Kinds -> [Risks -> SUBSET All]] /\ chosen \in [Kinds -> [Risks -> SUBSET All]]
      /\ rows \in [Kinds -> [Risks -> SUBSET RowSet]] /\ serial \in Nat
  BY DEF Inv, Types, StoreTyped
<1>6. q \subseteq rows[k][r] /\ RowsFit(rows[k][r], serial) /\ register[k][r] \subseteq Values(k)
  BY <1>2, <1>3 DEF Inv, RowsOK, RegisterOK
<1>7. RowsFit(q, serial) /\ q \in SUBSET RowSet
  BY <1>2, <1>3, <1>5, <1>6 DEF RowsFit
<1>8. <<k, r>> \notin raced' =>
         /\ \A x \in rows[k][r] : x.status = "applied" => x \in q
         /\ OpenOf(q) = {}
  <2> SUFFICES ASSUME <<k, r>> \notin raced'
               PROVE  /\ \A x \in rows[k][r] : x.status = "applied" => x \in q
                      /\ OpenOf(q) = {}
    OBVIOUS
  <2>1. session[s].ids = OpenOf(rows[k][r])
    BY <1>1, <1>2, <1>3 DEF Writing, Fresh
  <2>2. OpenOf(q) = {}
    BY <2>1 DEF OpenOf
  <2> QED
    BY <1>5, <1>6, <2>1, <2>2, AppliedIsNotOpen
<1> HIDE DEF q
<1>9. /\ rows' \in [Kinds -> [Risks -> SUBSET RowSet]] /\ rows'[k][r] = q
      /\ \A l \in Kinds, p \in Risks : <<l, p>> # <<k, r>> => rows'[l][p] = rows[l][p]
  BY <1>1, <1>2, <1>3, <1>5, <1>7, Entry
<1>10. Control(w)
  BY <1>1, <1>2, <1>4 DEF Control, AtRisk, ReviewPcs, PassPcs
<1>11. OwnOK' /\ JobsOK' /\ JobsTyped'
  <2>1. w.job # 0 => Progress(w, jobs[w.job])
    BY <1>1, <1>4 DEF Inv, JobsOK, Progress, PassPcs, Left
  <2>2. OwnOK' /\ JobsOK'
    BY <1>1, <1>4, <2>1, JobMoves
  <2> QED
    BY <1>1, <2>2 DEF Inv, Types, JobsTyped
<1>12. <<k, r>> \notin raced' => /\ chosen'[k][r] \subseteq register'[k][r] /\ OneOpen(rows'[k][r])
                                 /\ Fresh(w, k, r, register'[k][r], rows'[k][r])
  <2> SUFFICES ASSUME <<k, r>> \notin raced'
               PROVE  /\ chosen[k][r] \subseteq register[k][r] /\ OneOpen(q)
                      /\ Fresh(w, k, r, register[k][r], q)
    BY <1>1, <1>9
  <2>1. chosen[k][r] \subseteq register[k][r] /\ OneOpen(rows[k][r])
    BY <1>1, <1>2, <1>3 DEF Writing, Inv, Desk, DeskOK
  <2>2. OneOpen(q)
    BY <1>6, <2>1 DEF OneOpen
  <2> QED
    BY <1>3, <1>4, <1>8, <2>1, <2>2 DEF Fresh
<1>13. \A p \in Risks : p # r /\ <<k, p>> \notin raced => Fresh(w, k, p, register[k][p], rows[k][p])
  BY <1>1, <1>2, <1>3, <1>4 DEF Fresh, PassPcs
<1>14. /\ Applying(session[s], k, r) => Applying(w, k, r)
       /\ ~Deciding(session[s], k, r)
  BY <1>1, <1>4 DEF Applying, Deciding
<1>15. <<k, r>> \notin raced' \cup torn =>
          /\ \/ register'[k][r] = {} \/ \E x \in rows'[k][r] : x.status = "applied"
             \/ Applying(w, k, r) \/ Deciding(w, k, r)
          /\ \/ chosen'[k][r] = {} \/ \E x \in rows'[k][r] : x.reviewed
             \/ Deciding(w, k, r)
  BY <1>1, <1>2, <1>3, <1>6, <1>8, <1>9, <1>14, OwnExplanation DEF RowsFit
<1>16. /\ serial' \in Nat /\ serial <= serial' /\ RowsFit(rows'[k][r], serial')
       /\ Fits(w, serial') /\ register'[k][r] \subseteq Values(k)
       /\ register' \in [Kinds -> [Risks -> SUBSET All]]
       /\ chosen' \in [Kinds -> [Risks -> SUBSET All]]
       /\ session[s].cur \subseteq {r} /\ torn' = torn /\ count' = count
  BY <1>1, <1>2, <1>3, <1>4, <1>5, <1>6, <1>7, <1>9 DEF Fits
<1>17. \A l \in Kinds, p \in Risks : <<l, p>> # <<k, r>> =>
          /\ register'[l][p] = register[l][p] /\ rows'[l][p] = rows[l][p]
          /\ chosen'[l][p] = chosen[l][p]
  BY <1>1, <1>9
<1>18. k \in Kinds /\ k = session[s].kind /\ w.kind = k /\ Goes(s, w) /\ Writing(s, k, r)
  BY <1>1, <1>2, <1>4
<1> HIDE DEF k
<1> QED
  BY <1>3, <1>4, <1>9, <1>10, <1>11, <1>12, <1>13, <1>15, <1>16, <1>17, <1>18, WriteKeeps, ZenonT(30)

\* The new row is the one open row, or explains what the pass applied; the
\* job has counted one more.
LEMMA InsertRowKeeps ==
  ASSUME Inv, Finite, NEW s \in Sessions, InsertRow(s)
  PROVE  Inv'
<1> DEFINE k == session[s].kind
           r == Current(s)
           j == session[s].job
           status == IF session[s].applied THEN "applied" ELSE "open"
           new == Row(status, FALSE)
           q == rows[k][r] \cup {new}
           job == [jobs[j] EXCEPT !.done = @ + 1]
           w == [session[s] EXCEPT !.pc = "next", !.cur = {}, !.applied = FALSE]
<1>1. /\ session[s].pc = "insert" /\ Goes(s, w) /\ Writing(s, k, r)
      /\ rows' = [rows EXCEPT ![k][r] = q] /\ serial' = serial + 1
      /\ jobs' = [jobs EXCEPT ![j] = job]
      /\ UNCHANGED <<register, snapshots, inbox, count, chosen, torn>>
  BY DEF InsertRow, At
<1>2. /\ session[s] \in SessionSet /\ Control(session[s]) /\ Fits(session[s], serial) /\ k \in Kinds
      /\ j \in 0..Len(jobs)
      /\ \A p \in Risks : <<k, p>> \notin raced =>
            Fresh(session[s], k, p, register[k][p], rows[k][p])
  BY AtSession
<1>3. r \in Risks /\ session[s].cur = {r} /\ r \notin session[s].todo
  BY <1>1, CurrentRisk DEF AtRisk
<1> HIDE DEF r
<1>4. /\ w \in SessionSet /\ w.pc = "next" /\ w.kind = k /\ w.job = j
      /\ w.task = session[s].task /\ w.seen = session[s].seen /\ w.todo = session[s].todo
      /\ w.cur = {} /\ w.value = session[s].value /\ w.ids = session[s].ids /\ ~w.applied
  BY <1>2 DEF SessionSet, Pcs, AtRisk
<1> HIDE DEF w
<1>5. /\ register \in [Kinds -> [Risks -> SUBSET All]] /\ chosen \in [Kinds -> [Risks -> SUBSET All]]
      /\ rows \in [Kinds -> [Risks -> SUBSET RowSet]] /\ serial \in Nat /\ jobs \in Seq(JobSet)
  BY DEF Inv, Types, StoreTyped, JobsTyped
<1>6. j # 0 /\ j \in DOMAIN jobs
  <2>1. j # 0
    BY <1>1, <1>2 DEF Control, PassPcs
  <2> QED
    BY <1>2, <1>5, <2>1
<1>7. jobs[j] \in JobSet
  BY <1>5, <1>6
<1>8. /\ job \in JobSet /\ job.status = jobs[j].status /\ job.done = jobs[j].done + 1
      /\ job.total = jobs[j].total
  BY <1>7 DEF JobSet
<1> HIDE DEF job
<1>9. Counted(job) /\ Progress(w, job)
  <2>1. jobs[j].status = "running" /\ jobs[j].done + Left(session[s]) = jobs[j].total
    BY <1>1, <1>6 DEF Inv, JobsOK, Progress, PassPcs
  <2>2. Cardinality(session[s].todo) \in Nat
    BY <1>2, FS_Subset, FS_CardinalityType DEF Finite, SessionSet
  <2>3. Left(session[s]) = Cardinality(session[s].todo) + 1
    BY <1>3, FS_Singleton DEF Left
  <2>4. Left(w) = Cardinality(session[s].todo)
    BY <1>4, <2>2, FS_EmptySet DEF Left
  <2> QED
    BY <1>4, <1>7, <1>8, <2>1, <2>2, <2>3, <2>4 DEF Counted, Progress, JobSet
<1>10. OwnOK' /\ JobsOK' /\ JobsTyped'
  <2>1. OwnOK' /\ JobsOK' /\ jobs' \in Seq(JobSet)
    BY <1>1, <1>4, <1>6, <1>8, <1>9, OwnJobMoves
  <2> QED
    BY <1>1, <2>1 DEF Inv, Types, JobsTyped
<1>11. status \in {"applied", "open"} /\ (status = "applied" <=> session[s].applied)
  BY <1>2 DEF SessionSet
<1> HIDE DEF status
<1>12. /\ new \in RowSet /\ new.id = serial + 1 /\ new.status = status /\ ~new.reviewed
  BY <1>5, <1>11 DEF Row, RowSet
<1> HIDE DEF new
<1>13. RowsFit(rows[k][r], serial) /\ register[k][r] \subseteq Values(k)
  BY <1>2, <1>3 DEF Inv, RowsOK, RegisterOK
<1>14. RowsFit(q, serial + 1) /\ q \in SUBSET RowSet
  <2>1. q \in SUBSET RowSet
    BY <1>2, <1>3, <1>5, <1>12
  <2>2. \A x \in rows[k][r] : x.id \in 1..serial /\ (x.reviewed => x.status = "applied")
    BY <1>13 DEF RowsFit
  <2>3. \A x, y \in q : x.id = y.id => x = y
    BY <1>5, <1>12, <1>13, <2>2 DEF RowsFit
  <2> QED
    BY <1>5, <1>12, <2>1, <2>2, <2>3 DEF RowsFit
<1>15. <<k, r>> \notin raced' => OneOpen(q)
  <2> SUFFICES ASSUME <<k, r>> \notin raced' PROVE OneOpen(q)
    OBVIOUS
  <2>1. OpenOf(rows[k][r]) = {}
    BY <1>1, <1>2, <1>3 DEF Writing, Fresh
  <2>2. \A x \in rows[k][r] : x.status # "open"
    BY <2>1 DEF OpenOf
  <2> QED
    BY <2>2 DEF OneOpen
<1>16. rows[k][r] \subseteq q /\ new \in q
  OBVIOUS
<1> HIDE DEF q
<1>17. /\ rows' \in [Kinds -> [Risks -> SUBSET RowSet]] /\ rows'[k][r] = q
       /\ \A l \in Kinds, p \in Risks : <<l, p>> # <<k, r>> => rows'[l][p] = rows[l][p]
  BY <1>1, <1>2, <1>3, <1>5, <1>14, Entry
<1>18. Control(w)
  BY <1>1, <1>2, <1>4 DEF Control, AtRisk, ReviewPcs, PassPcs
<1>19. <<k, r>> \notin raced' => /\ chosen'[k][r] \subseteq register'[k][r] /\ OneOpen(rows'[k][r])
                                 /\ Fresh(w, k, r, register'[k][r], rows'[k][r])
  <2> SUFFICES ASSUME <<k, r>> \notin raced'
               PROVE  /\ chosen[k][r] \subseteq register[k][r]
                      /\ Fresh(w, k, r, register[k][r], q)
    BY <1>1, <1>15, <1>17
  <2>1. chosen[k][r] \subseteq register[k][r]
    BY <1>1, <1>2, <1>3 DEF Writing, Inv, Desk, DeskOK
  <2> QED
    BY <1>3, <1>4, <2>1 DEF Fresh
<1>20. \A p \in Risks : p # r /\ <<k, p>> \notin raced => Fresh(w, k, p, register[k][p], rows[k][p])
  BY <1>1, <1>2, <1>4 DEF Fresh, PassPcs
<1>21. ~Deciding(session[s], k, r) /\ (Applying(session[s], k, r) => new.status = "applied")
  BY <1>1, <1>11, <1>12 DEF Applying, Deciding
<1>22. <<k, r>> \notin raced' \cup torn =>
          /\ \/ register'[k][r] = {} \/ \E x \in rows'[k][r] : x.status = "applied"
             \/ Applying(w, k, r) \/ Deciding(w, k, r)
          /\ \/ chosen'[k][r] = {} \/ \E x \in rows'[k][r] : x.reviewed
             \/ Deciding(w, k, r)
  BY <1>1, <1>2, <1>3, <1>16, <1>17, <1>21, OwnExplanation
<1>23. /\ serial' \in Nat /\ serial <= serial' /\ RowsFit(rows'[k][r], serial')
       /\ register'[k][r] \subseteq Values(k)
       /\ register' \in [Kinds -> [Risks -> SUBSET All]]
       /\ chosen' \in [Kinds -> [Risks -> SUBSET All]]
       /\ session[s].cur \subseteq {r} /\ torn' = torn /\ count' = count
  BY <1>1, <1>3, <1>5, <1>13, <1>14, <1>17
<1>24. Fits(w, serial')
  <2>1. 1..serial \subseteq 1..serial'
    BY <1>1, <1>5
  <2> QED
    BY <1>2, <1>4, <2>1 DEF Fits
<1>25. \A l \in Kinds, p \in Risks : <<l, p>> # <<k, r>> =>
          /\ register'[l][p] = register[l][p] /\ rows'[l][p] = rows[l][p]
          /\ chosen'[l][p] = chosen[l][p]
  BY <1>1, <1>17
<1>26. k \in Kinds /\ k = session[s].kind /\ w.kind = k /\ Goes(s, w) /\ Writing(s, k, r)
  BY <1>1, <1>2, <1>4
<1> HIDE DEF k
<1> QED
  BY <1>3, <1>4, <1>10, <1>17, <1>18, <1>19, <1>20, <1>22, <1>23, <1>24, <1>25, <1>26, WriteKeeps, ZenonT(30)
-----------------------------------------------------------------------------
(* A reviewer.                                                             *)

\* A request has one risk to decide and no job.
LEMMA StartReviewKeeps ==
  ASSUME Inv, NEW s \in Sessions, NEW k \in Kinds, NEW value \in Selections[k], NEW r \in Risks,
         NEW replace \in BOOLEAN, StartReview(s, k, r, value, replace)
  PROVE  Inv'
<1> DEFINE w == [session[s] EXCEPT !.pc = IF k = "owner" THEN "boot" ELSE "find", !.kind = k,
                                   !.todo = {r}, !.value = value, !.replace = replace]
<1>1. /\ session[s].pc = "idle" /\ Goes(s, w) /\ count' = count + 1
      /\ UNCHANGED <<register, rows, serial, snapshots, jobs, inbox, chosen, raced, torn>>
  BY DEF StartReview, At, More, history
<1>2. session[s] = Idle /\ session[s] \in SessionSet
  BY <1>1, AtSession DEF Control
<1>3. value \subseteq Values(k) /\ value \in SUBSET All
  <2>1. value \subseteq Values(k)
    BY DEF Values
  <2> QED
    BY <2>1, KindValues
<1>4. w \in SessionSet
  BY <1>2, <1>3 DEF SessionSet, Pcs
<1>5. /\ w.pc \in {"boot", "find"} /\ w.kind = k /\ w.task = NoTask /\ w.job = 0
      /\ w.seen = Idle.seen /\ w.todo = {r} /\ w.cur = {} /\ w.value = value /\ ~w.applied
      /\ w.ids = {}
  BY <1>2 DEF SessionSet, Idle
<1> HIDE DEF w
<1>6. Control(w)
  BY <1>5 DEF Control, AtRisk, PassPcs, ReviewPcs
<1>7. Fits(w, serial)
  BY <1>3, <1>5 DEF Fits, Idle
<1>8. \A q \in Risks : Fresh(w, w.kind, q, register[w.kind][q], rows[w.kind][q])
  BY <1>5 DEF Fresh, PassPcs
<1>9. session[s].cur = {}
  BY <1>2 DEF Idle
<1>10. torn' \in SUBSET (Kinds \X Risks) /\ count' \in Nat /\ snapshots' \in Seq(BOOLEAN)
  BY <1>1 DEF Inv, Types, StoreTyped, JobsTyped
<1> QED
  BY <1>1, <1>4, <1>5, <1>6, <1>7, <1>8, <1>9, <1>10, StepKeeps

\* A reviewer that goes on holds the register as it is now.
LEMMA ReadRiskKeeps ==
  ASSUME Inv, NEW s \in Sessions, ReadRisk(s)
  PROVE  Inv'
<1> DEFINE k == session[s].kind
           r == CHOOSE x \in session[s].todo : TRUE
           w == [session[s] EXCEPT !.pc = "write", !.cur = {r}, !.todo = {},
                                   !.seen[r] = register[k][r]]
<1>1. /\ session[s].pc = "find" /\ (Goes(s, Idle) \/ Goes(s, w))
      /\ UNCHANGED <<register, rows, serial, snapshots, jobs, inbox, count, chosen, raced, torn>>
  BY DEF ReadRisk, At, Goes, history
<1>2. /\ session[s] \in SessionSet /\ Control(session[s]) /\ Fits(session[s], serial) /\ k \in Kinds
      /\ session[s].pc = "find"
  BY AtSession DEF ReadRisk, At
<1>3. session[s].job = 0 /\ session[s].cur = {} /\ ~session[s].applied
  BY <1>2 DEF Control, AtRisk, ReviewPcs
<1>4. r \in Risks
  <2>1. PICK q \in Risks : session[s].todo = {q}
    BY <1>2, <1>3 DEF Control
  <2> QED
    BY <2>1
<1> HIDE DEF r
<1>5. register[k][r] \in SUBSET All /\ register[k][r] \subseteq Values(k) /\ serial \in Nat
  BY <1>2, <1>4 DEF Inv, Types, StoreTyped, RegisterOK
<1>6. torn' \in SUBSET (Kinds \X Risks) /\ count' \in Nat /\ snapshots' \in Seq(BOOLEAN)
  BY <1>1 DEF Inv, Types, StoreTyped, JobsTyped
<1>7. CASE Goes(s, Idle)
  <2>1. Idle.kind \in Kinds
    BY DEF Idle, Kinds
  <2>2. /\ Idle \in SessionSet /\ Control(Idle) /\ Fits(Idle, serial) /\ Idle.job = 0
        /\ \A q \in Risks : Fresh(Idle, Idle.kind, q, register[Idle.kind][q], rows[Idle.kind][q])
    BY <1>5, <2>1, IdleFacts
  <2> QED
    BY <1>1, <1>3, <1>6, <1>7, <2>2, StepKeeps
<1>8. CASE Goes(s, w)
  <2>1. /\ w \in SessionSet /\ w.pc = "write" /\ w.kind = k /\ w.job = 0
        /\ w.task = session[s].task /\ w.seen = [session[s].seen EXCEPT ![r] = register[k][r]]
        /\ w.todo = {} /\ w.cur = {r} /\ w.value = session[s].value /\ w.ids = session[s].ids
        /\ ~w.applied
    BY <1>2, <1>3, <1>4, <1>5 DEF SessionSet, Pcs, AtRisk, ReviewPcs
  <2> HIDE DEF w
  <2>2. Control(w)
    BY <1>2, <1>3, <1>4, <2>1 DEF Control, AtRisk, ReviewPcs, PassPcs
  <2>3. session[s].seen \in [Risks -> SUBSET All]
    BY <1>2 DEF SessionSet
  <2>4. Fits(w, serial)
    BY <1>2, <1>5, <2>1, <2>3 DEF Fits
  <2>5. \A q \in Risks : Fresh(w, w.kind, q, register[w.kind][q], rows[w.kind][q])
    BY <1>4, <2>1, <2>3 DEF Fresh, PassPcs
  <2> QED
    BY <1>1, <1>3, <1>6, <1>8, <2>1, <2>2, <2>4, <2>5, StepKeeps
<1> QED
  BY <1>1, <1>7, <1>8

\* The merge of a selection keeps what it is given, and adds only the selection.
LEMMA MergeSelectedFacts ==
  ASSUME NEW old, NEW new, NEW replace
  PROVE  MergeSelected(old, new, replace) \subseteq old \cup new
BY DEF MergeSelected, In

\* Merging the same selection into more gives more.
LEMMA MergeSelectedGrows ==
  ASSUME NEW old, NEW less, less \subseteq old, NEW new, NEW replace
  PROVE  MergeSelected(less, new, replace) \subseteq MergeSelected(old, new, replace)
<1>1. ASSUME NEW d \in Dims,
             NEW t \in (IF In(d, new) # {} /\ replace THEN In(d, new) ELSE In(d, less) \cup In(d, new))
      PROVE  t \in (IF In(d, new) # {} /\ replace THEN In(d, new) ELSE In(d, old) \cup In(d, new))
  BY <1>1 DEF In
<1> QED
  BY <1>1 DEF MergeSelected

\* What a reviewer chose is on the register, and the session is still to
\* record it.
LEMMA ApplySelectedKeeps ==
  ASSUME Inv, NEW s \in Sessions, ApplySelected(s)
  PROVE  Inv'
<1> DEFINE k == session[s].kind
           r == Current(s)
           value == IF k = "owner" THEN session[s].value
                    ELSE MergeSelected(session[s].seen[r], session[s].value, session[s].replace)
           kept == IF k = "owner" THEN session[s].value
                   ELSE MergeSelected(chosen[k][r], session[s].value, session[s].replace)
           w == [session[s] EXCEPT !.pc = "latest"]
<1>1. /\ session[s].pc = "write" /\ Goes(s, w) /\ Writing(s, k, r)
      /\ register' = [register EXCEPT ![k][r] = value]
      /\ chosen' = [chosen EXCEPT ![k][r] = kept]
      /\ UNCHANGED <<rows, serial, snapshots, jobs, inbox, count, torn>>
  BY DEF ApplySelected, At
<1>2. /\ session[s] \in SessionSet /\ Control(session[s]) /\ Fits(session[s], serial) /\ k \in Kinds
      /\ \A p \in Risks : <<k, p>> \notin raced =>
            Fresh(session[s], k, p, register[k][p], rows[k][p])
  BY AtSession
<1>3. /\ r \in Risks /\ session[s].cur = {r} /\ session[s].todo = {} /\ session[s].job = 0
      /\ ~session[s].applied
  BY <1>1, <1>2, CurrentRisk DEF AtRisk, Control, ReviewPcs
<1> HIDE DEF r
<1>4. /\ w \in SessionSet /\ w.pc = "latest" /\ w.kind = k /\ w.job = 0
      /\ w.task = session[s].task /\ w.seen = session[s].seen /\ w.todo = {}
      /\ w.cur = {r} /\ w.value = session[s].value /\ w.ids = session[s].ids /\ ~w.applied
  BY <1>2, <1>3 DEF SessionSet, Pcs, AtRisk, ReviewPcs
<1> HIDE DEF w
<1>5. /\ register \in [Kinds -> [Risks -> SUBSET All]] /\ chosen \in [Kinds -> [Risks -> SUBSET All]]
      /\ rows \in [Kinds -> [Risks -> SUBSET RowSet]] /\ serial \in Nat
  BY DEF Inv, Types, StoreTyped
<1>6. session[s].value \subseteq Values(k) /\ session[s].seen[r] \subseteq Values(k)
  BY <1>2, <1>3 DEF Fits
<1>7. value \subseteq Values(k) /\ value \in SUBSET All
  <2>1. MergeSelected(session[s].seen[r], session[s].value, session[s].replace)
           \subseteq session[s].seen[r] \cup session[s].value
    BY MergeSelectedFacts
  <2>2. value \subseteq Values(k)
    BY <1>6, <2>1
  <2> QED
    BY <1>2, <2>2, KindValues
<1>8. kept \in SUBSET All
  <2>1. MergeSelected(chosen[k][r], session[s].value, session[s].replace)
           \subseteq chosen[k][r] \cup session[s].value
    BY MergeSelectedFacts
  <2>2. chosen[k][r] \in SUBSET All /\ session[s].value \in SUBSET All
    BY <1>2, <1>3, <1>5 DEF SessionSet
  <2> QED
    BY <2>1, <2>2
<1>9. <<k, r>> \notin raced' => kept \subseteq value
  <2> SUFFICES ASSUME <<k, r>> \notin raced' PROVE kept \subseteq value
    OBVIOUS
  <2>1. chosen[k][r] \subseteq register[k][r] /\ <<k, r>> \notin raced
    BY <1>1, <1>2, <1>3 DEF Writing, Inv, Desk, DeskOK
  <2>2. session[s].seen[r] = register[k][r]
    BY <1>1, <1>2, <1>3, <2>1 DEF Fresh
  <2>3. MergeSelected(chosen[k][r], session[s].value, session[s].replace)
          \subseteq MergeSelected(session[s].seen[r], session[s].value, session[s].replace)
    BY <2>1, <2>2, MergeSelectedGrows
  <2> QED
    BY <2>3
<1> HIDE DEF value, kept
<1>10. /\ register' \in [Kinds -> [Risks -> SUBSET All]] /\ register'[k][r] = value
       /\ \A l \in Kinds, p \in Risks : <<l, p>> # <<k, r>> => register'[l][p] = register[l][p]
  BY <1>1, <1>2, <1>3, <1>5, <1>7, Entry
<1>11. /\ chosen' \in [Kinds -> [Risks -> SUBSET All]] /\ chosen'[k][r] = kept
       /\ \A l \in Kinds, p \in Risks : <<l, p>> # <<k, r>> => chosen'[l][p] = chosen[l][p]
  BY <1>1, <1>2, <1>3, <1>5, <1>8, Entry
<1>12. Control(w)
  BY <1>1, <1>2, <1>3, <1>4 DEF Control, AtRisk, ReviewPcs, PassPcs
<1>13. OwnOK' /\ JobsOK' /\ JobsTyped'
  <2>1. OwnOK' /\ JobsOK'
    BY <1>1, <1>4, JobMoves
  <2> QED
    BY <1>1, <2>1 DEF Inv, Types, JobsTyped
<1>14. <<k, r>> \notin raced' => /\ chosen'[k][r] \subseteq register'[k][r] /\ OneOpen(rows'[k][r])
                                 /\ Fresh(w, k, r, register'[k][r], rows'[k][r])
  <2> SUFFICES ASSUME <<k, r>> \notin raced'
               PROVE  OneOpen(rows[k][r]) /\ Fresh(w, k, r, register'[k][r], rows[k][r])
    BY <1>1, <1>9, <1>10, <1>11
  <2>1. OneOpen(rows[k][r])
    BY <1>1, <1>2, <1>3 DEF Writing, Inv, Desk, DeskOK
  <2> QED
    BY <1>4, <2>1 DEF Fresh
<1>15. \A p \in Risks : p # r /\ <<k, p>> \notin raced => Fresh(w, k, p, register[k][p], rows[k][p])
  BY <1>4 DEF Fresh
<1>16. Deciding(w, k, r)
  BY <1>4 DEF Deciding
<1>17. /\ serial' \in Nat /\ serial <= serial' /\ RowsFit(rows'[k][r], serial')
       /\ register'[k][r] \subseteq Values(k) /\ Fits(w, serial')
       /\ rows' \in [Kinds -> [Risks -> SUBSET RowSet]]
       /\ session[s].cur \subseteq {r} /\ torn' = torn /\ count' = count
  BY <1>1, <1>2, <1>3, <1>4, <1>5, <1>7, <1>10 DEF Fits, Inv, RowsOK
<1>18. \A l \in Kinds, p \in Risks : <<l, p>> # <<k, r>> =>
          /\ register'[l][p] = register[l][p] /\ rows'[l][p] = rows[l][p]
          /\ chosen'[l][p] = chosen[l][p]
  BY <1>1, <1>10, <1>11
<1>19. k \in Kinds /\ k = session[s].kind /\ w.kind = k /\ Goes(s, w) /\ Writing(s, k, r)
  BY <1>1, <1>2, <1>4
<1> HIDE DEF k
<1> QED
  BY <1>3, <1>4, <1>10, <1>11, <1>12, <1>13, <1>14, <1>15, <1>16, <1>17, <1>18, <1>19, WriteKeeps, ZenonT(30)
\* The latest of the recommendations is one of them.
LEMMA LatestIsThere ==
  ASSUME NEW n \in Nat, NEW q, q # {}, \A x \in q : x.id \in 1..n
  PROVE  Latest(q) \in q
<1> DEFINE T == {n - x.id : x \in q}
<1>1. T \subseteq Nat /\ T # {}
  OBVIOUS
<1> HIDE DEF T
<1>2. PICK b \in T : \A c \in T : ~(<<c, b>> \in OpToRel(<, Nat))
  BY <1>1, NatLessThanWellFounded, WFMin
<1>3. \A c \in T : ~(c < b)
  BY <1>1, <1>2 DEF OpToRel
<1>4. PICK x \in q : b = n - x.id
  BY <1>2 DEF T
<1>5. \A y \in q : y.id <= x.id
  <2> SUFFICES ASSUME NEW y \in q PROVE y.id <= x.id
    OBVIOUS
  <2>1. n - y.id \in T
    BY DEF T
  <2>2. ~(n - y.id < n - x.id)
    BY <1>3, <1>4, <2>1
  <2>3. x.id \in 1..n /\ y.id \in 1..n
    OBVIOUS
  <2> QED
    BY <2>2, <2>3
<1> QED
  BY <1>5 DEF Latest

\* The row that is to be closed is there.
LEMMA FindLatestKeeps ==
  ASSUME Inv, NEW s \in Sessions, FindLatest(s)
  PROVE  Inv'
<1> DEFINE k == session[s].kind
           r == Current(s)
           q == rows[k][r]
           u == [session[s] EXCEPT !.pc = "review", !.ids = {Latest(q).id}]
           v == [session[s] EXCEPT !.pc = "record"]
<1>1. /\ session[s].pc = "latest" /\ ((q # {} /\ Goes(s, u)) \/ Goes(s, v))
      /\ UNCHANGED <<register, rows, serial, snapshots, jobs, inbox, count, chosen, raced, torn>>
  BY DEF FindLatest, At, history
<1>2. /\ session[s] \in SessionSet /\ Control(session[s]) /\ Fits(session[s], serial) /\ k \in Kinds
      /\ session[s].pc = "latest"
  BY AtSession DEF FindLatest, At
<1>3. /\ r \in Risks /\ session[s].cur = {r} /\ session[s].todo = {} /\ session[s].job = 0
      /\ ~session[s].applied
  BY <1>2, CurrentRisk DEF AtRisk, Control, ReviewPcs
<1> HIDE DEF r
<1>4. torn' \in SUBSET (Kinds \X Risks) /\ count' \in Nat /\ snapshots' \in Seq(BOOLEAN)
      /\ serial \in Nat
  BY <1>1 DEF Inv, Types, StoreTyped, JobsTyped
<1>5. RowsFit(q, serial)
  BY <1>2, <1>3 DEF Inv, RowsOK
<1> HIDE DEF q
<1>6. CASE q # {} /\ Goes(s, u)
  <2>1. Latest(q) \in q /\ Latest(q).id \in 1..serial
    BY <1>4, <1>5, <1>6, LatestIsThere DEF RowsFit
  <2>2. Latest(q).id \in Nat
    BY <1>4, <2>1
  <2>3. /\ u \in SessionSet /\ u.pc = "review" /\ u.kind = k /\ u.job = 0
        /\ u.task = session[s].task /\ u.seen = session[s].seen /\ u.todo = {}
        /\ u.cur = {r} /\ u.value = session[s].value /\ u.ids = {Latest(q).id} /\ ~u.applied
    BY <1>2, <1>3, <2>2 DEF SessionSet, Pcs, AtRisk, ReviewPcs
  <2> HIDE DEF u
  <2>4. Control(u)
    BY <1>2, <1>3, <2>3 DEF Control, AtRisk, ReviewPcs, PassPcs
  <2>5. Fits(u, serial)
    BY <1>2, <2>1, <2>3 DEF Fits
  <2>6. \A p \in Risks : Fresh(u, u.kind, p, register[u.kind][p], rows[u.kind][p])
    BY <2>1, <2>3 DEF Fresh, PassPcs, q
  <2>7. \A p \in session[s].cur : ~Applying(session[s], k, p) /\ Deciding(u, k, p)
    BY <1>3, <2>3 DEF Applying, Deciding
  <2> QED
    BY <1>1, <1>4, <1>6, <2>3, <2>4, <2>5, <2>6, <2>7, StepKeeps
<1>7. CASE Goes(s, v)
  <2>1. /\ v \in SessionSet /\ v.pc = "record" /\ v.kind = k /\ v.job = 0
        /\ v.task = session[s].task /\ v.seen = session[s].seen /\ v.todo = {}
        /\ v.cur = {r} /\ v.value = session[s].value /\ v.ids = session[s].ids /\ ~v.applied
    BY <1>2, <1>3 DEF SessionSet, Pcs, AtRisk, ReviewPcs
  <2> HIDE DEF v
  <2>2. Control(v)
    BY <1>2, <1>3, <2>1 DEF Control, AtRisk, ReviewPcs, PassPcs
  <2>3. Fits(v, serial)
    BY <1>2, <2>1 DEF Fits
  <2>4. \A p \in Risks : Fresh(v, v.kind, p, register[v.kind][p], rows[v.kind][p])
    BY <2>1 DEF Fresh, PassPcs
  <2>5. \A p \in session[s].cur : ~Applying(session[s], k, p) /\ Deciding(v, k, p)
    BY <1>3, <2>1 DEF Applying, Deciding
  <2> QED
    BY <1>1, <1>4, <1>7, <2>1, <2>2, <2>3, <2>4, <2>5, StepKeeps
<1> QED
  BY <1>1, <1>6, <1>7
\* The inserted row explains the register; it is there to be stamped.
LEMMA RecordDecisionKeeps ==
  ASSUME Inv, NEW s \in Sessions, RecordDecision(s)
  PROVE  Inv'
<1> DEFINE k == session[s].kind
           r == Current(s)
           new == Row("applied", FALSE)
           q == rows[k][r] \cup {new}
           ids == IF k = "tags" THEN {} ELSE {serial + 1}
           w == [session[s] EXCEPT !.pc = "review", !.ids = ids]
<1>1. /\ session[s].pc = "record" /\ Goes(s, w) /\ Writing(s, k, r)
      /\ rows' = [rows EXCEPT ![k][r] = q] /\ serial' = serial + 1
      /\ UNCHANGED <<register, snapshots, jobs, inbox, count, chosen, torn>>
  BY DEF RecordDecision, At
<1>2. /\ session[s] \in SessionSet /\ Control(session[s]) /\ Fits(session[s], serial) /\ k \in Kinds
  BY AtSession
<1>3. /\ r \in Risks /\ session[s].cur = {r} /\ session[s].todo = {} /\ session[s].job = 0
      /\ ~session[s].applied
  BY <1>1, <1>2, CurrentRisk DEF AtRisk, Control, ReviewPcs
<1> HIDE DEF r
<1>4. /\ register \in [Kinds -> [Risks -> SUBSET All]] /\ chosen \in [Kinds -> [Risks -> SUBSET All]]
      /\ rows \in [Kinds -> [Risks -> SUBSET RowSet]] /\ serial \in Nat
  BY DEF Inv, Types, StoreTyped
<1>5. ids \in SUBSET Nat /\ ids \subseteq 1..(serial + 1) /\ ids \subseteq {serial + 1}
  BY <1>4
<1> HIDE DEF ids
<1>6. /\ w \in SessionSet /\ w.pc = "review" /\ w.kind = k /\ w.job = 0
      /\ w.task = session[s].task /\ w.seen = session[s].seen /\ w.todo = {}
      /\ w.cur = {r} /\ w.value = session[s].value /\ w.ids = ids /\ ~w.applied
  BY <1>2, <1>3, <1>5 DEF SessionSet, Pcs, AtRisk, ReviewPcs
<1> HIDE DEF w
<1>7. /\ new \in RowSet /\ new.id = serial + 1 /\ new.status = "applied" /\ ~new.reviewed
  BY <1>4 DEF Row, RowSet
<1> HIDE DEF new
<1>8. RowsFit(rows[k][r], serial) /\ register[k][r] \subseteq Values(k)
  BY <1>2, <1>3 DEF Inv, RowsOK, RegisterOK
<1>9. RowsFit(q, serial + 1) /\ q \in SUBSET RowSet
  <2>1. q \in SUBSET RowSet
    BY <1>2, <1>3, <1>4, <1>7
  <2>2. \A x \in rows[k][r] : x.id \in 1..serial /\ (x.reviewed => x.status = "applied")
    BY <1>8 DEF RowsFit
  <2>3. \A x, y \in q : x.id = y.id => x = y
    BY <1>4, <1>7, <1>8, <2>2 DEF RowsFit
  <2> QED
    BY <1>4, <1>7, <2>1, <2>2, <2>3 DEF RowsFit
<1>10. OneOpen(rows[k][r]) => OneOpen(q)
  BY <1>7 DEF OneOpen
<1>11. rows[k][r] \subseteq q /\ new \in q
  OBVIOUS
<1> HIDE DEF q
<1>12. /\ rows' \in [Kinds -> [Risks -> SUBSET RowSet]] /\ rows'[k][r] = q
       /\ \A l \in Kinds, p \in Risks : <<l, p>> # <<k, r>> => rows'[l][p] = rows[l][p]
  BY <1>1, <1>2, <1>3, <1>4, <1>9, Entry
<1>13. Control(w)
  BY <1>1, <1>2, <1>3, <1>6 DEF Control, AtRisk, ReviewPcs, PassPcs
<1>14. Fits(w, serial')
  BY <1>1, <1>2, <1>5, <1>6 DEF Fits
<1>15. OwnOK' /\ JobsOK' /\ JobsTyped'
  <2>1. OwnOK' /\ JobsOK'
    BY <1>1, <1>6, JobMoves
  <2> QED
    BY <1>1, <2>1 DEF Inv, Types, JobsTyped
<1>16. <<k, r>> \notin raced' => /\ chosen'[k][r] \subseteq register'[k][r] /\ OneOpen(rows'[k][r])
                                 /\ Fresh(w, k, r, register'[k][r], rows'[k][r])
  <2> SUFFICES ASSUME <<k, r>> \notin raced'
               PROVE  /\ chosen[k][r] \subseteq register[k][r] /\ OneOpen(q)
                      /\ Fresh(w, k, r, register[k][r], q)
    BY <1>1, <1>12
  <2>1. chosen[k][r] \subseteq register[k][r] /\ OneOpen(rows[k][r])
    BY <1>1, <1>2, <1>3 DEF Writing, Inv, Desk, DeskOK
  <2>2. ids # {} => new.id \in ids
    BY <1>5, <1>7
  <2>3. Fresh(w, k, r, register[k][r], q)
    BY <1>6, <1>11, <2>2 DEF Fresh, PassPcs
  <2> QED
    BY <1>10, <2>1, <2>3
<1>17. \A p \in Risks : p # r /\ <<k, p>> \notin raced => Fresh(w, k, p, register[k][p], rows[k][p])
  BY <1>6 DEF Fresh
<1>18. Deciding(w, k, r)
  BY <1>6 DEF Deciding
<1>19. /\ serial' \in Nat /\ serial <= serial' /\ RowsFit(rows'[k][r], serial')
       /\ register'[k][r] \subseteq Values(k)
       /\ register' \in [Kinds -> [Risks -> SUBSET All]]
       /\ chosen' \in [Kinds -> [Risks -> SUBSET All]]
       /\ session[s].cur \subseteq {r} /\ torn' = torn /\ count' = count
  BY <1>1, <1>3, <1>4, <1>8, <1>9, <1>12
<1>20. \A l \in Kinds, p \in Risks : <<l, p>> # <<k, r>> =>
          /\ register'[l][p] = register[l][p] /\ rows'[l][p] = rows[l][p]
          /\ chosen'[l][p] = chosen[l][p]
  BY <1>1, <1>12
<1>21. k \in Kinds /\ k = session[s].kind /\ w.kind = k /\ Goes(s, w) /\ Writing(s, k, r)
  BY <1>1, <1>2, <1>6
<1> HIDE DEF k
<1> QED
  BY <1>3, <1>6, <1>12, <1>13, <1>14, <1>15, <1>16, <1>17, <1>18, <1>19, <1>20, <1>21, WriteKeeps, ZenonT(30)

\* Rows with these ids are closed, the others stay.
Shut(q, ids) == {IF x.id \in ids THEN Closed(x) ELSE x : x \in q}

\* Closing rows takes no row away, opens none and keeps the reviewed ones.
LEMMA ShutFacts ==
  ASSUME NEW q \in SUBSET RowSet, NEW n \in Nat, RowsFit(q, n), NEW ids
  PROVE  /\ Shut(q, ids) \in SUBSET RowSet /\ RowsFit(Shut(q, ids), n)
         /\ \A x \in q : x.reviewed => x \in Shut(q, ids)
         /\ \A x \in q : x.status = "applied" =>
              \E y \in Shut(q, ids) : y.status = "applied" /\ (x.reviewed => y.reviewed)
         /\ \A x \in Shut(q, ids) : x.status = "open" => x \in q
         /\ (\E x \in q : x.id \in ids) => \E y \in Shut(q, ids) : y.reviewed /\ y.status = "applied"
<1>1. ASSUME NEW x \in q
      PROVE  /\ Closed(x) \in RowSet /\ Closed(x).id = x.id /\ Closed(x).status = "applied"
             /\ Closed(x).reviewed
             /\ (x.reviewed => Closed(x) = x)
  <2>1. x \in RowSet /\ (x.reviewed => x.status = "applied")
    BY DEF RowsFit
  <2>2. /\ Closed(x) \in RowSet /\ Closed(x).id = x.id /\ Closed(x).status = "applied"
        /\ Closed(x).reviewed = TRUE
    BY <2>1 DEF Closed, RowSet
  <2>3. ASSUME x.reviewed PROVE Closed(x) = x
    <3>1. x.status = "applied" /\ x.reviewed = TRUE
      BY <2>1, <2>3 DEF RowSet
    <3> QED
      BY <2>1, <2>2, <3>1 DEF RowSet
  <2> QED
    BY <2>2, <2>3
<1>2. \A y \in Shut(q, ids) : \E x \in q : y.id = x.id /\ ((x.id \in ids /\ y = Closed(x)) \/ (x.id \notin ids /\ y = x))
  BY <1>1 DEF Shut
<1>3. \A x \in q : /\ x.id \in ids => Closed(x) \in Shut(q, ids)
                   /\ x.id \notin ids => x \in Shut(q, ids)
  BY DEF Shut
<1>4. Shut(q, ids) \in SUBSET RowSet
  BY <1>1, <1>2
<1>5. RowsFit(Shut(q, ids), n)
  BY <1>1, <1>2 DEF RowsFit
<1>6. \A x \in q : x.reviewed => x \in Shut(q, ids)
  BY <1>1, <1>3
<1>7. \A x \in q : x.status = "applied" =>
         \E y \in Shut(q, ids) : y.status = "applied" /\ (x.reviewed => y.reviewed)
  BY <1>1, <1>3
<1>8. \A x \in Shut(q, ids) : x.status = "open" => x \in q
  BY <1>1, <1>2
<1>9. (\E x \in q : x.id \in ids) => \E y \in Shut(q, ids) : y.reviewed /\ y.status = "applied"
  BY <1>1, <1>3
<1> QED
  BY <1>4, <1>5, <1>6, <1>7, <1>8, <1>9

\* The closed row explains what the reviewer chose.
LEMMA UpdateReviewKeeps ==
  ASSUME Inv, NEW s \in Sessions, UpdateReview(s)
  PROVE  Inv'
<1> DEFINE k == session[s].kind
           r == Current(s)
           q == rows[k][r]
           ids == IF session[s].ids # {} \/ q = {} THEN session[s].ids ELSE {Latest(q).id}
           z == Shut(q, ids)
<1>1. /\ session[s].pc = "review" /\ Goes(s, Idle) /\ Writing(s, k, r)
      /\ rows' = [rows EXCEPT ![k][r] = z]
      /\ UNCHANGED <<register, serial, snapshots, jobs, inbox, count, chosen, torn>>
  BY DEF UpdateReview, At, Goes, Shut
<1>2. /\ session[s] \in SessionSet /\ Control(session[s]) /\ Fits(session[s], serial) /\ k \in Kinds
      /\ \A p \in Risks : <<k, p>> \notin raced =>
            Fresh(session[s], k, p, register[k][p], rows[k][p])
  BY AtSession
<1>3. /\ r \in Risks /\ session[s].cur = {r} /\ session[s].todo = {} /\ session[s].job = 0
  BY <1>1, <1>2, CurrentRisk DEF AtRisk, Control, ReviewPcs
<1> HIDE DEF r
<1>4. /\ register \in [Kinds -> [Risks -> SUBSET All]] /\ chosen \in [Kinds -> [Risks -> SUBSET All]]
      /\ rows \in [Kinds -> [Risks -> SUBSET RowSet]] /\ serial \in Nat
  BY DEF Inv, Types, StoreTyped
<1>5. RowsFit(q, serial) /\ q \in SUBSET RowSet /\ register[k][r] \subseteq Values(k)
  BY <1>2, <1>3, <1>4 DEF Inv, RowsOK, RegisterOK
<1>6. <<k, r>> \notin raced' => \E x \in q : x.id \in ids
  <2> SUFFICES ASSUME <<k, r>> \notin raced' PROVE \E x \in q : x.id \in ids
    OBVIOUS
  <2>1. Fresh(session[s], k, r, register[k][r], q)
    BY <1>1, <1>2, <1>3 DEF Writing
  <2>2. CASE session[s].ids # {}
    BY <1>1, <1>3, <2>1, <2>2 DEF Fresh
  <2>3. CASE session[s].ids = {}
    <3>1. q # {}
      BY <1>1, <1>3, <2>1, <2>3 DEF Fresh
    <3>2. Latest(q) \in q
      BY <1>4, <1>5, <3>1, LatestIsThere DEF RowsFit
    <3>3. ids = {Latest(q).id}
      BY <2>3, <3>1
    <3> QED
      BY <3>2, <3>3
  <2> QED
    BY <2>2, <2>3
<1> HIDE DEF q, ids
<1>7. /\ z \in SUBSET RowSet /\ RowsFit(z, serial)
      /\ \A x \in z : x.status = "open" => x \in q
      /\ (\E x \in q : x.id \in ids) => \E y \in z : y.reviewed /\ y.status = "applied"
  BY <1>4, <1>5, ShutFacts
<1> HIDE DEF z
<1>8. /\ rows' \in [Kinds -> [Risks -> SUBSET RowSet]] /\ rows'[k][r] = z
      /\ \A l \in Kinds, p \in Risks : <<l, p>> # <<k, r>> => rows'[l][p] = rows[l][p]
  BY <1>1, <1>2, <1>3, <1>4, <1>7, Entry
<1>9. /\ Idle \in SessionSet /\ Control(Idle) /\ Fits(Idle, serial) /\ Idle.job = 0
      /\ \A p \in Risks : Fresh(Idle, k, p, register[k][p], rows[k][p])
      /\ Fresh(Idle, k, r, register'[k][r], rows'[k][r])
  BY <1>2, <1>3, <1>4, IdleFacts
<1>10. OwnOK' /\ JobsOK' /\ JobsTyped'
  <2>1. OwnOK' /\ JobsOK'
    BY <1>1, <1>9, JobMoves
  <2> QED
    BY <1>1, <2>1 DEF Inv, Types, JobsTyped
<1>11. <<k, r>> \notin raced' => /\ chosen'[k][r] \subseteq register'[k][r] /\ OneOpen(rows'[k][r])
                                 /\ Fresh(Idle, k, r, register'[k][r], rows'[k][r])
  <2> SUFFICES ASSUME <<k, r>> \notin raced'
               PROVE  chosen[k][r] \subseteq register[k][r] /\ OneOpen(z)
    BY <1>1, <1>8, <1>9
  <2>1. chosen[k][r] \subseteq register[k][r] /\ OneOpen(q)
    BY <1>1, <1>2, <1>3 DEF Writing, Inv, Desk, DeskOK, q
  <2> QED
    BY <1>7, <2>1 DEF OneOpen
<1>12. <<k, r>> \notin raced' \cup torn =>
          /\ \/ register'[k][r] = {} \/ \E x \in rows'[k][r] : x.status = "applied"
             \/ Applying(Idle, k, r) \/ Deciding(Idle, k, r)
          /\ \/ chosen'[k][r] = {} \/ \E x \in rows'[k][r] : x.reviewed
             \/ Deciding(Idle, k, r)
  BY <1>6, <1>7, <1>8
<1>13. /\ serial' \in Nat /\ serial <= serial' /\ RowsFit(rows'[k][r], serial')
       /\ register'[k][r] \subseteq Values(k) /\ Fits(Idle, serial')
       /\ register' \in [Kinds -> [Risks -> SUBSET All]]
       /\ chosen' \in [Kinds -> [Risks -> SUBSET All]]
       /\ session[s].cur \subseteq {r} /\ torn' = torn /\ count' = count
  BY <1>1, <1>3, <1>4, <1>5, <1>7, <1>8, <1>9
<1>14. \A l \in Kinds, p \in Risks : <<l, p>> # <<k, r>> =>
          /\ register'[l][p] = register[l][p] /\ rows'[l][p] = rows[l][p]
          /\ chosen'[l][p] = chosen[l][p]
  BY <1>1, <1>8
<1>15. k \in Kinds /\ k = session[s].kind /\ Goes(s, Idle) /\ Writing(s, k, r)
  BY <1>1, <1>2
<1>16. PICK w \in SessionSet : w = Idle
  BY <1>9
<1>17. /\ Control(w) /\ Fits(w, serial') /\ Goes(s, w)
       /\ \A p \in Risks : p # r /\ <<k, p>> \notin raced => Fresh(w, k, p, register[k][p], rows[k][p])
       /\ <<k, r>> \notin raced' => /\ chosen'[k][r] \subseteq register'[k][r] /\ OneOpen(rows'[k][r])
                                    /\ Fresh(w, k, r, register'[k][r], rows'[k][r])
  BY <1>9, <1>11, <1>13, <1>15, <1>16
<1>18. <<k, r>> \notin raced' \cup torn =>
          /\ \/ register'[k][r] = {} \/ \E x \in rows'[k][r] : x.status = "applied"
             \/ Applying(w, k, r) \/ Deciding(w, k, r)
          /\ \/ chosen'[k][r] = {} \/ \E x \in rows'[k][r] : x.reviewed
             \/ Deciding(w, k, r)
  BY <1>12, <1>16
<1>19. /\ k \in Kinds /\ k = session[s].kind /\ w \in SessionSet /\ (w.kind = k \/ w = Idle)
       /\ Writing(s, k, r) /\ r \in Risks /\ torn' = torn /\ count' = count
  BY <1>2, <1>3, <1>9, <1>13, <1>15, <1>16
<1> HIDE DEF k
<1> QED
  BY <1>8, <1>10, <1>13, <1>14, <1>17, <1>18, <1>19, WriteKeeps, SMTT(30)
-----------------------------------------------------------------------------
(* The invariant holds, and what follows from it.                          *)

\* Nobody has done anything yet.
LEMMA InitInv == Init => Inv
<1> SUFFICES ASSUME Init PROVE Inv
  OBVIOUS
<1>1. /\ register = [k \in Kinds |-> [r \in Risks |-> {}]]
      /\ chosen = [k \in Kinds |-> [r \in Risks |-> {}]]
      /\ rows = [k \in Kinds |-> [r \in Risks |-> {}]]
      /\ serial = 0 /\ snapshots = <<>> /\ jobs = <<>> /\ inbox = {} /\ count = 0
      /\ session = [s \in Sessions |-> Idle] /\ raced = {} /\ torn = {}
  BY DEF Init
<1>2. /\ Idle \in SessionSet /\ Control(Idle) /\ Fits(Idle, serial) /\ Idle.job = 0
      /\ \A k \in Kinds, r \in Risks : \A value, q : Fresh(Idle, k, r, value, q)
  BY <1>1, IdleFacts
<1>3. \A s \in Sessions : session[s] = Idle
  BY <1>1
<1>4. Types
  BY <1>1, <1>2 DEF Types, SessionsTyped, StoreTyped, JobsTyped
<1>5. SessionsOK
  BY <1>2, <1>3 DEF SessionsOK
<1>6. RegisterOK /\ RowsOK
  BY <1>1 DEF RegisterOK, RowsOK, RowsFit
<1>7. OwnOK /\ JobsOK
  BY <1>1, <1>2, <1>3 DEF OwnOK, JobsOK
<1>8. FreshOK
  BY <1>2, <1>3, <1>4 DEF FreshOK, Types, SessionsTyped, SessionSet
<1>9. DeskOK
  BY <1>1 DEF DeskOK, OneOpen
<1>10. ExplainedOK
  BY <1>1 DEF ExplainedOK, ValueExplained, ChoiceExplained
<1> QED
  BY <1>4, <1>5, <1>6, <1>7, <1>8, <1>9, <1>10 DEF Inv, Desk

\* Every step keeps the invariant.
LEMMA InvNext == ASSUME Inv, Finite, [Next]_vars PROVE Inv'
<1>1. CASE \E p \in Postings : AskForPass(p)
  BY <1>1, AskForPassKeeps
<1>2. ASSUME NEW s \in Sessions, \E m \in inbox : TakePass(s, m) PROVE Inv'
  BY <1>2, TakePassKeeps
<1>3. ASSUME NEW s \in Sessions, NEW k \in Kinds, NEW value \in Selections[k], NEW r \in Risks,
             NEW replace \in BOOLEAN, StartReview(s, k, r, value, replace)
      PROVE Inv'
  BY <1>3, StartReviewKeeps
<1>4. ASSUME NEW s \in Sessions, PassStep(s) PROVE Inv'
  <2>1. CASE FindSnapshot(s) \/ CreateSnapshot(s) \/ InsertUsers(s)
    BY <2>1, HierarchyKeeps
  <2>2. CASE ReadRisks(s)
    BY <2>2, ReadRisksKeeps
  <2>3. CASE SelectOpen(s)
    BY <2>3, SelectOpenKeeps
  <2>4. CASE DeleteOpen(s)
    BY <2>4, DeleteOpenKeeps
  <2>5. CASE InsertRow(s)
    BY <2>5, InsertRowKeeps
  <2>6. CASE FinishPass(s)
    BY <2>6, FinishPassKeeps
  <2>7. CASE AcknowledgePass(s)
    BY <2>7, AcknowledgePassKeeps
  <2>8. CASE \E r \in Risks : Recommend(s, r)
    BY <2>8, RecommendKeeps
  <2>9. CASE \E r \in Risks : \E new \in Recommended(session[s].kind) : AutoApply(s, r, new)
    BY <2>9, AutoApplyKeeps
  <2> QED
    BY <1>4, <2>1, <2>2, <2>3, <2>4, <2>5, <2>6, <2>7, <2>8, <2>9 DEF PassStep
<1>5. ASSUME NEW s \in Sessions, ReviewStep(s) PROVE Inv'
  BY <1>5, ReadRiskKeeps, ApplySelectedKeeps, FindLatestKeeps, RecordDecisionKeeps,
     UpdateReviewKeeps DEF ReviewStep
<1>6. ASSUME NEW s \in Sessions, PassRaises(s) \/ SessionLost(s) PROVE Inv'
  BY <1>6, PassRaisesKeeps, SessionLostKeeps
<1>7. CASE UNCHANGED vars
  <2>1. /\ register' = register /\ rows' = rows /\ serial' = serial /\ snapshots' = snapshots
        /\ jobs' = jobs /\ inbox' = inbox /\ session' = session /\ count' = count
        /\ chosen' = chosen /\ raced' = raced /\ torn' = torn
    BY <1>7 DEF vars
  <2>2. Types' /\ SessionsOK' /\ RegisterOK' /\ RowsOK'
    BY <2>1 DEF Inv, Types, SessionsTyped, StoreTyped, JobsTyped, SessionsOK, RegisterOK, RowsOK
  <2>3. OwnOK' /\ JobsOK'
    BY <2>1 DEF Inv, OwnOK, JobsOK
  <2>4. FreshOK' /\ DeskOK' /\ ExplainedOK'
    BY <2>1 DEF Inv, Desk, FreshOK, DeskOK, ExplainedOK, ValueExplained, ChoiceExplained
  <2> QED
    BY <2>2, <2>3, <2>4 DEF Inv, Desk
<1> QED
  BY <1>1, <1>2, <1>3, <1>4, <1>5, <1>6, <1>7 DEF Next

\* For finitely many risks: a pass counts them.
THEOREM InvHolds == Finite => (Spec => []Inv)
<1> SUFFICES ASSUME Finite PROVE Spec => []Inv
  OBVIOUS
<1>1. Init => Inv
  BY InitInv
<1>2. Inv /\ [Next]_vars => Inv'
  BY InvNext
<1> QED
  BY <1>1, <1>2, PTL DEF Spec
\* The type of every variable; a row's id names it, and a session is at one
\* risk at a time.
THEOREM TypesHold == Finite => (Spec => []TypeOK)
<1> SUFFICES ASSUME Finite PROVE Spec => []TypeOK
  OBVIOUS
<1>1. Inv => TypeOK
  <2> SUFFICES ASSUME Inv PROVE TypeOK
    OBVIOUS
  <2>1. /\ register \in [Kinds -> [Risks -> SUBSET All]]
        /\ rows \in [Kinds -> [Risks -> SUBSET RowSet]] /\ serial \in Nat
        /\ raced \cup torn \subseteq Kinds \X Risks /\ jobs \in Seq(JobSet)
    BY DEF Inv, Types, StoreTyped, JobsTyped
  <2>2. ASSUME NEW k \in Kinds, NEW r \in Risks
        PROVE  /\ register[k][r] \subseteq UNION (Proposals[k] \cup Selections[k])
               /\ \A x \in rows[k][r] : x.id \in 1..serial /\ x.status \in {"open", "applied"}
               /\ \A x, y \in rows[k][r] : x.id = y.id => x = y
    <3>1. register[k][r] \subseteq Values(k) /\ RowsFit(rows[k][r], serial)
      BY DEF Inv, RegisterOK, RowsOK
    <3>2. rows[k][r] \subseteq RowSet
      BY <2>1
    <3> QED
      BY <3>1, <3>2 DEF Values, RowsFit, RowSet
  <2>3. ASSUME NEW j \in DOMAIN jobs
        PROVE  /\ jobs[j].status \in {"pending", "running", "completed", "failed"}
               /\ jobs[j].done \in 0..jobs[j].total
    <3>1. jobs[j] \in JobSet
      BY <2>1
    <3>2. Counted(jobs[j])
      BY DEF Inv, JobsOK
    <3> QED
      BY <3>1, <3>2 DEF JobSet, Counted
  <2>4. ASSUME NEW s \in Sessions
        PROVE  Cardinality(session[s].cur) <= 1 /\ session[s].ids \subseteq 1..serial
    <3>1. session[s].cur = {} \/ \E r \in Risks : session[s].cur = {r}
      BY AtSession DEF Control
    <3>2. Cardinality(session[s].cur) \in {0, 1}
      BY <3>1, FS_EmptySet, FS_Singleton
    <3> QED
      BY <3>2, AtSession DEF Fits
  <2> QED
    BY <2>1, <2>2, <2>3, <2>4 DEF TypeOK
<1> QED
  BY <1>1, InvHolds, PTL

\* What a reviewer decided stays on the register until a reviewer replaces it
\* or a pass is told to overwrite, where no two sessions were at the risk.
THEOREM DecisionsStand == Finite => (Spec => []DecisionStands)
<1> SUFFICES ASSUME Finite PROVE Spec => []DecisionStands
  OBVIOUS
<1>1. Inv => DecisionStands
  BY DEF Inv, Desk, DeskOK, DecisionStands
<1> QED
  BY <1>1, InvHolds, PTL

\* A risk has at most one open recommendation at each desk, where no two
\* sessions were at the risk, whatever sessions were lost or raised.
THEOREM OneIsOpen == Finite => (Spec => []OneOpenRecommendation)
<1> SUFFICES ASSUME Finite PROVE Spec => []OneOpenRecommendation
  OBVIOUS
<1>1. Inv => OneOpenRecommendation
  <2> SUFFICES ASSUME Inv, NEW k \in Kinds, NEW r \in Risks, <<k, r>> \notin raced
               PROVE  Cardinality(OpenIds(k, r)) <= 1
    BY DEF OneOpenRecommendation
  <2>1. \A x, y \in rows[k][r] : x.status = "open" /\ y.status = "open" => x = y
    BY DEF Inv, Desk, DeskOK, OneOpen
  <2>2. OpenIds(k, r) = {} \/ \E i : OpenIds(k, r) = {i}
    BY <2>1 DEF OpenIds
  <2>3. Cardinality(OpenIds(k, r)) \in {0, 1}
    BY <2>2, FS_EmptySet, FS_Singleton
  <2> QED
    BY <2>3
<1> QED
  BY <1>1, InvHolds, PTL

\* What is on the register when everybody has left a risk has its
\* recommendation, and a reviewed one where a reviewer decided.
THEOREM RegisterIsExplained == Finite => (Spec => []RegisterExplained)
<1> SUFFICES ASSUME Finite PROVE Spec => []RegisterExplained
  OBVIOUS
<1>1. Inv => RegisterExplained
  <2> SUFFICES ASSUME Inv, NEW k \in Kinds, NEW r \in Risks, Settled(k, r),
                      <<k, r>> \notin raced \cup torn
               PROVE  /\ register[k][r] # {} => \E x \in rows[k][r] : x.status = "applied"
                      /\ chosen[k][r] # {} => \E x \in rows[k][r] : x.reviewed
    BY DEF RegisterExplained
  <2>1. ValueExplained(k, r) /\ ChoiceExplained(k, r)
    BY DEF Inv, Desk, ExplainedOK
  <2>2. ASSUME NEW s \in Sessions
        PROVE  ~Applying(session[s], k, r) /\ ~Deciding(session[s], k, r)
    <3>1. <<k, r>> \notin Holding(s)
      BY DEF Settled
    <3>2. Control(session[s])
      BY AtSession
    <3>3. session[s].pc \in {"idle", "boot", "read", "ack"} => session[s].cur = {}
      BY <3>2 DEF Control, AtRisk, ReviewPcs
    <3>4. session[s].pc # "done"
      BY AtSession DEF SessionSet, Pcs, AtRisk, ReviewPcs
    <3>5. session[s].kind = k => r \notin session[s].cur
      BY <3>1, <3>3, <3>4 DEF Holding
    <3> QED
      BY <3>5 DEF Applying, Deciding
  <2> QED
    BY <2>1, <2>2 DEF ValueExplained, ChoiceExplained
<1> QED
  BY <1>1, InvHolds, PTL

\* A job that shows completed has done every risk it counted.
THEOREM CompletedMeansDone == Finite => (Spec => []CompletedJobsAreDone)
<1> SUFFICES ASSUME Finite PROVE Spec => []CompletedJobsAreDone
  OBVIOUS
<1>1. Inv => CompletedJobsAreDone
  BY DEF Inv, JobsOK, Counted, CompletedJobsAreDone
<1> QED
  BY <1>1, InvHolds, PTL
-----------------------------------------------------------------------------
(* Reviewed recommendations.                                               *)

\* The commits that change the recommendations of a risk.
LEMMA WhoWritesRows ==
  ASSUME [Next]_vars
  PROVE  \/ UNCHANGED rows
         \/ \E s \in Sessions : DeleteOpen(s) \/ InsertRow(s) \/ RecordDecision(s) \/ UpdateReview(s)
<1>1. CASE \E p \in Postings : AskForPass(p)
  BY <1>1 DEF AskForPass
<1>2. ASSUME NEW s \in Sessions, NEW m \in inbox, TakePass(s, m) PROVE UNCHANGED rows
  BY <1>2 DEF TakePass
<1>3. ASSUME NEW s \in Sessions, NEW k \in Kinds, NEW value \in Selections[k], NEW r \in Risks,
             NEW replace \in BOOLEAN, StartReview(s, k, r, value, replace)
      PROVE  UNCHANGED rows
  BY <1>3 DEF StartReview
<1>4. ASSUME NEW s \in Sessions, PassStep(s)
      PROVE  UNCHANGED rows \/ DeleteOpen(s) \/ InsertRow(s)
  <2>1. CASE FindSnapshot(s) \/ CreateSnapshot(s) \/ InsertUsers(s)
    BY <2>1 DEF FindSnapshot, CreateSnapshot, InsertUsers
  <2>2. CASE ReadRisks(s)
    BY <2>2 DEF ReadRisks, ReadWith
  <2>3. CASE SelectOpen(s) \/ FinishPass(s) \/ AcknowledgePass(s)
    BY <2>3 DEF SelectOpen, FinishPass, AcknowledgePass
  <2>4. CASE \E r \in Risks : Recommend(s, r)
    BY <2>4 DEF Recommend
  <2>5. CASE \E r \in Risks : \E new \in Recommended(session[s].kind) : AutoApply(s, r, new)
    BY <2>5 DEF AutoApply
  <2> QED
    BY <1>4, <2>1, <2>2, <2>3, <2>4, <2>5 DEF PassStep
<1>5. ASSUME NEW s \in Sessions, ReviewStep(s)
      PROVE  UNCHANGED rows \/ RecordDecision(s) \/ UpdateReview(s)
  BY <1>5 DEF ReviewStep, ReadRisk, ApplySelected, FindLatest
<1>6. ASSUME NEW s \in Sessions, PassRaises(s) \/ SessionLost(s) PROVE UNCHANGED rows
  BY <1>6 DEF PassRaises, SessionLost
<1>7. CASE UNCHANGED vars
  BY <1>7 DEF vars
<1> QED
  BY <1>1, <1>2, <1>3, <1>4, <1>5, <1>6, <1>7 DEF Next

\* A reviewed row survives a change of one risk's rows that keeps its reviewed rows.
LEMMA ReviewedStay ==
  ASSUME Inv, NEW l \in Kinds, NEW p \in Risks, NEW z \in SUBSET RowSet,
         rows' = [rows EXCEPT ![l][p] = z],
         <<l, p>> \notin raced' => \A x \in rows[l][p] : x.reviewed => x \in z,
         NEW k \in Kinds, NEW r \in Risks, <<k, r>> \notin raced',
         NEW x \in rows[k][r], x.reviewed
  PROVE  x \in rows'[k][r]
<1>1. rows \in [Kinds -> [Risks -> SUBSET RowSet]]
  BY DEF Inv, Types, StoreTyped
<1>2. /\ rows'[l][p] = z
      /\ \A m \in Kinds, q \in Risks : <<m, q>> # <<l, p>> => rows'[m][q] = rows[m][q]
  BY <1>1, Entry
<1>3. CASE <<k, r>> = <<l, p>>
  BY <1>2, <1>3
<1>4. CASE <<k, r>> # <<l, p>>
  BY <1>2, <1>4
<1> QED
  BY <1>3, <1>4

\* The rows of the risk a session is at.
LEMMA RowsThere ==
  ASSUME Inv, NEW s \in Sessions, session[s].pc \in AtRisk
  PROVE  /\ session[s].kind \in Kinds /\ Current(s) \in Risks /\ serial \in Nat
         /\ rows[session[s].kind][Current(s)] \in SUBSET RowSet
         /\ RowsFit(rows[session[s].kind][Current(s)], serial)
<1>1. session[s].kind \in Kinds /\ Current(s) \in Risks
  BY AtSession, CurrentRisk
<1> QED
  BY <1>1 DEF Inv, Types, StoreTyped, RowsOK

\* No step takes away what a reviewer has closed: a pass deletes what was open
\* when it looked, and nobody closed it since, where no two sessions were at the risk.
LEMMA ReviewedKeep ==
  ASSUME Inv, [Next]_vars, NEW k \in Kinds, NEW r \in Risks, <<k, r>> \notin raced',
         NEW x \in rows[k][r], x.reviewed
  PROVE  x \in rows'[k][r]
<1>1. CASE UNCHANGED rows
  BY <1>1
<1>2. ASSUME NEW s \in Sessions, DeleteOpen(s) PROVE x \in rows'[k][r]
  <2> DEFINE l == session[s].kind
             p == Current(s)
             q == rows[l][p]
             z == {y \in q : y.id \notin session[s].ids}
  <2>1. /\ session[s].pc = "delete" /\ Writing(s, l, p) /\ rows' = [rows EXCEPT ![l][p] = z]
    BY <1>2 DEF DeleteOpen, At
  <2>2. /\ l \in Kinds /\ p \in Risks /\ serial \in Nat /\ q \in SUBSET RowSet /\ RowsFit(q, serial)
        /\ session[s].cur = {p}
    BY <2>1, RowsThere, CurrentRisk DEF AtRisk
  <2>3. ASSUME <<l, p>> \notin raced', NEW y \in q, y.reviewed PROVE y \in z
    <3>1. <<l, p>> \notin raced
      BY <2>1, <2>3 DEF Writing
    <3>2. session[s].ids = OpenOf(q)
      BY <2>1, <2>2, <3>1, AtSession DEF Fresh
    <3>3. y.status = "applied"
      BY <2>2, <2>3 DEF RowsFit
    <3>4. y.id \notin OpenOf(q)
      BY <2>2, <3>3, AppliedIsNotOpen
    <3> QED
      BY <3>2, <3>4
  <2>4. z \in SUBSET RowSet
    BY <2>2
  <2>5. <<l, p>> \notin raced' => \A y \in rows[l][p] : y.reviewed => y \in z
    BY <2>3
  <2> HIDE DEF l, p, z
  <2> QED
    BY <2>1, <2>2, <2>4, <2>5, ReviewedStay
<1>3. ASSUME NEW s \in Sessions, InsertRow(s) PROVE x \in rows'[k][r]
  <2> DEFINE l == session[s].kind
             p == Current(s)
             new == Row(IF session[s].applied THEN "applied" ELSE "open", FALSE)
             z == rows[l][p] \cup {new}
  <2>1. /\ session[s].pc = "insert" /\ rows' = [rows EXCEPT ![l][p] = z]
    BY <1>3 DEF InsertRow, At
  <2>2. l \in Kinds /\ p \in Risks /\ serial \in Nat /\ rows[l][p] \in SUBSET RowSet
    BY <2>1, RowsThere DEF AtRisk
  <2>3. new \in RowSet
    BY <2>2 DEF Row, RowSet
  <2>4. z \in SUBSET RowSet /\ (\A y \in rows[l][p] : y.reviewed => y \in z)
    BY <2>2, <2>3
  <2> HIDE DEF l, p, z
  <2> QED
    BY <2>1, <2>2, <2>4, ReviewedStay
<1>4. ASSUME NEW s \in Sessions, RecordDecision(s) PROVE x \in rows'[k][r]
  <2> DEFINE l == session[s].kind
             p == Current(s)
             new == Row("applied", FALSE)
             z == rows[l][p] \cup {new}
  <2>1. /\ session[s].pc = "record" /\ rows' = [rows EXCEPT ![l][p] = z]
    BY <1>4 DEF RecordDecision, At
  <2>2. l \in Kinds /\ p \in Risks /\ serial \in Nat /\ rows[l][p] \in SUBSET RowSet
    BY <2>1, RowsThere DEF AtRisk, ReviewPcs
  <2>3. new \in RowSet
    BY <2>2 DEF Row, RowSet
  <2>4. z \in SUBSET RowSet /\ (\A y \in rows[l][p] : y.reviewed => y \in z)
    BY <2>2, <2>3
  <2> HIDE DEF l, p, z
  <2> QED
    BY <2>1, <2>2, <2>4, ReviewedStay
<1>5. ASSUME NEW s \in Sessions, UpdateReview(s) PROVE x \in rows'[k][r]
  <2> DEFINE l == session[s].kind
             p == Current(s)
             q == rows[l][p]
             ids == IF session[s].ids # {} \/ q = {} THEN session[s].ids ELSE {Latest(q).id}
             z == Shut(q, ids)
  <2>1. /\ session[s].pc = "review" /\ rows' = [rows EXCEPT ![l][p] = z]
    BY <1>5 DEF UpdateReview, At, Shut
  <2>2. l \in Kinds /\ p \in Risks /\ serial \in Nat /\ q \in SUBSET RowSet /\ RowsFit(q, serial)
    BY <2>1, RowsThere DEF AtRisk, ReviewPcs
  <2> HIDE DEF ids
  <2>3. z \in SUBSET RowSet /\ (\A y \in q : y.reviewed => y \in z)
    BY <2>2, ShutFacts
  <2>4. \A y \in rows[l][p] : y.reviewed => y \in z
    BY <2>3
  <2> HIDE DEF l, p, z
  <2> QED
    BY <2>1, <2>2, <2>3, <2>4, ReviewedStay
<1> QED
  BY <1>1, <1>2, <1>3, <1>4, <1>5, WhoWritesRows

\* What a reviewer has closed is never deleted, where no two sessions were at
\* the risk.
THEOREM ReviewedRowsStay == Finite => (Spec => ReviewsStay)
<1> SUFFICES ASSUME Finite PROVE Spec => ReviewsStay
  OBVIOUS
<1>1. Inv /\ [Next]_vars =>
        [\A k \in Kinds, r \in Risks : <<k, r>> \notin raced' =>
            \A x \in rows[k][r] : x.reviewed => x \in rows[k][r]']_vars
  BY ReviewedKeep
<1> QED
  BY <1>1, InvHolds, PTL DEF Spec, ReviewsStay
=============================================================================
