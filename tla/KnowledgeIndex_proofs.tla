------------------------ MODULE KnowledgeIndex_proofs ------------------------
(***************************************************************************)
(* Theorems about KnowledgeIndex, for all organisations, finite sets of    *)
(* rows, callers, chunk sizes and windows and any number of failures.      *)
(*                                                                         *)
(* IndexInv is the inductive invariant. RowsOK, TypeOK, StoreOK and        *)
(* CallsOK say what rows, chunks and queues are made of; Alone that an     *)
(* entity nobody disturbed is in one caller's hands at most; CallsDue what *)
(* each part of a queue can rely on for such an entity, and RestOK that    *)
(* the index says of it what its row says when nobody is at it.            *)
(*                                                                         *)
(* Two lemmas carry the steps: ServiceKeeps for the parts of a call, which *)
(* leave the rows alone, and BeginKeeps for the writers, which leave the   *)
(* store alone.                                                            *)
(***************************************************************************)
EXTENDS KnowledgeIndex, SequenceTheorems, FiniteSetTheorems, FunctionTheorems, TLAPS

Texts == [entity : Entities, assessed : BOOLEAN, of : SUBSET (Entities \X Versions)]
Types == {"control", "issue", "risk", "aggregate"}
Parts == [op : {"clear"}, org : Orgs, texts : Seq(Texts), window : Nat]
    \cup [op : {"upsert"}, org : Orgs, texts : Seq(Texts), window : Nat,
          plan : SUBSET (Nat \X Nat)]
    \cup [op : Types, org : Orgs]
    \cup [op : {"purge"}, org : Orgs, of : SUBSET Entities]

\* A part is about entities of its organisation, and has one text of each.
PartOK(p) ==
    /\ \A e \in Scope(p) : OrgOf[e] = p.org
    /\ p.op \in {"clear", "upsert"} =>
        \A m, n \in DOMAIN p.texts : p.texts[m].entity = p.texts[n].entity => m = n
    /\ p.op = "upsert" => p.plan \subseteq PlanOf(p) /\ p.plan # {}

\* A call purges first, upserts only what it has just cleared, and rebuilds no
\* entity twice.
Rebuilds(p) == p.op # "purge"
QueueOK(q) ==
    /\ q \in Seq(Parts)
    /\ \A n \in DOMAIN q : PartOK(q[n])
    /\ \A n \in DOMAIN q : q[n].op \in {"purge", "upsert"} => n = 1
    /\ \A m, n \in DOMAIN q : m # n /\ Rebuilds(q[m]) /\ Rebuilds(q[n]) =>
        Scope(q[m]) \cap Scope(q[n]) = {}
CallsOK == DOMAIN call = Callers /\ \A c \in Callers : QueueOK(call[c])

RowsOK == row \in [Entities -> [ver : {0} \cup Versions, assessed : BOOLEAN]]
StoreOK == \A b \in store :
    /\ b = Chunk(OrgOf[b.text.entity], b.text, b.n)
    /\ b.text \in Texts /\ b.n \in Nat \ {0}

\* An entity that is not disturbed is in one caller's hands at most.
Alone ==
    \A e \in Entities \ disturbed : \A c, d \in Callers :
        e \in Scopes(call[c]) /\ e \in Scopes(call[d]) => c = d

\* The row is gone and has no text.
Gone(e) == ~Exists(e) /\ TypeOf[e] # "aggregate"
\* A text, and a chunk, that say what the row says now.
Current(t, e) == t.entity = e /\ t.of = Text(e, row).of
Size(e) == ChunkCount(Text(e, row))
Good(b, e) == Current(b.text, e) /\ b.n \in 1..Size(e)
AllGood(e) == \A b \in ChunksOfEntity(e) : Good(b, e)
Stored(e, n) == \E b \in ChunksOfEntity(e) : b.n = n
Mirrored(e) == AllGood(e) /\ \A n \in 1..Size(e) : Stored(e, n)

\* What a part has to do with an entity in its scope, as long as nobody
\* disturbs it.
PartDue(p, q, e) ==
    /\ p.op \in {"clear", "upsert"} =>
        /\ ~Gone(e)
        /\ \A m \in DOMAIN p.texts : p.texts[m].entity = e => Current(p.texts[m], e)
    /\ p.op = "upsert" =>
        /\ AllGood(e)
        /\ \A m \in DOMAIN p.texts : p.texts[m].entity = e =>
            \A n \in 1..Size(e) : <<m, n>> \in p.plan \/ Stored(e, n)
    /\ p.op = "purge" =>
        Gone(e) \/ \E k \in DOMAIN q : Rebuilds(q[k]) /\ e \in Scope(q[k])
CallsDue ==
    \A c \in Callers : \A n \in DOMAIN call[c] :
        \A e \in Scope(call[c][n]) \ disturbed : PartDue(call[c][n], call[c], e)

Purged(e) == \E c \in Callers : \E n \in DOMAIN call[c] :
    call[c][n].op = "purge" /\ e \in call[c][n].of
RestOK ==
    \A e \in Entities \ (disturbed \cup orphans) :
        \/ \A c \in Callers : e \notin Scopes(call[c])
        \/ Gone(e) /\ ~Purged(e)
        => Mirrored(e)

IndexInv == /\ RowsOK /\ TypeOK /\ StoreOK /\ CallsOK
            /\ Alone /\ CallsDue /\ RestOK
-----------------------------------------------------------------------------
(* Rows, texts and chunks.                                                 *)

Rows == [Entities -> [ver : {0} \cup Versions, assessed : BOOLEAN]]

\* There is a first version, and every version has its chunks.
LEMMA VersionFacts ==
  /\ 1 \in Versions /\ Versions \subseteq Nat \ {0}
  /\ \A v \in Versions : ChunksOf[v] \in Nat \ {0}
<1>1. ChunksOf \in Seq(Nat \ {0}) /\ ChunksOf # <<>>
  BY IndexAssumption
<1>2. Versions = 1..Len(ChunksOf) /\ Len(ChunksOf) \in Nat \ {0}
  BY <1>1 DEF Versions
<1> QED
  BY <1>1, <1>2

\* An organisation has one aggregate.
LEMMA AggregateFacts ==
  ASSUME NEW o \in Orgs
  PROVE  /\ Of(o, "aggregate") = {Aggregate(o)}
         /\ Aggregate(o) \in Entities /\ OrgOf[Aggregate(o)] = o
         /\ TypeOf[Aggregate(o)] = "aggregate"
<1>1. Cardinality(Of(o, "aggregate")) = 1 /\ IsFiniteSet(Of(o, "aggregate"))
  BY IndexAssumption, FS_Subset DEF Of
<1>2. PICK a : Of(o, "aggregate") = {a}
  BY <1>1, FS_Singleton
<1>3. Aggregate(o) = a
  BY <1>2 DEF Aggregate
<1> QED
  BY <1>2, <1>3 DEF Of

\* A row says a text.
LEMMA TextFacts ==
  ASSUME NEW r \in Rows, NEW e \in Entities
  PROVE  /\ Text(e, r) \in Texts
         /\ Text(e, r).entity = e
         /\ Text(e, r).of = {<<i, r[i].ver>> : i \in {x \in Sources(e) : r[x].ver > 0}}
<1>1. Sources(e) \subseteq Entities
  BY DEF Sources, Of
<1>2. \A x \in Entities : r[x].ver \in {0} \cup Versions /\ r[x].assessed \in BOOLEAN
  BY DEF Rows
<1>3. \A x \in Sources(e) : r[x].ver > 0 => <<x, r[x].ver>> \in Entities \X Versions
  BY <1>1, <1>2
<1>4. {<<i, r[i].ver>> : i \in {x \in Sources(e) : r[x].ver > 0}} \in SUBSET (Entities \X Versions)
  BY <1>3
<1> QED
  BY <1>2, <1>4 DEF Text, Texts

\* A text has finitely many chunks, whatever it says of an assessment.
LEMMA CountFacts ==
  ASSUME NEW t \in Texts
  PROVE  /\ ChunkCount(t) \in Nat
         /\ \A u \in Texts : u.entity = t.entity /\ u.of = t.of => ChunkCount(u) = ChunkCount(t)
<1>1. ASSUME t.of # {}
      PROVE  ChunksOf[(CHOOSE p \in t.of : TRUE)[2]] \in Nat
  <2>1. PICK c : c = CHOOSE p \in t.of : TRUE
    OBVIOUS
  <2>2. c \in t.of /\ t.of \subseteq Entities \X Versions
    BY <1>1, <2>1 DEF Texts
  <2>3. c[2] \in Versions
    BY <2>2
  <2> QED
    BY <2>1, <2>3, VersionFacts
<1>2. ChunkCount(t) \in Nat
  BY <1>1 DEF ChunkCount
<1>3. \A u \in Texts : u.entity = t.entity /\ u.of = t.of => ChunkCount(u) = ChunkCount(t)
  BY DEF ChunkCount
<1> QED
  BY <1>2, <1>3

\* What an entity has in the index follows from its row and its chunks.
LEMMA SizeFacts ==
  ASSUME RowsOK, NEW e \in Entities
  PROVE  /\ Size(e) \in Nat
         /\ Gone(e) => Size(e) = 0 /\ Text(e, row).of = {}
         /\ \A t \in Texts : Current(t, e) => ChunkCount(t) = Size(e)
<1>1. Text(e, row) \in Texts /\ Text(e, row).entity = e
  BY TextFacts DEF RowsOK, Rows
<1>2. Size(e) \in Nat
  BY <1>1, CountFacts DEF Size
<1>3. ASSUME Gone(e)
      PROVE  Text(e, row).of = {}
  <2>1. Sources(e) = {e} /\ ~(row[e].ver > 0)
    BY <1>3 DEF Gone, Exists, Sources
  <2> QED
    BY <2>1 DEF Text
<1>4. Text(e, row).of = {} => Size(e) = 0
  BY DEF Size, ChunkCount
<1>5. \A t \in Texts : Current(t, e) => ChunkCount(t) = Size(e)
  BY <1>1, CountFacts DEF Current, Size
<1> QED
  BY <1>2, <1>3, <1>4, <1>5

\* A text without its assessment.
LEMMA PlainText ==
  ASSUME NEW E, NEW F, NEW t \in [entity : E, assessed : BOOLEAN, of : F], NEW v
  PROVE  [t EXCEPT !.assessed = v] = [entity |-> t.entity, assessed |-> v, of |-> t.of]
OBVIOUS

\* Chunks that mirror a row are its records, but for the assessment.
LEMMA MirrorFacts ==
  ASSUME RowsOK, StoreOK, NEW e \in Entities, Mirrored(e)
  PROVE  /\ {Plain(b) : b \in ChunksOfEntity(e)} =
              {Plain(b) : b \in Records(OrgOf[e], Text(e, row))}
         /\ Gone(e) => ChunksOfEntity(e) = {}
<1> DEFINE T == [entity |-> e, assessed |-> FALSE, of |-> Text(e, row).of]
           P(n) == Chunk(OrgOf[e], T, n)
<1>1. Text(e, row) \in Texts /\ Text(e, row).entity = e /\ Size(e) \in Nat
  BY TextFacts, SizeFacts DEF RowsOK, Rows
<1>2. ASSUME NEW t \in Texts, t.entity = e, t.of = Text(e, row).of, NEW n
      PROVE  Plain(Chunk(OrgOf[e], t, n)) = P(n)
  <2>1. [t EXCEPT !.assessed = FALSE] = [entity |-> t.entity, assessed |-> FALSE, of |-> t.of]
    <3>1. PICK v : v = FALSE
      OBVIOUS
    <3>2. [t EXCEPT !.assessed = v] = [entity |-> t.entity, assessed |-> v, of |-> t.of]
      BY PlainText DEF Texts
    <3> QED
      BY <3>1, <3>2, Zenon
  <2>2. PICK u : u = [t EXCEPT !.assessed = FALSE]
    OBVIOUS
  <2>3. PICK d : d = [org |-> OrgOf[e], n |-> n, text |-> t]
    OBVIOUS
  <2>4. [d EXCEPT !.text.assessed = FALSE] = [d EXCEPT !.text = [d.text EXCEPT !.assessed = FALSE]]
    BY Zenon
  <2>5. [d EXCEPT !.text = u] = [org |-> OrgOf[e], n |-> n, text |-> u]
    BY <2>3
  <2>6. Plain(d) = [org |-> OrgOf[e], n |-> n, text |-> u]
    BY <2>2, <2>3, <2>4, <2>5 DEF Plain
  <2> QED
    BY <1>2, <2>1, <2>2, <2>3, <2>6 DEF Chunk
<1>3. ASSUME NEW b \in ChunksOfEntity(e)
      PROVE  Plain(b) = P(b.n) /\ b.n \in 1..Size(e)
  <2>1. b = Chunk(OrgOf[e], b.text, b.n) /\ b.text \in Texts /\ b.text.entity = e
    BY DEF ChunksOfEntity, StoreOK
  <2>2. b.text.of = Text(e, row).of /\ b.n \in 1..Size(e)
    BY DEF Mirrored, AllGood, Good, Current
  <2> QED
    BY <1>2, <2>1, <2>2
<1>4. {Plain(b) : b \in ChunksOfEntity(e)} = {P(n) : n \in 1..Size(e)}
  <2>1. \A n \in 1..Size(e) : \E b \in ChunksOfEntity(e) : b.n = n
    BY DEF Mirrored, Stored
  <2> QED
    BY <1>3, <2>1
<1>5. {Plain(b) : b \in Records(OrgOf[e], Text(e, row))} = {P(n) : n \in 1..Size(e)}
  BY <1>1, <1>2 DEF Records, Size
<1>6. Gone(e) => ChunksOfEntity(e) = {}
  BY <1>3, SizeFacts
<1> QED
  BY <1>4, <1>5, <1>6

-----------------------------------------------------------------------------
(* Queues of parts.                                                        *)

\* u is r with s behind it.
Behind(r, s, u) ==
  /\ \A n \in DOMAIN r : n \in DOMAIN u /\ u[n] = r[n]
  /\ \A k \in DOMAIN s : Len(r) + k \in DOMAIN u /\ u[Len(r) + k] = s[k]
  /\ \A n \in DOMAIN u : n \in DOMAIN r \/ \E k \in DOMAIN s : n = Len(r) + k

(* Where the elements of a concatenation come from.                        *)
LEMMA Joined ==
  ASSUME NEW S, NEW r \in Seq(S), NEW s \in Seq(S)
  PROVE  r \o s \in Seq(S) /\ Behind(r, s, r \o s)
<1> DEFINE u == r \o s
<1>1. Len(r) \in Nat /\ Len(s) \in Nat /\ Len(u) = Len(r) + Len(s) /\ u \in Seq(S)
  OBVIOUS
<1>2. DOMAIN r = 1..Len(r) /\ DOMAIN s = 1..Len(s) /\ DOMAIN u = 1..(Len(r) + Len(s))
  BY <1>1
<1>3. ASSUME NEW k \in DOMAIN s
      PROVE  Len(r) + k \in DOMAIN u /\ u[Len(r) + k] = s[k]
  BY <1>1, <1>2
<1>4. ASSUME NEW n \in DOMAIN u, n \notin DOMAIN r
      PROVE  \E k \in DOMAIN s : n = Len(r) + k
  <2>1. n - Len(r) \in DOMAIN s /\ n = Len(r) + (n - Len(r))
    BY <1>1, <1>2, <1>4
  <2> QED
    BY <2>1
<1>5. ASSUME NEW n \in DOMAIN r
      PROVE  n \in DOMAIN u /\ u[n] = r[n]
  BY <1>1, <1>2
<1> HIDE DEF u
<1>6. Behind(r, s, u)
  BY <1>3, <1>4, <1>5 DEF Behind
<1> QED
  BY <1>1, <1>6 DEF u

(* Two parts, one after the other, are a call of two parts.                *)
LEMMA TwoParts ==
  ASSUME NEW u, NEW p
  PROVE  <<u>> \o <<p>> = <<u, p>>
<1>1. PICK S : S = {u, p}
  OBVIOUS
<1>2. <<u>> \in Seq(S) /\ <<p>> \in Seq(S) /\ <<u, p>> \in Seq(S)
  BY <1>1
<1>3. PICK s : s = <<u>> \o <<p>>
  OBVIOUS
<1>4. s \in Seq(S) /\ Len(s) = 2 /\ s[1] = u /\ s[2] = p
  BY <1>2, <1>3
<1>5. \A i \in 1..Len(s) : s[i] = <<u, p>>[i]
  BY <1>4
<1>6. s = <<u, p>>
  BY <1>2, <1>4, <1>5, SeqEqual
<1> QED
  BY <1>3, <1>6

\* s is q with r in the place of its head.
Replaces(q, r, s) ==
  /\ 1 \in DOMAIN q /\ Head(q) = q[1]
  /\ \A n \in DOMAIN r : n \in DOMAIN s /\ s[n] = r[n]
  /\ \A k \in DOMAIN q : k # 1 => \E n \in DOMAIN s : s[n] = q[k]
  /\ \A n \in DOMAIN s : n \in DOMAIN r \/ \E k \in DOMAIN q : k # 1 /\ s[n] = q[k]
  /\ \A m, n \in DOMAIN s : m # n /\ m \notin DOMAIN r /\ n \notin DOMAIN r =>
       \E j, k \in DOMAIN q : j # k /\ s[m] = q[j] /\ s[n] = q[k]

(* A queue whose head was replaced by other parts.                         *)
LEMMA Replaced ==
  ASSUME NEW S, NEW q \in Seq(S), q # <<>>, NEW r \in Seq(S), NEW s, s = r \o Tail(q)
  PROVE  s \in Seq(S) /\ Replaces(q, r, s)
<1> DEFINE t == Tail(q)
<1>1. /\ t \in Seq(S) /\ Len(q) \in Nat \ {0} /\ Len(t) = Len(q) - 1
      /\ DOMAIN q = 1..Len(q) /\ DOMAIN t = 1..(Len(q) - 1)
      /\ Head(q) = q[1] /\ q[1] \in S
      /\ \A k \in DOMAIN t : t[k] = q[k + 1]
  OBVIOUS
<1>2. s = r \o t
  OBVIOUS
<1> HIDE DEF t
<1>3. s \in Seq(S) /\ Behind(r, t, s)
  BY <1>1, <1>2, Joined
<1>4. Len(r) \in Nat /\ DOMAIN r = 1..Len(r)
  OBVIOUS
<1>5. ASSUME NEW k \in DOMAIN q, k # 1
      PROVE  \E n \in DOMAIN s : s[n] = q[k]
  <2>1. k - 1 \in DOMAIN t /\ k = (k - 1) + 1
    BY <1>1, <1>5
  <2>2. PICK i \in DOMAIN t : k = i + 1
    BY <2>1
  <2>3. Len(r) + i \in DOMAIN s /\ s[Len(r) + i] = t[i]
    BY <1>3 DEF Behind
  <2>4. t[i] = q[k]
    BY <1>1, <2>2
  <2> QED
    BY <2>3, <2>4
<1>6. ASSUME NEW n \in DOMAIN s, n \notin DOMAIN r
      PROVE  \E k \in DOMAIN q : k # 1 /\ n = Len(r) + k - 1 /\ s[n] = q[k]
  <2>1. PICK i \in DOMAIN t : n = Len(r) + i /\ s[n] = t[i]
    BY <1>3, <1>6 DEF Behind
  <2>2. t[i] = q[i + 1] /\ i + 1 \in DOMAIN q /\ i + 1 # 1 /\ n = Len(r) + (i + 1) - 1
    BY <1>1, <1>4, <2>1
  <2> QED
    BY <2>1, <2>2
<1>7. ASSUME NEW m \in DOMAIN s, NEW n \in DOMAIN s, m # n, m \notin DOMAIN r, n \notin DOMAIN r
      PROVE  \E j, k \in DOMAIN q : j # k /\ s[m] = q[j] /\ s[n] = q[k]
  <2>1. PICK j \in DOMAIN q : m = Len(r) + j - 1 /\ s[m] = q[j]
    BY <1>6, <1>7
  <2>2. PICK k \in DOMAIN q : n = Len(r) + k - 1 /\ s[n] = q[k]
    BY <1>6, <1>7
  <2>3. j # k
    BY <1>7, <2>1, <2>2
  <2> QED
    BY <2>1, <2>2, <2>3
<1>8. \A n \in DOMAIN s : n \in DOMAIN r \/ \E k \in DOMAIN q : k # 1 /\ s[n] = q[k]
  BY <1>6
<1>9. 1 \in DOMAIN q /\ Head(q) = q[1]
  BY <1>1
<1>10. \A n \in DOMAIN r : n \in DOMAIN s /\ s[n] = r[n]
  BY <1>3 DEF Behind
<1>11. \A k \in DOMAIN q : k # 1 => \E n \in DOMAIN s : s[n] = q[k]
  BY <1>5
<1>12. \A m, n \in DOMAIN s : m # n /\ m \notin DOMAIN r /\ n \notin DOMAIN r =>
         \E j, k \in DOMAIN q : j # k /\ s[m] = q[j] /\ s[n] = q[k]
  BY <1>7
<1>13. Replaces(q, r, s)
  BY <1>8, <1>9, <1>10, <1>11, <1>12, Zenon DEF Replaces
<1> QED
  BY <1>3, <1>13

\* The parts r that come of part p are about less than p; a purge leaves none.
Follows(r, p) ==
  /\ r \in Seq(Parts)
  /\ \A n \in DOMAIN r : /\ PartOK(r[n]) /\ Rebuilds(r[n]) /\ Scope(r[n]) \subseteq Scope(p)
                         /\ r[n].op = "upsert" => n = 1
  /\ \A m, n \in DOMAIN r : m # n => Scope(r[m]) \cap Scope(r[n]) = {}
  /\ ~Rebuilds(p) => r = <<>>

\* The queue s goes on from q with r.
Continues(q, r, s) ==
  /\ QueueOK(s) /\ Scopes(s) \subseteq Scopes(q)
  /\ \A e \in Scopes(q) : e \notin Scope(Head(q)) => e \in Scopes(s)
  /\ \A e \in Scopes(r) : e \in Scopes(s)
  /\ \A n \in DOMAIN r : s[n] = r[n]
  /\ \A n \in DOMAIN s : n \in DOMAIN r \/ \E k \in DOMAIN q : k # 1 /\ s[n] = q[k]
  /\ \A k \in DOMAIN q : k # 1 => \E n \in DOMAIN s : s[n] = q[k]

(* A queue stays in order when parts that may follow its head replace it.  *)
LEMMA QueueFollows ==
  ASSUME NEW q, QueueOK(q), q # <<>>, NEW r, Follows(r, Head(q)), NEW s, s = r \o Tail(q)
  PROVE  Continues(q, r, s)
<1>1. q \in Seq(Parts) /\ r \in Seq(Parts)
  BY DEF QueueOK, Follows
<1>0. s \in Seq(Parts) /\ Replaces(q, r, s)
  BY <1>1, Replaced
<1>2. /\ 1 \in DOMAIN q /\ Head(q) = q[1]
      /\ \A n \in DOMAIN r : n \in DOMAIN s /\ s[n] = r[n]
      /\ \A k \in DOMAIN q : k # 1 => \E n \in DOMAIN s : s[n] = q[k]
      /\ \A n \in DOMAIN s : n \in DOMAIN r \/ \E k \in DOMAIN q : k # 1 /\ s[n] = q[k]
  BY <1>0 DEF Replaces
<1>3. \A n \in DOMAIN s : PartOK(s[n])
  BY <1>2 DEF QueueOK, Follows
<1>4. \A n \in DOMAIN s : s[n].op \in {"purge", "upsert"} => n = 1
  BY <1>2 DEF QueueOK, Follows, Rebuilds
<1>5. ASSUME NEW m \in DOMAIN s, NEW n \in DOMAIN s, m # n, Rebuilds(s[m]), Rebuilds(s[n])
      PROVE  Scope(s[m]) \cap Scope(s[n]) = {}
  <2>1. CASE m \in DOMAIN r /\ n \in DOMAIN r
    BY <1>2, <1>5, <2>1 DEF Follows
  <2>2. CASE m \notin DOMAIN r /\ n \notin DOMAIN r
    <3>1. PICK j, k \in DOMAIN q : j # k /\ s[m] = q[j] /\ s[n] = q[k]
      BY <1>0, <1>5, <2>2 DEF Replaces
    <3> QED
      BY <1>5, <3>1 DEF QueueOK
  <2>3. ASSUME NEW i \in DOMAIN r, NEW k \in DOMAIN q, k # 1, Rebuilds(q[k])
        PROVE  Scope(r[i]) \cap Scope(q[k]) = {}
    <3>1. Rebuilds(q[1])
      BY <1>2 DEF Follows
    <3>2. Scope(q[1]) \cap Scope(q[k]) = {}
      BY <1>2, <2>3, <3>1 DEF QueueOK
    <3> QED
      BY <1>2, <3>2 DEF Follows
  <2>4. CASE m \in DOMAIN r /\ n \notin DOMAIN r
    BY <1>2, <1>5, <2>3, <2>4
  <2>5. CASE m \notin DOMAIN r /\ n \in DOMAIN r
    BY <1>2, <1>5, <2>3, <2>5
  <2> QED
    BY <2>1, <2>2, <2>4, <2>5
<1>6. QueueOK(s)
  BY <1>0, <1>3, <1>4, <1>5 DEF QueueOK
<1>7. ASSUME NEW e \in Scopes(s)
      PROVE  e \in Scopes(q)
  <2>1. PICK n \in DOMAIN s : e \in Scope(s[n])
    BY DEF Scopes
  <2>2. \E k \in DOMAIN q : e \in Scope(q[k])
    BY <1>2, <2>1 DEF Follows
  <2> QED
    BY <2>2 DEF Scopes
<1>8. ASSUME NEW e \in Scopes(q), e \notin Scope(Head(q))
      PROVE  e \in Scopes(s)
  <2>1. PICK k \in DOMAIN q : e \in Scope(q[k]) /\ k # 1
    BY <1>2, <1>8 DEF Scopes
  <2>2. \E n \in DOMAIN s : e \in Scope(s[n])
    BY <1>2, <2>1
  <2> QED
    BY <2>2 DEF Scopes
<1>9. \A e \in Scopes(r) : e \in Scopes(s)
  BY <1>2 DEF Scopes
<1> QED
  BY <1>2, <1>6, <1>7, <1>8, <1>9 DEF Continues

\* A part is about rows.
LEMMA ScopeFacts ==
  ASSUME NEW p \in Parts
  PROVE  Scope(p) \subseteq Entities
<1>1. CASE p.op \in {"clear", "upsert"}
  <2>1. p.texts \in Seq(Texts)
    BY <1>1 DEF Parts, Types
  <2>2. \A t \in Texts : t.entity \in Entities
    BY DEF Texts
  <2>3. \A n \in DOMAIN p.texts : p.texts[n] \in Texts
    BY <2>1
  <2> QED
    BY <1>1, <2>2, <2>3 DEF Scope
<1>2. CASE p.op = "purge"
  BY <1>2 DEF Parts, Types, Scope
<1>3. CASE p.op \notin {"clear", "upsert", "purge"}
  BY <1>3 DEF Scope, Of
<1> QED
  BY <1>1, <1>2, <1>3

(* A call is about rows.                                                   *)
LEMMA ScopesFacts ==
  ASSUME NEW q, QueueOK(q)
  PROVE  Scopes(q) \subseteq Entities
<1>1. \A n \in DOMAIN q : q[n] \in Parts
  BY DEF QueueOK
<1> QED
  BY <1>1, ScopeFacts DEF Scopes

\* The purge of a queue is its head, and so is an upsert.
LEMMA HeadFacts ==
  ASSUME IndexInv, NEW c \in Callers, call[c] # <<>>
  PROVE  /\ QueueOK(call[c]) /\ 1 \in DOMAIN call[c] /\ Part(c) = call[c][1]
         /\ Part(c) \in Parts /\ PartOK(Part(c))
         /\ Scope(Part(c)) \subseteq Scopes(call[c])
         /\ \A n \in DOMAIN call[c] : call[c][n].op \in {"purge", "upsert"} => n = 1
<1>1. QueueOK(call[c]) /\ call[c] \in Seq(Parts)
  BY DEF IndexInv, CallsOK, QueueOK
<1>2. 1 \in DOMAIN call[c] /\ Head(call[c]) = call[c][1] /\ call[c][1] \in Parts
  BY <1>1
<1> QED
  BY <1>1, <1>2 DEF QueueOK, Part, Scopes

-----------------------------------------------------------------------------
(* What a step leaves as it was.                                           *)

\* The row of an entity says what it said, and the index still does.
SameRow(e) == (Gone(e)' <=> Gone(e)) /\ Text(e, row').of = Text(e, row).of
SameChunks(e) == ChunksOfEntity(e)' = ChunksOfEntity(e)

(* What is due to an entity depends on its row and its chunks alone.       *)
LEMMA SameFacts ==
  ASSUME RowsOK, RowsOK', NEW e \in Entities, SameRow(e)
  PROVE  /\ Size(e)' = Size(e)
         /\ \A t : Current(t, e)' <=> Current(t, e)
         /\ \A p, q : p.op # "upsert" => (PartDue(p, q, e)' <=> PartDue(p, q, e))
         /\ SameChunks(e) => /\ Mirrored(e)' <=> Mirrored(e)
                             /\ \A p, q : PartDue(p, q, e)' <=> PartDue(p, q, e)
<1>1. /\ Text(e, row) \in Texts /\ Text(e, row').entity = e
      /\ Text(e, row') \in Texts /\ Text(e, row).entity = e
  BY TextFacts DEF RowsOK, Rows
<1>2. Size(e)' = Size(e)
  BY <1>1, CountFacts DEF Size, SameRow
<1>3. \A t : Current(t, e)' <=> Current(t, e)
  BY DEF Current, SameRow
<1>4. \A p, q : p.op # "upsert" => (PartDue(p, q, e)' <=> PartDue(p, q, e))
  BY <1>3 DEF PartDue, SameRow
<1>5. ASSUME SameChunks(e)
      PROVE  /\ Mirrored(e)' <=> Mirrored(e)
             /\ \A p, q : PartDue(p, q, e)' <=> PartDue(p, q, e)
  <2>1. AllGood(e)' <=> AllGood(e)
    BY <1>2, <1>3, <1>5 DEF AllGood, Good, SameChunks
  <2>2. \A n : Stored(e, n)' <=> Stored(e, n)
    BY <1>5 DEF Stored, SameChunks
  <2>3. Mirrored(e)' <=> Mirrored(e)
    BY <1>2, <2>1, <2>2 DEF Mirrored
  <2>4. \A p, q : PartDue(p, q, e)' <=> PartDue(p, q, e)
    BY <1>2, <1>3, <2>1, <2>2 DEF PartDue, SameRow
  <2> QED
    BY <2>3, <2>4
<1> QED
  BY <1>2, <1>3, <1>4, <1>5

QueuesOK == CallsOK /\ Alone /\ CallsDue /\ RestOK

(* A step of the service replaces the head of a queue by what follows from  *)
(* it. It keeps the promises if it keeps them for the entities of that part *)
(* which it does not disturb, and leaves the chunks of all others alone.    *)
LEMMA ServiceKeeps ==
  ASSUME IndexInv, RowsOK', NEW c \in Callers, call[c] # <<>>,
         NEW r, Follows(r, Part(c)), Goes(c, r \o Tail(call[c])),
         row' = row, disturbed \subseteq disturbed', orphans' \subseteq orphans,
         \A e \in Entities \ (disturbed' \cup Scope(Part(c))) :
            SameChunks(e) /\ (e \in orphans => e \in orphans'),
         \A e \in Scope(Part(c)) \ disturbed' :
            /\ \A n \in DOMAIN r : e \in Scope(r[n]) => PartDue(r[n], r, e)'
            /\ Gone(e) \/ e \notin Scopes(r \o Tail(call[c])) => Mirrored(e)' \/ e \in orphans'
  PROVE  QueuesOK'
<1>0. PICK q, s : q = call[c] /\ s = r \o Tail(q)
  OBVIOUS
<1>1. /\ QueueOK(q) /\ q # <<>> /\ 1 \in DOMAIN q /\ Part(c) = q[1] /\ Part(c) = Head(q)
      /\ PartOK(Part(c)) /\ Scope(Part(c)) \subseteq Scopes(q)
      /\ \A n \in DOMAIN q : q[n].op \in {"purge", "upsert"} => n = 1
  BY <1>0, HeadFacts DEF Part
<1>2. /\ QueueOK(s) /\ Scopes(s) \subseteq Scopes(q)
      /\ \A e \in Scopes(q) : e \notin Scope(Part(c)) => e \in Scopes(s)
      /\ \A e \in Scopes(r) : e \in Scopes(s)
      /\ \A n \in DOMAIN s : n \in DOMAIN r \/ \E k \in DOMAIN q : k # 1 /\ s[n] = q[k]
      /\ \A n \in DOMAIN r : s[n] = r[n]
      /\ \A k \in DOMAIN q : k # 1 => \E n \in DOMAIN s : s[n] = q[k]
  <2>1. Follows(r, Head(q)) /\ s = r \o Tail(q)
    BY <1>0, <1>1
  <2>2. Continues(q, r, s)
    BY <1>1, <2>1, QueueFollows
  <2> QED
    BY <1>1, <2>2 DEF Continues
<1>3. DOMAIN call = Callers /\ call' = [call EXCEPT ![c] = s]
  BY <1>0 DEF IndexInv, CallsOK, Goes
<1>4. call'[c] = s /\ \A d \in Callers : d # c => call'[d] = call[d]
  BY <1>3
<1>6. CallsOK'
  <2>1. \A d \in Callers : QueueOK(call'[d])
    BY <1>2, <1>4 DEF CallsOK, IndexInv
  <2> QED
    BY <1>3, <2>1 DEF CallsOK
<1>7. \A d \in Callers : Scopes(call'[d]) \subseteq Scopes(call[d])
  BY <1>0, <1>2, <1>4
<1>8. Alone'
  BY <1>7 DEF Alone, IndexInv
<1>9. \A e \in Entities : SameRow(e)
  BY DEF SameRow, Gone, Exists
<1>10. ASSUME NEW d \in Callers, NEW n \in DOMAIN call'[d],
              NEW e \in Scope(call'[d][n]) \ disturbed'
       PROVE  PartDue(call[d][n], call[d], e)'
  <2>1. PICK u, p : u = call'[d] /\ p = call'[d][n]
    OBVIOUS
  <2>2. e \in Scopes(u) /\ e \in Scopes(call[d]) /\ e \notin disturbed
    BY <1>7, <2>1 DEF Scopes
  <2>3. e \in Entities
    BY <1>6, <2>1, <2>2, ScopesFacts DEF CallsOK
  <2>4. PartDue(p, u, e)'
    <3>1. CASE d # c
      <4>1. e \notin Scope(Part(c))
        BY <1>0, <1>1, <2>2, <2>3, <3>1 DEF Alone, IndexInv
      <4>2. SameChunks(e) /\ SameRow(e)
        BY <1>9, <2>3, <4>1
      <4>3. PartDue(p, u, e)
        BY <1>4, <2>1, <2>2, <3>1 DEF CallsDue, IndexInv
      <4> QED
        BY <2>3, <4>2, <4>3, SameFacts DEF IndexInv
    <3>2. CASE d = c /\ n \in DOMAIN r
      <4>1. p = r[n] /\ e \in Scope(Part(c)) /\ p.op # "purge"
        BY <1>2, <1>4, <2>1, <3>2 DEF Follows, Rebuilds
      <4>2. PartDue(p, r, e)'
        BY <2>1, <3>2, <4>1
      <4> QED
        BY <4>1, <4>2 DEF PartDue
    <3>3. CASE d = c /\ n \notin DOMAIN r
      <4>1. PICK k \in DOMAIN q : k # 1 /\ p = q[k]
        BY <1>2, <1>4, <2>1, <3>3
      <4>2. p.op \notin {"purge", "upsert"}
        BY <1>1, <4>1
      <4>3. PartDue(p, q, e)
        BY <1>0, <2>2, <2>1, <4>1 DEF CallsDue, IndexInv
      <4>4. PartDue(p, q, e)'
        BY <1>9, <2>3, <4>2, <4>3, SameFacts DEF IndexInv
      <4> QED
        BY <4>2, <4>4 DEF PartDue
    <3> QED
      BY <3>1, <3>2, <3>3
  <2> QED
    BY <2>1, <2>4
<1>11. ASSUME NEW e \in Entities \ (disturbed' \cup orphans'),
              \/ \A d \in Callers : e \notin Scopes(call'[d])
              \/ Gone(e) /\ ~Purged(e)'
       PROVE  Mirrored(e)'
  <2>1. CASE e \in Scope(Part(c))
    BY <1>0, <1>4, <1>11, <2>1
  <2>2. CASE e \notin Scope(Part(c))
    <3>1. SameChunks(e) /\ SameRow(e) /\ e \notin disturbed /\ e \notin orphans
      BY <1>9, <2>2
    <3>2. (\A d \in Callers : e \notin Scopes(call'[d])) => \A d \in Callers : e \notin Scopes(call[d])
      BY <1>0, <1>2, <1>4, <2>2
    <3>3. Purged(e) => Purged(e)'
      <4>1. SUFFICES ASSUME NEW d \in Callers, NEW n \in DOMAIN call[d],
                            call[d][n].op = "purge", e \in call[d][n].of
                     PROVE  Purged(e)'
        BY DEF Purged
      <4>2. CASE d # c
        BY <1>4, <4>1, <4>2 DEF Purged
      <4>3. CASE d = c
        <5>1. call[d][n] = Part(c)
          BY <1>0, <1>1, <4>1, <4>3
        <5>2. e \in Scope(Part(c))
          BY <4>1, <5>1 DEF Scope
        <5> QED
          BY <2>2, <5>2
      <4> QED
        BY <4>2, <4>3
    <3>4. Mirrored(e)
      BY <1>11, <3>1, <3>2, <3>3 DEF RestOK, IndexInv
    <3> QED
      BY <3>1, <3>4, SameFacts DEF IndexInv
  <2> QED
    BY <2>1, <2>2
<1>12. CallsDue'
  BY <1>10 DEF CallsDue
<1>13. \A e \in Entities : Gone(e)' <=> Gone(e)
  BY <1>9 DEF SameRow
<1>14. RestOK'
  BY <1>11, <1>13 DEF RestOK
<1> QED
  BY <1>6, <1>8, <1>12, <1>14 DEF QueuesOK

-----------------------------------------------------------------------------
(* Writers.                                                                *)

\* Rows that are not written, and of which no issue is, say what they said.
LEMMA WriteSame ==
  ASSUME RowsOK, RowsOK', NEW E \in SUBSET Entities,
         \A x \in Entities \ E : row'[x].ver = row[x].ver,
         NEW e \in Entities \ Reach(E)
  PROVE  SameRow(e)
<1>1. e \notin E /\ (Gone(e)' <=> Gone(e))
  BY DEF Reach, Gone, Exists
<1>2. Sources(e) \subseteq Entities
  BY DEF Sources, Of
<1>3. \A x \in Sources(e) : x \notin E
  <2>1. CASE TypeOf[e] = "aggregate"
    <3>1. SUFFICES ASSUME NEW x \in E, TypeOf[x] = "issue", OrgOf[x] = OrgOf[e]
                   PROVE  FALSE
      BY <2>1 DEF Sources, Of
    <3>2. OrgOf[e] \in Orgs
      BY IndexAssumption
    <3>3. e \in Of(OrgOf[e], "aggregate")
      BY <2>1 DEF Of
    <3>4. e = Aggregate(OrgOf[x])
      BY <3>1, <3>2, <3>3, AggregateFacts
    <3> QED
      BY <3>1, <3>4 DEF Reach
  <2>2. CASE TypeOf[e] # "aggregate"
    BY <1>1, <2>2 DEF Sources
  <2> QED
    BY <2>1, <2>2
<1>4. \A x \in Sources(e) : row'[x].ver = row[x].ver
  BY <1>2, <1>3
<1>5. /\ Text(e, row).of = {<<i, row[i].ver>> : i \in {x \in Sources(e) : row[x].ver > 0}}
      /\ Text(e, row').of = {<<i, row'[i].ver>> : i \in {x \in Sources(e) : row'[x].ver > 0}}
  BY TextFacts DEF RowsOK, Rows
<1>6. Text(e, row').of = Text(e, row).of
  BY <1>4, <1>5
<1> QED
  BY <1>1, <1>6 DEF SameRow

\* The parts of a call that begins: what they rebuild they say as it is now,
\* and of the rows that are gone they purge the chunks.
Timely(parts) ==
  /\ QueueOK(parts)
  /\ \A n \in DOMAIN parts : parts[n].op # "upsert"
  /\ \A n \in DOMAIN parts : \A e \in Scope(parts[n]) : PartDue(parts[n], parts, e)
  /\ \A e \in Scopes(parts) : Gone(e) => \E n \in DOMAIN parts :
        parts[n].op = "purge" /\ e \in parts[n].of

(* A writer tells the index of everything it wrote: it takes into its hands *)
(* the rows, and the aggregates of the issues among them. If another caller *)
(* is at one of those, it is disturbed.                                     *)
LEMMA BeginKeeps ==
  ASSUME IndexInv, RowsOK', NEW c \in Callers, NEW E \in SUBSET Entities, NEW parts,
         Begin(c, E, parts), Timely(parts)', Reach(E) \subseteq Scopes(parts),
         \A x \in Entities \ E : row'[x].ver = row[x].ver,
         UNCHANGED <<store, orphans>>
  PROVE  QueuesOK'
<1>1. /\ call[c] = <<>> /\ DOMAIN call = Callers
      /\ call' = [call EXCEPT ![c] = parts]
      /\ disturbed' = (disturbed \ Scopes(parts)) \cup (Busy(c) \cap Reach(E \cup Scopes(parts)))
  BY DEF Begin, IndexInv, CallsOK
<1>2. call'[c] = parts /\ \A d \in Callers : d # c => call'[d] = call[d]
  BY <1>1
<1>3. Scopes(call[c]) = {}
  BY <1>1 DEF Scopes
<1>4. QueueOK(parts) /\ Scopes(parts) \subseteq Entities
  BY ScopesFacts DEF Timely
<1>5. CallsOK'
  <2>1. \A d \in Callers : QueueOK(call'[d])
    BY <1>2, <1>4 DEF CallsOK, IndexInv
  <2> QED
    BY <1>1, <2>1 DEF CallsOK
<1>6. \A e \in Entities : SameChunks(e)
  BY DEF SameChunks, ChunksOfEntity
<1>7. \A e \in Entities \ Reach(E) : SameRow(e)
  BY WriteSame DEF IndexInv
\* Who is not disturbed afterwards is in the hands of this caller only, or of
\* others and as it was.
<1>8. ASSUME NEW e \in Entities \ disturbed', e \in Scopes(parts)
      PROVE  \A d \in Callers : d # c => e \notin Scopes(call[d])
  <2>1. e \in Reach(E \cup Scopes(parts)) /\ e \notin Busy(c)
    BY <1>1, <1>8 DEF Reach
  <2> QED
    BY <2>1 DEF Busy
<1>9. ASSUME NEW e \in Entities \ disturbed', e \notin Scopes(parts)
      PROVE  e \notin disturbed /\ SameRow(e) /\ SameChunks(e)
  BY <1>1, <1>6, <1>7, <1>9
<1>10. Alone'
  <2>1. SUFFICES ASSUME NEW e \in Entities \ disturbed', NEW d \in Callers, NEW f \in Callers,
                        e \in Scopes(call'[d]), e \in Scopes(call'[f])
                 PROVE  d = f
    BY DEF Alone
  <2>2. CASE e \in Scopes(parts)
    BY <1>2, <1>8, <2>1, <2>2
  <2>3. CASE e \notin Scopes(parts)
    <3>1. e \notin disturbed /\ e \in Scopes(call[d]) /\ e \in Scopes(call[f])
      BY <1>2, <1>9, <2>1, <2>3
    <3> QED
      BY <3>1 DEF Alone, IndexInv
  <2> QED
    BY <2>2, <2>3
<1>11. ASSUME NEW d \in Callers, NEW n \in DOMAIN call'[d],
              NEW e \in Scope(call'[d][n]) \ disturbed'
       PROVE  PartDue(call[d][n], call[d], e)'
  <2>1. PICK u, p : u = call'[d] /\ p = call'[d][n]
    OBVIOUS
  <2>2. e \in Scopes(u) /\ e \in Entities
    BY <1>5, <2>1, ScopesFacts DEF Scopes, CallsOK
  <2>3. PartDue(p, u, e)'
    <3>1. CASE d = c
      BY <1>2, <2>1, <3>1 DEF Timely
    <3>2. CASE d # c
      <4>1. u = call[d] /\ e \notin Scopes(parts)
        BY <1>2, <1>8, <2>1, <2>2, <3>2
      <4>2. e \notin disturbed /\ SameRow(e) /\ SameChunks(e)
        BY <1>9, <2>2, <4>1
      <4>3. PartDue(p, u, e)
        BY <2>1, <4>1, <4>2 DEF CallsDue, IndexInv
      <4> QED
        BY <2>2, <4>2, <4>3, SameFacts DEF IndexInv
    <3> QED
      BY <3>1, <3>2
  <2> QED
    BY <2>1, <2>3
<1>12. ASSUME NEW e \in Entities \ (disturbed' \cup orphans'),
              \/ \A d \in Callers : e \notin Scopes(call'[d])
              \/ Gone(e)' /\ ~Purged(e)'
       PROVE  Mirrored(e)'
  <2>1. e \notin Scopes(parts)
    <3>1. ASSUME e \in Scopes(parts), Gone(e)'
          PROVE  Purged(e)'
      <4>1. PICK n \in DOMAIN parts : parts[n].op = "purge" /\ e \in parts[n].of
        BY <3>1 DEF Timely
      <4> QED
        BY <1>2, <4>1 DEF Purged
    <3> QED
      BY <1>2, <1>12, <3>1
  <2>2. e \notin disturbed /\ e \notin orphans /\ SameRow(e) /\ SameChunks(e)
    BY <1>9, <1>12, <2>1
  <2>3. (\A d \in Callers : e \notin Scopes(call'[d])) => \A d \in Callers : e \notin Scopes(call[d])
    BY <1>2, <1>3
  <2>4. Purged(e) => Purged(e)'
    <3>1. SUFFICES ASSUME NEW d \in Callers, NEW n \in DOMAIN call[d],
                          call[d][n].op = "purge", e \in call[d][n].of
                   PROVE  Purged(e)'
      BY DEF Purged
    <3>2. d # c
      BY <1>1, <3>1
    <3> QED
      BY <1>2, <3>1, <3>2 DEF Purged
  <2>5. Mirrored(e)
    BY <1>12, <2>2, <2>3, <2>4 DEF RestOK, IndexInv, SameRow
  <2> QED
    BY <2>2, <2>5, SameFacts DEF IndexInv
<1>13. CallsDue'
  BY <1>11 DEF CallsDue
<1>14. RestOK'
  BY <1>12 DEF RestOK
<1> QED
  BY <1>5, <1>10, <1>13, <1>14 DEF QueuesOK

-----------------------------------------------------------------------------
(* The service.                                                            *)

Keys == \A a, b \in store : a.text.entity = b.text.entity /\ a.n = b.n => a = b

\* The invariant of the new state, from its parts.
LEMMA InvFrom ==
  ASSUME IndexInv, RowsOK', StoreOK', Keys', QueuesOK',
         disturbed' \subseteq Entities, orphans' \subseteq Entities
  PROVE  IndexInv'
<1>1. \A e \in Entities : row'[e].ver \in {0} \cup Versions
  BY DEF RowsOK
<1>2. \A b \in store' : b.org \in Orgs /\ b.n \in Nat \ {0} /\ b.text.entity \in Entities
  <2>1. SUFFICES ASSUME NEW b \in store'
                 PROVE  b.org \in Orgs /\ b.n \in Nat \ {0} /\ b.text.entity \in Entities
    OBVIOUS
  <2>2. b = Chunk(OrgOf[b.text.entity], b.text, b.n) /\ b.text \in Texts /\ b.n \in Nat \ {0}
    BY DEF StoreOK
  <2>3. b.text.entity \in Entities
    BY <2>2 DEF Texts
  <2>4. b.org = OrgOf[b.text.entity]
    BY <2>2 DEF Chunk
  <2> QED
    BY <2>2, <2>3, <2>4, IndexAssumption
<1>3. TypeOK'
  BY <1>1, <1>2 DEF TypeOK, Keys
<1> QED
  BY <1>3 DEF IndexInv, QueuesOK

\* Chunks of other entities survive a delete.
LEMMA WithoutFacts ==
  ASSUME IndexInv, NEW o, NEW S \in SUBSET Entities, \A e \in S : OrgOf[e] = o,
         store' = Without(o, S)
  PROVE  /\ StoreOK' /\ Keys'
         /\ \A e \in S : ChunksOfEntity(e)' = {}
         /\ \A e \in Entities \ S : SameChunks(e)
<1>1. store' \subseteq store
  BY DEF Without
<1>2. StoreOK' /\ Keys'
  BY <1>1 DEF StoreOK, Keys, IndexInv, TypeOK
<1>3. \A b \in store : b.org = OrgOf[b.text.entity]
  BY DEF IndexInv, StoreOK, Chunk
<1>4. \A e \in S : ChunksOfEntity(e)' = {}
  BY <1>1, <1>3 DEF ChunksOfEntity, Without
<1>5. \A e \in Entities \ S : SameChunks(e)
  BY DEF ChunksOfEntity, Without, SameChunks
<1> QED
  BY <1>2, <1>4, <1>5

\* Without chunks an entity is mirrored if it has no text.
LEMMA EmptyFacts ==
  ASSUME RowsOK, NEW e \in Entities, SameRow(e), RowsOK', ChunksOfEntity(e)' = {}
  PROVE  /\ Size(e) = 0 => Mirrored(e)'
         /\ AllGood(e)'
<1>1. Size(e)' = Size(e) /\ Size(e) \in Nat
  BY SameFacts, SizeFacts
<1>2. AllGood(e)'
  BY DEF AllGood
<1>3. Size(e) = 0 => Mirrored(e)'
  BY <1>1, <1>2 DEF Mirrored
<1> QED
  BY <1>2, <1>3

\* Where no row is written, none says anything new.
LEMMA SameRows == row' = row => \A e : SameRow(e)
BY DEF SameRow, Gone, Exists

(* The chunks of a purged row are gone; a row that is there will be         *)
(* rebuilt, so a purge that fails disturbs it.                              *)
LEMMA PurgeKeeps ==
  ASSUME IndexInv, NEW c \in Callers, Purge(c)
  PROVE  IndexInv'
<1>1. PICK p, r : p = Part(c) /\ r = <<>>
  OBVIOUS
<1>2. /\ call[c] # <<>> /\ p.op = "purge" /\ p \in Parts /\ PartOK(p) /\ 1 \in DOMAIN call[c]
      /\ p = call[c][1] /\ Scope(p) = p.of /\ p.of \subseteq Entities /\ \A e \in p.of : OrgOf[e] = p.org
      /\ QueueOK(call[c])
  <2>1. call[c] # <<>> /\ p.op = "purge"
    BY <1>1 DEF Purge, Busied
  <2>2. /\ p \in Parts /\ PartOK(p) /\ 1 \in DOMAIN call[c]
        /\ p = call[c][1] /\ QueueOK(call[c])
    BY <1>1, <2>1, HeadFacts
  <2>3. Scope(p) = p.of
    BY <2>1 DEF Scope
  <2> QED
    BY <2>1, <2>2, <2>3, ScopeFacts DEF PartOK
<1>3. Follows(r, p) /\ Scopes(r) = {}
  BY <1>1, <1>2 DEF Follows, Rebuilds, Scopes
<1>4. Goes(c, r \o Tail(call[c]))
  <2>1. call[c] \in Seq(Parts)
    BY <1>2 DEF QueueOK
  <2>2. Tail(call[c]) \in Seq(Parts)
    BY <1>2, <2>1
  <2>3. r \o Tail(call[c]) = Tail(call[c])
    BY <1>1, <2>2
  <2> QED
    BY <2>3 DEF Purge
<1>5. row' = row /\ RowsOK' /\ RowsOK /\ \A e : SameRow(e)
  BY SameRows DEF Purge, IndexInv, RowsOK
<1>6. CASE /\ store' = Without(p.org, p.of) /\ orphans' = orphans \ p.of
           /\ UNCHANGED disturbed
  <2>1. /\ StoreOK' /\ Keys' /\ \A e \in p.of : ChunksOfEntity(e)' = {}
        /\ \A e \in Entities \ p.of : SameChunks(e)
    BY <1>2, <1>6, WithoutFacts
  <2>2. ASSUME NEW e \in p.of \ disturbed', Gone(e) \/ e \notin Scopes(r \o Tail(call[c]))
        PROVE  Mirrored(e)'
    <3>1. PartDue(p, call[c], e)
      BY <1>2, <1>6, <2>2 DEF IndexInv, CallsDue
    <3>2. PICK q, s : q = call[c] /\ s = r \o Tail(q)
      OBVIOUS
    <3>3. Continues(q, r, s)
      BY <1>1, <1>2, <1>3, <3>2, QueueFollows DEF Part
    <3>4. Gone(e)
      <4>1. SUFFICES ASSUME NEW k \in DOMAIN q, Rebuilds(q[k]), e \in Scope(q[k])
                     PROVE  e \in Scopes(s)
        BY <1>2, <2>2, <3>1, <3>2 DEF PartDue
      <4>2. k # 1
        BY <1>2, <3>2, <4>1 DEF Rebuilds
      <4>3. \E n \in DOMAIN s : s[n] = q[k]
        BY <3>3, <4>2 DEF Continues
      <4> QED
        BY <4>1, <4>3 DEF Scopes
    <3> QED
      BY <1>2, <1>5, <2>1, <3>4, EmptyFacts, SizeFacts
  <2>3. QueuesOK'
    <3>1. \A e \in Scope(Part(c)) \ disturbed' :
            /\ \A n \in DOMAIN r : e \in Scope(r[n]) => PartDue(r[n], r, e)'
            /\ Gone(e) \/ e \notin Scopes(r \o Tail(call[c])) => Mirrored(e)'
      BY <1>1, <1>2, <2>2
    <3>2. \A e \in Entities \ (disturbed' \cup Scope(Part(c))) :
            SameChunks(e) /\ (e \in orphans => e \in orphans')
      BY <1>1, <1>2, <1>6, <2>1
    <3> QED
      BY <1>1, <1>2, <1>3, <1>4, <1>5, <1>6, <3>1, <3>2, ServiceKeeps
  <2> QED
    BY <1>5, <1>6, <2>1, <2>3, InvFrom DEF IndexInv, TypeOK
<1>7. CASE disturbed' = disturbed \cup p.of /\ UNCHANGED <<store, orphans>>
  <2>1. StoreOK' /\ Keys' /\ \A e : SameChunks(e)
    BY <1>7 DEF StoreOK, Keys, IndexInv, TypeOK, SameChunks, ChunksOfEntity
  <2>2. QueuesOK'
    BY <1>1, <1>2, <1>3, <1>4, <1>5, <1>7, <2>1, ServiceKeeps
  <2> QED
    BY <1>2, <1>5, <1>7, <2>1, <2>2, InvFrom DEF IndexInv, TypeOK
<1> QED
  BY <1>1, <1>6, <1>7 DEF Purge

\* What is upserted of a part is about its entities.
LEMMA UpsertFacts ==
  ASSUME NEW p \in Parts, p.op \in {"clear", "upsert"}, PartOK(p),
         NEW plan \in SUBSET PlanOf(p), NEW r, r = Upserts(p, plan)
  PROVE  /\ Follows(r, p)
         /\ plan = {} => r = <<>>
         /\ plan # {} => /\ r = <<UpsertPart(p, plan)>>
                         /\ Scope(UpsertPart(p, plan)) = Scope(p)
<1>1. p.org \in Orgs /\ p.texts \in Seq(Texts) /\ p.window \in Nat
  BY DEF Parts, Types
<1>2. plan \in SUBSET (Nat \X Nat)
  <2>1. \A m \in DOMAIN p.texts : m \in Nat /\ p.texts[m] \in Texts
    BY <1>1
  <2>2. \A m \in DOMAIN p.texts : \A n \in 1..ChunkCount(p.texts[m]) : n \in Nat
    BY <2>1, CountFacts
  <2> QED
    BY <2>1, <2>2 DEF PlanOf
<1>3. PICK u : u = UpsertPart(p, plan)
  OBVIOUS
<1>4. /\ u.op = "upsert" /\ u.texts = p.texts /\ u.org = p.org /\ u.plan = plan
      /\ u \in [op : {"upsert"}, org : Orgs, texts : Seq(Texts), window : Nat,
                plan : SUBSET (Nat \X Nat)]
  BY <1>1, <1>2, <1>3 DEF UpsertPart
<1>5. u \in Parts /\ Scope(u) = Scope(p) /\ PlanOf(u) = PlanOf(p) /\ Rebuilds(u) /\ Rebuilds(p)
  BY <1>4 DEF Parts, Scope, PlanOf, Rebuilds
<1>6. ASSUME plan # {}
      PROVE  Follows(<<u>>, p)
  <2>1. PartOK(u)
    BY <1>4, <1>5, <1>6 DEF PartOK
  <2> QED
    BY <1>5, <2>1 DEF Follows
<1>7. Follows(<<>>, p)
  BY DEF Follows
<1> QED
  BY <1>3, <1>5, <1>6, <1>7 DEF Upserts

\* A part that is at the head of a queue, before it is done.
LEMMA AtHead ==
  ASSUME IndexInv, NEW c \in Callers, call[c] # <<>>, NEW p, p = Part(c)
  PROVE  /\ p \in Parts /\ PartOK(p) /\ Scope(p) \subseteq Entities
         /\ \A e \in Scope(p) \ disturbed : PartDue(p, call[c], e)
<1>1. /\ QueueOK(call[c]) /\ 1 \in DOMAIN call[c] /\ p = call[c][1] /\ p \in Parts /\ PartOK(p)
  BY HeadFacts
<1>2. \A e \in Scope(p) \ disturbed : PartDue(p, call[c], e)
  BY <1>1 DEF CallsDue, IndexInv
<1> QED
  BY <1>1, <1>2, ScopeFacts

\* Where the rest of the part is behind it, the service keeps the promises of
\* the entities it has not disturbed.
LEMMA FailureKeeps ==
  ASSUME IndexInv, NEW c \in Callers, call[c] # <<>>, NEW p, p = Part(c),
         NEW r, Follows(r, p), Goes(c, r \o Tail(call[c])),
         disturbed' = disturbed \cup Scope(p), UNCHANGED <<row, store, orphans>>
  PROVE  IndexInv'
<1>1. row' = row /\ RowsOK' /\ RowsOK
  BY DEF IndexInv, RowsOK
<1>2. StoreOK' /\ Keys' /\ \A e : SameChunks(e)
  BY DEF StoreOK, Keys, IndexInv, TypeOK, SameChunks, ChunksOfEntity
<1>3. QueuesOK'
  BY <1>1, <1>2, ServiceKeeps
<1>4. Scope(p) \subseteq Entities
  BY AtHead
<1> QED
  BY <1>1, <1>2, <1>3, <1>4, InvFrom DEF IndexInv, TypeOK

(* The chunks of a row that is rebuilt go before the new ones come: what    *)
(* its text needs is planned.                                               *)
LEMMA ClearPriorKeeps ==
  ASSUME IndexInv, NEW c \in Callers, ClearPrior(c)
  PROVE  IndexInv'
<1>1. PICK p, r : p = Part(c) /\ r = Upserts(p, PlanOf(p))
  OBVIOUS
<1>2. call[c] # <<>> /\ p.op = "clear" /\ Goes(c, r \o Tail(call[c]))
  BY <1>1 DEF ClearPrior, Busied
<1>3. /\ p \in Parts /\ PartOK(p) /\ Scope(p) \subseteq Entities
      /\ \A e \in Scope(p) \ disturbed : PartDue(p, call[c], e)
  BY <1>1, <1>2, AtHead
<1>4. /\ Follows(r, p)
      /\ PlanOf(p) = {} => r = <<>>
      /\ PlanOf(p) # {} => /\ r = <<UpsertPart(p, PlanOf(p))>>
                           /\ Scope(UpsertPart(p, PlanOf(p))) = Scope(p)
  BY <1>1, <1>2, <1>3, UpsertFacts
<1>5. row' = row /\ orphans' = orphans /\ RowsOK' /\ RowsOK /\ \A e : SameRow(e)
  BY SameRows DEF ClearPrior, IndexInv, RowsOK
<1>6. CASE store' = Without(p.org, Scope(p)) /\ UNCHANGED disturbed
  <2>1. /\ StoreOK' /\ Keys' /\ \A e \in Scope(p) : ChunksOfEntity(e)' = {}
        /\ \A e \in Entities \ Scope(p) : SameChunks(e)
    BY <1>3, <1>6, WithoutFacts DEF PartOK
  <2>2. ASSUME NEW e \in Scope(p) \ disturbed'
        PROVE  /\ \A n \in DOMAIN r : e \in Scope(r[n]) => PartDue(r[n], r, e)'
               /\ Gone(e) \/ e \notin Scopes(r \o Tail(call[c])) => Mirrored(e)'
    <3>1. /\ e \in Entities /\ ~Gone(e)
          /\ \A m \in DOMAIN p.texts : p.texts[m].entity = e => Current(p.texts[m], e)
      BY <1>2, <1>3, <1>6, <2>2 DEF PartDue
    <3>2. \A m \in DOMAIN p.texts : p.texts[m].entity = e =>
             /\ Current(p.texts[m], e)' /\ ChunkCount(p.texts[m]) = Size(e)
      <4>1. p.texts \in Seq(Texts)
        BY <1>2, <1>3 DEF Parts, Types
      <4>2. \A m \in DOMAIN p.texts : p.texts[m] \in Texts
        BY <4>1
      <4> QED
        BY <1>5, <3>1, <4>2, SizeFacts, SameFacts
    <3>3. Size(e)' = Size(e) /\ ~Gone(e)' /\ AllGood(e)' /\ (Size(e) = 0 => Mirrored(e)')
      BY <1>5, <2>1, <2>2, <3>1, SameFacts, EmptyFacts DEF SameRow
    <3>4. \A m \in DOMAIN p.texts : p.texts[m].entity = e =>
             \A n \in 1..Size(e) : <<m, n>> \in PlanOf(p)
      BY <3>2 DEF PlanOf
    <3>5. CASE PlanOf(p) = {}
      <4>1. PICK m \in DOMAIN p.texts : p.texts[m].entity = e
        BY <1>2, <2>2 DEF Scope
      <4>2. Size(e) = 0
        BY <1>5, <3>1, <3>4, <3>5, <4>1, SizeFacts
      <4> QED
        BY <1>4, <3>3, <3>5, <4>2
    <3>6. CASE PlanOf(p) # {}
      <4>1. PICK u : u = UpsertPart(p, PlanOf(p))
        OBVIOUS
      <4>2. u.op = "upsert" /\ u.texts = p.texts /\ u.plan = PlanOf(p) /\ r = <<u>> /\ Scope(u) = Scope(p)
        BY <1>4, <3>6, <4>1 DEF UpsertPart
      <4>3. \A q : PartDue(u, q, e)'
        BY <3>2, <3>3, <3>4, <4>2 DEF PartDue
      <4>4. e \in Scopes(r \o Tail(call[c]))
        <5>1. PICK q, s : q = call[c] /\ s = r \o Tail(q)
          OBVIOUS
        <5>2. QueueOK(q) /\ Continues(q, r, s)
          BY <1>1, <1>2, <1>4, <5>1, HeadFacts, QueueFollows DEF Part
        <5>3. e \in Scopes(r)
          BY <2>2, <4>2 DEF Scopes
        <5> QED
          BY <5>1, <5>2, <5>3 DEF Continues
      <4>5. \A n \in DOMAIN r : r[n] = u
        BY <4>2
      <4> QED
        BY <3>1, <4>3, <4>4, <4>5
    <3> QED
      BY <3>5, <3>6
  <2>3. QueuesOK'
    BY <1>1, <1>2, <1>4, <1>5, <1>6, <2>1, <2>2, ServiceKeeps
  <2> QED
    BY <1>5, <1>6, <2>1, <2>3, InvFrom DEF IndexInv, TypeOK
<1>7. CASE disturbed' = disturbed \cup Scope(p) /\ UNCHANGED store
  BY <1>1, <1>2, <1>4, <1>5, <1>7, FailureKeeps
<1> QED
  BY <1>1, <1>6, <1>7 DEF ClearPrior

\* The chunks of a plan are those of its texts.
LEMMA PlanFacts ==
  ASSUME NEW p \in Parts, p.op = "upsert", PartOK(p), NEW k \in p.plan
  PROVE  \E m \in DOMAIN p.texts : \E n \in 1..ChunkCount(p.texts[m]) :
            /\ k = <<m, n>> /\ n \in Nat \ {0}
            /\ p.texts[m] \in Texts /\ p.texts[m].entity \in Scope(p)
            /\ OrgOf[p.texts[m].entity] = p.org
            /\ ChunkAt(p, k) = Chunk(p.org, p.texts[m], n)
<1>1. p.texts \in Seq(Texts) /\ p.plan \subseteq PlanOf(p)
  BY DEF Parts, Types, PartOK
<1>2. PICK m \in DOMAIN p.texts : \E n \in 1..ChunkCount(p.texts[m]) : k = <<m, n>>
  BY <1>1 DEF PlanOf
<1>3. PICK n \in 1..ChunkCount(p.texts[m]) : k = <<m, n>>
  BY <1>2
<1>4. p.texts[m] \in Texts
  BY <1>1
<1>5. n \in Nat \ {0}
  BY <1>3, <1>4, CountFacts
<1>6. p.texts[m].entity \in Scope(p)
  BY DEF Scope
<1>7. OrgOf[p.texts[m].entity] = p.org
  BY <1>6 DEF PartOK
<1>8. k[1] = m /\ k[2] = n
  BY <1>3
<1> QED
  BY <1>3, <1>4, <1>5, <1>6, <1>7, <1>8 DEF ChunkAt

(* Chunks that say what the row says replace those of their number; what is *)
(* left of the plan comes next. A failure disturbs all rows of the part.    *)
LEMMA UpsertWindowKeeps ==
  ASSUME IndexInv, NEW c \in Callers, UpsertWindow(c)
  PROVE  IndexInv'
<1>1. PICK p, window, r : /\ p = Part(c) /\ window = NextWindow(p)
                          /\ r = Upserts(p, p.plan \ window)
  OBVIOUS
<1>2. call[c] # <<>> /\ p.op = "upsert"
  BY <1>1 DEF UpsertWindow, Busied
<1>3. /\ p \in Parts /\ PartOK(p) /\ Scope(p) \subseteq Entities
      /\ \A e \in Scope(p) \ disturbed : PartDue(p, call[c], e)
  BY <1>1, <1>2, AtHead
<1>4. p.plan \subseteq PlanOf(p) /\ window \subseteq p.plan
  BY <1>1, <1>2, <1>3 DEF PartOK, NextWindow
<1>5. PICK rest : rest = p.plan \ window
  OBVIOUS
<1>6. /\ Follows(r, p)
      /\ rest = {} => r = <<>>
      /\ rest # {} => r = <<UpsertPart(p, rest)>> /\ Scope(UpsertPart(p, rest)) = Scope(p)
  <2>1. rest \in SUBSET PlanOf(p) /\ r = Upserts(p, rest)
    BY <1>1, <1>4, <1>5
  <2> QED
    BY <1>2, <1>3, <2>1, UpsertFacts
<1>7. row' = row /\ orphans' = orphans /\ RowsOK' /\ RowsOK /\ \A e : SameRow(e)
  BY SameRows DEF UpsertWindow, IndexInv, RowsOK
<1>8. CASE /\ Goes(c, r \o Tail(call[c])) /\ UNCHANGED disturbed
           /\ store' = Upserted({ChunkAt(p, k) : k \in window})
  <2>1. PICK new : new = {ChunkAt(p, k) : k \in window}
    OBVIOUS
  <2>2. /\ \A b \in store' : b \in store \/ b \in new
        /\ \A b \in new : b \in store'
        /\ \A b \in store : b \in store' \/ \E d \in new : b.text.entity = d.text.entity /\ b.n = d.n
        /\ \A b \in store' : b \in new \/ \A d \in new : b.text.entity # d.text.entity \/ b.n # d.n
    BY <1>8, <2>1 DEF Upserted
  <2>3. ASSUME NEW b \in new
        PROVE  \E m \in DOMAIN p.texts : \E n \in 1..ChunkCount(p.texts[m]) :
                  /\ <<m, n>> \in window /\ b = Chunk(p.org, p.texts[m], n)
                  /\ n \in Nat \ {0} /\ p.texts[m] \in Texts /\ p.texts[m].entity \in Scope(p)
                  /\ OrgOf[p.texts[m].entity] = p.org
    <3>1. PICK k \in window : b = ChunkAt(p, k)
      BY <2>1
    <3>2. k \in p.plan
      BY <1>4
    <3>3. PICK m \in DOMAIN p.texts : \E n \in 1..ChunkCount(p.texts[m]) :
              /\ k = <<m, n>> /\ n \in Nat \ {0}
              /\ p.texts[m] \in Texts /\ p.texts[m].entity \in Scope(p)
              /\ OrgOf[p.texts[m].entity] = p.org
              /\ ChunkAt(p, k) = Chunk(p.org, p.texts[m], n)
      BY <1>2, <1>3, <3>2, PlanFacts
    <3> QED
      BY <3>1, <3>3
  <2>4. StoreOK'
    <3>1. ASSUME NEW b \in new
          PROVE  b = Chunk(OrgOf[b.text.entity], b.text, b.n) /\ b.text \in Texts /\ b.n \in Nat \ {0}
      <4>1. PICK t \in Texts, n \in Nat \ {0} : b = Chunk(p.org, t, n) /\ OrgOf[t.entity] = p.org
        BY <2>3
      <4>2. b.text = t /\ b.n = n
        BY <4>1 DEF Chunk
      <4> QED
        BY <4>1, <4>2
    <3> QED
      BY <2>2, <3>1 DEF StoreOK, IndexInv
  <2>5. Keys'
    <3>1. ASSUME NEW a \in new, NEW b \in new, a.text.entity = b.text.entity, a.n = b.n
          PROVE  a = b
      <4>1. PICK m \in DOMAIN p.texts : \E n : a = Chunk(p.org, p.texts[m], n)
        BY <2>3
      <4>2. PICK j \in DOMAIN p.texts : \E n : b = Chunk(p.org, p.texts[j], n)
        BY <2>3
      <4>3. p.texts[m].entity = p.texts[j].entity
        BY <3>1, <4>1, <4>2 DEF Chunk
      <4>4. m = j
        BY <1>2, <1>3, <4>3 DEF PartOK
      <4> QED
        BY <3>1, <4>1, <4>2, <4>4 DEF Chunk
    <3> QED
      BY <2>2, <3>1 DEF Keys, IndexInv, TypeOK
  <2>6. ASSUME NEW e \in Entities \ Scope(p)
        PROVE  SameChunks(e)
    <3>1. ASSUME NEW b \in new
          PROVE  b.text.entity # e
      <4>1. PICK t, n : b = Chunk(p.org, t, n) /\ t.entity \in Scope(p)
        BY <2>3
      <4> QED
        BY <2>6, <4>1 DEF Chunk
    <3> QED
      BY <2>2, <3>1 DEF SameChunks, ChunksOfEntity
  <2>7. ASSUME NEW e \in Scope(p) \ disturbed'
        PROVE  /\ \A n \in DOMAIN r : e \in Scope(r[n]) => PartDue(r[n], r, e)'
               /\ Gone(e) \/ e \notin Scopes(r \o Tail(call[c])) => Mirrored(e)'
    <3>1. /\ e \in Entities /\ ~Gone(e) /\ AllGood(e)
          /\ \A m \in DOMAIN p.texts : p.texts[m].entity = e =>
               /\ Current(p.texts[m], e)
               /\ \A n \in 1..Size(e) : <<m, n>> \in p.plan \/ Stored(e, n)
      BY <1>2, <1>3, <1>8, <2>7 DEF PartDue
    <3>2. \A t : Current(t, e)' <=> Current(t, e)
      BY <1>7, <3>1, SameFacts
    <3>3. Size(e)' = Size(e) /\ ~Gone(e)'
      BY <1>7, <3>1, SameFacts DEF SameRow
    <3>4. AllGood(e)'
      <4>1. SUFFICES ASSUME NEW b \in store', b.text.entity = e
                     PROVE  Current(b.text, e) /\ b.n \in 1..Size(e)
        BY <3>2, <3>3 DEF AllGood, Good, ChunksOfEntity
      <4>2. CASE b \in store
        BY <3>1, <4>1, <4>2 DEF AllGood, Good, ChunksOfEntity
      <4>3. CASE b \in new
        <5>1. PICK m \in DOMAIN p.texts : \E n \in 1..ChunkCount(p.texts[m]) :
                      b = Chunk(p.org, p.texts[m], n) /\ p.texts[m] \in Texts
          BY <2>3, <4>3
        <5>2. p.texts[m].entity = e /\ b.text = p.texts[m] /\ b.n \in 1..ChunkCount(p.texts[m])
          BY <4>1, <5>1 DEF Chunk
        <5>3. Current(p.texts[m], e)
          BY <3>1, <5>2
        <5> QED
          BY <1>7, <3>1, <5>1, <5>2, <5>3, SizeFacts
      <4> QED
        BY <2>2, <4>1, <4>2, <4>3
    <3>5. ASSUME NEW m \in DOMAIN p.texts, p.texts[m].entity = e, NEW n \in 1..Size(e)
          PROVE  <<m, n>> \in rest \/ Stored(e, n)'
      <4>1. CASE <<m, n>> \in window
        <5>1. ChunkAt(p, <<m, n>>) \in store'
          BY <2>1, <2>2, <4>1
        <5>2. ChunkAt(p, <<m, n>>).text.entity = e /\ ChunkAt(p, <<m, n>>).n = n
          BY <3>5 DEF ChunkAt, Chunk
        <5> QED
          BY <5>1, <5>2 DEF Stored, ChunksOfEntity
      <4>2. CASE Stored(e, n)
        <5>1. PICK b \in store : b.text.entity = e /\ b.n = n
          BY <4>2 DEF Stored, ChunksOfEntity
        <5>2. \E d \in store' : d.text.entity = e /\ d.n = n
          BY <2>2, <5>1
        <5> QED
          BY <5>2 DEF Stored, ChunksOfEntity
      <4>3. CASE <<m, n>> \notin window /\ ~Stored(e, n)
        BY <1>5, <3>1, <3>5, <4>3
      <4> QED
        BY <4>1, <4>2, <4>3
    <3>6. CASE rest = {}
      <4>1. PICK m \in DOMAIN p.texts : p.texts[m].entity = e
        BY <1>2, <2>7 DEF Scope
      <4>2. Mirrored(e)'
        BY <3>3, <3>4, <3>5, <3>6, <4>1 DEF Mirrored
      <4> QED
        BY <1>6, <3>6, <4>2
    <3>7. CASE rest # {}
      <4>1. PICK u : u = UpsertPart(p, rest)
        OBVIOUS
      <4>2. u.op = "upsert" /\ u.texts = p.texts /\ u.plan = rest /\ r = <<u>> /\ Scope(u) = Scope(p)
        BY <1>6, <3>7, <4>1 DEF UpsertPart
      <4>3. \A q : PartDue(u, q, e)'
        BY <3>1, <3>2, <3>3, <3>4, <3>5, <4>2 DEF PartDue
      <4>4. e \in Scopes(r \o Tail(call[c]))
        <5>1. PICK q, s : q = call[c] /\ s = r \o Tail(q)
          OBVIOUS
        <5>2. QueueOK(q) /\ Continues(q, r, s)
          BY <1>1, <1>2, <1>6, <5>1, HeadFacts, QueueFollows DEF Part
        <5>3. e \in Scopes(r)
          BY <2>7, <4>2 DEF Scopes
        <5> QED
          BY <5>1, <5>2, <5>3 DEF Continues
      <4>5. \A n \in DOMAIN r : r[n] = u
        BY <4>2
      <4> QED
        BY <3>1, <4>3, <4>4, <4>5
    <3> QED
      BY <3>6, <3>7
  <2>8. QueuesOK'
    BY <1>1, <1>2, <1>6, <1>7, <1>8, <2>6, <2>7, ServiceKeeps
  <2> QED
    BY <1>7, <1>8, <2>4, <2>5, <2>8, InvFrom DEF IndexInv, TypeOK
<1>9. CASE /\ disturbed' = disturbed \cup Scope(p) /\ UNCHANGED store
           /\ Goes(c, r \o Tail(call[c])) \/ Goes(c, Tail(call[c]))
  <2>1. PICK none : none = <<>>
    OBVIOUS
  <2>2. Follows(none, p)
    BY <1>2, <2>1 DEF Follows, Rebuilds
  <2>3. none \o Tail(call[c]) = Tail(call[c])
    <3>1. call[c] \in Seq(Parts)
      BY <1>2, HeadFacts DEF QueueOK
    <3>2. Tail(call[c]) \in Seq(Parts)
      BY <1>2, <3>1
    <3> QED
      BY <2>1, <3>2
  <2>4. CASE Goes(c, r \o Tail(call[c]))
    BY <1>1, <1>2, <1>6, <1>7, <1>9, <2>4, FailureKeeps
  <2>5. CASE Goes(c, none \o Tail(call[c]))
    BY <1>1, <1>2, <1>7, <1>9, <2>2, <2>5, FailureKeeps
  <2> QED
    BY <1>9, <2>3, <2>4, <2>5
<1> QED
  BY <1>1, <1>8, <1>9 DEF UpsertWindow

-----------------------------------------------------------------------------
(* What the methods of the service make of rows.                           *)

\* Listing a finite set gives each of its elements once.
LEMMA Listing ==
  ASSUME NEW S, IsFiniteSet(S)
  PROVE  /\ SetToSeq(S) \in Seq(S)
         /\ \A i, j \in DOMAIN SetToSeq(S) : SetToSeq(S)[i] = SetToSeq(S)[j] => i = j
         /\ \A x \in S : \E i \in DOMAIN SetToSeq(S) : SetToSeq(S)[i] = x
         /\ S # {} => SetToSeq(S) # <<>>
<1> DEFINE n == Cardinality(S)
           q == SetToSeq(S)
<1>1. n \in Nat /\ ExistsBijection(1..n, S)
  BY FS_CardinalityType
<1>2. \E f \in [1..n -> S] : IsInjective(f)
  BY <1>1 DEF ExistsBijection, Bijection, Injection
<1>3. q \in [1..n -> S] /\ IsInjective(q)
  BY <1>2 DEF SetToSeq
<1>4. q \in Injection(1..n, S)
  BY <1>3 DEF Injection
<1>5. Cardinality(1..n) = n /\ IsFiniteSet(1..n)
  BY <1>1, FS_Interval
<1>6. q \in Surjection(1..n, S)
  BY <1>4, <1>5, FS_Injection
<1>7. q \in Seq(S) /\ DOMAIN q = 1..n
  BY <1>1, <1>3
<1>8. \A x \in S : \E i \in DOMAIN q : q[i] = x
  BY <1>6, <1>7 DEF Surjection
<1>9. \A i, j \in DOMAIN q : q[i] = q[j] => i = j
  BY <1>3, <1>7 DEF IsInjective
<1>10. S # {} => q # <<>>
  BY <1>8
<1> QED
  BY <1>7, <1>8, <1>9, <1>10

\* The texts a part indexes are those of rows r, and nothing else is in it.
Indexes(p, S, r) ==
  /\ p \in Parts /\ PartOK(p) /\ p.op = "clear" /\ Scope(p) = S
  /\ \A m \in DOMAIN p.texts : p.texts[m].of = Text(p.texts[m].entity, r).of

\* index_entities_bulk
LEMMA BulkFacts ==
  ASSUME NEW o \in Orgs, NEW S \in SUBSET Entities, \A e \in S : OrgOf[e] = o,
         NEW r \in Rows, NEW q, q = SetToSeq(S),
         NEW texts, texts = [n \in DOMAIN q |-> Text(q[n], r)],
         NEW p, p = IndexBulk(o, texts)
  PROVE  Indexes(p, S, r)
<1>1. IsFiniteSet(S)
  BY IndexAssumption, FS_Subset
<1>2. /\ q \in Seq(S) /\ \A i, j \in DOMAIN q : q[i] = q[j] => i = j
      /\ \A x \in S : \E i \in DOMAIN q : q[i] = x
  BY <1>1, Listing
<1>3. DOMAIN q = 1..Len(q) /\ Len(q) \in Nat /\ \A n \in DOMAIN q : q[n] \in Entities
  BY <1>2
<1>4. \A n \in DOMAIN q : Text(q[n], r) \in Texts /\ Text(q[n], r).entity = q[n]
  BY <1>3, TextFacts
<1>5. texts \in Seq(Texts) /\ DOMAIN texts = DOMAIN q /\ \A n \in DOMAIN q : texts[n] = Text(q[n], r)
  BY <1>3, <1>4
<1>6. p = [op |-> "clear", org |-> o, texts |-> texts, window |-> Window] /\ Window \in Nat
  BY IndexAssumption DEF IndexBulk
<1>7. p.op = "clear" /\ p.texts = texts /\ p.org = o
  BY <1>6
<1>8. p \in Parts
  BY <1>5, <1>6 DEF Parts
<1>9. Scope(p) = {texts[n].entity : n \in DOMAIN texts}
  BY <1>7 DEF Scope
<1>10. Scope(p) = S
  <2>1. \A n \in DOMAIN q : texts[n].entity = q[n] /\ q[n] \in S
    BY <1>2, <1>4, <1>5
  <2>2. \A e \in S : \E n \in DOMAIN texts : texts[n].entity = e
    BY <1>2, <1>5, <2>1
  <2>3. \A e \in Scope(p) : e \in S
    BY <1>5, <1>9, <2>1
  <2>4. \A e \in S : e \in Scope(p)
    BY <1>9, <2>2
  <2> QED
    BY <2>3, <2>4
<1>11. PartOK(p)
  BY <1>2, <1>4, <1>5, <1>7, <1>10 DEF PartOK
<1>12. \A m \in DOMAIN p.texts : p.texts[m].of = Text(p.texts[m].entity, r).of
  BY <1>4, <1>5, <1>7
<1> QED
  BY <1>7, <1>8, <1>10, <1>11, <1>12 DEF Indexes

\* One row, by itself or as the only one of a bulk.
LEMMA OneFacts ==
  ASSUME NEW e \in Entities, NEW r \in Rows, NEW t, t = Text(e, r), NEW w \in Nat,
         NEW p, p = [op |-> "clear", org |-> OrgOf[e], texts |-> <<t>>, window |-> w]
  PROVE  Indexes(p, {e}, r)
<1>1. t \in Texts /\ t.entity = e /\ OrgOf[e] \in Orgs
  BY TextFacts, IndexAssumption
<1>2. p.op = "clear" /\ p.texts = <<t>> /\ p.org = OrgOf[e]
  OBVIOUS
<1>3. <<t>> \in Seq(Texts) /\ DOMAIN <<t>> = {1} /\ <<t>>[1] = t
  BY <1>1
<1>4. p \in Parts
  BY <1>1, <1>3 DEF Parts
<1>5. Scope(p) = {e}
  BY <1>1, <1>2, <1>3 DEF Scope
<1>6. PartOK(p)
  BY <1>2, <1>3, <1>5 DEF PartOK
<1> QED
  BY <1>1, <1>2, <1>3, <1>4, <1>5, <1>6 DEF Indexes

\* _index_entity
LEMMA EntityFacts ==
  ASSUME NEW e \in Entities, NEW r \in Rows, NEW t, t = Text(e, r),
         NEW p, p = IndexEntity(OrgOf[e], t)
  PROVE  Indexes(p, {e}, r)
<1>1. ChunkCount(t) \in Nat
  BY TextFacts, CountFacts
<1> QED
  BY <1>1, OneFacts DEF IndexEntity

\* A part that indexes rows that are there, as they are, is as it should be.
LEMMA IndexesDue ==
  ASSUME NEW p, NEW S, NEW r, Indexes(p, S, r), NEW e \in S, ~Gone(e),
         Text(e, r).of = Text(e, row).of, NEW q
  PROVE  PartDue(p, q, e)
BY DEF Indexes, PartDue, Current

\* The same, of the rows just written.
LEMMA IndexesDueNow ==
  ASSUME NEW p, NEW S, NEW r, r = row', Indexes(p, S, r), NEW e \in S, ~Gone(e)', NEW q
  PROVE  PartDue(p, q, e)'
BY DEF Indexes, PartDue, Current

\* The rows without their assessment.
PlainRows == [e \in Entities |-> [row[e] EXCEPT !.assessed = FALSE]]

(* A reindex forgets assessments; the texts are made of the same versions. *)
LEMMA PlainFacts ==
  ASSUME RowsOK
  PROVE  PlainRows \in Rows /\ \A e \in Entities : Text(e, PlainRows).of = Text(e, row).of
<1>1. \A e \in Entities : row[e] \in [ver : {0} \cup Versions, assessed : BOOLEAN]
  BY DEF RowsOK
<1>2. \A e \in Entities : /\ PlainRows[e].ver = row[e].ver
                          /\ PlainRows[e] \in [ver : {0} \cup Versions, assessed : BOOLEAN]
  BY <1>1 DEF PlainRows
<1>3. PlainRows \in Rows
  BY <1>2 DEF Rows, PlainRows
<1>4. ASSUME NEW e \in Entities
      PROVE  Text(e, PlainRows).of = Text(e, row).of
  <2>1. Sources(e) \subseteq Entities
    BY DEF Sources, Of
  <2> QED
    BY <1>2, <2>1 DEF Text
<1> QED
  BY <1>3, <1>4

(* The rows of a type are read as they are; those that are gone have been   *)
(* purged by now, and need nothing.                                         *)
LEMMA ReadTypeKeeps ==
  ASSUME IndexInv, NEW c \in Callers, ReadType(c)
  PROVE  IndexInv'
<1>1. PICK p, o, S : /\ p = Part(c) /\ o = p.org
                     /\ S = {e \in Of(o, p.op) : TypeOf[e] = "aggregate" \/ Exists(e)}
  OBVIOUS
<1>2. PICK q, plain : q = SetToSeq(S) /\ plain = PlainRows
  OBVIOUS
<1>3. PICK texts : texts = [n \in DOMAIN q |-> Text(q[n], plain)]
  OBVIOUS
<1>4. PICK r : r = IF p.op = "control"
                   THEN (IF q = <<>> THEN <<>> ELSE <<IndexBulk(o, texts)>>)
                   ELSE [n \in DOMAIN q |-> IndexEntity(o, texts[n])]
  OBVIOUS
<1>5. call[c] # <<>> /\ p.op \in Types /\ Goes(c, r \o Tail(call[c]))
  BY <1>1, <1>2, <1>3, <1>4, Zenon DEF ReadType, PlainRows, Types
<1>6. /\ p \in Parts /\ PartOK(p) /\ 1 \in DOMAIN call[c] /\ call[c][1] = p /\ QueueOK(call[c])
      /\ Scope(p) \subseteq Entities
  BY <1>1, <1>5, HeadFacts, AtHead
<1>7. Scope(p) = Of(o, p.op) /\ o \in Orgs /\ Rebuilds(p)
  BY <1>1, <1>5, <1>6 DEF Scope, Types, Parts, Rebuilds
<1>8. S \subseteq Scope(p) /\ S \in SUBSET Entities /\ \A e \in S : OrgOf[e] = o /\ ~Gone(e)
  BY <1>1, <1>6, <1>7 DEF Of, Gone
<1>9. plain \in Rows /\ \A e \in Entities : Text(e, plain).of = Text(e, row).of
  BY <1>2, PlainFacts DEF IndexInv
<1>10. /\ q \in Seq(S) /\ \A i, j \in DOMAIN q : q[i] = q[j] => i = j
       /\ \A x \in S : \E i \in DOMAIN q : q[i] = x
       /\ S # {} => q # <<>>
  <2>1. IsFiniteSet(S)
    BY <1>8, IndexAssumption, FS_Subset
  <2> QED
    BY <1>2, <2>1, Listing
<1>11. /\ r \in Seq(Parts)
       /\ \A n \in DOMAIN r : \E D \in SUBSET S : Indexes(r[n], D, plain)
       /\ \A m, n \in DOMAIN r : m # n => Scope(r[m]) \cap Scope(r[n]) = {}
       /\ S \subseteq Scopes(r)
  <2>1. CASE p.op = "control" /\ q = <<>>
    BY <1>4, <1>10, <2>1 DEF Scopes
  <2>2. CASE p.op = "control" /\ q # <<>>
    <3>1. PICK b : b = IndexBulk(o, texts)
      OBVIOUS
    <3>2. Indexes(b, S, plain)
      BY <1>2, <1>3, <1>7, <1>8, <1>9, <3>1, BulkFacts
    <3>3. b \in Parts /\ Scope(b) = S /\ r = <<b>>
      BY <1>4, <2>2, <3>1, <3>2 DEF Indexes
    <3>4. DOMAIN r = {1} /\ r[1] = b /\ r \in Seq(Parts)
      BY <3>3
    <3> QED
      BY <3>2, <3>3, <3>4 DEF Scopes
  <2>3. CASE p.op # "control"
    <3>1. DOMAIN q = 1..Len(q) /\ Len(q) \in Nat /\ \A n \in DOMAIN q : q[n] \in S
      BY <1>10
    <3>2. r = [n \in 1..Len(q) |-> IndexEntity(o, texts[n])]
      BY <1>4, <2>3, <3>1
    <3>3. ASSUME NEW n \in 1..Len(q)
          PROVE  Indexes(r[n], {q[n]}, plain)
      <4>1. q[n] \in S /\ q[n] \in Entities /\ OrgOf[q[n]] = o
        BY <1>8, <3>1
      <4>2. texts[n] = Text(q[n], plain) /\ r[n] = IndexEntity(o, texts[n])
        BY <1>3, <3>1, <3>2
      <4> QED
        BY <1>9, <4>1, <4>2, EntityFacts
    <3>4. \A n \in 1..Len(q) : r[n] \in Parts /\ Scope(r[n]) = {q[n]}
      BY <3>3 DEF Indexes
    <3>5. r \in Seq(Parts) /\ DOMAIN r = 1..Len(q)
      BY <3>1, <3>2, <3>4
    <3>6. \A n \in DOMAIN r : \E D \in SUBSET S : Indexes(r[n], D, plain)
      BY <3>1, <3>3, <3>5
    <3>7. \A m, n \in DOMAIN r : m # n => Scope(r[m]) \cap Scope(r[n]) = {}
      BY <1>10, <3>1, <3>4, <3>5
    <3>8. S \subseteq Scopes(r)
      BY <1>10, <3>1, <3>4, <3>5 DEF Scopes
    <3> QED
      BY <3>5, <3>6, <3>7, <3>8
  <2> QED
    BY <2>1, <2>2, <2>3
<1>12. Follows(r, p)
  BY <1>7, <1>8, <1>11 DEF Follows, Indexes, Rebuilds
<1>13. /\ row' = row /\ orphans' = orphans /\ store' = store /\ disturbed' = disturbed
       /\ RowsOK' /\ RowsOK /\ \A e : SameRow(e)
  BY SameRows DEF ReadType, IndexInv, RowsOK
<1>14. StoreOK' /\ Keys' /\ \A e : SameChunks(e)
  BY <1>13 DEF StoreOK, Keys, IndexInv, TypeOK, SameChunks, ChunksOfEntity
<1>15. ASSUME NEW e \in Scope(p) \ disturbed', NEW n \in DOMAIN r, e \in Scope(r[n])
       PROVE  PartDue(r[n], r, e)'
  <2>1. PICK D \in SUBSET S : Indexes(r[n], D, plain)
    BY <1>11
  <2>2. e \in D /\ e \in Entities /\ ~Gone(e) /\ r[n].op = "clear"
    BY <1>8, <1>15, <2>1 DEF Indexes
  <2>3. PartDue(r[n], r, e)
    BY <1>9, <2>1, <2>2, IndexesDue
  <2> QED
    BY <1>13, <1>14, <2>2, <2>3, SameFacts
<1>16. PICK s : s = r \o Tail(call[c])
  OBVIOUS
<1>17. Continues(call[c], r, s)
  <2>1. PICK z : z = call[c]
    OBVIOUS
  <2>2. Continues(z, r, s)
    BY <1>1, <1>5, <1>6, <1>12, <1>16, <2>1, QueueFollows DEF Part
  <2> QED
    BY <2>1, <2>2
<1>18. ASSUME NEW e \in Scope(p) \ disturbed', Gone(e) \/ e \notin Scopes(s)
       PROVE  Mirrored(e)' \/ e \in orphans'
  <2>1. e \in Entities /\ e \in Scopes(call[c])
    BY <1>6, <1>18 DEF Scopes
  <2>2. Gone(e)
    <3>1. ~Gone(e) => e \in S
      BY <1>1, <1>7, <1>18 DEF Gone
    <3> QED
      BY <1>11, <1>17, <1>18, <3>1 DEF Continues
  <2>3. ~Purged(e)
    <3>1. SUFFICES ASSUME NEW d \in Callers, NEW n \in DOMAIN call[d],
                          call[d][n].op = "purge", e \in call[d][n].of
                   PROVE  FALSE
      BY DEF Purged
    <3>2. e \in Scopes(call[d])
      BY <3>1 DEF Scopes, Scope
    <3>3. d = c
      BY <1>13, <1>18, <2>1, <3>2 DEF IndexInv, Alone
    <3>4. call[d][n] = p
      BY <1>6, <3>1, <3>3 DEF QueueOK
    <3> QED
      BY <1>7, <3>1, <3>4 DEF Rebuilds
  <2>4. Mirrored(e) \/ e \in orphans
    BY <1>13, <1>18, <2>1, <2>2, <2>3 DEF RestOK, IndexInv
  <2> QED
    BY <1>13, <1>14, <2>1, <2>4, SameFacts
<1>19. QueuesOK'
  BY <1>1, <1>5, <1>12, <1>13, <1>14, <1>15, <1>16, <1>18, ServiceKeeps
<1> QED
  BY <1>13, <1>14, <1>19, InvFrom DEF IndexInv, TypeOK

-----------------------------------------------------------------------------
(* The writers.                                                            *)

\* A writer keeps the invariant when its call is timely and covers what it wrote.
LEMMA WriterKeeps ==
  ASSUME IndexInv, RowsOK', NEW c \in Callers, NEW E \in SUBSET Entities, NEW parts,
         Begin(c, E, parts), Timely(parts)', Reach(E) \subseteq Scopes(parts),
         \A x \in Entities \ E : row'[x].ver = row[x].ver,
         UNCHANGED <<store, orphans>>
  PROVE  IndexInv'
<1>1. QueuesOK'
  BY BeginKeeps
<1>2. StoreOK' /\ Keys'
  BY DEF StoreOK, Keys, IndexInv, TypeOK
<1>3. disturbed' \subseteq Entities
  <2>1. \A d \in Callers : Scopes(call[d]) \subseteq Entities
    BY ScopesFacts DEF IndexInv, CallsOK
  <2>2. Busy(c) \subseteq Entities
    BY <2>1 DEF Busy
  <2> QED
    BY <2>2 DEF Begin, IndexInv, TypeOK
<1> QED
  BY <1>1, <1>2, <1>3, InvFrom DEF IndexInv, TypeOK

\* What an entity that is no issue makes is itself.
LEMMA ReachFacts ==
  ASSUME NEW E \in SUBSET Entities
  PROVE  /\ Reach(E) \subseteq Entities
         /\ (\A e \in E : TypeOf[e] # "issue") => Reach(E) = E
         /\ Reach(E) \subseteq E \cup UNION {Of(o, "aggregate") : o \in {OrgOf[e] : e \in E}}
<1>1. \A e \in E : /\ OrgOf[e] \in Orgs
                   /\ Aggregate(OrgOf[e]) \in Of(OrgOf[e], "aggregate")
                   /\ Aggregate(OrgOf[e]) \in Entities
  BY IndexAssumption, AggregateFacts
<1> QED
  BY <1>1 DEF Reach

\* A call of one part.
LEMMA OneTimely ==
  ASSUME NEW p, NEW S, NEW r, r = row', Indexes(p, S, r), \A e \in S : ~Gone(e)',
         NEW parts, parts = <<p>>
  PROVE  Timely(parts)' /\ Scopes(parts) = S
<1>1. /\ DOMAIN parts = {1} /\ parts[1] = p /\ p \in Parts /\ PartOK(p)
      /\ p.op = "clear" /\ Scope(p) = S
  BY DEF Indexes
<1>2. Scopes(parts) = S
  BY <1>1 DEF Scopes
<1>3. parts \in Seq(Parts)
  BY <1>1
<1>4. QueueOK(parts)
  BY <1>1, <1>3 DEF QueueOK
<1>5. \A e \in S : PartDue(p, parts, e)'
  BY IndexesDueNow
<1> QED
  BY <1>1, <1>2, <1>4, <1>5 DEF Timely

(* A row that is written again exists.                                     *)
LEMMA NewerFacts ==
  ASSUME NEW R \in [ver : {0} \cup Versions, assessed : BOOLEAN], R.ver + 1 \in Versions
  PROVE  /\ Newer(R) \in [ver : {0} \cup Versions, assessed : BOOLEAN]
         /\ Newer(R).ver = R.ver + 1 /\ Newer(R).ver > 0
<1>1. R.ver + 1 \in Nat \ {0}
  BY VersionFacts
<1>2. Newer(R).ver = R.ver + 1 /\ Newer(R) \in [ver : {0} \cup Versions, assessed : BOOLEAN]
  BY DEF Newer
<1> QED
  BY <1>1, <1>2

(* One row and its chunks.                                                  *)
LEMMA WriteRowKeeps ==
  ASSUME IndexInv, NEW c \in Callers, NEW e \in All("risk"), WriteRow(c, e)
  PROVE  IndexInv'
<1>1. e \in Entities /\ TypeOf[e] = "risk"
  BY DEF All, Of
<1>2. row \in Rows /\ row[e] \in [ver : {0} \cup Versions, assessed : BOOLEAN]
  BY <1>1 DEF IndexInv, RowsOK, Rows
<1>3. /\ Newer(row[e]) \in [ver : {0} \cup Versions, assessed : BOOLEAN]
      /\ Newer(row[e]).ver > 0 /\ row' = [row EXCEPT ![e] = Newer(row[e])]
  BY <1>2, NewerFacts DEF WriteRow
<1>4. /\ row' \in Rows /\ row'[e].ver > 0
      /\ \A x \in Entities \ {e} : row'[x] = row[x]
  BY <1>1, <1>2, <1>3 DEF Rows
<1>5. PICK r, t, p, parts : r = row' /\ t = Text(e, r) /\ p = IndexEntity(OrgOf[e], t) /\ parts = <<p>>
  OBVIOUS
<1>6. Indexes(p, {e}, r)
  BY <1>1, <1>4, <1>5, EntityFacts
<1>7. ~Gone(e)'
  BY <1>4 DEF Gone, Exists
<1>8. Timely(parts)' /\ Scopes(parts) = {e}
  BY <1>5, <1>6, <1>7, OneTimely
<1>9. Reach({e}) = {e}
  BY <1>1, ReachFacts
<1>10. Begin(c, {e}, parts) /\ UNCHANGED <<store, orphans>>
  BY <1>5 DEF WriteRow
<1>11. RowsOK'
  BY <1>4 DEF RowsOK, Rows
<1> QED
  BY <1>1, <1>4, <1>8, <1>9, <1>10, <1>11, WriterKeeps

\* _bulk_index_issues_per_org: one part for each organisation.
PerOrg(E, r, orgs, b) ==
  /\ orgs \in Seq(Orgs) /\ b \in Seq(Parts) /\ DOMAIN b = DOMAIN orgs
  /\ \A i, j \in DOMAIN orgs : orgs[i] = orgs[j] => i = j
  /\ \A e \in E : \E i \in DOMAIN orgs : orgs[i] = OrgOf[e]
  /\ \A n \in DOMAIN orgs : Indexes(b[n], {e \in E : OrgOf[e] = orgs[n]}, r)

(* A batch job makes one bulk per organisation, of its own issues.         *)
LEMMA PerOrgFacts ==
  ASSUME NEW E \in SUBSET Entities, NEW r \in Rows,
         NEW orgs, orgs = SetToSeq({OrgOf[e] : e \in E}), NEW b, b = BulkPerOrg(E, r)
  PROVE  PerOrg(E, r, orgs, b)
<1> DEFINE O == {OrgOf[e] : e \in E}
<1>1. O \subseteq Orgs /\ IsFiniteSet(O)
  <2>1. IsFiniteSet(E)
    BY IndexAssumption, FS_Subset
  <2>2. IsFiniteSet(O)
    <3>1. PICK f : f = [e \in E |-> OrgOf[e]]
      OBVIOUS
    <3>2. f \in Surjection(E, O)
      BY <3>1 DEF Surjection
    <3> QED
      BY <2>1, <3>2, FS_Surjection
  <2> QED
    BY <2>2, IndexAssumption
<1>0. orgs = SetToSeq(O) /\ \A e \in E : OrgOf[e] \in O
  OBVIOUS
<1> HIDE DEF O
<1>2. /\ orgs \in Seq(O) /\ \A i, j \in DOMAIN orgs : orgs[i] = orgs[j] => i = j
      /\ \A o \in O : \E i \in DOMAIN orgs : orgs[i] = o
  BY <1>0, <1>1, Listing
<1>3. orgs \in Seq(Orgs)
  BY <1>1, <1>2
<1>4. DOMAIN orgs = 1..Len(orgs) /\ Len(orgs) \in Nat /\ \A n \in DOMAIN orgs : orgs[n] \in Orgs
  <2>1. \A n \in DOMAIN orgs : orgs[n] \in Orgs
    BY <1>3
  <2> QED
    BY <1>3, <2>1
<1>5. ASSUME NEW n \in DOMAIN orgs
      PROVE  Indexes(b[n], {e \in E : OrgOf[e] = orgs[n]}, r)
  <2>1. PICK o, S, q : o = orgs[n] /\ S = {e \in E : OrgOf[e] = o} /\ q = SetToSeq(S)
    OBVIOUS
  <2>2. PICK texts : texts = [k \in DOMAIN q |-> Text(q[k], r)]
    OBVIOUS
  <2>3. b[n] = IndexBulk(o, texts)
    BY <2>1, <2>2 DEF BulkPerOrg
  <2>4. o \in Orgs /\ S \in SUBSET Entities /\ \A e \in S : OrgOf[e] = o
    BY <1>4, <2>1
  <2>5. Indexes(b[n], S, r)
    BY <2>1, <2>2, <2>3, <2>4, BulkFacts
  <2> QED
    BY <2>1, <2>5
<1>6. b = [n \in 1..Len(orgs) |-> b[n]]
  <2> DEFINE Q(n) == SetToSeq({e \in E : OrgOf[e] = orgs[n]})
             B(n) == IndexBulk(orgs[n], [k \in DOMAIN Q(n) |-> Text(Q(n)[k], r)])
  <2>1. b = [n \in 1..Len(orgs) |-> B(n)]
    BY <1>4 DEF BulkPerOrg
  <2> HIDE DEF B
  <2> QED
    BY <2>1
<1>7. \A n \in 1..Len(orgs) : b[n] \in Parts
  BY <1>4, <1>5 DEF Indexes
<1>8. b \in Seq(Parts)
  BY <1>4, <1>6, <1>7
<1>9. DOMAIN b = DOMAIN orgs
  BY <1>4, <1>6
<1>10. \A e \in E : \E i \in DOMAIN orgs : orgs[i] = OrgOf[e]
  BY <1>0, <1>2
<1> QED
  BY <1>2, <1>3, <1>5, <1>8, <1>9, <1>10 DEF PerOrg

\* The bulk of a set of issues, by organisation: which parts it has, and that
\* none is in two of them.
LEMMA PerOrgTimely ==
  ASSUME NEW E \in SUBSET Entities, NEW r \in Rows, r = row', \A e \in E : ~Gone(e)',
         NEW b, b = BulkPerOrg(E, r)
  PROVE  /\ Timely(b)' /\ Scopes(b) = E
         /\ \A n \in DOMAIN b : b[n].op = "clear" /\ \A q : \A e \in Scope(b[n]) : PartDue(b[n], q, e)'
<1>1. PICK orgs : orgs = SetToSeq({OrgOf[e] : e \in E})
  OBVIOUS
<1>0. PerOrg(E, r, orgs, b)
  BY <1>1, PerOrgFacts
<1>2. /\ b \in Seq(Parts) /\ DOMAIN b = DOMAIN orgs
      /\ \A i, j \in DOMAIN orgs : orgs[i] = orgs[j] => i = j
      /\ \A e \in E : \E i \in DOMAIN orgs : orgs[i] = OrgOf[e]
      /\ \A n \in DOMAIN orgs : Indexes(b[n], {e \in E : OrgOf[e] = orgs[n]}, r)
  BY <1>0 DEF PerOrg
<1>3. \A n \in DOMAIN b : /\ PartOK(b[n]) /\ b[n].op = "clear"
                          /\ Scope(b[n]) = {e \in E : OrgOf[e] = orgs[n]}
  BY <1>2 DEF Indexes
<1>4. Scopes(b) = E
  BY <1>2, <1>3 DEF Scopes
<1>5. \A m, n \in DOMAIN b : m # n => Scope(b[m]) \cap Scope(b[n]) = {}
  BY <1>2, <1>3
<1>6. QueueOK(b)
  BY <1>2, <1>3, <1>5 DEF QueueOK
<1>7. ASSUME NEW n \in DOMAIN b, NEW e \in Scope(b[n]), NEW q
      PROVE  PartDue(b[n], q, e)'
  <2>1. PICK S : S = {x \in E : OrgOf[x] = orgs[n]}
    OBVIOUS
  <2>2. Indexes(b[n], S, r) /\ e \in S /\ e \in E
    BY <1>2, <1>3, <1>7, <2>1
  <2> QED
    BY <2>2, IndexesDueNow
<1> QED
  BY <1>3, <1>4, <1>6, <1>7 DEF Timely

\* A row whose assessment alone changes keeps its version.
LEMMA AssessedFacts ==
  ASSUME NEW R \in [ver : {0} \cup Versions, assessed : BOOLEAN]
  PROVE  /\ [R EXCEPT !.assessed = TRUE] \in [ver : {0} \cup Versions, assessed : BOOLEAN]
         /\ [R EXCEPT !.assessed = TRUE].ver = R.ver
OBVIOUS

(* The assessed issues again, by organisation.                              *)
LEMMA ScoreIssuesKeeps ==
  ASSUME IndexInv, NEW c \in Callers, NEW E \in SUBSET All("issue"), ScoreIssues(c, E)
  PROVE  IndexInv'
<1>1. E \in SUBSET Entities
  BY DEF All, Of
<1>2. row \in Rows /\ \A e \in Entities : row[e] \in [ver : {0} \cup Versions, assessed : BOOLEAN]
  BY DEF IndexInv, RowsOK, Rows
<1>3. /\ row' = [e \in Entities |-> IF e \in E THEN [row[e] EXCEPT !.assessed = TRUE] ELSE row[e]]
      /\ \A e \in E : Exists(e)
  BY DEF ScoreIssues
<1>4. \A e \in Entities : /\ row'[e] \in [ver : {0} \cup Versions, assessed : BOOLEAN]
                          /\ row'[e].ver = row[e].ver
  <2>1. SUFFICES ASSUME NEW e \in Entities
                 PROVE  /\ row'[e] \in [ver : {0} \cup Versions, assessed : BOOLEAN]
                        /\ row'[e].ver = row[e].ver
    OBVIOUS
  <2>2. row'[e] = IF e \in E THEN [row[e] EXCEPT !.assessed = TRUE] ELSE row[e]
    BY <1>3
  <2> QED
    BY <1>2, <2>2, AssessedFacts
<1>5. row' \in Rows
  BY <1>3, <1>4 DEF Rows
<1>6. PICK r, b : r = row' /\ b = BulkPerOrg(E, r)
  OBVIOUS
<1>7. \A e \in E : ~Gone(e)'
  BY <1>1, <1>3, <1>4 DEF Gone, Exists
<1>8. Timely(b)'
  BY <1>1, <1>5, <1>6, <1>7, PerOrgTimely
<1>9. Begin(c, {}, b) /\ UNCHANGED <<store, orphans>>
  BY <1>6 DEF ScoreIssues
<1>10. Reach({}) = {} /\ RowsOK'
  BY <1>5, ReachFacts DEF RowsOK, Rows
<1> QED
  BY <1>4, <1>8, <1>9, <1>10, WriterKeeps

(* The classified issues by organisation, then the aggregate of each.       *)
LEMMA ClassifyIssuesKeeps ==
  ASSUME IndexInv, NEW c \in Callers, NEW E \in SUBSET All("issue"), ClassifyIssues(c, E)
  PROVE  IndexInv'
<1>1. E \in SUBSET Entities /\ \A e \in E : TypeOf[e] = "issue"
  BY DEF All, Of
<1>2. row \in Rows /\ \A e \in Entities : row[e] \in [ver : {0} \cup Versions, assessed : BOOLEAN]
  BY DEF IndexInv, RowsOK, Rows
<1>3. /\ row' = [e \in Entities |-> IF e \in E THEN Newer(row[e]) ELSE row[e]]
      /\ \A e \in E : ~Exists(e)
  BY DEF ClassifyIssues
<1>4. /\ \A e \in Entities : row'[e] \in [ver : {0} \cup Versions, assessed : BOOLEAN]
      /\ \A e \in E : row'[e].ver > 0
      /\ \A e \in Entities \ E : row'[e].ver = row[e].ver
  <2>1. ASSUME NEW e \in E
        PROVE  /\ row'[e] \in [ver : {0} \cup Versions, assessed : BOOLEAN]
               /\ row'[e].ver > 0
    <3>1. row'[e] = Newer(row[e]) /\ e \in Entities
      BY <1>1, <1>3
    <3>2. row[e].ver \in {0} \cup Versions /\ ~(row[e].ver > 0)
      BY <1>2, <1>3, <3>1 DEF Exists
    <3>3. row[e].ver = 0
      <4>1. \A v \in Versions : v \in Nat /\ v > 0
        BY VersionFacts
      <4> QED
        BY <3>2, <4>1
    <3>4. row[e].ver + 1 \in Versions
      BY <3>3, VersionFacts
    <3> QED
      BY <1>2, <3>1, <3>4, NewerFacts
  <2>2. \A e \in Entities \ E : row'[e] = row[e]
    BY <1>3
  <2> QED
    BY <1>2, <2>1, <2>2
<1>5. row' \in Rows
  BY <1>3, <1>4 DEF Rows
<1>6. PICK r, b, orgs : r = row' /\ b = BulkPerOrg(E, r) /\ orgs = SetToSeq({OrgOf[e] : e \in E})
  OBVIOUS
<1>7. PICK aggregates, parts : /\ aggregates = [n \in DOMAIN orgs |-> ReadRows(orgs[n], "aggregate")]
                               /\ parts = b \o aggregates
  OBVIOUS
<1>8. \A e \in E : ~Gone(e)'
  BY <1>1, <1>4 DEF Gone, Exists
<1>9. /\ QueueOK(b) /\ Scopes(b) = E
      /\ \A n \in DOMAIN b : b[n].op = "clear" /\ \A q : \A e \in Scope(b[n]) : PartDue(b[n], q, e)'
  BY <1>1, <1>5, <1>6, <1>8, PerOrgTimely DEF Timely
<1>10. /\ orgs \in Seq(Orgs)
       /\ \A i, j \in DOMAIN orgs : orgs[i] = orgs[j] => i = j
       /\ \A e \in E : \E i \in DOMAIN orgs : orgs[i] = OrgOf[e]
  <2>1. PerOrg(E, r, orgs, b)
    BY <1>1, <1>5, <1>6, PerOrgFacts
  <2> QED
    BY <2>1 DEF PerOrg
<1>11. DOMAIN orgs = 1..Len(orgs) /\ Len(orgs) \in Nat /\ \A n \in DOMAIN orgs : orgs[n] \in Orgs
  BY <1>10
<1>12. ASSUME NEW n \in DOMAIN orgs
       PROVE  /\ aggregates[n] \in Parts /\ PartOK(aggregates[n]) /\ aggregates[n].op = "aggregate"
              /\ Scope(aggregates[n]) = Of(orgs[n], "aggregate")
  <2>1. PICK p : p = [op |-> "aggregate", org |-> orgs[n]]
    OBVIOUS
  <2>2. aggregates[n] = p
    BY <1>7, <2>1 DEF ReadRows
  <2>3. p.op = "aggregate" /\ p.org = orgs[n] /\ p \in [op : Types, org : Orgs]
    BY <1>11, <2>1 DEF Types
  <2>4. p \in Parts /\ Scope(p) = Of(orgs[n], "aggregate")
    BY <2>3 DEF Parts, Scope
  <2>5. PartOK(p)
    BY <2>3, <2>4 DEF PartOK, Of
  <2> QED
    BY <2>2, <2>3, <2>4, <2>5
<1>13. aggregates \in Seq(Parts) /\ DOMAIN aggregates = DOMAIN orgs
  BY <1>7, <1>11, <1>12
<1>14. parts \in Seq(Parts) /\ Behind(b, aggregates, parts)
  BY <1>7, <1>9, <1>13, Joined DEF QueueOK
\* Every part is of one kind or the other.
<1>15. ASSUME NEW n \in DOMAIN parts
       PROVE  \/ n \in DOMAIN b /\ parts[n] = b[n]
              \/ \E k \in DOMAIN orgs : n = Len(b) + k /\ parts[n] = aggregates[k]
  BY <1>13, <1>14 DEF Behind
<1>16. \A n \in DOMAIN parts : /\ PartOK(parts[n]) /\ parts[n].op \in {"clear", "aggregate"}
                               /\ \A e \in Scope(parts[n]) : PartDue(parts[n], parts, e)'
  <2>1. \A p : p.op = "aggregate" => \A q, e : PartDue(p, q, e)'
    BY DEF PartDue
  <2> QED
    BY <1>9, <1>12, <1>15, <2>1 DEF QueueOK
<1>17. ASSUME NEW m \in DOMAIN parts, NEW n \in DOMAIN parts, m # n
       PROVE  Scope(parts[m]) \cap Scope(parts[n]) = {}
  <2>1. \A k \in DOMAIN b : Scope(b[k]) \subseteq E
    BY <1>9 DEF Scopes
  <2>2. \A k, j \in DOMAIN b : k # j => Scope(b[k]) \cap Scope(b[j]) = {}
    BY <1>9 DEF QueueOK, Rebuilds
  <2>3. \A k, j \in DOMAIN orgs : k # j => Scope(aggregates[k]) \cap Scope(aggregates[j]) = {}
    <3>1. \A o, u : o # u => Of(o, "aggregate") \cap Of(u, "aggregate") = {}
      BY DEF Of
    <3>2. \A k, j \in DOMAIN orgs : k # j => orgs[k] # orgs[j]
      BY <1>10
    <3>3. \A k \in DOMAIN orgs : Scope(aggregates[k]) = Of(orgs[k], "aggregate")
      BY <1>12
    <3> QED
      BY <3>1, <3>2, <3>3
  <2>4. \A k \in DOMAIN b, j \in DOMAIN orgs : Scope(b[k]) \cap Scope(aggregates[j]) = {}
    BY <1>1, <1>12, <2>1 DEF Of
  <2> QED
    BY <1>15, <1>17, <2>2, <2>3, <2>4
<1>18. QueueOK(parts)
  BY <1>14, <1>16, <1>17 DEF QueueOK
<1>19. E \subseteq Scopes(parts)
  <2>1. \A k \in DOMAIN b : k \in DOMAIN parts /\ parts[k] = b[k]
    BY <1>14 DEF Behind
  <2> QED
    BY <1>9, <2>1 DEF Scopes
<1>20. \A o \in {OrgOf[e] : e \in E} : Of(o, "aggregate") \subseteq Scopes(parts)
  <2>1. SUFFICES ASSUME NEW x \in E
                 PROVE  Of(OrgOf[x], "aggregate") \subseteq Scopes(parts)
    OBVIOUS
  <2>2. PICK k \in DOMAIN orgs : orgs[k] = OrgOf[x]
    BY <1>10
  <2>3. Len(b) + k \in DOMAIN parts /\ parts[Len(b) + k] = aggregates[k]
    BY <1>13, <1>14 DEF Behind
  <2> QED
    BY <1>12, <2>2, <2>3 DEF Scopes
<1>21. Reach(E) \subseteq Scopes(parts)
  BY <1>1, <1>19, <1>20, ReachFacts
<1>22. ASSUME NEW e \in Scopes(parts), Gone(e)'
       PROVE  FALSE
  <2>1. PICK n \in DOMAIN parts : e \in Scope(parts[n])
    BY <1>22 DEF Scopes
  <2>2. CASE n \in DOMAIN b /\ parts[n] = b[n]
    <3>1. e \in E
      BY <1>9, <2>1, <2>2 DEF Scopes
    <3> QED
      BY <1>8, <1>22, <3>1
  <2>3. CASE \E k \in DOMAIN orgs : parts[n] = aggregates[k]
    BY <1>12, <1>22, <2>1, <2>3 DEF Of, Gone
  <2> QED
    BY <1>15, <2>2, <2>3
<1>23. Timely(parts)'
  BY <1>16, <1>18, <1>22 DEF Timely
<1>24. Begin(c, E, parts) /\ UNCHANGED <<store, orphans>>
  BY <1>6, <1>7, Zenon DEF ClassifyIssues
<1>25. RowsOK'
  BY <1>5 DEF RowsOK, Rows
<1> QED
  BY <1>1, <1>4, <1>21, <1>23, <1>24, <1>25, WriterKeeps

(* The chunks of the old rows of a document are purged, those of the new    *)
(* row come.                                                                *)
LEMMA ExtractControlsKeeps ==
  ASSUME IndexInv, NEW c \in Callers, NEW o \in Orgs, NEW old \in SUBSET Of(o, "control"),
         NEW new \in Of(o, "control"), ExtractControls(c, o, old, new)
  PROVE  IndexInv'
<1> DEFINE E == old \cup {new}
<1>1. /\ E \in SUBSET Entities /\ new \in Entities /\ new \notin old
      /\ \A e \in E : OrgOf[e] = o /\ TypeOf[e] = "control"
  BY DEF Of, ExtractControls
<1>2. row \in Rows /\ \A e \in Entities : row[e] \in [ver : {0} \cup Versions, assessed : BOOLEAN]
  BY DEF IndexInv, RowsOK, Rows
<1>3. row' = [e \in Entities |-> IF e \in old THEN NoRow
                                  ELSE IF e = new THEN Newer(NoRow) ELSE row[e]]
  BY DEF ExtractControls
<1>4. NoRow \in [ver : {0} \cup Versions, assessed : BOOLEAN] /\ NoRow.ver = 0
  BY DEF NoRow
<1>5. Newer(NoRow) \in [ver : {0} \cup Versions, assessed : BOOLEAN] /\ Newer(NoRow).ver > 0
  <2>1. NoRow.ver + 1 \in Versions
    BY <1>4, VersionFacts
  <2> QED
    BY <1>4, <2>1, NewerFacts
<1>6. /\ \A e \in Entities : row'[e] \in [ver : {0} \cup Versions, assessed : BOOLEAN]
      /\ row'[new].ver > 0 /\ \A e \in old : row'[e].ver = 0
      /\ \A e \in Entities \ E : row'[e].ver = row[e].ver
  <2>1. row'[new] = Newer(NoRow)
    BY <1>1, <1>3
  <2>2. \A e \in old : row'[e] = NoRow
    BY <1>1, <1>3
  <2>3. \A e \in Entities \ E : row'[e] = row[e]
    BY <1>3
  <2> QED
    BY <1>2, <1>4, <1>5, <2>1, <2>2, <2>3
<1>7. row' \in Rows
  BY <1>3, <1>6 DEF Rows
<1>8. PICK r, t, p : r = row' /\ t = Text(new, r) /\ p = IndexBulk(o, <<t>>)
  OBVIOUS
<1>9. Indexes(p, {new}, r)
  <2>1. p = [op |-> "clear", org |-> OrgOf[new], texts |-> <<t>>, window |-> Window] /\ Window \in Nat
    BY <1>1, <1>8, IndexAssumption DEF IndexBulk
  <2> QED
    BY <1>1, <1>7, <1>8, <2>1, OneFacts
<1>10. ~Gone(new)' /\ \A e \in old : Gone(e)'
  BY <1>1, <1>6 DEF Gone, Exists
<1>11. PICK parts : parts = IF old = {} THEN <<p>> ELSE <<PurgeIds(o, old), p>>
  OBVIOUS
<1>12. Timely(parts)' /\ E \subseteq Scopes(parts)
  <2>1. CASE old = {}
    <3>1. parts = <<p>> /\ \A e \in {new} : ~Gone(e)'
      BY <1>10, <1>11, <2>1
    <3>2. Timely(parts)' /\ Scopes(parts) = {new}
      BY <1>8, <1>9, <3>1, OneTimely
    <3> QED
      BY <2>1, <3>2
  <2>2. CASE old # {}
    <3>1. PICK u : u = PurgeIds(o, old)
      OBVIOUS
    <3>2. u = [op |-> "purge", org |-> o, of |-> old]
      BY <3>1 DEF PurgeIds
    <3>3. u.op = "purge" /\ u.org = o /\ u.of = old /\ u \in Parts
      BY <1>1, <3>2 DEF Parts
    <3>4. Scope(u) = old
      BY <3>3 DEF Scope
    <3>5. PartOK(u)
      BY <1>1, <3>3, <3>4 DEF PartOK
    <3>6. p \in Parts /\ PartOK(p) /\ p.op = "clear" /\ Scope(p) = {new}
      BY <1>9 DEF Indexes
    <3>7. parts = <<u, p>>
      BY <1>11, <2>2, <3>1
    <3>8. DOMAIN parts = {1, 2} /\ parts[1] = u /\ parts[2] = p /\ parts \in Seq(Parts)
      BY <3>3, <3>6, <3>7
    <3>9. QueueOK(parts)
      BY <3>3, <3>5, <3>6, <3>8 DEF QueueOK, Rebuilds
    <3>10. \A e \in old : PartDue(u, parts, e)'
      BY <1>10, <3>3 DEF PartDue
    <3>11. \A e \in {new} : PartDue(p, parts, e)'
      BY <1>8, <1>9, <1>10, IndexesDueNow
    <3>12. Scopes(parts) = E
      BY <3>4, <3>6, <3>8 DEF Scopes
    <3>13. \A e \in Scopes(parts) : Gone(e)' => \E n \in DOMAIN parts :
              parts[n].op = "purge" /\ e \in parts[n].of
      BY <1>10, <3>3, <3>8, <3>12
    <3>14. \A n \in DOMAIN parts : \A e \in Scope(parts[n]) : PartDue(parts[n], parts, e)'
      BY <3>4, <3>6, <3>8, <3>10, <3>11
    <3>15. \A n \in DOMAIN parts : parts[n].op # "upsert"
      BY <3>3, <3>6, <3>8
    <3> QED
      BY <3>9, <3>12, <3>13, <3>14, <3>15 DEF Timely
  <2> QED
    BY <2>1, <2>2
<1>13. Begin(c, E, parts) /\ UNCHANGED <<store, orphans>>
  <2>1. parts = (IF old = {} THEN <<>> ELSE <<PurgeIds(o, old)>>) \o <<p>>
    <3>1. p \in Parts /\ <<>> \in Seq(Parts) /\ <<p>> \in Seq(Parts)
      BY <1>9 DEF Indexes
    <3>2. <<>> \o <<p>> = <<p>>
      BY <3>1
    <3>3. <<PurgeIds(o, old)>> \o <<p>> = <<PurgeIds(o, old), p>>
      BY TwoParts
    <3> QED
      BY <1>11, <3>2, <3>3
  <2> QED
    BY <1>8, <2>1, Zenon DEF ExtractControls
<1>14. Reach(E) = E
  BY <1>1, ReachFacts
<1>15. RowsOK'
  BY <1>7 DEF RowsOK, Rows
<1> QED
  BY <1>1, <1>6, <1>12, <1>13, <1>14, <1>15, WriterKeeps

(* The whole organisation: a purge, then every type of row.                 *)
LEMMA ReindexKeeps ==
  ASSUME IndexInv, NEW c \in Callers, NEW o \in Orgs, Reindex(c, o)
  PROVE  IndexInv'
<1>1. PICK parts, all : parts = ReindexOrg(o) /\ all = {e \in Entities : OrgOf[e] = o}
  OBVIOUS
<1>2. PICK u, k, i, a, r : /\ u = PurgeOrg(o) /\ k = ReadRows(o, "control")
                           /\ i = ReadRows(o, "issue") /\ a = ReadRows(o, "aggregate")
                           /\ r = ReadRows(o, "risk")
  OBVIOUS
<1>3. parts = <<u, k, i, a, r>>
  BY <1>1, <1>2 DEF ReindexOrg
<1>4. u.op = "purge" /\ u.org = o /\ u.of = all /\ u \in Parts /\ PartOK(u) /\ Scope(u) = all
  <2>1. u = [op |-> "purge", org |-> o, of |-> all]
    BY <1>1, <1>2 DEF PurgeOrg
  <2>2. u.op = "purge" /\ u.org = o /\ u.of = all /\ u \in Parts
    BY <1>1, <2>1 DEF Parts
  <2>3. Scope(u) = all
    BY <2>2 DEF Scope
  <2> QED
    BY <1>1, <2>2, <2>3 DEF PartOK
<1>5. ASSUME NEW type \in Types, NEW p, p = ReadRows(o, type)
      PROVE  p \in Parts /\ PartOK(p) /\ p.op = type /\ Scope(p) = Of(o, type)
  <2>1. p = [op |-> type, org |-> o]
    BY <1>5 DEF ReadRows
  <2>2. p.op = type /\ p.org = o /\ p \in Parts
    BY <2>1 DEF Parts
  <2>3. Scope(p) = Of(o, type)
    BY <2>2 DEF Scope, Types
  <2>4. PartOK(p)
    BY <2>2, <2>3 DEF PartOK, Of, Types
  <2> QED
    BY <2>2, <2>3, <2>4
<1>6. /\ k \in Parts /\ PartOK(k) /\ k.op = "control" /\ Scope(k) = Of(o, "control")
      /\ i \in Parts /\ PartOK(i) /\ i.op = "issue" /\ Scope(i) = Of(o, "issue")
      /\ a \in Parts /\ PartOK(a) /\ a.op = "aggregate" /\ Scope(a) = Of(o, "aggregate")
      /\ r \in Parts /\ PartOK(r) /\ r.op = "risk" /\ Scope(r) = Of(o, "risk")
  BY <1>2, <1>5 DEF Types
<1>7. /\ DOMAIN parts = 1..5 /\ parts \in Seq(Parts)
      /\ parts[1] = u /\ parts[2] = k /\ parts[3] = i /\ parts[4] = a /\ parts[5] = r
  BY <1>3, <1>4, <1>6
<1>8. \A n \in DOMAIN parts : n \in {1, 2, 3, 4, 5}
  BY <1>7
<1>9. \A s, t : s # t => Of(o, s) \cap Of(o, t) = {}
  BY DEF Of
<1>10. \A m, n \in DOMAIN parts : m # n /\ Rebuilds(parts[m]) /\ Rebuilds(parts[n]) =>
          Scope(parts[m]) \cap Scope(parts[n]) = {}
  BY <1>4, <1>6, <1>7, <1>8, <1>9 DEF Rebuilds
<1>11. \A n \in DOMAIN parts : PartOK(parts[n]) /\ (parts[n].op \in {"purge", "upsert"} => n = 1)
  BY <1>4, <1>6, <1>7, <1>8
<1>12. QueueOK(parts)
  BY <1>7, <1>10, <1>11 DEF QueueOK
<1>13. \A e \in all : \E n \in DOMAIN parts : Rebuilds(parts[n]) /\ e \in Scope(parts[n])
  <2>1. SUFFICES ASSUME NEW e \in all
                 PROVE  \E n \in DOMAIN parts : Rebuilds(parts[n]) /\ e \in Scope(parts[n])
    OBVIOUS
  <2>2. TypeOf[e] \in Types /\ e \in Of(o, TypeOf[e])
    BY <1>1, IndexAssumption DEF Of, Types
  <2>3. 2 \in DOMAIN parts /\ 3 \in DOMAIN parts /\ 4 \in DOMAIN parts /\ 5 \in DOMAIN parts
    BY <1>7
  <2>4. Rebuilds(k) /\ Rebuilds(i) /\ Rebuilds(a) /\ Rebuilds(r)
    BY <1>6 DEF Rebuilds
  <2>5. e \in Scope(k) \/ e \in Scope(i) \/ e \in Scope(a) \/ e \in Scope(r)
    BY <1>6, <2>2 DEF Types
  <2> QED
    BY <1>7, <2>3, <2>4, <2>5
<1>14. /\ \A n \in DOMAIN parts : \A e \in Scope(parts[n]) : PartDue(parts[n], parts, e)'
       /\ \A n \in DOMAIN parts : parts[n].op # "upsert"
  <2>1. \A e \in all : PartDue(u, parts, e)'
    BY <1>4, <1>13 DEF PartDue
  <2>2. \A p : p.op \in Types => \A q, e : PartDue(p, q, e)'
    BY DEF PartDue, Types
  <2> QED
    BY <1>4, <1>6, <1>7, <1>8, <2>1, <2>2 DEF Types
<1>15. \A e \in Scopes(parts) : \E n \in DOMAIN parts : parts[n].op = "purge" /\ e \in parts[n].of
  <2>1. Scopes(parts) \subseteq all
    BY <1>1, <1>4, <1>6, <1>7, <1>8, ScopesFacts, <1>12 DEF Scopes, Of
  <2> QED
    BY <1>4, <1>7, <2>1
<1>16. Timely(parts)'
  BY <1>12, <1>14, <1>15 DEF Timely
<1>17. Begin(c, {}, parts) /\ row' = row /\ UNCHANGED <<store, orphans>>
  BY <1>1 DEF Reindex
<1>18. Reach({}) = {} /\ RowsOK'
  BY <1>17, ReachFacts DEF RowsOK, IndexInv
<1> QED
  BY <1>16, <1>17, <1>18, WriterKeeps

(* No call follows a delete: what is gone, and the aggregate it was in, are  *)
(* orphans, and disturbed in the hands of who is at them.                   *)
LEMMA DeleteIssuesKeeps ==
  ASSUME IndexInv, NEW o \in Orgs, DeleteIssues(o)
  PROVE  IndexInv'
<1>1. PICK gone : gone = {e \in Of(o, "issue") : Exists(e)}
  OBVIOUS
<1>2. /\ row' = [e \in Entities |-> IF e \in gone THEN NoRow ELSE row[e]]
      /\ orphans' = orphans \cup Reach(gone)
      /\ disturbed' = disturbed \cup (Reach(gone) \cap UNION {Scopes(call[d]) : d \in Callers})
      /\ UNCHANGED <<store, call>>
  BY <1>1 DEF DeleteIssues
<1>3. gone \in SUBSET Entities /\ Reach(gone) \subseteq Entities
  BY <1>1, ReachFacts DEF Of
<1>4. row \in Rows /\ NoRow \in [ver : {0} \cup Versions, assessed : BOOLEAN]
  BY DEF IndexInv, RowsOK, Rows, NoRow
<1>5. row' \in Rows /\ RowsOK' /\ \A x \in Entities \ gone : row'[x].ver = row[x].ver
  BY <1>2, <1>4 DEF Rows, RowsOK
<1>6. \A e \in Entities \ Reach(gone) : SameRow(e)
  BY <1>3, <1>5, WriteSame DEF IndexInv
<1>7. StoreOK' /\ Keys' /\ \A e : SameChunks(e)
  BY <1>2 DEF StoreOK, Keys, IndexInv, TypeOK, SameChunks, ChunksOfEntity
<1>8. CallsOK' /\ Alone'
  BY <1>2 DEF CallsOK, Alone, IndexInv
<1>9. ASSUME NEW d \in Callers, NEW n \in DOMAIN call[d], NEW e \in Scope(call[d][n]) \ disturbed'
      PROVE  PartDue(call[d][n], call[d], e)'
  <2>1. PICK u, p : u = call[d] /\ p = call[d][n]
    OBVIOUS
  <2>2. e \in Scopes(call[d]) /\ e \in Entities
    <3>1. e \in Scopes(call[d])
      BY DEF Scopes
    <3> QED
      BY <3>1, ScopesFacts DEF IndexInv, CallsOK
  <2>3. e \notin disturbed /\ SameRow(e)
    BY <1>2, <1>6, <1>9, <2>2
  <2>4. PartDue(p, u, e)
    BY <1>9, <2>1, <2>3 DEF CallsDue, IndexInv
  <2>5. PartDue(p, u, e)'
    BY <1>5, <1>7, <2>2, <2>3, <2>4, SameFacts DEF IndexInv
  <2> QED
    BY <1>2, <2>1, <2>5
<1>10. CallsDue'
  BY <1>2, <1>9 DEF CallsDue
<1>11. ASSUME NEW e \in Entities \ (disturbed' \cup orphans'),
              \/ \A d \in Callers : e \notin Scopes(call[d])
              \/ Gone(e)' /\ ~Purged(e)
       PROVE  Mirrored(e)'
  <2>1. e \notin disturbed /\ e \notin orphans /\ SameRow(e)
    BY <1>2, <1>6, <1>11
  <2>2. Mirrored(e)
    BY <1>11, <2>1 DEF RestOK, IndexInv, SameRow
  <2> QED
    BY <1>5, <1>7, <2>1, <2>2, SameFacts DEF IndexInv
<1>12. RestOK'
  <2>1. \A e : Purged(e)' <=> Purged(e)
    BY <1>2 DEF Purged
  <2> QED
    BY <1>2, <1>11, <2>1 DEF RestOK
<1>13. disturbed' \subseteq Entities /\ orphans' \subseteq Entities
  BY <1>2, <1>3 DEF IndexInv, TypeOK
<1> QED
  BY <1>5, <1>7, <1>8, <1>10, <1>12, <1>13, InvFrom DEF QueuesOK

(* A step that changes nothing keeps the invariant.                        *)
LEMMA StutterKeeps == IndexInv /\ UNCHANGED vars => IndexInv'
<1> SUFFICES ASSUME IndexInv, UNCHANGED vars PROVE IndexInv'
  OBVIOUS
<1>1. RowsOK' /\ RowsOK /\ \A e : SameRow(e) /\ SameChunks(e)
  BY SameRows DEF vars, IndexInv, RowsOK, SameChunks, ChunksOfEntity
<1>2. StoreOK' /\ Keys' /\ CallsOK' /\ Alone'
  BY DEF vars, IndexInv, StoreOK, Keys, TypeOK, CallsOK, Alone
<1>3. call' = call /\ disturbed' = disturbed /\ orphans' = orphans
  BY DEF vars
<1>4. ASSUME NEW d \in Callers, NEW n \in DOMAIN call[d], NEW e \in Scope(call[d][n]) \ disturbed
      PROVE  PartDue(call[d][n], call[d], e)'
  <2>1. PICK u, p : u = call[d] /\ p = call[d][n]
    OBVIOUS
  <2>2. e \in Entities
    <3>1. e \in Scopes(call[d])
      BY DEF Scopes
    <3> QED
      BY <3>1, ScopesFacts DEF IndexInv, CallsOK
  <2>3. PartDue(p, u, e)
    BY <1>4, <2>1 DEF CallsDue, IndexInv
  <2>4. PartDue(p, u, e)'
    BY <1>1, <2>2, <2>3, SameFacts
  <2> QED
    BY <1>3, <2>1, <2>4
<1>5. CallsDue'
  BY <1>3, <1>4 DEF CallsDue
<1>6. RestOK'
  <2>1. \A e : Purged(e)' <=> Purged(e)
    BY <1>3 DEF Purged
  <2>2. \A e \in Entities : (Mirrored(e)' <=> Mirrored(e)) /\ (Gone(e)' <=> Gone(e))
    BY <1>1, SameFacts DEF SameRow
  <2> QED
    BY <1>3, <2>1, <2>2 DEF RestOK, IndexInv
<1> QED
  BY <1>1, <1>2, <1>3, <1>5, <1>6, InvFrom DEF QueuesOK, IndexInv, TypeOK

(* At first there is nothing to index.                                      *)
LEMMA IndexInit == Init => IndexInv
<1> SUFFICES ASSUME Init PROVE IndexInv
  OBVIOUS
<1>1. RowsOK
  BY DEF Init, RowsOK, NoRow
<1>2. \A e \in Entities : row[e].ver = 0
  BY DEF Init, NoRow
<1>3. TypeOK /\ StoreOK
  BY <1>2 DEF Init, TypeOK, StoreOK
<1>4. DOMAIN call = Callers /\ \A c \in Callers : call[c] = <<>> /\ Scopes(call[c]) = {}
  BY DEF Init, Scopes
<1>5. QueueOK(<<>>)
  BY DEF QueueOK
<1>6. CallsOK /\ Alone /\ CallsDue
  BY <1>4, <1>5 DEF CallsOK, Alone, CallsDue
<1>7. ASSUME NEW e \in Entities
      PROVE  Mirrored(e)
  <2>1. \A x \in Sources(e) : ~(row[x].ver > 0)
    BY <1>2 DEF Sources, Of
  <2>2. Text(e, row).of = {}
    BY <2>1 DEF Text
  <2>3. Size(e) = 0
    BY <2>2 DEF Size, ChunkCount
  <2>4. ChunksOfEntity(e) = {}
    BY DEF Init, ChunksOfEntity
  <2> QED
    BY <2>3, <2>4 DEF Mirrored, AllGood
<1>8. RestOK
  BY <1>7 DEF RestOK
<1> QED
  BY <1>1, <1>3, <1>6, <1>8 DEF IndexInv

(* Whatever is written, raced, deleted or fails, in any order.              *)
LEMMA IndexStep == IndexInv /\ [Next]_vars => IndexInv'
<1> SUFFICES ASSUME IndexInv, [Next]_vars PROVE IndexInv'
  OBVIOUS
<1>1. ASSUME NEW c \in Callers,
             \/ \E e \in All("risk") : WriteRow(c, e)
             \/ \E E \in SUBSET All("issue") : ClassifyIssues(c, E) \/ ScoreIssues(c, E)
      PROVE  IndexInv'
  BY <1>1, WriteRowKeeps, ClassifyIssuesKeeps, ScoreIssuesKeeps
<1>2. ASSUME NEW c \in Callers, NEW o \in Orgs,
             \E old \in SUBSET Of(o, "control"), new \in Of(o, "control") :
                ExtractControls(c, o, old, new)
      PROVE  IndexInv'
  BY <1>2, ExtractControlsKeeps
<1>3. ASSUME NEW c \in Callers, NEW o \in Orgs, Reindex(c, o)
      PROVE  IndexInv'
  BY <1>3, ReindexKeeps
<1>4. ASSUME NEW c \in Callers, Purge(c) \/ ReadType(c) \/ ClearPrior(c) \/ UpsertWindow(c)
      PROVE  IndexInv'
  BY <1>4, PurgeKeeps, ReadTypeKeeps, ClearPriorKeeps, UpsertWindowKeeps
<1>5. ASSUME NEW o \in Orgs, DeleteIssues(o)
      PROVE  IndexInv'
  BY <1>5, DeleteIssuesKeeps
<1>6. CASE UNCHANGED vars
  BY <1>6, StutterKeeps
<1> QED
  BY <1>1, <1>2, <1>3, <1>4, <1>5, <1>6 DEF Next

(* The invariant holds in every behaviour.                                 *)
LEMMA InvHolds == Spec => []IndexInv
<1> QED
  BY IndexInit, IndexStep, PTL DEF Spec

(* Rows and chunks keep their types, and a chunk its primary key: one of an *)
(* entity and number (make_chunk_id), however many callers upsert at once.  *)
THEOREM TypesHold == Spec => []TypeOK
<1>1. IndexInv => TypeOK
  BY DEF IndexInv
<1> QED
  BY <1>1, InvHolds, PTL

(* When nobody is at a row any more and the last that was had it for itself *)
(* and had no failure, the index holds exactly its chunks: after a bulk in  *)
(* any windows, a purge, or a reindex of the organisation beside which the  *)
(* rows of others were written.                                             *)
THEOREM IndexMirrors == Spec => []IndexMirrorsRows
<1>1. IndexInv => IndexMirrorsRows
  <2> SUFFICES ASSUME IndexInv, NEW e \in Entities \ orphans, Settled(e)
               PROVE  {Plain(b) : b \in ChunksOfEntity(e)} =
                        IF Exists(e) \/ TypeOf[e] = "aggregate"
                        THEN {Plain(b) : b \in Records(OrgOf[e], Text(e, row))}
                        ELSE {}
    BY DEF IndexMirrorsRows
  <2>1. Mirrored(e)
    BY DEF Settled, RestOK, IndexInv
  <2>2. /\ {Plain(b) : b \in ChunksOfEntity(e)} =
             {Plain(b) : b \in Records(OrgOf[e], Text(e, row))}
        /\ Gone(e) => ChunksOfEntity(e) = {}
    BY <2>1, MirrorFacts DEF IndexInv
  <2> QED
    BY <2>2 DEF Gone
<1> QED
  BY <1>1, InvHolds, PTL

=============================================================================
