--------------------------- MODULE MemoryLifecycle ---------------------------
(***************************************************************************)
(* The semantic memory: lessons that workers learn from executions, kept   *)
(* in PostgreSQL (ai_memories), made searchable in Qdrant (an external     *)
(* vector index), and recalled into later prompts.                         *)
(*                                                                         *)
(* reflectAndAdmit (a Reflector) turns an execution into candidate lessons *)
(* and admits them one after the other: look for a duplicate, insert the   *)
(* row, upsert the vector, record it in ai_memory_embeddings.  A           *)
(* consolidation pass (a Consolidator), which every worker starts on a     *)
(* timer, expires and marks stale, and retries what was not indexed.       *)
(* recall (a Recaller) searches the index and reads the row behind every   *)
(* hit.  Each await is a step; nothing is in a transaction.                *)
(*                                                                         *)
(* A lesson stands for a fingerprint: type, repository and normalised      *)
(* content.  Confidence is fixed by the type and the counters of use feed  *)
(* only promotion and archiving, which no row ever qualifies for (the      *)
(* README says why), so neither is kept.  A definition X_Y that precedes X *)
(* is a variant of X with one plausible defect.                            *)
(***************************************************************************)
EXTENDS Integers, Sequences, FiniteSets

CONSTANTS
    Lesson,
    Repository, RepositoryOf,   \* [Lesson -> Repository]
    MemoryType, TypeOf,         \* [Lesson -> MemoryType]
    Transient,                  \* the types that computeExpiry dates
    Near,                       \* pairs of contents above the similarity bound
    Invalid,                    \* lessons that the candidate schema refuses
    Ineligible,                 \* lessons that evaluateEligibility rejects
    Reports,                    \* what executions teach: sequences of lessons
    Reflector, Consolidator, Recaller,
    Execution, RepositoryFor,   \* [Execution -> Repository]
    Score,                      \* [Lesson -> Nat]: relevance to the tasks
    Threshold, TopK, CandidateLimit,
    TypeCap,                    \* [MemoryType -> Nat]
    SameTitlePenalty,           \* lambda of the diversity selection
    StoreEnabled,               \* AI_MEMORY_ENABLED
    BatchSize,                  \* rows that consolidation takes at a time
    MaxCalls, MaxMemories, MaxAged, MaxOutages, MaxFaults,
    NoLesson, NoPoint

ASSUME MemoryAssumption ==
    /\ RepositoryOf \in [Lesson -> Repository]
    /\ TypeOf \in [Lesson -> MemoryType]
    /\ Transient \subseteq MemoryType
    /\ Near \subseteq Lesson \X Lesson
    /\ \A l \in Lesson : <<l, l>> \in Near
    /\ Invalid \subseteq Lesson /\ Ineligible \subseteq Lesson
    /\ Reports \subseteq Seq(Lesson) \ {<<>>}
    /\ Execution # {}
    /\ RepositoryFor \in [Execution -> Repository]
    /\ Score \in [Lesson -> Nat]
    /\ TypeCap \in [MemoryType -> Nat]
    /\ StoreEnabled \in BOOLEAN
    /\ {Threshold, TopK, CandidateLimit, SameTitlePenalty, BatchSize, MaxCalls,
        MaxMemories, MaxAged, MaxOutages, MaxFaults} \subseteq Nat
    /\ NoLesson \notin Lesson

Memory == 1..MaxMemories

\* The point admission generates for a memory, and the one reindexing names
\* pt_<memory>.
Origin == {"admission", "reindex"}
Point == Memory \X Origin
ASSUME PointAssumption == NoPoint \notin Point

VARIABLES
    \* PostgreSQL
    lesson,      \* ai_memories: the lesson of each row
    status,      \* and its status
    embedding,   \* ai_memory_embeddings: at most one row a memory
    influence,   \* ai_memory_influences: rows inf_<execution>_<rank>
    \* Qdrant
    index,
    \* the clock: rows past expiresAt and past the staleness cutoff
    aged,
    \* calls in flight
    reflector, consolidator, recaller,
    \* candidates and recalls so far
    calls,
    \* failures of the index or the embeddings, and of all else
    outages, faults

rows == <<lesson, status>>
vars == <<rows, embedding, index, aged, reflector, consolidator, recaller,
          influence, calls, outages, faults>>
-----------------------------------------------------------------------------
Status == {"active", "expired", "stale"}
Embedding == [status : {"none", "pending", "indexed"}, point : Point \cup {NoPoint}]

IdleReflector == [pc |-> "idle", todo |-> <<>>, memory |-> 0]
IdleConsolidator == [pc |-> "idle", todo |-> {}, memory |-> 0]
IdleRecaller == [pc |-> "idle", execution |-> CHOOSE e \in Execution : TRUE,
                 hits |-> {}, loaded |-> {}, selected |-> <<>>, rank |-> 0,
                 gone |-> {}]

NotEmbedded == [status |-> "none", point |-> NoPoint]
Pending_Failed == [status |-> "failed", point |-> NoPoint]
Pending == [status |-> "pending", point |-> NoPoint]
Indexed(p) == [status |-> "indexed", point |-> p]

TypeOK ==
    /\ lesson \in [Memory -> Lesson \cup {NoLesson}]
    /\ status \in [Memory -> Status]
    /\ embedding \in [Memory -> Embedding]
    /\ influence \in [Execution \X (1..TopK) -> Memory \cup {0}]
    /\ index \subseteq Point
    /\ aged \subseteq Memory
    /\ reflector \in [Reflector ->
          [pc : {"idle", "lookup", "search", "create", "index", "record", "queue"},
           todo : Seq(Lesson), memory : Memory \cup {0}]]
    /\ consolidator \in [Consolidator ->
          [pc : {"idle", "list", "stale", "reindex", "mark"},
           todo : SUBSET Memory, memory : Memory \cup {0}]]
    /\ recaller \in [Recaller ->
          [pc : {"idle", "load", "record"}, execution : Execution,
           hits : SUBSET Point, loaded : SUBSET Point,
           selected : Seq(Memory), rank : 0..TopK + 1, gone : SUBSET Memory]]
    /\ calls \in 0..MaxCalls
    /\ outages \in 0..MaxOutages
    /\ faults \in 0..MaxFaults

Init ==
    /\ lesson = [m \in Memory |-> NoLesson]
    /\ status = [m \in Memory |-> "active"]
    /\ embedding = [m \in Memory |-> NotEmbedded]
    /\ influence = [r \in Execution \X (1..TopK) |-> 0]
    /\ index = {}
    /\ aged = {}
    /\ reflector = [r \in Reflector |-> IdleReflector]
    /\ consolidator = [c \in Consolidator |-> IdleConsolidator]
    /\ recaller = [q \in Recaller |-> IdleRecaller]
    /\ calls = 0
    /\ outages = 0
    /\ faults = 0

Outage == outages < MaxOutages /\ outages' = outages + 1 /\ UNCHANGED faults
Fault == faults < MaxFaults /\ faults' = faults + 1 /\ UNCHANGED outages
NoFault == UNCHANGED <<outages, faults>>

Start(n) == calls + n <= MaxCalls /\ calls' = calls + n

Stored == {m \in Memory : lesson[m] # NoLesson}
-----------------------------------------------------------------------------
(* Reading the table and the index.                                        *)

\* computeExpiry: only transient types have an expiresAt.
Overdue(m) == m \in aged /\ TypeOf[lesson[m]] \in Transient

\* findByFingerprint: rows of any status.
ByFingerprint(l) == {m \in Stored : lesson[m] = l}

\* search with the filter of detectDuplicate, which names no status, and the
\* similarity bound on the hit.
SameScope_AnyRepository(l, k) == TypeOf[l] = TypeOf[k]
SameScope(l, k) == TypeOf[l] = TypeOf[k] /\ RepositoryOf[l] = RepositoryOf[k]
Similar(l) == {p \in index : /\ SameScope(l, lesson[p[1]])
                             /\ <<l, lesson[p[1]]>> \in Near}

\* The canonical check of recall, on the row.
Forgotten(m) == status[m] # "active" \/ Overdue(m)
Live_ByIndex(m, repository) == RepositoryOf[lesson[m]] = repository
Live(m, repository) == RepositoryOf[lesson[m]] = repository /\ ~Forgotten(m)

\* A vector is in the index of a repository under status "active" for ever:
\* nothing updates or deletes points.
InIndexOf(repository) == {p \in index : RepositoryOf[lesson[p[1]]] = repository}
-----------------------------------------------------------------------------
(* reflectAndAdmit.                                                        *)

At(r, pc) == reflector[r].pc = pc
Candidate(r) == Head(reflector[r].todo)
Goto(r, pc) == reflector' = [reflector EXCEPT ![r].pc = pc]

\* The candidate is done with: the next one, or the end of the call.
Proceed(r) == LET todo == Tail(reflector[r].todo)
            IN  reflector' = [reflector EXCEPT ![r] =
                    IF todo = <<>> THEN IdleReflector
                    ELSE [pc |-> "lookup", todo |-> todo, memory |-> 0]]

\* An exception of admitMemory: the remaining candidates are lost.
Abandon(r) == reflector' = [reflector EXCEPT ![r] = IdleReflector]

\* reflect: an execution that ended yields its candidates.
Reflect(r, report) ==
    /\ At(r, "idle")
    /\ Start(Len(report))
    /\ reflector' = [reflector EXCEPT ![r] =
                        [pc |-> "lookup", todo |-> report, memory |-> 0]]
    /\ NoFault
    /\ UNCHANGED <<rows, embedding, index, aged, consolidator, recaller, influence>>

\* MemoryCandidateSchema: a summary that is too long, for one, makes it throw.
IsValid(l) == l \notin Invalid

\* evaluateEligibility: length, wording, importance, confidence.
IsEligible(l) == l \notin Ineligible

\* Validation, eligibility, and the duplicate by fingerprint.
Lookup(r) ==
    LET l == Candidate(r)
    IN  /\ At(r, "lookup")
        /\ \/ ~IsValid(l) /\ Abandon(r)
           \/ IsValid(l) /\ (~IsEligible(l) \/ ByFingerprint(l) # {}) /\ Proceed(r)
           \/ /\ IsValid(l) /\ IsEligible(l)
              /\ ByFingerprint(l) = {}
              /\ Goto(r, IF StoreEnabled THEN "search" ELSE "create")
        /\ NoFault
        /\ UNCHANGED <<rows, embedding, index, aged, consolidator, recaller, influence, calls>>

\* The duplicate by similarity; without an index the candidate is new.
SearchSimilar(r) ==
    /\ At(r, "search")
    /\ \/ Similar(Candidate(r)) # {} /\ Proceed(r) /\ NoFault
       \/ Similar(Candidate(r)) = {} /\ Goto(r, "create") /\ NoFault
       \/ Goto(r, "create") /\ Outage
    /\ UNCHANGED <<rows, embedding, index, aged, consolidator, recaller, influence, calls>>

\* No unique index on the fingerprint makes it fail.
Insert(m, l) == lesson' = [lesson EXCEPT ![m] = l]

\* The insert: its failure may follow the commit.
Create(r) ==
    LET m == Cardinality(Stored) + 1
        l == Candidate(r)
    IN  /\ At(r, "create")
        /\ m \in Memory
        /\ \/ /\ Insert(m, l)
              /\ IF StoreEnabled
                 THEN reflector' = [reflector EXCEPT ![r].pc = "index", ![r].memory = m]
                 ELSE Proceed(r)
              /\ NoFault
           \/ Insert(m, l) /\ Abandon(r) /\ Fault
           \/ UNCHANGED lesson /\ Abandon(r) /\ Fault
        /\ UNCHANGED <<status, embedding, index, aged, consolidator, recaller, influence, calls>>

\* The point of a memory is written, by the id of its origin; with retries, so
\* that a failure may follow the write.
Upsert(m, origin) == index' = index \cup {<<m, origin>>}
UpsertFails(m, origin) == Upsert(m, origin) /\ Outage

\* There is no vector, or the index cannot be reached at all.
EmbedFails == UNCHANGED index /\ Outage

\* embed and upsert.
Index_Swallowed(r) ==
    /\ At(r, "index")
    /\ \/ Upsert(reflector[r].memory, "admission") /\ NoFault
       \/ EmbedFails
    /\ Goto(r, "record")
    /\ UNCHANGED <<rows, embedding, aged, consolidator, recaller, influence, calls>>

Index(r) ==
    LET m == reflector[r].memory
    IN  /\ At(r, "index")
        /\ \/ Upsert(m, "admission") /\ Goto(r, "record") /\ NoFault
           \/ UpsertFails(m, "admission") /\ Goto(r, "queue")
           \/ EmbedFails /\ Goto(r, "queue")
        /\ UNCHANGED <<rows, embedding, aged, consolidator, recaller, influence, calls>>

\* upsertEmbedding: a row of the memory that exists already makes it throw.
Embed(m, row) == embedding' =
    [embedding EXCEPT ![m] = IF @ = NotEmbedded THEN row ELSE @]

Record(r) ==
    LET m == reflector[r].memory
        Written == Embed(m, Indexed(<<m, "admission">>))
    IN  /\ At(r, "record")
        /\ \/ Written /\ Proceed(r) /\ NoFault
           \/ Written /\ Goto(r, "queue") /\ Fault
           \/ UNCHANGED embedding /\ Goto(r, "queue") /\ Fault
        /\ UNCHANGED <<rows, index, aged, consolidator, recaller, influence, calls>>

\* The failed indexing is queued for consolidation; failing to is swallowed.
QueueRetry_Forgotten(r) ==
    /\ At(r, "queue")
    /\ Proceed(r)
    /\ NoFault
    /\ UNCHANGED <<rows, embedding, index, aged, consolidator, recaller, influence, calls>>

QueueRetry(r) ==
    /\ At(r, "queue")
    /\ \/ Embed(reflector[r].memory, Pending) /\ NoFault
       \/ UNCHANGED embedding /\ Fault
    /\ Proceed(r)
    /\ UNCHANGED <<rows, index, aged, consolidator, recaller, influence, calls>>

Admit(r) == \/ Lookup(r) \/ SearchSimilar(r) \/ Create(r)
            \/ Index(r) \/ Record(r) \/ QueueRetry(r)
-----------------------------------------------------------------------------
(* consolidate.                                                            *)

Enter(c, pc, todo) ==
    consolidator' = [consolidator EXCEPT ![c] = [pc |-> pc, todo |-> todo, memory |-> 0]]

\* What a query with LIMIT and without ORDER BY may return.
Batch(S) == {B \in SUBSET S : \/ Cardinality(B) = BatchSize
                              \/ B = S /\ Cardinality(S) < BatchSize}

\* expireOverdue, one conditional UPDATE.
Expire(c) ==
    /\ consolidator[c].pc = "idle"
    /\ status' = [m \in Memory |->
          IF m \in Stored /\ status[m] = "active" /\ Overdue(m) THEN "expired" ELSE status[m]]
    /\ Enter(c, "list", {})
    /\ NoFault
    /\ UNCHANGED <<lesson, embedding, index, aged, reflector, recaller, influence, calls>>

\* findPotentiallyStale: nothing ever sets lastValidatedAt.
ListStale(c) ==
    /\ consolidator[c].pc = "list"
    /\ \E B \in Batch({m \in Stored \cap aged : status[m] = "active"}) : Enter(c, "stale", B)
    /\ NoFault
    /\ UNCHANGED <<rows, embedding, index, aged, reflector, recaller, influence, calls>>

\* The update by id, whatever the row has become since it was listed.
MarkStale(c, m) ==
    /\ consolidator[c].pc = "stale"
    /\ m \in consolidator[c].todo
    /\ status' = [status EXCEPT ![m] = "stale"]
    /\ consolidator' = [consolidator EXCEPT ![c].todo = @ \ {m}]
    /\ NoFault
    /\ UNCHANGED <<lesson, embedding, index, aged, reflector, recaller, influence, calls>>

\* listPendingEmbeddings.
ListPending(c) ==
    /\ consolidator[c].pc = "stale"
    /\ consolidator[c].todo = {}
    /\ IF StoreEnabled
       THEN \E B \in Batch({m \in Memory : embedding[m].status = "pending"}) :
               Enter(c, "reindex", B)
       ELSE Enter(c, "idle", {})
    /\ NoFault
    /\ UNCHANGED <<rows, embedding, index, aged, reflector, recaller, influence, calls>>

\* One row of the batch: embed and upsert.  A failure leaves it pending.
Reindex(c, m) ==
    LET Done == Enter(c, "reindex", consolidator[c].todo \ {m})
    IN  /\ consolidator[c].pc = "reindex"
        /\ m \in consolidator[c].todo
        /\ \/ /\ Upsert(m, "reindex")
              /\ consolidator' = [consolidator EXCEPT ![c].pc = "mark", ![c].memory = m]
              /\ NoFault
           \/ UpsertFails(m, "reindex") /\ Done
           \/ EmbedFails /\ Done
        /\ UNCHANGED <<rows, embedding, aged, reflector, recaller, influence, calls>>

\* markEmbeddingIndexed.
MarkIndexed_Forgotten(c) ==
    /\ consolidator[c].pc = "mark"
    /\ Enter(c, "reindex", consolidator[c].todo \ {consolidator[c].memory})
    /\ NoFault
    /\ UNCHANGED <<rows, embedding, index, aged, reflector, recaller, influence, calls>>

MarkIndexed(c) ==
    LET m == consolidator[c].memory
    IN  /\ consolidator[c].pc = "mark"
        /\ embedding' = [embedding EXCEPT ![m] = Indexed(<<m, "reindex">>)]
        /\ Enter(c, "reindex", consolidator[c].todo \ {m})
        /\ NoFault
        /\ UNCHANGED <<rows, index, aged, reflector, recaller, influence, calls>>

EndPass(c) ==
    /\ consolidator[c].pc = "reindex"
    /\ consolidator[c].todo = {}
    /\ Enter(c, "idle", {})
    /\ NoFault
    /\ UNCHANGED <<rows, embedding, index, aged, reflector, recaller, influence, calls>>

Consolidate(c) == \/ Expire(c) \/ ListStale(c) \/ ListPending(c) \/ MarkIndexed(c)
                  \/ EndPass(c)
                  \/ \E m \in Memory : MarkStale(c, m) \/ Reindex(c, m)
-----------------------------------------------------------------------------
(* recall.                                                                 *)

\* scoreMemory, for rows that are active and of the request's repository.
Relevance(p) == Score[lesson[p[1]]]

\* selectDiverse: repeatedly the best row whose type is below its cap; a
\* title that is selected already costs SameTitlePenalty.
OfType(points, type) == {i \in DOMAIN points : TypeOf[lesson[points[i][1]]] = type}
SameTitle(points, p) == \E i \in DOMAIN points : lesson[points[i][1]] = lesson[p[1]]
Mmr(points, p) ==
    Relevance(p) - (IF SameTitle(points, p) THEN SameTitlePenalty ELSE 0)

Eligible(pool, points) ==
    {p \in pool : /\ \A i \in DOMAIN points : points[i] # p
                  /\ LET type == TypeOf[lesson[p[1]]]
                     IN  Cardinality(OfType(points, type)) < TypeCap[type]}

Best(pool, points) ==
    LET open == Eligible(pool, points)
    IN  {p \in open : \A o \in open : Mmr(points, p) >= Mmr(points, o)}

\* The lists its loop may build: at every turn a best row, until TopK are
\* selected or none is left.
Selections(pool) ==
    {s \in UNION {[1..n -> pool] : n \in 0..TopK} :
        /\ \A i \in DOMAIN s : s[i] \in Best(pool, SubSeq(s, 1, i - 1))
        /\ Len(s) < TopK => Best(pool, s) = {}}

Relevant(points) == {p \in points : Relevance(p) >= Threshold}

\* The search: the nearest points of the repository, as many as the limit
\* allows, or a failure, which degrades the recall to nothing.
Search(q, e) ==
    LET found == InIndexOf(RepositoryFor[e])
    IN  /\ recaller[q].pc = "idle"
        /\ Start(1)
        /\ \/ /\ StoreEnabled
              /\ \E hits \in {H \in SUBSET found :
                                \/ Cardinality(H) = CandidateLimit
                                \/ H = found /\ Cardinality(H) < CandidateLimit} :
                    recaller' = [recaller EXCEPT ![q] =
                        [IdleRecaller EXCEPT !.pc = "load", !.execution = e, !.hits = hits,
                                             !.gone = {m \in Stored : Forgotten(m)}]]
              /\ NoFault
           \/ /\ UNCHANGED recaller
              /\ IF StoreEnabled THEN Outage ELSE NoFault
        /\ UNCHANGED <<rows, embedding, index, aged, reflector, consolidator, influence>>

\* findById of one hit.
Load(q, p) ==
    /\ recaller[q].pc = "load"
    /\ p \in recaller[q].hits
    /\ recaller' = [recaller EXCEPT
          ![q].hits = @ \ {p},
          ![q].loaded = IF Live(p[1], RepositoryFor[recaller[q].execution])
                        THEN @ \cup {p} ELSE @]
    /\ NoFault
    /\ UNCHANGED <<rows, embedding, index, aged, reflector, consolidator, influence, calls>>

Select(q) ==
    /\ recaller[q].pc = "load"
    /\ recaller[q].hits = {}
    /\ \E s \in Selections(Relevant(recaller[q].loaded)) :
          recaller' = [recaller EXCEPT ![q].pc = "record", ![q].rank = 1,
                                       ![q].loaded = {},
                                       ![q].selected = [i \in DOMAIN s |-> s[i][1]]]
    /\ NoFault
    /\ UNCHANGED <<rows, embedding, index, aged, reflector, consolidator, influence, calls>>

Return(q) == recaller' = [recaller EXCEPT ![q] = IdleRecaller]

\* recordInfluence: an existing row inf_<execution>_<rank> stays as it is.
RecordInfluence(q) ==
    LET row == <<recaller[q].execution, recaller[q].rank>>
    IN  /\ recaller[q].pc = "record"
        /\ \/ /\ recaller[q].rank <= Len(recaller[q].selected)
              /\ influence' = [influence EXCEPT ![row] =
                    IF @ = 0 THEN recaller[q].selected[recaller[q].rank] ELSE @]
              /\ recaller' = [recaller EXCEPT ![q].rank = @ + 1]
              /\ NoFault
           \/ /\ recaller[q].rank > Len(recaller[q].selected)
              /\ Return(q)
              /\ UNCHANGED influence
              /\ NoFault
           \/ Return(q) /\ UNCHANGED influence /\ Fault
        /\ UNCHANGED <<rows, embedding, index, aged, reflector, consolidator, calls>>

Recall(q) == \/ \E e \in Execution : Search(q, e)
             \/ \E p \in Point : Load(q, p)
             \/ Select(q) \/ RecordInfluence(q)
-----------------------------------------------------------------------------
(* The surroundings.                                                       *)

\* expiresAt and the staleness cutoff, both 90 days by default, pass for the
\* memories that exist.
TimePasses ==
    /\ Cardinality(aged) < MaxAged
    /\ aged # Stored
    /\ aged' = Stored
    /\ NoFault
    /\ UNCHANGED <<rows, embedding, index, reflector, consolidator, recaller, influence, calls>>

\* A worker dies, or PostgreSQL fails a statement that nothing catches: the
\* call is over.
Dies ==
    /\ Fault
    /\ \/ /\ \E r \in Reflector : ~At(r, "idle") /\ Abandon(r)
          /\ UNCHANGED <<consolidator, recaller>>
       \/ /\ \E c \in Consolidator : consolidator[c].pc # "idle" /\ Enter(c, "idle", {})
          /\ UNCHANGED <<reflector, recaller>>
       \/ /\ \E q \in Recaller : /\ recaller[q].pc # "idle"
                                 /\ recaller' = [recaller EXCEPT ![q] = IdleRecaller]
          /\ UNCHANGED <<reflector, consolidator>>
    /\ UNCHANGED <<rows, embedding, index, aged, influence, calls>>

Next ==
    \/ \E r \in Reflector : (\E report \in Reports : Reflect(r, report)) \/ Admit(r)
    \/ \E c \in Consolidator : Consolidate(c)
    \/ \E q \in Recaller : Recall(q)
    \/ TimePasses
    \/ Dies

Spec == Init /\ [][Next]_vars

\* Consolidation goes on: timers start passes, and some worker's move.
FairSpec == Spec /\ WF_vars(\E c \in Consolidator : Consolidate(c))
-----------------------------------------------------------------------------
(* Properties.                                                             *)

\* The vector index only ever speaks of rows that exist, and a row recorded
\* as indexed has the point it names: admission and reindexing write in the
\* order row, point, record, and may stop anywhere in between.
IndexFollowsTable ==
    /\ \A p \in index : p[1] \in Stored
    /\ \A m \in Memory :
          /\ embedding[m] # NotEmbedded => m \in Stored
          /\ embedding[m].status = "indexed" =>
                embedding[m].point \in index /\ embedding[m].point[1] = m

\* "Indexing failure must not lose the durable memory; queue for retry"
\* (memory-admission.ts:287): however often Qdrant or the embeddings fail, a
\* memory whose admission is over has a row in ai_memory_embeddings, indexed
\* or pending.  Only the death of a worker or a failing insert loses one.
Unqueued == {m \in Stored : /\ embedding[m] = NotEmbedded
                            /\ \A r \in Reflector : reflector[r].memory # m}
LostOnlyByFault == StoreEnabled => Cardinality(Unqueued) <= faults

\* What had expired, or was stale, when a recall began is not among what it
\* selects, although the index goes on offering its point as active, and
\* although consolidation changes rows while the hits are loaded.
NothingForgottenIsRecalled ==
    \A q \in Recaller :
        \A i \in DOMAIN recaller[q].selected :
            recaller[q].selected[i] \notin recaller[q].gone

\* A candidate that admission is done with, neither refused nor broken off,
\* is stored: itself, or a near-duplicate in the same repository.
AdmissionEnds(r) == /\ ~At(r, "idle")
                    /\ Candidate(r) \notin Invalid \cup Ineligible
                    /\ reflector'[r].todo = Tail(reflector[r].todo)
                    /\ faults' = faults
AdmittedMeansStored ==
    [][\A r \in Reflector : AdmissionEnds(r) =>
          \E m \in Memory : /\ lesson'[m] # NoLesson
                            /\ <<Candidate(r), lesson'[m]>> \in Near
                            /\ RepositoryOf[lesson'[m]] = RepositoryOf[Candidate(r)]]_vars

\* "Leave pending; retried next cycle" (memory-consolidation.ts:108): once
\* the index and the embeddings work again, every memory left pending is
\* indexed, whatever becomes of its status, and however passes overlap.
PendingGetsIndexed ==
    \A m \in Memory : embedding[m].status = "pending" ~> embedding[m].status = "indexed"
=============================================================================
