---------------------------- MODULE MemoryProofs ----------------------------
(***************************************************************************)
(* Theorems on MemoryLifecycle, for any lessons, reports, calls in flight, *)
(* outages and faults: what admission and consolidation keep (IInv), and   *)
(* what recalls keep on top of it (RInv).                                  *)
(***************************************************************************)
EXTENDS MemoryLifecycle, FiniteSetTheorems, TLAPS

Admission == [pc : {"idle", "lookup", "search", "create", "index", "record", "queue"},
              todo : Seq(Lesson), memory : Memory \cup {0}]
Consolidation == [pc : {"idle", "list", "stale", "reindex", "mark"},
                  todo : SUBSET Memory, memory : Memory \cup {0}]

Typed ==
    /\ lesson \in [Memory -> Lesson \cup {NoLesson}]
    /\ embedding \in [Memory -> Embedding]
    /\ index \subseteq Point
    /\ reflector \in [Reflector -> Admission]
    /\ consolidator \in [Consolidator -> Consolidation]
    /\ faults \in Nat

\* Rows are numbered as they are inserted, and none goes.
Dense == \E n \in 0..MaxMemories : Stored = 1..n

\* An admission past its insert works on the row of its candidate.
Working == {"index", "record", "queue"}
Admitting(r) ==
    /\ At(r, "idle") <=> reflector[r].todo = <<>>
    /\ reflector[r].pc \in Working =>
          reflector[r].memory \in Stored /\ lesson[reflector[r].memory] = Candidate(r)
    /\ reflector[r].pc \notin Working => reflector[r].memory = 0
    /\ At(r, "record") => <<reflector[r].memory, "admission">> \in index

\* A pass retries rows that exist, and marks the point it has written.
Consolidating(c) ==
    /\ consolidator[c].pc \in {"reindex", "mark"} => consolidator[c].todo \subseteq Stored
    /\ consolidator[c].pc = "mark" =>
          /\ consolidator[c].memory \in Stored
          /\ <<consolidator[c].memory, "reindex">> \in index

IInv ==
    /\ Typed
    /\ Dense
    /\ IndexFollowsTable
    /\ \A r \in Reflector : Admitting(r)
    /\ \A c \in Consolidator : Consolidating(c)
-----------------------------------------------------------------------------
(* What steps leave behind.                                                *)

LEMMA Numbers == MaxMemories \in Nat /\ 0 \notin Memory
BY MemoryAssumption DEF Memory

LEMMA StoredMemories ==
    ASSUME NEW m \in Stored
    PROVE  m \in Memory /\ m # 0
BY Numbers DEF Stored

\* Rows and points are added and nothing is taken away.
Grows ==
    /\ \A m \in Stored : m \in Stored' /\ lesson'[m] = lesson[m]
    /\ index \subseteq index'

LEMMA Unchanged == lesson' = lesson /\ index' = index => Grows
BY DEF Grows, Stored

LEMMA OthersKept ==
    ASSUME IInv, Grows
    PROVE  /\ \A r \in Reflector : reflector'[r] = reflector[r] => Admitting(r)'
           /\ \A c \in Consolidator : consolidator'[c] = consolidator[c] => Consolidating(c)'
<1>1. ASSUME NEW r \in Reflector, reflector'[r] = reflector[r]
      PROVE  Admitting(r)'
    BY <1>1 DEF IInv, Grows, Admitting, At, Candidate
<1>2. ASSUME NEW c \in Consolidator, consolidator'[c] = consolidator[c]
      PROVE  Consolidating(c)'
    BY <1>2 DEF IInv, Grows, Consolidating
<1> QED BY <1>1, <1>2

\* The next candidate, or the end of a call.
LEMMA Proceeds ==
    ASSUME IInv, NEW r \in Reflector, reflector[r].pc # "idle", Proceed(r) \/ Abandon(r)
    PROVE  /\ reflector' \in [Reflector -> Admission]
           /\ Admitting(r)'
           /\ \A v \in Reflector \ {r} : reflector'[v] = reflector[v]
<1>0. /\ reflector \in [Reflector -> Admission]
      /\ reflector[r].todo \in Seq(Lesson) /\ reflector[r].todo # <<>>
    BY DEF IInv, Typed, Admission, Admitting, At
<1>1. IdleReflector \in Admission
    BY DEF IdleReflector, Admission
<1>2. CASE reflector' = [reflector EXCEPT ![r] = IdleReflector]
    BY <1>0, <1>1, <1>2 DEF Admitting, At, IdleReflector, Working
<1>3. CASE /\ Tail(reflector[r].todo) # <<>>
           /\ reflector' = [reflector EXCEPT ![r] =
                    [pc |-> "lookup", todo |-> Tail(reflector[r].todo), memory |-> 0]]
    <2>1. Tail(reflector[r].todo) \in Seq(Lesson)
        BY <1>0
    <2>2. [pc |-> "lookup", todo |-> Tail(reflector[r].todo), memory |-> 0] \in Admission
        BY <2>1 DEF Admission
    <2> QED BY <1>0, <1>3, <2>2 DEF Admitting, At, Working
<1> QED BY <1>2, <1>3 DEF Proceed, Abandon

\* The next step of an admission that has not inserted yet, or has.
LEMMA Goes ==
    ASSUME IInv, NEW r \in Reflector,
           NEW pc \in {"search", "create", "record", "queue"}, Goto(r, pc)
    PROVE  /\ reflector' \in [Reflector -> Admission]
           /\ \A v \in Reflector \ {r} : reflector'[v] = reflector[v]
           /\ reflector'[r].pc = pc
           /\ reflector'[r].todo = reflector[r].todo
           /\ reflector'[r].memory = reflector[r].memory
<1>1. reflector \in [Reflector -> Admission] /\ reflector[r] \in Admission
    BY DEF IInv, Typed
<1> QED BY <1>1 DEF Goto, Admission

\* A step of an admission that inserts nothing and records nothing.
LEMMA AdmissionStep ==
    ASSUME IInv, NEW r \in Reflector, lesson' = lesson, Grows,
           embedding' = embedding, consolidator' = consolidator, faults' \in Nat,
           \A p \in index' : p \in Point /\ p[1] \in Stored,
           reflector' \in [Reflector -> Admission], Admitting(r)',
           \A v \in Reflector \ {r} : reflector'[v] = reflector[v]
    PROVE  IInv'
<1>1. Typed'
    BY DEF IInv, Typed
<1>2. Stored' = Stored
    BY DEF Stored
<1>3. Dense'
    BY <1>2 DEF IInv, Dense
<1>4. IndexFollowsTable'
    BY <1>2 DEF IInv, IndexFollowsTable, Grows
<1> QED BY <1>1, <1>3, <1>4, OthersKept DEF IInv
-----------------------------------------------------------------------------
(* The steps of an admission.                                              *)

\* The failures leave the bounds to one side.
LEMMA Counted ==
    ASSUME IInv, Fault \/ Outage \/ NoFault
    PROVE  faults' \in Nat
BY DEF IInv, Typed, Fault, Outage, NoFault

LEMMA PointsStored ==
    ASSUME IInv
    PROVE  /\ index \subseteq Point
           /\ \A p \in index : p[1] \in Stored
           /\ \A m \in Stored, o \in Origin : <<m, o>> \in Point /\ <<m, o>>[1] \in Stored
BY StoredMemories DEF IInv, Typed, IndexFollowsTable, Point

LEMMA ReflectSound ==
    ASSUME IInv, NEW r \in Reflector, NEW report \in Reports, Reflect(r, report)
    PROVE  IInv'
<1> DEFINE fresh == [pc |-> "lookup", todo |-> report, memory |-> 0]
<1>1. report \in Seq(Lesson) /\ report # <<>>
    BY MemoryAssumption
<1>2. fresh \in Admission
    BY <1>1 DEF Admission
<1>3. reflector \in [Reflector -> Admission] /\ reflector' = [reflector EXCEPT ![r] = fresh]
    BY DEF IInv, Typed, Reflect
<1> HIDE DEF fresh
<1>4. reflector' \in [Reflector -> Admission] /\ reflector'[r] = fresh
      /\ \A v \in Reflector \ {r} : reflector'[v] = reflector[v]
    BY <1>2, <1>3
<1>5. Admitting(r)'
    BY <1>1, <1>4 DEF Admitting, At, Working, fresh
<1>6. UNCHANGED <<lesson, embedding, index, consolidator>> /\ faults' \in Nat
    BY Counted DEF Reflect, rows
<1> QED BY <1>4, <1>5, <1>6, Unchanged, PointsStored, AdmissionStep

LEMMA SearchesSound ==
    ASSUME IInv, NEW r \in Reflector, Lookup(r) \/ SearchSimilar(r)
    PROVE  IInv'
<1>1. UNCHANGED <<lesson, embedding, index, consolidator>> /\ faults' \in Nat
    BY Counted DEF Lookup, SearchSimilar, rows
<1>2. reflector[r].pc \in {"lookup", "search"}
    BY DEF Lookup, SearchSimilar, At
<1>3. CASE Proceed(r) \/ Abandon(r)
    BY <1>1, <1>2, <1>3, Proceeds, Unchanged, PointsStored, AdmissionStep
<1>4. ASSUME NEW pc \in {"search", "create"}, Goto(r, pc) PROVE IInv'
    <2>1. /\ reflector' \in [Reflector -> Admission]
          /\ \A v \in Reflector \ {r} : reflector'[v] = reflector[v]
          /\ reflector'[r].pc = pc
          /\ reflector'[r].todo = reflector[r].todo
          /\ reflector'[r].memory = reflector[r].memory
        BY <1>4, Goes
    <2>2. Admitting(r)'
        BY <1>2, <2>1 DEF IInv, Admitting, At, Working
    <2> QED BY <1>1, <2>1, <2>2, Unchanged, PointsStored, AdmissionStep
<1> QED BY <1>3, <1>4 DEF Lookup, SearchSimilar

\* The next row.
LEMMA Inserted ==
    ASSUME IInv, NEW l \in Lesson, Cardinality(Stored) + 1 \in Memory,
           Insert(Cardinality(Stored) + 1, l)
    PROVE  LET m == Cardinality(Stored) + 1
           IN  /\ lesson' \in [Memory -> Lesson \cup {NoLesson}]
               /\ m \notin Stored
               /\ Stored' = Stored \cup {m}
               /\ lesson'[m] = l
               /\ \A k \in Stored : lesson'[k] = lesson[k]
               /\ Dense'
<1>1. PICK n \in 0..MaxMemories : Stored = 1..n
    BY DEF IInv, Dense
<1>2. n \in Nat /\ MaxMemories \in Nat
    BY <1>1, Numbers
<1>3. Cardinality(Stored) = n
    BY <1>1, <1>2, FS_Interval
<1>4. lesson' = [lesson EXCEPT ![n + 1] = l] /\ n + 1 \in Memory
    BY <1>3 DEF Insert
<1>5. lesson \in [Memory -> Lesson \cup {NoLesson}] /\ l # NoLesson
    BY MemoryAssumption DEF IInv, Typed
<1>6. n + 1 \notin Stored
    BY <1>1, <1>2
<1>7. Stored' = Stored \cup {n + 1}
    BY <1>4, <1>5 DEF Stored
<1>8. /\ lesson' \in [Memory -> Lesson \cup {NoLesson}]
      /\ lesson'[n + 1] = l
      /\ \A k \in Stored : lesson'[k] = lesson[k]
    BY <1>4, <1>5, <1>6
<1>9. Dense'
    <2>1. n + 1 \in 0..MaxMemories
        BY <1>2, <1>4 DEF Memory
    <2>2. Stored' = 1..(n + 1)
        BY <1>1, <1>2, <1>7
    <2> QED BY <2>1, <2>2 DEF Dense
<1> QED BY <1>3, <1>6, <1>7, <1>8, <1>9

LEMMA CandidateTyped ==
    ASSUME IInv, NEW r \in Reflector, reflector[r].pc # "idle"
    PROVE  Candidate(r) \in Lesson
<1>1. reflector[r].todo \in Seq(Lesson) /\ reflector[r].todo # <<>>
    BY DEF IInv, Typed, Admission, Admitting, At
<1> QED BY <1>1 DEF Candidate

LEMMA CreateSound ==
    ASSUME IInv, NEW r \in Reflector, Create(r)
    PROVE  IInv'
<1> DEFINE m == Cardinality(Stored) + 1
<1>0. /\ UNCHANGED <<embedding, index, consolidator>> /\ faults' \in Nat
      /\ reflector[r].pc = "create" /\ m \in Memory
      /\ reflector \in [Reflector -> Admission] /\ reflector[r] \in Admission
    BY Counted DEF Create, At, IInv, Typed
<1>1. CASE UNCHANGED lesson /\ Abandon(r)
    BY <1>0, <1>1, Proceeds, Unchanged, PointsStored, AdmissionStep
<1>2. CASE Insert(m, Candidate(r))
    <2>1. /\ lesson' \in [Memory -> Lesson \cup {NoLesson}]
          /\ m \notin Stored
          /\ Stored' = Stored \cup {m}
          /\ lesson'[m] = Candidate(r)
          /\ \A k \in Stored : lesson'[k] = lesson[k]
          /\ Dense'
        BY <1>0, <1>2, CandidateTyped, Inserted
    <2> HIDE DEF m
    <2>2. Grows
        BY <1>0, <2>1 DEF Grows
    <2>3. /\ reflector' \in [Reflector -> Admission]
          /\ \A v \in Reflector \ {r} : reflector'[v] = reflector[v]
          /\ Admitting(r)'
        <3>1. CASE Proceed(r) \/ Abandon(r)
            BY <1>0, <3>1, Proceeds
        <3>2. CASE reflector' = [reflector EXCEPT ![r].pc = "index", ![r].memory = m]
            <4>1. /\ reflector' \in [Reflector -> Admission]
                  /\ \A v \in Reflector \ {r} : reflector'[v] = reflector[v]
                  /\ reflector'[r].pc = "index"
                  /\ reflector'[r].memory = m
                  /\ reflector'[r].todo = reflector[r].todo
                BY <1>0, <3>2 DEF Admission
            <4>2. reflector[r].todo # <<>>
                BY <1>0 DEF IInv, Admitting, At
            <4> QED BY <2>1, <4>1, <4>2 DEF Admitting, At, Working, Candidate
        <3> QED BY <1>2, <3>1, <3>2 DEF Create, m
    <2>4. Typed'
        BY <1>0, <2>1, <2>3 DEF IInv, Typed
    <2>5. IndexFollowsTable'
        BY <1>0, <2>1 DEF IInv, IndexFollowsTable
    <2> QED BY <1>0, <2>1, <2>2, <2>3, <2>4, <2>5, OthersKept DEF IInv
<1> QED BY <1>1, <1>2 DEF Create

LEMMA IndexSound ==
    ASSUME IInv, NEW r \in Reflector, Index(r)
    PROVE  IInv'
<1> DEFINE m == reflector[r].memory
<1>0. /\ UNCHANGED <<lesson, embedding, consolidator>> /\ faults' \in Nat
      /\ reflector[r].pc = "index"
      /\ m \in Stored /\ lesson[m] = Candidate(r) /\ reflector[r].todo # <<>>
    <2>1. UNCHANGED <<lesson, embedding, consolidator>> /\ reflector[r].pc = "index"
        BY DEF Index, At, rows
    <2>2. faults' \in Nat
        BY Counted DEF Index, UpsertFails, EmbedFails
    <2> QED BY <2>1, <2>2 DEF IInv, Admitting, At, Working
<1>1. PICK pc \in {"record", "queue"} :
          /\ Goto(r, pc)
          /\ index' = index \cup {<<m, "admission">>} \/ (index' = index /\ pc = "queue")
    BY DEF Index, Upsert, UpsertFails, EmbedFails
<1>2. /\ reflector' \in [Reflector -> Admission]
      /\ \A v \in Reflector \ {r} : reflector'[v] = reflector[v]
      /\ reflector'[r].pc = pc
      /\ reflector'[r].todo = reflector[r].todo
      /\ reflector'[r].memory = m
    BY <1>1, Goes
<1>3. Grows /\ Stored' = Stored
    BY <1>0, <1>1 DEF Grows, Stored
<1>4. \A p \in index' : p \in Point /\ p[1] \in Stored
    <2>1. "admission" \in Origin
        BY DEF Origin
    <2> QED BY <1>0, <1>1, <2>1, PointsStored
<1> HIDE DEF m
<1>5. Admitting(r)'
    BY <1>0, <1>1, <1>2, <1>3 DEF Admitting, At, Working, Candidate
<1> QED BY <1>0, <1>2, <1>3, <1>4, <1>5, AdmissionStep

\* A row of ai_memory_embeddings, if the memory had none.
LEMMA Embeds ==
    ASSUME IInv, NEW m \in Stored, NEW row \in Embedding, Embed(m, row),
           row.status = "indexed" => row.point \in index /\ row.point[1] = m,
           UNCHANGED <<lesson, index>>
    PROVE  embedding' \in [Memory -> Embedding] /\ IndexFollowsTable'
<1>1. m \in Memory /\ Stored' = Stored /\ embedding \in [Memory -> Embedding]
    BY StoredMemories DEF Stored, IInv, Typed
<1>2. \A k \in Memory : embedding'[k] = embedding[k] \/ (k = m /\ embedding'[k] = row)
    BY <1>1 DEF Embed
<1>3. embedding' \in [Memory -> Embedding]
    BY <1>1 DEF Embed
<1> QED BY <1>1, <1>2, <1>3 DEF IInv, IndexFollowsTable

LEMMA RowsTyped ==
    /\ Pending \in Embedding /\ Pending.status = "pending"
    /\ \A p \in Point : Indexed(p) \in Embedding /\ Indexed(p).status = "indexed"
                        /\ Indexed(p).point = p
    /\ NotEmbedded.status = "none"
BY DEF Pending, Indexed, Embedding, NotEmbedded

LEMMA RecordSound ==
    ASSUME IInv, NEW r \in Reflector, Record(r) \/ QueueRetry(r)
    PROVE  IInv'
<1> DEFINE m == reflector[r].memory
           p == <<m, "admission">>
<1>0. /\ UNCHANGED <<lesson, index, consolidator>> /\ faults' \in Nat
      /\ reflector[r].pc \in {"record", "queue"}
      /\ m \in Stored /\ lesson[m] = Candidate(r) /\ reflector[r].todo # <<>>
    BY Counted DEF Record, QueueRetry, At, IInv, Admitting, Working, rows
<1>1. /\ reflector' \in [Reflector -> Admission]
      /\ \A v \in Reflector \ {r} : reflector'[v] = reflector[v]
      /\ Admitting(r)'
    <2>1. CASE Proceed(r)
        BY <1>0, <2>1, Proceeds
    <2>2. CASE Goto(r, "queue")
        BY <1>0, <2>2, Goes DEF Admitting, At, Working, Candidate, Stored
    <2> QED BY <2>1, <2>2 DEF Record, QueueRetry
<1>2. embedding' \in [Memory -> Embedding] /\ IndexFollowsTable'
    <2>1. CASE UNCHANGED embedding
        BY <1>0, <2>1 DEF IInv, Typed, IndexFollowsTable, Stored
    <2>2. CASE Record(r) /\ Embed(m, Indexed(p))
        <3>1. p \in index /\ p \in Point /\ p[1] = m
            BY <2>2, PointsStored DEF Record, IInv, Admitting, At
        <3>2. Indexed(p) \in Embedding /\ Indexed(p).point = p
            BY <3>1, RowsTyped
        <3> QED BY <1>0, <2>2, <3>1, <3>2, Embeds
    <2>3. CASE QueueRetry(r) /\ Embed(m, Pending)
        BY <1>0, <2>3, RowsTyped, Embeds
    <2> QED BY <2>1, <2>2, <2>3 DEF Record, QueueRetry
<1>3. Grows /\ Stored' = Stored
    BY <1>0 DEF Grows, Stored
<1>4. Typed' /\ Dense'
    BY <1>0, <1>1, <1>2, <1>3 DEF IInv, Typed, Dense
<1> QED BY <1>0, <1>1, <1>2, <1>3, <1>4, OthersKept DEF IInv
-----------------------------------------------------------------------------
(* The steps of a consolidation pass.                                      *)

\* A step of a pass, which inserts no row.
LEMMA ConsolidationStep ==
    ASSUME IInv, NEW c \in Consolidator, lesson' = lesson, Grows,
           reflector' = reflector, faults' \in Nat,
           \A p \in index' : p \in Point /\ p[1] \in Stored,
           embedding' \in [Memory -> Embedding], IndexFollowsTable',
           consolidator' \in [Consolidator -> Consolidation], Consolidating(c)',
           \A v \in Consolidator \ {c} : consolidator'[v] = consolidator[v]
    PROVE  IInv'
<1>1. Typed'
    BY DEF IInv, Typed
<1>2. Dense'
    BY DEF IInv, Dense, Stored
<1> QED BY <1>1, <1>2, OthersKept DEF IInv

LEMMA Enters ==
    ASSUME IInv, NEW c \in Consolidator, NEW todo \in SUBSET Memory,
           NEW pc \in {"idle", "list", "stale", "reindex"}, Enter(c, pc, todo)
    PROVE  /\ consolidator' \in [Consolidator -> Consolidation]
           /\ consolidator'[c] = [pc |-> pc, todo |-> todo, memory |-> 0]
           /\ \A v \in Consolidator \ {c} : consolidator'[v] = consolidator[v]
<1>1. [pc |-> pc, todo |-> todo, memory |-> 0] \in Consolidation
    BY DEF Consolidation
<1> QED BY <1>1 DEF Enter, IInv, Typed

\* A pass that turns to the rows of todo, which exist if they are to be retried.
LEMMA EnterSound ==
    ASSUME IInv, NEW c \in Consolidator, NEW todo \in SUBSET Memory,
           NEW pc \in {"idle", "list", "stale", "reindex"}, Enter(c, pc, todo),
           pc = "reindex" => todo \subseteq Stored,
           UNCHANGED <<lesson, embedding, index, reflector>>, faults' \in Nat
    PROVE  IInv'
<1>1. /\ consolidator' \in [Consolidator -> Consolidation]
      /\ consolidator'[c] = [pc |-> pc, todo |-> todo, memory |-> 0]
      /\ \A v \in Consolidator \ {c} : consolidator'[v] = consolidator[v]
    BY Enters
<1>2. Consolidating(c)'
    BY <1>1 DEF Consolidating, Stored
<1>3. embedding' \in [Memory -> Embedding] /\ IndexFollowsTable'
    BY DEF IInv, Typed, IndexFollowsTable, Stored
<1> QED BY <1>1, <1>2, <1>3, Unchanged, PointsStored, ConsolidationStep

LEMMA ReindexSound ==
    ASSUME IInv, NEW c \in Consolidator, NEW m \in Memory, Reindex(c, m)
    PROVE  IInv'
<1> DEFINE rest == consolidator[c].todo \ {m}
           p == <<m, "reindex">>
<1>0. /\ consolidator \in [Consolidator -> Consolidation]
      /\ consolidator[c] \in Consolidation
      /\ consolidator[c].todo \subseteq Stored /\ m \in Stored
    BY DEF Reindex, IInv, Typed, Consolidating
<1>1. UNCHANGED <<lesson, embedding, reflector>> /\ faults' \in Nat
    <2>1. UNCHANGED <<lesson, embedding, reflector>>
        BY DEF Reindex, rows
    <2>2. faults' \in Nat
        BY Counted DEF Reindex, UpsertFails, EmbedFails
    <2> QED BY <2>1, <2>2
<1>2. p \in Point /\ p[1] \in Stored
    BY <1>0, PointsStored DEF Origin
<1>3. index' = index \/ index' = index \cup {p}
    BY DEF Reindex, Upsert, UpsertFails, EmbedFails
<1>4. Grows /\ Stored' = Stored
    BY <1>1, <1>3 DEF Grows, Stored
<1>5. /\ embedding' \in [Memory -> Embedding]
      /\ IndexFollowsTable'
      /\ \A q \in index' : q \in Point /\ q[1] \in Stored
    BY <1>1, <1>2, <1>3, <1>4, PointsStored DEF IInv, Typed, IndexFollowsTable
<1>6. rest \in SUBSET Memory /\ rest \subseteq Stored
    BY <1>0, StoredMemories
<1>7. CASE Enter(c, "reindex", rest)
    <2>1. /\ consolidator' \in [Consolidator -> Consolidation]
          /\ consolidator'[c] = [pc |-> "reindex", todo |-> rest, memory |-> 0]
          /\ \A v \in Consolidator \ {c} : consolidator'[v] = consolidator[v]
        BY <1>6, <1>7, Enters
    <2>2. Consolidating(c)'
        BY <1>4, <1>6, <2>1 DEF Consolidating
    <2> QED BY <1>1, <1>4, <1>5, <2>1, <2>2, ConsolidationStep
<1>8. CASE /\ index' = index \cup {p}
           /\ consolidator' = [consolidator EXCEPT ![c].pc = "mark", ![c].memory = m]
    <2>1. /\ consolidator' \in [Consolidator -> Consolidation]
          /\ consolidator'[c].pc = "mark"
          /\ consolidator'[c].memory = m
          /\ consolidator'[c].todo = consolidator[c].todo
          /\ \A v \in Consolidator \ {c} : consolidator'[v] = consolidator[v]
        BY <1>0, <1>8 DEF Consolidation
    <2>2. Consolidating(c)'
        BY <1>0, <1>4, <1>8, <2>1 DEF Consolidating
    <2> QED BY <1>1, <1>4, <1>5, <2>1, <2>2, ConsolidationStep
<1> QED BY <1>7, <1>8 DEF Reindex, Upsert

LEMMA MarkIndexedSound ==
    ASSUME IInv, NEW c \in Consolidator, MarkIndexed(c)
    PROVE  IInv'
<1> DEFINE m == consolidator[c].memory
           p == <<m, "reindex">>
           rest == consolidator[c].todo \ {m}
<1>0. /\ consolidator[c] \in Consolidation
      /\ m \in Stored /\ p \in index /\ consolidator[c].todo \subseteq Stored
    BY DEF MarkIndexed, IInv, Typed, Consolidating
<1>1. UNCHANGED <<lesson, index, reflector>> /\ faults' \in Nat
      /\ embedding' = [embedding EXCEPT ![m] = Indexed(p)] /\ Enter(c, "reindex", rest)
    BY Counted DEF MarkIndexed, rows
<1>2. rest \in SUBSET Memory /\ rest \subseteq Stored /\ Stored' = Stored
    BY <1>0, <1>1, StoredMemories DEF Stored
<1>3. Indexed(p) \in Embedding /\ Indexed(p).point = p /\ p[1] = m
    BY <1>0, RowsTyped, PointsStored
<1> HIDE DEF p
<1>4. embedding' \in [Memory -> Embedding]
    BY <1>1, <1>3 DEF IInv, Typed
<1>5. IndexFollowsTable'
    <2>1. embedding \in [Memory -> Embedding] /\ m \in Memory
        BY <1>0, StoredMemories DEF IInv, Typed
    <2>2. \A k \in Memory : k # m => embedding'[k] = embedding[k]
        BY <1>1, <2>1
    <2>3. embedding'[m] = Indexed(p)
        BY <1>1, <2>1
    <2> QED BY <1>0, <1>1, <1>2, <1>3, <2>2, <2>3 DEF IInv, IndexFollowsTable
<1>6. /\ consolidator' \in [Consolidator -> Consolidation]
      /\ consolidator'[c] = [pc |-> "reindex", todo |-> rest, memory |-> 0]
      /\ \A v \in Consolidator \ {c} : consolidator'[v] = consolidator[v]
    BY <1>1, <1>2, Enters
<1>7. Consolidating(c)'
    BY <1>2, <1>6 DEF Consolidating
<1> QED BY <1>1, <1>4, <1>5, <1>6, <1>7, Unchanged, PointsStored, ConsolidationStep

LEMMA ConsolidateSound ==
    ASSUME IInv, NEW c \in Consolidator, Consolidate(c)
    PROVE  IInv'
<1>0. consolidator \in [Consolidator -> Consolidation] /\ consolidator[c] \in Consolidation
    BY DEF IInv, Typed
<1>1. CASE Expire(c)
    BY <1>1, EnterSound, Counted DEF Expire
<1>2. CASE ListStale(c)
    <2>1. PICK B \in SUBSET Memory : Enter(c, "stale", B)
        BY <1>2 DEF ListStale, Batch, Stored
    <2> QED BY <1>2, <2>1, EnterSound, Counted DEF ListStale, rows
<1>3. ASSUME NEW m \in Memory, MarkStale(c, m) PROVE IInv'
    <2>1. /\ UNCHANGED <<lesson, embedding, index, reflector>> /\ faults' \in Nat
          /\ consolidator' = [consolidator EXCEPT ![c].todo = @ \ {m}]
          /\ consolidator[c].pc = "stale"
        BY <1>3, Counted DEF MarkStale
    <2>2. /\ consolidator' \in [Consolidator -> Consolidation]
          /\ consolidator'[c].pc = "stale"
          /\ \A v \in Consolidator \ {c} : consolidator'[v] = consolidator[v]
        BY <1>0, <2>1 DEF Consolidation
    <2>3. Consolidating(c)'
        BY <2>2 DEF Consolidating
    <2>4. embedding' \in [Memory -> Embedding] /\ IndexFollowsTable'
        BY <2>1 DEF IInv, Typed, IndexFollowsTable, Stored
    <2> QED BY <2>1, <2>2, <2>3, <2>4, Unchanged, PointsStored, ConsolidationStep
<1>4. CASE ListPending(c)
    <2>1. PICK B \in SUBSET {m \in Memory : embedding[m].status = "pending"},
               pc \in {"idle", "reindex"} : Enter(c, pc, B)
        BY <1>4 DEF ListPending, Batch
    <2>2. B \in SUBSET Memory /\ B \subseteq Stored
        BY RowsTyped DEF IInv, IndexFollowsTable
    <2> QED BY <1>4, <2>1, <2>2, EnterSound, Counted DEF ListPending, rows
<1>5. CASE EndPass(c)
    BY <1>5, EnterSound, Counted DEF EndPass, rows
<1> QED BY <1>1, <1>2, <1>3, <1>4, <1>5, ReindexSound, MarkIndexedSound DEF Consolidate
-----------------------------------------------------------------------------
(* The index follows the table.                                            *)

LEMMA InitSound == Init => IInv
<1> SUFFICES ASSUME Init PROVE IInv
    OBVIOUS
<1>1. NotEmbedded \in Embedding /\ IdleReflector \in Admission /\ IdleConsolidator \in Consolidation
    BY DEF NotEmbedded, Embedding, IdleReflector, Admission, IdleConsolidator, Consolidation
<1>2. Typed
    BY <1>1 DEF Init, Typed
<1>3. Stored = 1..0
    BY DEF Init, Stored
<1>4. Dense
    BY <1>3, Numbers DEF Dense
<1>5. IndexFollowsTable
    BY RowsTyped DEF Init, IndexFollowsTable
<1>6. ASSUME NEW r \in Reflector PROVE Admitting(r)
    BY DEF Init, Admitting, At, IdleReflector, Working
<1>7. ASSUME NEW c \in Consolidator PROVE Consolidating(c)
    BY DEF Init, Consolidating, IdleConsolidator
<1> QED BY <1>2, <1>4, <1>5, <1>6, <1>7 DEF IInv

\* Recalls and the clock touch nothing of this.
LEMMA BystanderSound ==
    ASSUME IInv, UNCHANGED <<lesson, embedding, index, reflector, consolidator>>, faults' \in Nat
    PROVE  IInv'
<1>1. Typed' /\ Dense' /\ IndexFollowsTable'
    BY DEF IInv, Typed, Dense, IndexFollowsTable, Stored
<1> QED BY <1>1, Unchanged, OthersKept DEF IInv

LEMMA RecallStep ==
    ASSUME IInv, NEW q \in Recaller, Recall(q)
    PROVE  UNCHANGED <<lesson, embedding, index, reflector, consolidator>>
           /\ faults' \in Nat
<1>1. ASSUME NEW e \in Execution, Search(q, e)
      PROVE  UNCHANGED <<lesson, embedding, index, reflector, consolidator>> /\ faults' \in Nat
    <2>1. Outage \/ NoFault
        BY <1>1 DEF Search
    <2> QED BY <1>1, <2>1, Counted DEF Search, rows
<1>2. ASSUME NEW p \in Point, Load(q, p)
      PROVE  UNCHANGED <<lesson, embedding, index, reflector, consolidator>> /\ faults' \in Nat
    BY <1>2, Counted DEF Load, rows
<1>3. CASE Select(q)
    BY <1>3, Counted DEF Select, rows
<1>4. CASE RecordInfluence(q)
    BY <1>4, Counted DEF RecordInfluence, rows
<1> QED BY <1>1, <1>2, <1>3, <1>4 DEF Recall

LEMMA DiesSound == IInv /\ Dies => IInv'
<1> SUFFICES ASSUME IInv, Dies PROVE IInv'
    OBVIOUS
<1>0. UNCHANGED <<lesson, embedding, index>> /\ faults' \in Nat
    BY Counted DEF Dies, rows
<1>1. ASSUME NEW r \in Reflector, ~At(r, "idle"), Abandon(r), UNCHANGED consolidator
      PROVE  IInv'
    BY <1>0, <1>1, Proceeds, Unchanged, PointsStored, AdmissionStep DEF At
<1>2. ASSUME NEW c \in Consolidator, Enter(c, "idle", {}), UNCHANGED reflector
      PROVE  IInv'
    BY <1>0, <1>2, EnterSound
<1>3. CASE UNCHANGED <<reflector, consolidator>>
    BY <1>0, <1>3, BystanderSound
<1> QED BY <1>1, <1>2, <1>3 DEF Dies

LEMMA AdmitSound ==
    ASSUME IInv, NEW r \in Reflector, Admit(r)
    PROVE  IInv'
BY SearchesSound, CreateSound, IndexSound, RecordSound DEF Admit

LEMMA StepSound == IInv /\ [Next]_vars => IInv'
<1> SUFFICES ASSUME IInv, [Next]_vars PROVE IInv'
    OBVIOUS
<1>1. CASE TimePasses
    BY <1>1, BystanderSound, Counted DEF TimePasses, rows
<1>2. ASSUME NEW q \in Recaller, Recall(q) PROVE IInv'
    BY <1>2, RecallStep, BystanderSound
<1>3. CASE UNCHANGED vars
    BY <1>3, BystanderSound DEF vars, rows, IInv, Typed
<1> QED BY <1>1, <1>2, <1>3, ReflectSound, AdmitSound, ConsolidateSound, DiesSound DEF Next

\* The inductive invariant.
THEOREM MemoryInvariant == Spec => []IInv
BY InitSound, StepSound, PTL DEF Spec

\* The index speaks of rows that exist, and a row recorded as indexed has the
\* point it names, however admissions, overlapping passes, outages and deaths
\* interleave.
THEOREM IndexFollowsTableAlways == Spec => []IndexFollowsTable
<1>1. IInv => IndexFollowsTable
    BY DEF IInv
<1> QED BY <1>1, MemoryInvariant, PTL
-----------------------------------------------------------------------------
(* What is admitted is stored.                                             *)

\* A call that goes on with the same candidates has not finished one.
LEMMA NotFinished ==
    ASSUME IInv, NEW r \in Reflector, reflector[r].pc # "idle",
           reflector'[r].todo = reflector[r].todo
    PROVE  ~AdmissionEnds(r)
<1>1. reflector[r].todo \in Seq(Lesson) /\ reflector[r].todo # <<>>
    BY DEF IInv, Typed, Admission, Admitting, At
<1>2. Len(Tail(reflector[r].todo)) # Len(reflector[r].todo)
    BY <1>1
<1> QED BY <1>2 DEF AdmissionEnds

\* The lesson, or a near-duplicate, is stored in its repository.
Remembered(l) ==
    \E m \in Memory : /\ lesson'[m] # NoLesson
                      /\ <<l, lesson'[m]>> \in Near
                      /\ RepositoryOf[lesson'[m]] = RepositoryOf[l]

LEMMA StoredIsRemembered ==
    ASSUME NEW l \in Lesson, NEW m \in Memory, lesson'[m] = l
    PROVE  Remembered(l)
BY MemoryAssumption DEF Remembered

LEMMA AdmitEnds ==
    ASSUME IInv, NEW r \in Reflector, Admit(r), AdmissionEnds(r)
    PROVE  Remembered(Candidate(r))
<1> DEFINE l == Candidate(r)
<1>0. /\ reflector[r].pc # "idle" /\ l \in Lesson
      /\ l \notin Invalid /\ l \notin Ineligible
      /\ faults' = faults /\ faults \in Nat
      /\ reflector'[r].todo # reflector[r].todo
    BY CandidateTyped, NotFinished DEF AdmissionEnds, At, IInv, Typed
<1>1. ~Fault
    BY <1>0 DEF Fault
<1>2. \A pc \in {"search", "create", "record", "queue"} : ~Goto(r, pc)
    BY <1>0, Goes
<1>3. CASE Lookup(r)
    <2>1. ByFingerprint(l) # {} /\ lesson' = lesson
        BY <1>0, <1>2, <1>3 DEF Lookup, IsValid, IsEligible, rows
    <2>2. PICK m \in Stored : lesson[m] = l
        BY <2>1 DEF ByFingerprint
    <2> QED BY <1>0, <2>1, <2>2, StoredMemories, StoredIsRemembered
<1>4. CASE SearchSimilar(r)
    <2>1. Similar(l) # {} /\ lesson' = lesson
        BY <1>2, <1>4 DEF SearchSimilar, rows
    <2>2. PICK p \in index : SameScope(l, lesson[p[1]]) /\ <<l, lesson[p[1]]>> \in Near
        BY <2>1 DEF Similar
    <2>3. p[1] \in Memory /\ lesson[p[1]] # NoLesson
        BY PointsStored DEF Stored
    <2> QED BY <2>1, <2>2, <2>3 DEF SameScope, Remembered
<1>5. CASE Create(r)
    <2>1. Insert(Cardinality(Stored) + 1, l) /\ Cardinality(Stored) + 1 \in Memory
        BY <1>1, <1>5 DEF Create
    <2>2. lesson'[Cardinality(Stored) + 1] = l
        BY <1>0, <2>1, Inserted
    <2> QED BY <1>0, <2>1, <2>2, StoredIsRemembered
<1>6. CASE Index(r)
    BY <1>2, <1>6 DEF Index
<1>7. CASE Record(r) \/ QueueRetry(r)
    <2>1. lesson' = lesson /\ reflector[r].pc \in Working
        BY <1>7 DEF Record, QueueRetry, rows, At, Working
    <2>2. reflector[r].memory \in Stored /\ lesson[reflector[r].memory] = l
        BY <2>1 DEF IInv, Admitting
    <2> QED BY <1>0, <2>1, <2>2, StoredMemories, StoredIsRemembered
<1> QED BY <1>3, <1>4, <1>5, <1>6, <1>7 DEF Admit

\* A step that is not this admission's own leaves it alone, starts it or kills it.
LEMMA OthersDoNotEnd ==
    ASSUME IInv, NEW r \in Reflector, Next, ~Admit(r)
    PROVE  ~AdmissionEnds(r)
<1> SUFFICES ASSUME ~At(r, "idle") PROVE ~AdmissionEnds(r)
    BY DEF AdmissionEnds
<1>0. reflector \in [Reflector -> Admission] /\ reflector[r].pc # "idle" /\ faults \in Nat
    BY DEF IInv, Typed, At
<1>1. CASE Dies
    BY <1>0, <1>1 DEF Dies, Fault, AdmissionEnds
<1>2. CASE reflector'[r] = reflector[r]
    BY <1>0, <1>2, NotFinished
<1>3. ASSUME NEW v \in Reflector, v # r,
             (\E report \in Reports : Reflect(v, report)) \/ Admit(v)
      PROVE  reflector'[r] = reflector[r]
    <2>1. CASE \E report \in Reports : Reflect(v, report)
        BY <1>0, <1>3, <2>1 DEF Reflect
    <2>2. CASE Admit(v)
        BY <1>0, <1>3, <2>2 DEF Admit, Lookup, SearchSimilar, Create, Index, Record, QueueRetry,
              Proceed, Abandon, Goto
    <2> QED BY <1>3, <2>1, <2>2
<1>4. ASSUME NEW report \in Reports, Reflect(r, report) PROVE FALSE
    BY <1>0, <1>4 DEF Reflect, At
<1>5. ASSUME NEW c \in Consolidator, Consolidate(c) PROVE reflector' = reflector
    BY <1>5 DEF Consolidate, Expire, ListStale, ListPending, MarkIndexed, EndPass, MarkStale, Reindex
<1>6. ASSUME NEW q \in Recaller, Recall(q) PROVE reflector' = reflector
    BY <1>6, RecallStep
<1>7. CASE TimePasses
    BY <1>2, <1>7 DEF TimePasses
<1> QED BY <1>1, <1>2, <1>3, <1>4, <1>5, <1>6, <1>7 DEF Next

\* A candidate that admission is done with, neither refused nor broken off, is
\* stored, itself or a near-duplicate in the same repository.
THEOREM AdmittedMeansStoredAlways == Spec => AdmittedMeansStored
<1> DEFINE Ends == \A r \in Reflector : AdmissionEnds(r) =>
          \E m \in Memory : /\ lesson'[m] # NoLesson
                            /\ <<Candidate(r), lesson'[m]>> \in Near
                            /\ RepositoryOf[lesson'[m]] = RepositoryOf[Candidate(r)]
<1>1. IInv /\ [Next]_vars => [Ends]_vars
    BY AdmitEnds, OthersDoNotEnd DEF Remembered
<1> QED BY <1>1, MemoryInvariant, PTL DEF Spec, AdmittedMeansStored
-----------------------------------------------------------------------------
(* Outages lose no memory.                                                 *)

\* What was neither queued nor is being worked on has cost a fault.
Lost == Cardinality(Unqueued) <= faults

LEMMA UnqueuedFinite ==
    /\ IsFiniteSet(Unqueued) /\ Cardinality(Unqueued) \in Nat
    /\ IsFiniteSet(Unqueued') /\ Cardinality(Unqueued') \in Nat
<1>1. IsFiniteSet(Memory)
    BY Numbers, FS_Interval DEF Memory
<1>2. Unqueued \in SUBSET Memory /\ Unqueued' \in SUBSET Memory
    BY DEF Unqueued, Stored
<1>3. IsFiniteSet(Unqueued) /\ IsFiniteSet(Unqueued')
    BY <1>1, <1>2, FS_Subset
<1> QED BY <1>3, FS_CardinalityType

\* A step that loses none, and one that loses one at the cost of a fault.
LEMMA LosesNone ==
    ASSUME Lost, Unqueued' \subseteq Unqueued, faults' = faults \/ Fault, faults \in Nat
    PROVE  Lost'
<1>1. Cardinality(Unqueued') <= Cardinality(Unqueued)
    BY UnqueuedFinite, FS_Subset
<1> QED BY <1>1, UnqueuedFinite DEF Lost, Fault

LEMMA LosesOne ==
    ASSUME Lost, NEW m, Unqueued' \subseteq Unqueued \cup {m}, Fault, faults \in Nat
    PROVE  Lost'
<1>1. /\ IsFiniteSet(Unqueued \cup {m})
      /\ Cardinality(Unqueued \cup {m}) <= Cardinality(Unqueued) + 1
      /\ Cardinality(Unqueued \cup {m}) \in Nat
    BY UnqueuedFinite, FS_AddElement, FS_CardinalityType
<1>2. Cardinality(Unqueued') <= Cardinality(Unqueued \cup {m})
    BY <1>1, FS_Subset
<1> QED BY <1>1, <1>2, UnqueuedFinite DEF Lost, Fault

\* Rows are queued and nobody lets go of one.
LEMMA NoneLetGo ==
    ASSUME IInv, lesson' = lesson,
           \A m \in Memory : embedding[m] # NotEmbedded => embedding'[m] # NotEmbedded,
           \A r \in Reflector : reflector'[r].memory = reflector[r].memory
    PROVE  Unqueued' \subseteq Unqueued
BY DEF Unqueued, Stored

\* One admission lets go of its row, and nothing else changes.
LEMMA OneLetsGo ==
    ASSUME IInv, NEW r \in Reflector, lesson' = lesson,
           \A m \in Memory : embedding[m] # NotEmbedded => embedding'[m] # NotEmbedded,
           \A v \in Reflector \ {r} : reflector'[v] = reflector[v]
    PROVE  Unqueued' \subseteq Unqueued \cup {reflector[r].memory}
BY DEF Unqueued, Stored

LEMMA AdmitLoses ==
    ASSUME StoreEnabled, IInv, Lost, NEW r \in Reflector, Admit(r)
    PROVE  Lost'
<1> DEFINE m == reflector[r].memory
<1>0. /\ reflector \in [Reflector -> Admission] /\ reflector[r] \in Admission
      /\ embedding \in [Memory -> Embedding] /\ faults \in Nat
      /\ Admitting(r)
    BY DEF IInv, Typed
<1>1. CASE Lookup(r) \/ SearchSimilar(r)
    <2>1. UNCHANGED <<lesson, embedding>> /\ faults' = faults /\ m = 0
          /\ \A v \in Reflector \ {r} : reflector'[v] = reflector[v]
        BY <1>0, <1>1 DEF Lookup, SearchSimilar, rows, NoFault, Outage, Admitting, At, Working,
              Proceed, Abandon, Goto
    <2>2. Unqueued' \subseteq Unqueued \cup {0}
        BY <2>1, OneLetsGo
    <2>3. Unqueued' \subseteq Unqueued
        BY <2>2, Numbers DEF Unqueued, Stored
    <2> QED BY <1>0, <2>1, <2>3, LosesNone
<1>2. CASE Create(r)
    <2> DEFINE k == Cardinality(Stored) + 1
    <2>1. /\ reflector[r].pc = "create" /\ k \in Memory /\ embedding' = embedding /\ m = 0
          /\ \A v \in Reflector \ {r} : reflector'[v] = reflector[v]
        BY <1>0, <1>2 DEF Create, Admitting, At, Working, Proceed, Abandon
    <2>2. CASE /\ Insert(k, Candidate(r)) /\ NoFault
               /\ reflector' = [reflector EXCEPT ![r].pc = "index", ![r].memory = k]
        <3>1. Stored' = Stored \cup {k}
            BY <2>1, <2>2, CandidateTyped, Inserted
        <3>2. reflector'[r].memory = k
            BY <1>0, <2>2 DEF Admission
        <3> HIDE DEF k, m
        <3>3. Unqueued' \subseteq Unqueued
            BY <1>0, <2>1, <3>1, <3>2, Numbers, StoredMemories DEF Unqueued, m
        <3> QED BY <1>0, <2>2, <3>3, LosesNone DEF NoFault
    <2>3. CASE Insert(k, Candidate(r)) /\ Abandon(r) /\ Fault
        <3>1. Stored' = Stored \cup {k}
            BY <2>1, <2>3, CandidateTyped, Inserted
        <3> HIDE DEF k, m
        <3>2. Unqueued' \subseteq Unqueued \cup {k}
            BY <1>0, <2>1, <3>1, Numbers, StoredMemories DEF Unqueued, m
        <3> QED BY <1>0, <2>3, <3>2, LosesOne
    <2>4. CASE UNCHANGED lesson /\ Abandon(r) /\ Fault
        <3>1. Unqueued' \subseteq Unqueued \cup {0}
            BY <2>1, <2>4, OneLetsGo
        <3> QED BY <1>0, <2>4, <3>1, LosesOne
    <2> QED BY <1>2, <2>2, <2>3, <2>4 DEF Create
<1>3. CASE Index(r)
    <2>1. UNCHANGED <<lesson, embedding>> /\ faults' = faults
        BY <1>3 DEF Index, rows, NoFault, Outage, UpsertFails, EmbedFails
    <2>2. \E pc \in {"record", "queue"} : Goto(r, pc)
        BY <1>3 DEF Index
    <2>3. \A v \in Reflector : reflector'[v].memory = reflector[v].memory
        BY <2>2, Goes
    <2> QED BY <1>0, <2>1, <2>3, NoneLetGo, LosesNone
<1>4. CASE Record(r) \/ QueueRetry(r)
    <2>1. lesson' = lesson /\ m \in Stored /\ m \in Memory
        BY <1>0, <1>4, StoredMemories DEF Record, QueueRetry, rows, Admitting, At, Working
    <2>2. Pending # NotEmbedded /\ Indexed(<<m, "admission">>) # NotEmbedded
        BY DEF Pending, NotEmbedded, Indexed
    <2>3. \A k \in Memory : embedding[k] # NotEmbedded => embedding'[k] # NotEmbedded
        BY <1>0, <1>4, <2>1 DEF Record, QueueRetry, Embed
    <2>4. \A v \in Reflector \ {r} : reflector'[v] = reflector[v]
        BY <1>0, <1>4 DEF Record, QueueRetry, Proceed, Goto
    <2>5. Unqueued' \subseteq Unqueued \cup {m}
        BY <2>1, <2>3, <2>4, OneLetsGo
    <2>6. CASE Fault
        BY <1>0, <2>5, <2>6, LosesOne
    <2>7. CASE ~Fault
        <3>1. faults' = faults /\ embedding'[m] # NotEmbedded
            BY <1>0, <1>4, <2>1, <2>2, <2>7 DEF Record, QueueRetry, Embed, NoFault
        <3>2. Unqueued' \subseteq Unqueued
            BY <2>5, <3>1 DEF Unqueued
        <3> QED BY <1>0, <3>1, <3>2, LosesNone
    <2> QED BY <2>6, <2>7
<1> QED BY <1>1, <1>2, <1>3, <1>4 DEF Admit

LEMMA ConsolidateLoses ==
    ASSUME IInv, Lost, NEW c \in Consolidator, Consolidate(c)
    PROVE  Lost'
<1>0. embedding \in [Memory -> Embedding] /\ faults \in Nat
    BY DEF IInv, Typed
<1>1. UNCHANGED <<lesson, reflector>> /\ faults' = faults
    BY DEF Consolidate, Expire, ListStale, ListPending, MarkIndexed, EndPass, MarkStale, Reindex,
           rows, NoFault, Outage, UpsertFails, EmbedFails
<1>2. embedding' = embedding \/ \E m \in Memory, p \in Point \cup {NoPoint} \cup (Memory \X {"reindex"}) :
          embedding' = [embedding EXCEPT ![m] = Indexed(p)]
    <2>1. CASE MarkIndexed(c)
        <3>1. consolidator[c].memory \in Stored
            BY <2>1 DEF MarkIndexed, IInv, Consolidating
        <3> QED BY <2>1, <3>1, StoredMemories DEF MarkIndexed
    <2> QED BY <2>1 DEF Consolidate, Expire, ListStale, ListPending, EndPass, MarkStale, Reindex
<1>3. \A m \in Memory : embedding[m] # NotEmbedded => embedding'[m] # NotEmbedded
    BY <1>0, <1>2 DEF Indexed, NotEmbedded
<1> QED BY <1>0, <1>1, <1>3, NoneLetGo, LosesNone

\* However often the index or the embeddings fail, a memory whose admission is
\* over has its row in ai_memory_embeddings, but for one a fault.
THEOREM LostOnlyByFaultAlways == Spec => []LostOnlyByFault
<1>1. Init => LostOnlyByFault
    <2> SUFFICES ASSUME Init PROVE Lost
        BY DEF LostOnlyByFault, Lost
    <2>1. Unqueued = {}
        BY DEF Init, Unqueued, Stored
    <2> QED BY <2>1, FS_EmptySet DEF Init, Lost
<1>2. IInv /\ LostOnlyByFault /\ [Next]_vars => LostOnlyByFault'
    <2> SUFFICES ASSUME StoreEnabled, IInv, Lost, [Next]_vars PROVE Lost'
        BY DEF LostOnlyByFault, Lost
    <2>0. reflector \in [Reflector -> Admission] /\ faults \in Nat
        BY DEF IInv, Typed
    <2>1. CASE UNCHANGED <<lesson, embedding>> /\ (faults' = faults \/ Fault)
               /\ \A r \in Reflector : reflector'[r].memory = reflector[r].memory
        BY <2>0, <2>1, NoneLetGo, LosesNone
    <2>2. ASSUME NEW r \in Reflector, NEW report \in Reports, Reflect(r, report) PROVE Lost'
        <3>1. \A v \in Reflector : reflector'[v].memory = reflector[v].memory
            BY <2>0, <2>2 DEF Reflect, IInv, Admitting, At, Working
        <3> QED BY <2>1, <2>2, <3>1 DEF Reflect, NoFault, rows
    <2>3. ASSUME NEW q \in Recaller, Recall(q) PROVE Lost'
        <3>1. faults' = faults \/ Fault
            BY <2>3 DEF Recall, Search, Load, Select, RecordInfluence, NoFault, Outage
        <3> QED BY <2>1, <2>3, <3>1, RecallStep
    <2>4. CASE TimePasses
        BY <2>1, <2>4 DEF TimePasses, NoFault, rows
    <2>5. CASE Dies
        <3>1. ASSUME NEW r \in Reflector, Abandon(r) PROVE Lost'
            <4>1. \A v \in Reflector \ {r} : reflector'[v] = reflector[v]
                BY <2>0, <3>1 DEF Abandon
            <4>2. Unqueued' \subseteq Unqueued \cup {reflector[r].memory}
                BY <2>5, <4>1, OneLetsGo DEF Dies, rows
            <4> QED BY <2>0, <2>5, <4>2, LosesOne DEF Dies
        <3>2. CASE UNCHANGED reflector
            BY <2>1, <2>5, <3>2 DEF Dies, rows
        <3> QED BY <2>5, <3>1, <3>2 DEF Dies
    <2>6. CASE UNCHANGED vars
        BY <2>1, <2>6 DEF vars, rows
    <2>7. ASSUME NEW r \in Reflector, Admit(r) PROVE Lost'
        BY <2>7, AdmitLoses
    <2>8. ASSUME NEW c \in Consolidator, Consolidate(c) PROVE Lost'
        BY <2>8, ConsolidateLoses
    <2> QED BY <2>2, <2>3, <2>4, <2>5, <2>6, <2>7, <2>8 DEF Next
<1> QED BY <1>1, <1>2, MemoryInvariant, PTL DEF Spec

-----------------------------------------------------------------------------
(* Recalls, and the types of all variables.                                *)

Recollection ==
    [pc : {"idle", "load", "record"}, execution : Execution,
     hits : SUBSET Point, loaded : SUBSET Point,
     selected : Seq(Memory), rank : 0..TopK + 1, gone : SUBSET Memory]

\* What IInv leaves out; only rows that are stored age.
Kept ==
    /\ status \in [Memory -> Status]
    /\ influence \in [Execution \X (1..TopK) -> Memory \cup {0}]
    /\ aged \subseteq Stored
    /\ recaller \in [Recaller -> Recollection]
    /\ calls \in 0..MaxCalls
    /\ outages \in 0..MaxOutages
    /\ faults \in 0..MaxFaults

\* What was forgotten when the recall began is so now, and neither loaded nor
\* selected; a list that is being recorded has TopK places at most.
Recalling(q) ==
    LET call == recaller[q] IN
    /\ Len(call.selected) <= TopK
    /\ call.pc = "record" => call.rank \in 1..(Len(call.selected) + 1)
    /\ \A m \in call.gone : m \in Stored /\ Forgotten(m)
    /\ \A p \in call.loaded : p[1] \notin call.gone
    /\ \A i \in DOMAIN call.selected : call.selected[i] \notin call.gone

RInv == Kept /\ \A q \in Recaller : Recalling(q)

LEMMA Bounds ==
    /\ TopK \in Nat /\ MaxCalls \in Nat /\ MaxOutages \in Nat /\ MaxFaults \in Nat
    /\ NoFault \/ Fault \/ Outage => /\ outages \in 0..MaxOutages => outages' \in 0..MaxOutages
                                     /\ faults \in 0..MaxFaults => faults' \in 0..MaxFaults
    /\ Execution # {}
<1>1. TopK \in Nat /\ MaxCalls \in Nat /\ MaxOutages \in Nat /\ MaxFaults \in Nat /\ Execution # {}
    BY MemoryAssumption
<1> QED BY <1>1 DEF NoFault, Fault, Outage

\* A row that is forgotten stays so: nothing makes it active again, nothing
\* makes it younger, and its type does not change.
Ages ==
    /\ \A m \in Stored : m \in Stored' /\ lesson'[m] = lesson[m]
    /\ aged \subseteq aged'
    /\ \A m \in Memory : status[m] # "active" => status'[m] # "active"

LEMMA StaysForgotten ==
    ASSUME Ages, NEW m \in Stored, Forgotten(m)
    PROVE  m \in Stored' /\ Forgotten(m)'
<1>1. m \in Memory
    BY StoredMemories
<1> QED BY <1>1 DEF Ages, Forgotten, Overdue

LEMMA OthersRecall ==
    ASSUME RInv, Ages, NEW q \in Recaller, recaller'[q] = recaller[q]
    PROVE  Recalling(q)'
<1>1. Recalling(q)
    BY DEF RInv
<1>2. \A m \in recaller[q].gone : m \in Stored' /\ Forgotten(m)'
    BY <1>1, StaysForgotten DEF Recalling
<1> DEFINE call == recaller[q]
<1>3. call' = call
    OBVIOUS
<1> QED BY <1>1, <1>2, <1>3 DEF Recalling

\* The failures of a step are counted, within their bounds.
LEMMA FailuresCounted ==
    ASSUME [Next]_vars
    PROVE  NoFault \/ Fault \/ Outage
<1>1. ASSUME NEW r \in Reflector, (\E report \in Reports : Reflect(r, report)) \/ Admit(r)
      PROVE  NoFault \/ Fault \/ Outage
    BY <1>1 DEF Reflect, Admit, Lookup, SearchSimilar, Create, Index, Record, QueueRetry,
        UpsertFails, EmbedFails
<1>2. ASSUME NEW c \in Consolidator, Consolidate(c)
      PROVE  NoFault \/ Fault \/ Outage
    BY <1>2 DEF Consolidate, Expire, ListStale, ListPending, MarkIndexed, EndPass, MarkStale,
        Reindex, UpsertFails, EmbedFails
<1>3. ASSUME NEW q \in Recaller, Recall(q)
      PROVE  NoFault \/ Fault \/ Outage
    BY <1>3 DEF Recall, Search, Load, Select, RecordInfluence
<1>4. CASE TimePasses \/ Dies \/ UNCHANGED vars
    BY <1>4 DEF TimePasses, Dies, vars, NoFault
<1> QED BY <1>1, <1>2, <1>3, <1>4 DEF Next

\* Candidates and recalls are counted, within their bound.
LEMMA CallsCounted ==
    ASSUME calls \in 0..MaxCalls, [Next]_vars
    PROVE  calls' \in 0..MaxCalls
<1>0. MaxCalls \in Nat
    BY Bounds
<1>1. ASSUME NEW n \in Nat, Start(n) PROVE calls' \in 0..MaxCalls
    BY <1>0, <1>1 DEF Start
<1>2. ASSUME NEW r \in Reflector, NEW report \in Reports, Reflect(r, report)
      PROVE  calls' \in 0..MaxCalls
    <2>1. report \in Seq(Lesson)
        BY MemoryAssumption
    <2>2. Len(report) \in Nat
        BY <2>1
    <2> QED BY <1>1, <1>2, <2>2 DEF Reflect
<1>3. ASSUME NEW r \in Reflector, Admit(r)
      PROVE  calls' = calls
    BY <1>3 DEF Admit, Lookup, SearchSimilar, Create, Index, Record, QueueRetry
<1>4. ASSUME NEW c \in Consolidator, Consolidate(c)
      PROVE  calls' = calls
    BY <1>4 DEF Consolidate, Expire, ListStale, ListPending, MarkIndexed, EndPass, MarkStale, Reindex
<1>5. ASSUME NEW q \in Recaller, Recall(q)
      PROVE  calls' = calls \/ Start(1)
    BY <1>5 DEF Recall, Search, Load, Select, RecordInfluence
<1>6. CASE TimePasses \/ Dies \/ UNCHANGED vars
    BY <1>6 DEF TimePasses, Dies, vars
<1> QED BY <1>1, <1>2, <1>3, <1>4, <1>5, <1>6 DEF Next

\* A row stays, with its lesson.
LEMMA RowsKept ==
    ASSUME IInv, [Next]_vars
    PROVE  \A m \in Stored : m \in Stored' /\ lesson'[m] = lesson[m]
<1>1. CASE lesson' = lesson
    BY <1>1 DEF Stored
<1>2. ASSUME NEW r \in Reflector, Create(r)
      PROVE  \A m \in Stored : m \in Stored' /\ lesson'[m] = lesson[m]
    <2>1. Cardinality(Stored) + 1 \in Memory /\ reflector[r].pc # "idle"
        BY <1>2 DEF Create, At
    <2>2. CASE Insert(Cardinality(Stored) + 1, Candidate(r))
        BY <2>1, <2>2, CandidateTyped, Inserted
    <2> QED BY <1>1, <1>2, <2>2 DEF Create
<1>3. ASSUME NEW r \in Reflector, Admit(r), ~Create(r)
      PROVE  lesson' = lesson
    BY <1>3 DEF Admit, Lookup, SearchSimilar, Index, Record, QueueRetry, rows
<1>4. ASSUME NEW c \in Consolidator, Consolidate(c)
      PROVE  lesson' = lesson
    BY <1>4 DEF Consolidate, Expire, ListStale, ListPending, MarkIndexed, EndPass, MarkStale, Reindex,
        rows
<1>5. ASSUME NEW q \in Recaller, Recall(q)
      PROVE  lesson' = lesson
    BY <1>5, RecallStep
<1>6. TimePasses \/ Dies \/ UNCHANGED vars => lesson' = lesson
    BY DEF TimePasses, Dies, vars, rows
<1>7. ASSUME NEW r \in Reflector, NEW report \in Reports, Reflect(r, report)
      PROVE  lesson' = lesson
    BY <1>7 DEF Reflect, rows
<1> QED BY <1>1, <1>2, <1>3, <1>4, <1>5, <1>6, <1>7 DEF Next

\* The statuses and the clock, which only consolidation and time write.
LEMMA RowsAge ==
    ASSUME IInv, RInv, [Next]_vars
    PROVE  Ages /\ status' \in [Memory -> Status] /\ aged' \subseteq Stored'
<1>0. /\ \A m \in Stored : m \in Stored' /\ lesson'[m] = lesson[m]
      /\ status \in [Memory -> Status] /\ aged \subseteq Stored
    BY RowsKept DEF RInv, Kept
<1>1. \/ UNCHANGED status
      \/ \E S \in SUBSET Memory, st \in {"expired", "stale"} :
            status' = [m \in Memory |-> IF m \in S THEN st ELSE status[m]]
    <2>1. ASSUME NEW c \in Consolidator, Expire(c)
          PROVE  status' = [m \in Memory |->
                     IF m \in {k \in Memory : k \in Stored /\ status[k] = "active" /\ Overdue(k)}
                     THEN "expired" ELSE status[m]]
        BY <2>1 DEF Expire
    <2>2. ASSUME NEW c \in Consolidator, NEW k \in Memory, MarkStale(c, k)
          PROVE  status' = [m \in Memory |-> IF m \in {k} THEN "stale" ELSE status[m]]
        BY <1>0, <2>2 DEF MarkStale
    <2>3. ASSUME NEW c \in Consolidator, Consolidate(c)
          PROVE  \/ UNCHANGED status \/ Expire(c)
                 \/ \E k \in Memory : MarkStale(c, k)
        BY <2>3 DEF Consolidate, ListStale, ListPending, MarkIndexed, EndPass, Reindex, rows
    <2>4. ASSUME NEW r \in Reflector, (\E report \in Reports : Reflect(r, report)) \/ Admit(r)
          PROVE  UNCHANGED status
        BY <2>4 DEF Reflect, Admit, Lookup, SearchSimilar, Create, Index, Record, QueueRetry, rows
    <2>5. ASSUME NEW q \in Recaller, Recall(q)
          PROVE  UNCHANGED status
        BY <2>5 DEF Recall, Search, Load, Select, RecordInfluence, rows
    <2>6. CASE TimePasses \/ Dies \/ UNCHANGED vars
        BY <2>6 DEF TimePasses, Dies, vars, rows
    <2>7. ASSUME NEW c \in Consolidator, Consolidate(c)
          PROVE  \/ UNCHANGED status
                 \/ \E S \in SUBSET Memory, st \in {"expired", "stale"} :
                       status' = [m \in Memory |-> IF m \in S THEN st ELSE status[m]]
        <3>1. CASE Expire(c)
            <4> DEFINE S == {k \in Memory : k \in Stored /\ status[k] = "active" /\ Overdue(k)}
            <4>1. S \in SUBSET Memory
                OBVIOUS
            <4>2. status' = [m \in Memory |-> IF m \in S THEN "expired" ELSE status[m]]
                BY <2>1, <3>1
            <4> HIDE DEF S
            <4> QED BY <4>1, <4>2
        <3>2. ASSUME NEW k \in Memory, MarkStale(c, k)
              PROVE  \E S \in SUBSET Memory, st \in {"expired", "stale"} :
                       status' = [m \in Memory |-> IF m \in S THEN st ELSE status[m]]
            <4>1. {k} \in SUBSET Memory
                OBVIOUS
            <4>2. status' = [m \in Memory |-> IF m \in {k} THEN "stale" ELSE status[m]]
                BY <2>2, <3>2
            <4> QED BY <4>1, <4>2
        <3> QED BY <2>3, <2>7, <3>1, <3>2
    <2> QED BY <2>4, <2>5, <2>6, <2>7 DEF Next
<1>2. status' \in [Memory -> Status] /\ \A m \in Memory : status[m] # "active" => status'[m] # "active"
    BY <1>0, <1>1 DEF Status
<1>3. aged' = aged \/ aged' = Stored
    <2>1. ASSUME NEW c \in Consolidator, Consolidate(c)
          PROVE  UNCHANGED aged
        BY <2>1 DEF Consolidate, Expire, ListStale, ListPending, MarkIndexed, EndPass, MarkStale, Reindex
    <2>2. ASSUME NEW r \in Reflector, (\E report \in Reports : Reflect(r, report)) \/ Admit(r)
          PROVE  UNCHANGED aged
        BY <2>2 DEF Reflect, Admit, Lookup, SearchSimilar, Create, Index, Record, QueueRetry
    <2>3. ASSUME NEW q \in Recaller, Recall(q)
          PROVE  UNCHANGED aged
        BY <2>3 DEF Recall, Search, Load, Select, RecordInfluence
    <2>4. CASE TimePasses \/ Dies \/ UNCHANGED vars
        BY <2>4 DEF TimePasses, Dies, vars
    <2> QED BY <2>1, <2>2, <2>3, <2>4 DEF Next
<1>4. aged \subseteq aged' /\ aged' \subseteq Stored'
    BY <1>0, <1>3
<1> QED BY <1>0, <1>2, <1>4 DEF Ages

\* A recall that makes a step, or dies; the others do not.
LEMMA OneRecalls ==
    ASSUME IInv, RInv, [Next]_vars, NEW q \in Recaller, NEW call \in Recollection,
           recaller' = [recaller EXCEPT ![q] = call],
           influence' \in [Execution \X (1..TopK) -> Memory \cup {0}],
           Len(call.selected) <= TopK,
           call.pc = "record" => call.rank \in 1..(Len(call.selected) + 1),
           \A m \in call.gone : m \in Stored /\ Forgotten(m),
           \A p \in call.loaded : p[1] \notin call.gone,
           \A i \in DOMAIN call.selected : call.selected[i] \notin call.gone
    PROVE  RInv'
<1>1. recaller \in [Recaller -> Recollection]
    BY DEF RInv, Kept
<1>2. Ages /\ status' \in [Memory -> Status] /\ aged' \subseteq Stored'
    BY RowsAge
<1>3. recaller' \in [Recaller -> Recollection] /\ recaller'[q] = call
      /\ \A v \in Recaller \ {q} : recaller'[v] = recaller[v]
    BY <1>1
<1>4. calls' \in 0..MaxCalls /\ outages' \in 0..MaxOutages /\ faults' \in 0..MaxFaults
    BY FailuresCounted, CallsCounted, Bounds DEF RInv, Kept
<1>5. Kept'
    BY <1>2, <1>3, <1>4 DEF Kept
<1>6. Recalling(q)'
    <2>1. \A m \in call.gone : m \in Stored' /\ Forgotten(m)'
        BY <1>2, StaysForgotten
    <2> QED BY <1>3, <2>1 DEF Recalling
<1>7. \A v \in Recaller \ {q} : Recalling(v)'
    BY <1>2, <1>3, OthersRecall
<1> QED BY <1>5, <1>6, <1>7 DEF RInv

\* A step of anyone else.
LEMMA NoneRecalls ==
    ASSUME IInv, RInv, [Next]_vars, UNCHANGED <<recaller, influence>>
    PROVE  RInv'
<1>1. Ages /\ status' \in [Memory -> Status] /\ aged' \subseteq Stored'
    BY RowsAge
<1>2. calls' \in 0..MaxCalls /\ outages' \in 0..MaxOutages /\ faults' \in 0..MaxFaults
    BY FailuresCounted, CallsCounted, Bounds DEF RInv, Kept
<1>3. Kept'
    BY <1>1, <1>2 DEF RInv, Kept
<1>4. \A q \in Recaller : Recalling(q)'
    BY <1>1, OthersRecall
<1> QED BY <1>3, <1>4 DEF RInv

\* Between two calls.
LEMMA IdleRecalls ==
    /\ IdleRecaller \in Recollection
    /\ IdleRecaller.pc = "idle" /\ IdleRecaller.selected = <<>> /\ IdleRecaller.hits = {}
    /\ IdleRecaller.loaded = {} /\ IdleRecaller.gone = {} /\ IdleRecaller.rank = 0
    /\ Len(<<>>) = 0 /\ DOMAIN <<>> = {}
<1>1. (CHOOSE e \in Execution : TRUE) \in Execution
    BY Bounds
<1>2. 0 \in 0..TopK + 1
    BY Bounds
<1> QED BY <1>1, <1>2 DEF IdleRecaller, Recollection

\* A call is over.
LEMMA ReturnSound ==
    ASSUME IInv, RInv, [Next]_vars, NEW q \in Recaller, Return(q), UNCHANGED influence
    PROVE  RInv'
<1>1. /\ recaller' = [recaller EXCEPT ![q] = IdleRecaller]
      /\ influence' \in [Execution \X (1..TopK) -> Memory \cup {0}]
    BY DEF Return, RInv, Kept
<1>2. Len(IdleRecaller.selected) <= TopK
    BY IdleRecalls, Bounds
<1> QED BY <1>1, <1>2, IdleRecalls, OneRecalls

\* The hits are points of rows that exist, and the record of what is forgotten
\* holds rows that are stored.
LEMMA SearchSound ==
    ASSUME IInv, RInv, Next, NEW q \in Recaller, NEW e \in Execution, Search(q, e)
    PROVE  RInv'
<1> DEFINE gone == {m \in Stored : Forgotten(m)}
<1>1. CASE UNCHANGED recaller
    BY <1>1, NoneRecalls DEF Search
<1>2. CASE \E hits \in SUBSET InIndexOf(RepositoryFor[e]) :
              recaller' = [recaller EXCEPT ![q] =
                  [IdleRecaller EXCEPT !.pc = "load", !.execution = e, !.hits = hits, !.gone = gone]]
    <2>1. PICK hits \in SUBSET InIndexOf(RepositoryFor[e]) :
              recaller' = [recaller EXCEPT ![q] =
                  [IdleRecaller EXCEPT !.pc = "load", !.execution = e, !.hits = hits, !.gone = gone]]
        BY <1>2
    <2>2. hits \subseteq Point
        BY PointsStored DEF InIndexOf
    <2>3. gone \subseteq Memory /\ \A m \in gone : m \in Stored /\ Forgotten(m)
        BY DEF Stored
    <2> HIDE DEF gone
    <2> DEFINE called == [IdleRecaller EXCEPT !.pc = "load", !.execution = e]
               call == [called EXCEPT !.hits = hits, !.gone = gone]
    <2>4. recaller' = [recaller EXCEPT ![q] = call]
        <3>1. [IdleRecaller EXCEPT !.pc = "load", !.execution = e, !.hits = hits, !.gone = gone] = call
            OBVIOUS
        <3> QED BY <2>1, <3>1
    <2>5. /\ called \in Recollection /\ called.pc = "load"
          /\ called.selected = <<>> /\ called.loaded = {}
        BY IdleRecalls DEF Recollection
    <2> HIDE DEF called
    <2>6. /\ call \in Recollection /\ call.pc = "load" /\ call.selected = <<>>
          /\ call.loaded = {} /\ call.gone = gone
        BY <2>2, <2>3, <2>5 DEF Recollection
    <2> HIDE DEF call
    <2>7. Len(call.selected) <= TopK /\ DOMAIN call.selected = {}
        BY <2>6, IdleRecalls, Bounds
    <2>8. influence' \in [Execution \X (1..TopK) -> Memory \cup {0}]
        BY DEF Search, RInv, Kept
    <2> QED BY <2>3, <2>4, <2>6, <2>7, <2>8, OneRecalls
<1> QED BY <1>1, <1>2 DEF Search

\* What is loaded is not forgotten now, and so was not when the recall began.
LEMMA LoadSound ==
    ASSUME IInv, RInv, Next, NEW q \in Recaller, NEW p \in Point, Load(q, p)
    PROVE  RInv'
<1> DEFINE old == recaller[q]
           more == IF Live(p[1], RepositoryFor[old.execution]) THEN old.loaded \cup {p} ELSE old.loaded
           fewer == [old EXCEPT !.hits = old.hits \ {p}]
           call == [fewer EXCEPT !.loaded = more]
<1>1. /\ recaller \in [Recaller -> Recollection] /\ old \in Recollection /\ Recalling(q)
      /\ influence' \in [Execution \X (1..TopK) -> Memory \cup {0}]
    BY DEF RInv, Kept, Load
<1>2. recaller' = [recaller EXCEPT ![q] = call]
    <2>1. recaller' = [recaller EXCEPT ![q] = [old EXCEPT !.hits = old.hits \ {p}, !.loaded = more]]
        BY <1>1 DEF Load
    <2>2. [old EXCEPT !.hits = old.hits \ {p}, !.loaded = more] = call
        OBVIOUS
    <2> QED BY <2>1, <2>2
<1>3. more \subseteq Point /\ \A o \in more : o[1] \notin old.gone
    <2>1. old.loaded \subseteq Point /\ \A o \in old.loaded : o[1] \notin old.gone
        BY <1>1 DEF Recollection, Recalling
    <2>2. Live(p[1], RepositoryFor[old.execution]) => p[1] \notin old.gone
        BY <1>1 DEF Recalling, Live
    <2> QED BY <2>1, <2>2
<1> HIDE DEF more
<1>4. /\ fewer \in Recollection
      /\ fewer.pc = old.pc /\ fewer.selected = old.selected /\ fewer.rank = old.rank
      /\ fewer.gone = old.gone
    BY <1>1 DEF Recollection
<1> HIDE DEF fewer
<1>5. /\ call \in Recollection
      /\ call.pc = old.pc /\ call.loaded = more /\ call.selected = old.selected
      /\ call.rank = old.rank /\ call.gone = old.gone
    BY <1>3, <1>4 DEF Recollection
<1> HIDE DEF call
<1>6. /\ Len(call.selected) <= TopK
      /\ call.pc = "record" => call.rank \in 1..(Len(call.selected) + 1)
      /\ \A m \in call.gone : m \in Stored /\ Forgotten(m)
      /\ \A o \in call.loaded : o[1] \notin call.gone
      /\ \A i \in DOMAIN call.selected : call.selected[i] \notin call.gone
    BY <1>1, <1>3, <1>5 DEF Recalling
<1> QED BY <1>1, <1>2, <1>5, <1>6, OneRecalls

\* The selection is a list of at most TopK of what is loaded.
LEMMA SelectionSound ==
    ASSUME NEW pool, NEW s \in Selections(pool)
    PROVE  /\ Len(s) \in Nat /\ Len(s) <= TopK /\ DOMAIN s = 1..Len(s)
           /\ \A i \in DOMAIN s : s[i] \in pool
<1>1. PICK n \in 0..TopK : s \in [1..n -> pool]
    BY DEF Selections
<1>2. n \in Nat /\ n <= TopK
    BY <1>1, Bounds
<1>3. Len(s) = n
    BY <1>1, <1>2
<1> QED BY <1>1, <1>2, <1>3

LEMMA SelectSound ==
    ASSUME IInv, RInv, Next, NEW q \in Recaller, Select(q)
    PROVE  RInv'
<1> DEFINE old == recaller[q]
<1>1. /\ recaller \in [Recaller -> Recollection] /\ old \in Recollection /\ Recalling(q)
      /\ influence' \in [Execution \X (1..TopK) -> Memory \cup {0}]
    BY DEF RInv, Kept, Select
<1>2. PICK s \in Selections(Relevant(old.loaded)) :
          recaller' = [recaller EXCEPT ![q].pc = "record", ![q].rank = 1, ![q].loaded = {},
                                       ![q].selected = [i \in DOMAIN s |-> s[i][1]]]
    BY DEF Select
<1> DEFINE list == [i \in DOMAIN s |-> s[i][1]]
<1>3. /\ Len(s) \in Nat /\ Len(s) <= TopK /\ DOMAIN s = 1..Len(s)
      /\ \A i \in DOMAIN s : s[i] \in old.loaded
    BY SelectionSound DEF Relevant
<1>4. \A o \in old.loaded : o[1] \in Memory /\ o[1] \notin old.gone
    BY <1>1 DEF Recollection, Recalling, Point
<1>5. /\ list \in [1..Len(s) -> Memory]
      /\ DOMAIN list = 1..Len(s) /\ \A i \in DOMAIN list : list[i] \notin old.gone
    BY <1>3, <1>4
<1> HIDE DEF list
<1>6. list \in Seq(Memory) /\ Len(list) = Len(s)
    BY <1>3, <1>5
<1> DEFINE ranked == [old EXCEPT !.pc = "record", !.rank = 1]
           call == [ranked EXCEPT !.loaded = {}, !.selected = list]
<1>7. recaller' = [recaller EXCEPT ![q] = call]
    <2>1. recaller' = [recaller EXCEPT ![q] = [old EXCEPT !.pc = "record", !.rank = 1, !.loaded = {}, !.selected = list]]
        BY <1>1, <1>2 DEF list
    <2>2. [old EXCEPT !.pc = "record", !.rank = 1, !.loaded = {}, !.selected = list] = call
        OBVIOUS
    <2> QED BY <2>1, <2>2
<1>8. /\ ranked \in Recollection /\ ranked.pc = "record" /\ ranked.rank = 1 /\ ranked.gone = old.gone
    <2>1. 1 \in 0..TopK + 1
        BY Bounds
    <2> QED BY <1>1, <2>1 DEF Recollection
<1> HIDE DEF ranked
<1>9. /\ call \in Recollection /\ call.pc = "record" /\ call.rank = 1 /\ call.gone = old.gone
      /\ call.loaded = {} /\ call.selected = list
    BY <1>6, <1>8 DEF Recollection
<1> HIDE DEF call
<1>10. /\ Len(call.selected) <= TopK
       /\ call.rank \in 1..(Len(call.selected) + 1)
       /\ \A m \in call.gone : m \in Stored /\ Forgotten(m)
       /\ \A o \in call.loaded : o[1] \notin call.gone
       /\ \A i \in DOMAIN call.selected : call.selected[i] \notin call.gone
    BY <1>1, <1>3, <1>5, <1>6, <1>9 DEF Recalling
<1> QED BY <1>1, <1>7, <1>9, <1>10, OneRecalls

\* The rows inf_<execution>_<rank> have ranks up to TopK.
LEMMA RecordInfluenceSound ==
    ASSUME IInv, RInv, Next, NEW q \in Recaller, RecordInfluence(q)
    PROVE  RInv'
<1> DEFINE old == recaller[q]
           call == [old EXCEPT !.rank = old.rank + 1]
           row == <<old.execution, old.rank>>
<1>1. /\ recaller \in [Recaller -> Recollection] /\ old \in Recollection /\ Recalling(q)
      /\ influence \in [Execution \X (1..TopK) -> Memory \cup {0}]
      /\ old.pc = "record"
    BY DEF RInv, Kept, RecordInfluence
<1>2. CASE Return(q) /\ UNCHANGED influence
    BY <1>2, ReturnSound
<1>3. CASE /\ old.rank <= Len(old.selected)
           /\ influence' = [influence EXCEPT ![row] =
                    IF @ = 0 THEN old.selected[old.rank] ELSE @]
           /\ recaller' = [recaller EXCEPT ![q].rank = @ + 1]
    <2>1. /\ old.selected \in Seq(Memory) /\ Len(old.selected) \in Nat /\ Len(old.selected) <= TopK
          /\ old.rank \in 1..Len(old.selected)
        BY <1>1, <1>3 DEF Recollection, Recalling
    <2>2. old.selected[old.rank] \in Memory
        BY <2>1
    <2>3. row \in Execution \X (1..TopK)
        BY <1>1, <2>1, Bounds DEF Recollection
    <2>4. influence' \in [Execution \X (1..TopK) -> Memory \cup {0}]
        BY <1>1, <1>3, <2>2, <2>3
    <2>5. recaller' = [recaller EXCEPT ![q] = call]
        BY <1>3
    <2>6. old.rank + 1 \in 0..TopK + 1 /\ old.rank + 1 \in 1..(Len(old.selected) + 1)
        BY <2>1, Bounds
    <2>7. /\ call \in Recollection /\ call.pc = "record" /\ call.rank = old.rank + 1
          /\ call.gone = old.gone /\ call.loaded = old.loaded /\ call.selected = old.selected
        BY <1>1, <2>6 DEF Recollection
    <2> HIDE DEF call
    <2>8. /\ Len(call.selected) <= TopK
          /\ call.rank \in 1..(Len(call.selected) + 1)
          /\ \A m \in call.gone : m \in Stored /\ Forgotten(m)
          /\ \A o \in call.loaded : o[1] \notin call.gone
          /\ \A i \in DOMAIN call.selected : call.selected[i] \notin call.gone
        BY <1>1, <2>6, <2>7 DEF Recalling
    <2> QED BY <2>4, <2>5, <2>7, <2>8, OneRecalls
<1> QED BY <1>2, <1>3 DEF RecordInfluence

LEMMA RInvInit == Init => RInv
<1> SUFFICES ASSUME Init PROVE RInv
    OBVIOUS
<1>1. /\ calls \in 0..MaxCalls /\ outages \in 0..MaxOutages /\ faults \in 0..MaxFaults
      /\ aged \subseteq Stored /\ recaller \in [Recaller -> Recollection]
    BY IdleRecalls, Bounds DEF Init
<1>2. /\ status \in [Memory -> Status]
      /\ influence \in [Execution \X (1..TopK) -> Memory \cup {0}]
    BY DEF Init, Status
<1>3. \A q \in Recaller : Recalling(q)
    BY IdleRecalls, Bounds DEF Init, Recalling
<1> QED BY <1>1, <1>2, <1>3 DEF RInv, Kept

LEMMA RInvStep == IInv /\ RInv /\ [Next]_vars => RInv'
<1> SUFFICES ASSUME IInv, RInv, [Next]_vars PROVE RInv'
    OBVIOUS
<1>1. ASSUME NEW r \in Reflector, (\E report \in Reports : Reflect(r, report)) \/ Admit(r)
      PROVE  UNCHANGED <<recaller, influence>>
    BY <1>1 DEF Reflect, Admit, Lookup, SearchSimilar, Create, Index, Record, QueueRetry
<1>2. ASSUME NEW c \in Consolidator, Consolidate(c)
      PROVE  UNCHANGED <<recaller, influence>>
    BY <1>2 DEF Consolidate, Expire, ListStale, ListPending, MarkIndexed, EndPass, MarkStale, Reindex
<1>3. TimePasses \/ UNCHANGED vars => UNCHANGED <<recaller, influence>>
    BY DEF TimePasses, vars
<1>4. CASE Dies
    <2>1. \/ UNCHANGED <<recaller, influence>>
          \/ \E q \in Recaller : Return(q) /\ UNCHANGED influence
        BY <1>4 DEF Dies, Return
    <2> QED BY <2>1, NoneRecalls, ReturnSound
<1>5. ASSUME NEW q \in Recaller, Recall(q), Next PROVE RInv'
    BY <1>5, SearchSound, LoadSound, SelectSound, RecordInfluenceSound DEF Recall
<1> QED BY <1>1, <1>2, <1>3, <1>4, <1>5, NoneRecalls DEF Next

\* Recalls stay clear of what was forgotten when they began.
THEOREM RecallInvariant == Spec => []RInv
BY RInvInit, RInvStep, MemoryInvariant, PTL DEF Spec

\* Rows, points, calls in flight and counters keep their shape, and no rank
\* exceeds TopK (memory-recall.ts:293-318).
THEOREM TypeCorrect == Spec => []TypeOK
<1>1. IInv /\ RInv => TypeOK
    <2> SUFFICES ASSUME IInv, RInv PROVE TypeOK
        OBVIOUS
    <2>1. Stored \subseteq Memory
        BY DEF Stored
    <2> QED BY <2>1 DEF IInv, RInv, Typed, Kept, TypeOK, Admission, Consolidation, Recollection
<1> QED BY <1>1, MemoryInvariant, RecallInvariant, PTL

\* What had expired or was stale when a recall began is not among what it
\* selects, however stale the index is and whatever passes do while the hits
\* are loaded one by one (memory-recall.ts:231-249).
THEOREM NothingForgottenIsRecalledAlways == Spec => []NothingForgottenIsRecalled
<1>1. RInv => NothingForgottenIsRecalled
    BY DEF RInv, Recalling, NothingForgottenIsRecalled
<1> QED BY <1>1, RecallInvariant, PTL

-----------------------------------------------------------------------------
(* The diversity selection.                                                *)

\* A set of naturals that is not empty has a least element, and a bounded one
\* a greatest.
LEMMA LeastElement ==
    ASSUME NEW S, S \subseteq Nat, S # {}
    PROVE  \E i \in S : \A k \in S : i <= k
<1> DEFINE Smaller == {ss \in Nat \X Nat : ss[1] < ss[2]}
<1>1. IsWellFoundedOn(Smaller, Nat)
    BY NatLessThanWellFounded DEF OpToRel
<1> HIDE DEF Smaller
<1>2. PICK i \in S : \A k \in S : ~(<<k, i>> \in Smaller)
    BY <1>1, WFMin
<1>3. \A k \in S : ~(k < i)
    BY <1>2 DEF Smaller
<1> QED BY <1>3

LEMMA GreatestElement ==
    ASSUME NEW n \in Nat, NEW S, S \subseteq 0..n, S # {}
    PROVE  \E i \in S : \A k \in S : k <= i
<1> DEFINE T == {n - k : k \in S}
<1>1. T \subseteq Nat /\ T # {}
    <2>1. \A k \in S : k \in Nat /\ k <= n
        OBVIOUS
    <2>2. \A k \in S : n - k \in Nat
        BY <2>1
    <2>3. PICK k \in S : TRUE
        OBVIOUS
    <2>4. n - k \in T
        OBVIOUS
    <2> QED BY <2>2, <2>4
<1>2. PICK t \in T : \A u \in T : t <= u
    BY <1>1, LeastElement
<1>3. PICK i \in S : t = n - i
    OBVIOUS
<1>4. \A k \in S : n - i <= n - k
    BY <1>2, <1>3
<1> QED BY <1>4

\* Among finitely many points that may be selected, one is best.
LEMMA OneIsBest ==
    ASSUME NEW points, NEW open, IsFiniteSet(open), open # {},
           \A p \in open : Mmr(points, p) \in Int
    PROVE  \E p \in open : \A o \in open : Mmr(points, p) >= Mmr(points, o)
<1> DEFINE Better(p) == {o \in open : Mmr(points, o) > Mmr(points, p)}
           sizes == {Cardinality(Better(p)) : p \in open}
<1>1. \A p \in open : IsFiniteSet(Better(p)) /\ Cardinality(Better(p)) \in Nat
    BY FS_Subset, FS_CardinalityType
<1>2. PICK least \in sizes : \A size \in sizes : least <= size
    <2>1. sizes \subseteq Nat /\ sizes # {}
        BY <1>1
    <2> HIDE DEF sizes
    <2> QED BY <2>1, LeastElement
<1>3. PICK p \in open : Cardinality(Better(p)) = least
    BY <1>2
<1>4. ASSUME NEW o \in Better(p) PROVE FALSE
    <2>1. o \in open /\ Mmr(points, o) > Mmr(points, p)
        OBVIOUS
    <2>2. Better(o) \subseteq Better(p) /\ o \notin Better(o)
        BY <2>1
    <2>3. Better(o) # Better(p)
        BY <2>2
    <2>4. Cardinality(Better(o)) < Cardinality(Better(p))
        <3>1. IsFiniteSet(Better(p)) /\ Cardinality(Better(p)) \in Nat
            BY <1>1
        <3>2. Cardinality(Better(o)) \in Nat
            BY <1>1, <2>1
        <3> DEFINE B == Better(p)
                   C == Better(o)
        <3>3. C \subseteq B /\ C # B /\ IsFiniteSet(B)
            BY <2>2, <2>3, <3>1
        <3> HIDE DEF Better, B, C
        <3>4. Cardinality(C) <= Cardinality(B) /\ (Cardinality(B) = Cardinality(C) => C = B)
            BY <3>3, FS_Subset
        <3> QED BY <3>1, <3>2, <3>3, <3>4 DEF B, C
    <2>5. least <= Cardinality(Better(o))
        BY <1>2, <2>1
    <2>6. Cardinality(Better(o)) \in Nat /\ Cardinality(Better(p)) \in Nat
        BY <1>1, <2>1
    <2> QED BY <1>3, <2>4, <2>5, <2>6
<1>5. \A o \in open : ~(Mmr(points, o) > Mmr(points, p))
    BY <1>4
<1> QED BY <1>5

\* What is selected is a list of distinct rows that were loaded, at most TopK of
\* them and at most TypeCap of a type; and if it is shorter than TopK, every row
\* that was left out has a type whose cap is reached (memory-recall.ts:131-166).
THEOREM SelectionIsDiverse ==
    ASSUME lesson \in [Memory -> Lesson \cup {NoLesson}],
           NEW pool, \A p \in pool : p \in Point /\ p[1] \in Stored,
           NEW s \in Selections(pool)
    PROVE  /\ Len(s) <= TopK
           /\ \A i \in DOMAIN s : s[i] \in pool
           /\ \A i, j \in DOMAIN s : s[i] = s[j] => i = j
           /\ \A type \in MemoryType : Cardinality(OfType(s, type)) <= TypeCap[type]
           /\ Len(s) < TopK =>
                \A p \in pool :
                   \/ \E i \in DOMAIN s : s[i] = p
                   \/ LET type == TypeOf[lesson[p[1]]]
                      IN  Cardinality(OfType(s, type)) = TypeCap[type]
<1> DEFINE Kind(p) == TypeOf[lesson[p[1]]]
<1>1. /\ Len(s) \in Nat /\ Len(s) <= TopK /\ DOMAIN s = 1..Len(s)
      /\ \A i \in DOMAIN s : s[i] \in pool
    BY SelectionSound
<1>2. \A p \in pool : lesson[p[1]] \in Lesson /\ Kind(p) \in MemoryType
    BY MemoryAssumption DEF Stored
<1>3. ASSUME NEW i \in DOMAIN s
      PROVE  /\ \A j \in 1..(i - 1) : s[j] # s[i]
             /\ Cardinality({j \in 1..(i - 1) : Kind(s[j]) = Kind(s[i])}) < TypeCap[Kind(s[i])]
    <2> DEFINE before == SubSeq(s, 1, i - 1)
    <2>1. s[i] \in Eligible(pool, before)
        BY DEF Selections, Best
    <2>2. DOMAIN before = 1..(i - 1) /\ \A j \in 1..(i - 1) : before[j] = s[j]
        BY <1>1
    <2> HIDE DEF before
    <2>3. OfType(before, Kind(s[i])) = {j \in 1..(i - 1) : Kind(s[j]) = Kind(s[i])}
        BY <2>2 DEF OfType
    <2> QED BY <2>1, <2>2, <2>3 DEF Eligible
<1>4. \A i, j \in DOMAIN s : s[i] = s[j] => i = j
    <2>1. ASSUME NEW i \in DOMAIN s, NEW j \in DOMAIN s, j < i
          PROVE  s[i] # s[j]
        <3>1. j \in 1..(i - 1)
            BY <1>1, <2>1
        <3>2. \A k \in 1..(i - 1) : s[k] # s[i]
            BY <1>3
        <3> QED BY <3>1, <3>2
    <2> QED BY <1>1, <2>1
<1>5. \A type \in MemoryType : TypeCap[type] \in Nat
    BY MemoryAssumption
<1>6. \A type : IsFiniteSet(OfType(s, type)) /\ Cardinality(OfType(s, type)) \in Nat
    <2>1. IsFiniteSet(1..Len(s))
        BY <1>1, FS_Interval
    <2>2. \A type : OfType(s, type) \subseteq 1..Len(s)
        BY <1>1 DEF OfType
    <2> QED BY <2>1, <2>2, FS_Subset, FS_CardinalityType
<1>7. ASSUME NEW type \in MemoryType
      PROVE  Cardinality(OfType(s, type)) <= TypeCap[type]
    <2> DEFINE places == OfType(s, type)
    <2>1. CASE places = {}
        BY <1>5, <2>1, FS_EmptySet
    <2>2. CASE places # {}
        <3>1. places \subseteq 0..Len(s) /\ places \subseteq DOMAIN s
            BY <1>1 DEF OfType
        <3>2. PICK i \in places : \A k \in places : k <= i
            <4> HIDE DEF places
            <4> QED BY <1>1, <2>2, <3>1, GreatestElement
        <3>3. i \in DOMAIN s /\ Kind(s[i]) = type
            BY DEF OfType
        <3>4. {j \in 1..(i - 1) : Kind(s[j]) = type} = places \ {i}
            BY <1>1, <3>2, <3>3 DEF OfType
        <3>5. Cardinality(places \ {i}) < TypeCap[type]
            BY <1>3, <3>3, <3>4
        <3>6. Cardinality(places \ {i}) = Cardinality(places) - 1
            BY <1>6, <3>2, FS_RemoveElement
        <3>7. Cardinality(places) \in Nat
            BY <1>6
        <3> QED BY <1>5, <3>5, <3>6, <3>7
    <2> QED BY <2>1, <2>2
<1>8. ASSUME Len(s) < TopK, NEW p \in pool, \A i \in DOMAIN s : s[i] # p
      PROVE  Cardinality(OfType(s, Kind(p))) = TypeCap[Kind(p)]
    <2> DEFINE open == Eligible(pool, s)
    <2>1. Best(pool, s) = {}
        BY <1>8 DEF Selections
    <2>2. IsFiniteSet(open)
        <3>1. IsFiniteSet(Memory) /\ IsFiniteSet(Origin)
            <4>1. IsFiniteSet(Memory)
                BY Numbers, FS_Interval DEF Memory
            <4>2. IsFiniteSet({"admission"} \cup {"reindex"})
                BY FS_Singleton, FS_Union
            <4>3. Origin = {"admission"} \cup {"reindex"}
                BY DEF Origin
            <4> QED BY <4>1, <4>2, <4>3
        <3>2. IsFiniteSet(Point)
            BY <3>1, FS_Product DEF Point
        <3>3. open \subseteq Point
            BY DEF Eligible
        <3> QED BY <3>2, <3>3, FS_Subset
    <2>3. \A o \in open : Mmr(s, o) \in Int
        <3>1. \A o \in open : lesson[o[1]] \in Lesson
            BY <1>2 DEF Eligible
        <3> QED BY <3>1, MemoryAssumption DEF Mmr, Relevance
    <2>4. open = {}
        <3>1. open # {} => \E o \in open : \A v \in open : Mmr(s, o) >= Mmr(s, v)
            <4> HIDE DEF open
            <4> QED BY <2>2, <2>3, OneIsBest
        <3> QED BY <2>1, <3>1 DEF Best
    <2>5. ~(Cardinality(OfType(s, Kind(p))) < TypeCap[Kind(p)])
        BY <1>8, <2>4 DEF Eligible
    <2>6. Kind(p) \in MemoryType
        BY <1>2
    <2> QED BY <1>5, <1>6, <1>7, <2>5, <2>6
<1> QED BY <1>1, <1>4, <1>7, <1>8
=============================================================================
