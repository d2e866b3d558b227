---------------------------- MODULE PollingProofs ----------------------------
(***************************************************************************)
(* Proofs about the session watchers: a watcher's record keeps its shape    *)
(* and its offsets stay below the ceilings, and a pass over a session       *)
(* leaves no question behind that stood there when it began, for any        *)
(* number of workers, sessions and activities, any page sizes and           *)
(* ceilings, and feeds that grow in any place meanwhile.                    *)
(***************************************************************************)
EXTENDS SessionPolling, SequenceTheorems, FiniteSetTheorems, TLAPS

InSession == {"activities", "deliver", "inside", "read", "write"}
PageHere == {"deliver", "inside", "read", "write"}

\* Activity a stands behind the first n entries of a feed.
Behind(a, n, entries) == \E k \in DOMAIN entries : k > n /\ entries[k] = a

\* Before a page is asked for, what was due has its decision or is still ahead.
Looking(p, done) ==
    \A a \in p.due :
        /\ Asks(a, Head(p.todo).state)
        /\ Key(a) \in done \/ Behind(a, p.from, feed[Head(p.todo).session])

\* With a page at hand, it may also be on it; what lies behind the page is only
\* reached if the token has not been seen before.
Looked(p, done) ==
    \A a \in p.due :
        /\ Asks(a, Head(p.todo).state)
        /\ \/ Key(a) \in done
           \/ a \in Range(p.page)
           \/ p.further = "next" /\ Behind(a, p.from + ActivitiesPerPage, feed[Head(p.todo).session])
           \/ p.further = "repeated"

Sound(p, done) ==
    /\ p.pc \in InSession => p.todo # <<>>
    /\ p.pc = "activities" => Looking(p, done)
    /\ p.pc \in PageHere => Looked(p, done)
    /\ p.pc \in {"deliver", "inside"} => p.page # <<>>
    /\ p.pc \in {"read", "write"} => p.page = <<>>

IInv == TypeOK /\ \A w \in Worker : Sound(poller[w], decisions)
-----------------------------------------------------------------------------
(* Least elements, pages and sequences.                                    *)

\* A set of naturals that is not empty has a least element.
LEMMA LeastElement ==
    ASSUME NEW S, S \subseteq Nat, S # {}
    PROVE  Min(S) \in S /\ \A k \in S : Min(S) <= k
<1> DEFINE Smaller == {ss \in Nat \X Nat : ss[1] < ss[2]}
<1>1. IsWellFoundedOn(Smaller, Nat)
      BY NatLessThanWellFounded DEF OpToRel
<1> HIDE DEF Smaller
<1>2. PICK i \in S : \A k \in S : ~(<<k, i>> \in Smaller)
      BY <1>1, WFMin
<1>3. \A k \in S : ~(k < i)
      BY <1>2 DEF Smaller
<1>4. \E x \in S : \A y \in S : x <= y
      BY <1>3
<1>. QED BY <1>4 DEF Min

\* A page is the part of a listing that its offset and its size say.
LEMMA PageIsPart ==
    ASSUME NEW S, NEW entries \in Seq(S), NEW from \in Nat, NEW size \in Nat \ {0}
    PROVE  /\ Page(entries, from, size) \in Seq(S)
           /\ \A k \in DOMAIN entries :
                 k > from /\ k <= from + size => entries[k] \in Range(Page(entries, from, size))
<1> DEFINE to == IF from + size < Len(entries) THEN from + size ELSE Len(entries)
           page == SubSeq(entries, from + 1, to)
<1>1. /\ Len(entries) \in Nat /\ DOMAIN entries = 1..Len(entries)
      /\ to \in Nat /\ to <= Len(entries)
      BY LenProperties
<1>2. \A i \in (from + 1)..to : entries[i] \in S
      BY <1>1, ElementOfSeq
<1>3. /\ page \in Seq(S)
      /\ Len(page) = IF from + 1 <= to THEN to - from ELSE 0
      /\ \A i \in 1..(to - from) : page[i] = entries[from + i]
      <2>1. from + 1 \in Int /\ to \in Int
            BY <1>1
      <2> HIDE DEF to
      <2>2. /\ page \in Seq(S)
            /\ Len(page) = IF from + 1 <= to THEN to - (from + 1) + 1 ELSE 0
            /\ \A i \in 1..(to - (from + 1) + 1) : page[i] = entries[from + 1 + i - 1]
            BY <2>1, <1>2, SubSeqProperties
      <2>. QED BY <2>1, <2>2
<1>4. ASSUME NEW k \in DOMAIN entries, k > from, k <= from + size
      PROVE  entries[k] \in Range(page)
      <2>1. k - from \in 1..(to - from) /\ from + (k - from) = k
            BY <1>1, <1>4
      <2>2. page[k - from] = entries[k] /\ k - from \in DOMAIN page
            <3>1. DOMAIN page = 1..Len(page)
                  BY <1>3, LenProperties
            <3>. QED BY <1>1, <1>3, <2>1, <3>1
      <2>. QED BY <2>2 DEF Range
<1>5. page = Page(entries, from, size)
      BY DEF Page
<1>. QED BY <1>3, <1>4, <1>5

\* An entry that is put in anywhere moves the others up by one at most.
LEMMA InsertAtMovesUp ==
    ASSUME NEW S, NEW q \in Seq(S), NEW n \in 1..(Len(q) + 1), NEW e \in S
    PROVE  /\ InsertAt(q, n, e) \in Seq(S)
           /\ \A k \in DOMAIN q :
                 \E m \in DOMAIN InsertAt(q, n, e) : m >= k /\ InsertAt(q, n, e)[m] = q[k]
<1> DEFINE front == SubSeq(q, 1, n - 1)
           back == SubSeq(q, n, Len(q))
           whole == (front \o <<e>>) \o back
<1>1. Len(q) \in Nat /\ DOMAIN q = 1..Len(q)
      BY LenProperties
<1>2. \A i \in 1..Len(q) : q[i] \in S
      BY ElementOfSeq
<1>3. /\ front \in Seq(S) /\ Len(front) = n - 1
      /\ \A i \in 1..(n - 1) : front[i] = q[i]
      <2>1. n - 1 \in Int /\ 1 \in Int /\ \A i \in 1..(n - 1) : q[i] \in S
            BY <1>1, <1>2
      <2>2. /\ front \in Seq(S)
            /\ Len(front) = IF 1 <= n - 1 THEN n - 1 - 1 + 1 ELSE 0
            /\ \A i \in 1..(n - 1 - 1 + 1) : front[i] = q[1 + i - 1]
            BY <2>1, SubSeqProperties
      <2>. QED BY <1>1, <2>2
<1>4. /\ back \in Seq(S) /\ Len(back) = Len(q) - n + 1
      /\ \A i \in 1..(Len(q) - n + 1) : back[i] = q[n + i - 1]
      <2>1. n \in Int /\ Len(q) \in Int /\ \A i \in n..Len(q) : q[i] \in S
            BY <1>1, <1>2
      <2>2. /\ back \in Seq(S)
            /\ Len(back) = IF n <= Len(q) THEN Len(q) - n + 1 ELSE 0
            /\ \A i \in 1..(Len(q) - n + 1) : back[i] = q[n + i - 1]
            BY <2>1, SubSeqProperties
      <2>. QED BY <1>1, <2>2
<1>5. <<e>> \in Seq(S) /\ Len(<<e>>) = 1
      OBVIOUS
<1> HIDE DEF front, back
<1>6. /\ front \o <<e>> \in Seq(S) /\ Len(front \o <<e>>) = n
      /\ \A i \in 1..(n - 1) : (front \o <<e>>)[i] = q[i]
      BY <1>1, <1>3, <1>5, ConcatProperties
<1>7. /\ whole \in Seq(S) /\ Len(whole) = Len(q) + 1
      /\ \A i \in 1..(Len(q) + 1) :
            whole[i] = IF i <= n THEN (front \o <<e>>)[i] ELSE back[i - n]
      <2> DEFINE ahead == front \o <<e>>
      <2>1. ahead \in Seq(S) /\ Len(ahead) = n
            BY <1>6
      <2> HIDE DEF ahead
      <2>2. /\ ahead \o back \in Seq(S)
            /\ Len(ahead \o back) = Len(ahead) + Len(back)
            /\ \A i \in 1..(Len(ahead) + Len(back)) :
                  (ahead \o back)[i] = IF i <= Len(ahead) THEN ahead[i] ELSE back[i - Len(ahead)]
            BY <2>1, <1>4, ConcatProperties
      <2>3. Len(ahead) + Len(back) = Len(q) + 1
            BY <1>1, <1>4, <2>1
      <2>4. whole = ahead \o back
            BY DEF ahead
      <2>. QED BY <2>1, <2>2, <2>3, <2>4 DEF ahead
<1>8. DOMAIN whole = 1..(Len(q) + 1)
      BY <1>7, LenProperties
<1> HIDE DEF whole
<1>9. ASSUME NEW k \in DOMAIN q
      PROVE  \E m \in DOMAIN whole : m >= k /\ whole[m] = q[k]
      <2>1. CASE k < n
            <3>1. k \in DOMAIN whole /\ whole[k] = q[k]
                  BY <1>1, <1>6, <1>7, <1>8, <2>1
            <3>. QED BY <1>1, <3>1
      <2>2. CASE k >= n
            <3>1. k + 1 \in DOMAIN whole /\ whole[k + 1] = back[k + 1 - n]
                  BY <1>1, <1>7, <1>8, <2>2
            <3>2. k + 1 - n \in 1..(Len(q) - n + 1) /\ n + (k + 1 - n) - 1 = k
                  BY <1>1, <2>2
            <3>3. whole[k + 1] = q[k]
                  BY <1>4, <3>1, <3>2
            <3>. QED BY <1>1, <3>1, <3>3
      <2>. QED BY <1>1, <2>1, <2>2
<1>10. InsertAt(q, n, e) = whole
      BY DEF InsertAt, whole, front, back
<1>. QED BY <1>7, <1>9, <1>10

\* The order of a listing may change: it stays one of the same sessions.
LEMMA MovedListing ==
    ASSUME NEW S, IsFiniteSet(S), NEW q \in SetToSeqs(S), NEW n \in DOMAIN q, n # 1
    PROVE  <<q[n]>> \o RemoveAt(q, n) \in SetToSeqs(S)
<1> DEFINE size == Cardinality(S)
           front == SubSeq(q, 1, n - 1)
           back == SubSeq(q, n + 1, size)
           whole == <<q[n]>> \o (front \o back)
<1>1. size \in Nat
      BY FS_CardinalityType
<1>2. /\ q \in [1..size -> S]
      /\ \A i, j \in 1..size : i # j => q[i] # q[j]
      BY DEF SetToSeqs
<1> HIDE DEF size
<1>3. q \in Seq(S) /\ Len(q) = size /\ DOMAIN q = 1..size
      BY <1>1, <1>2
<1>4. n \in 2..size /\ q[n] \in S
      BY <1>1, <1>2, <1>3
<1>5. /\ front \in Seq(S) /\ Len(front) = n - 1
      /\ \A i \in 1..(n - 1) : front[i] = q[i]
      <2>1. n - 1 \in Int /\ 1 \in Int /\ \A i \in 1..(n - 1) : q[i] \in S
            BY <1>1, <1>2, <1>4
      <2>2. /\ front \in Seq(S)
            /\ Len(front) = IF 1 <= n - 1 THEN n - 1 - 1 + 1 ELSE 0
            /\ \A i \in 1..(n - 1 - 1 + 1) : front[i] = q[1 + i - 1]
            BY <2>1, SubSeqProperties
      <2>. QED BY <1>1, <1>4, <2>2
<1>6. /\ back \in Seq(S) /\ Len(back) = size - n
      /\ \A i \in 1..(size - n) : back[i] = q[n + i]
      <2>1. n + 1 \in Int /\ size \in Int /\ \A i \in (n + 1)..size : q[i] \in S
            BY <1>1, <1>2, <1>4
      <2>2. /\ back \in Seq(S)
            /\ Len(back) = IF n + 1 <= size THEN size - (n + 1) + 1 ELSE 0
            /\ \A i \in 1..(size - (n + 1) + 1) : back[i] = q[n + 1 + i - 1]
            BY <2>1, SubSeqProperties
      <2>. QED BY <1>1, <1>4, <2>2
<1> HIDE DEF front, back
<1>7. /\ front \o back \in Seq(S) /\ Len(front \o back) = size - 1
      /\ \A i \in 1..(size - 1) : (front \o back)[i] = IF i < n THEN q[i] ELSE q[i + 1]
      <2>1. /\ front \o back \in Seq(S)
            /\ Len(front \o back) = Len(front) + Len(back)
            /\ \A i \in 1..(Len(front) + Len(back)) :
                  (front \o back)[i] = IF i <= Len(front) THEN front[i] ELSE back[i - Len(front)]
            BY <1>5, <1>6, ConcatProperties
      <2>2. Len(front) + Len(back) = size - 1
            BY <1>1, <1>4, <1>5, <1>6
      <2>3. ASSUME NEW i \in 1..(size - 1)
            PROVE  (front \o back)[i] = IF i < n THEN q[i] ELSE q[i + 1]
            <3>1. CASE i < n
                  BY <1>1, <1>4, <1>5, <2>1, <2>2, <3>1
            <3>2. CASE i >= n
                  <4>1. i - (n - 1) \in 1..(size - n) /\ n + (i - (n - 1)) = i + 1
                        BY <1>1, <1>4, <3>2
                  <4>2. (front \o back)[i] = back[i - (n - 1)]
                        BY <1>1, <1>4, <1>5, <2>1, <2>2, <3>2
                  <4>. QED BY <1>1, <1>4, <1>6, <3>2, <4>1, <4>2
            <3>3. i \in Int /\ n \in Int
                  BY <1>1, <1>4
            <3>4. i < n \/ i >= n
                  BY <3>3
            <3>. QED BY <3>1, <3>2, <3>4
      <2>. QED BY <2>1, <2>2, <2>3
<1>8. <<q[n]>> \in Seq(S) /\ Len(<<q[n]>>) = 1 /\ <<q[n]>>[1] = q[n]
      BY <1>4
<1>9. /\ whole \in Seq(S) /\ Len(whole) = size
      /\ \A i \in 1..size :
            whole[i] = IF i = 1 THEN q[n] ELSE IF i - 1 < n THEN q[i - 1] ELSE q[i]
      <2> DEFINE first == <<q[n]>>
                 rest == front \o back
      <2> HIDE DEF first, rest
      <2>1. /\ first \in Seq(S) /\ Len(first) = 1 /\ first[1] = q[n]
            /\ rest \in Seq(S) /\ Len(rest) = size - 1
            /\ \A i \in 1..(size - 1) : rest[i] = IF i < n THEN q[i] ELSE q[i + 1]
            BY <1>7, <1>8 DEF first, rest
      <2>2. /\ first \o rest \in Seq(S)
            /\ Len(first \o rest) = Len(first) + Len(rest)
            /\ \A i \in 1..(Len(first) + Len(rest)) :
                  (first \o rest)[i] = IF i <= Len(first) THEN first[i] ELSE rest[i - Len(first)]
            BY <2>1, ConcatProperties
      <2>3. Len(first) + Len(rest) = size
            BY <1>1, <2>1
      <2>4. ASSUME NEW i \in 1..size, i # 1
            PROVE  (first \o rest)[i] = IF i - 1 < n THEN q[i - 1] ELSE q[i]
            <3>1. i - 1 \in 1..(size - 1) /\ (i - 1) + 1 = i
                  BY <1>1, <2>4
            <3>2. (first \o rest)[i] = rest[i - 1]
                  BY <1>1, <2>1, <2>2, <2>3, <2>4
            <3>. QED BY <2>1, <3>1, <3>2
      <2>5. 1 \in 1..size /\ (first \o rest)[1] = q[n]
            BY <1>1, <1>4, <2>1, <2>2, <2>3
      <2>6. whole = first \o rest
            BY DEF first, rest
      <2>. QED BY <1>1, <2>1, <2>2, <2>3, <2>4, <2>5, <2>6
<1> HIDE DEF whole
<1>10. whole \in [1..size -> S]
      BY <1>9
<1>11. ASSUME NEW i \in 1..size, NEW j \in 1..size, i # j
      PROVE  whole[i] # whole[j]
      <2> DEFINE From(k) == IF k = 1 THEN n ELSE IF k - 1 < n THEN k - 1 ELSE k
      <2>1. \A k \in 1..size : From(k) \in 1..size /\ whole[k] = q[From(k)]
            BY <1>1, <1>4, <1>9
      <2>2. From(i) # From(j)
            BY <1>1, <1>4, <1>11
      <2> HIDE DEF From
      <2>. QED BY <1>2, <2>1, <2>2
<1>12. whole \in SetToSeqs(S)
      BY <1>10, <1>11 DEF SetToSeqs, size
<1>13. whole = <<q[n]>> \o RemoveAt(q, n)
      BY <1>3 DEF whole, front, back, RemoveAt
<1>. QED BY <1>12, <1>13
-----------------------------------------------------------------------------
(* The loops.                                                              *)

\* The offsets below the ceiling: the first page, and the page after one that
\* is not the last.
LEMMA OffsetsBelowCeiling ==
    ASSUME NEW size \in Nat \ {0}
    PROVE  /\ Offsets(size) \subseteq Nat
           /\ 0 \in Offsets(size)
           /\ \A from \in Offsets(size) :
                 ~AtCeiling(from, size) => from + size \in Offsets(size)
<1>1. MaxPages \in Nat \ {0}
      BY PollingAssumption
<1>2. \A k \in 0..(MaxPages - 1) : k * size \in Nat
      BY <1>1
<1>3. 0 = 0 * size /\ 0 \in 0..(MaxPages - 1)
      BY <1>1
<1>4. ASSUME NEW k \in 0..(MaxPages - 1), ~(k * size + size >= MaxPages * size)
      PROVE  k * size + size \in Offsets(size)
      <2>1. k * size + size = (k + 1) * size
            BY <1>1
      <2>2. CASE k + 1 >= MaxPages
            <3>1. k + 1 = MaxPages
                  BY <1>1, <2>2
            <3>. QED BY <1>1, <1>2, <1>4, <2>1, <3>1
      <2>3. CASE k + 1 < MaxPages
            <3>1. k + 1 \in 0..(MaxPages - 1)
                  BY <1>1, <2>3
            <3>. QED BY <2>1, <3>1 DEF Offsets
      <2>. QED BY <1>1, <2>2, <2>3
<1>. QED BY <1>2, <1>3, <1>4 DEF Offsets, AtCeiling

\* The constants of the loops, and a watcher between two passes.
LEMMA AsleepIsFine ==
    /\ SessionsPerPage \in Nat \ {0} /\ ActivitiesPerPage \in Nat \ {0}
    /\ Asleep \in Poller
    /\ \A done : Sound(Asleep, done)
    /\ [Asleep EXCEPT !.pc = "sessions"] \in Poller
    /\ \A done : Sound([Asleep EXCEPT !.pc = "sessions"], done)
    /\ [Asleep EXCEPT !.pc = "down"] \in Poller
    /\ \A done : Sound([Asleep EXCEPT !.pc = "down"], done)
<1>1. SessionsPerPage \in Nat \ {0} /\ ActivitiesPerPage \in Nat \ {0}
      BY PollingAssumption
<1>2. 0 \in Offsets(SessionsPerPage) /\ 0 \in Offsets(ActivitiesPerPage)
      BY <1>1, OffsetsBelowCeiling
<1>3. <<>> \in Seq(Inspected) /\ <<>> \in Seq(Activity)
      OBVIOUS
<1>4. Asleep \in Poller
      BY <1>2, <1>3 DEF Asleep, Poller, More, Column, NoMark
<1>5. /\ [Asleep EXCEPT !.pc = "sessions"] \in Poller
      /\ [Asleep EXCEPT !.pc = "down"] \in Poller
      BY <1>4 DEF Poller
<1>6. /\ Asleep.pc = "asleep"
      /\ [Asleep EXCEPT !.pc = "sessions"].pc = "sessions"
      /\ [Asleep EXCEPT !.pc = "down"].pc = "down"
      BY DEF Asleep
<1>7. /\ \A done : Sound(Asleep, done)
      /\ \A done : Sound([Asleep EXCEPT !.pc = "sessions"], done)
      /\ \A done : Sound([Asleep EXCEPT !.pc = "down"], done)
      BY <1>6 DEF Sound, InSession, PageHere
<1>. QED BY <1>1, <1>4, <1>5, <1>7

\* The session that is opened: nothing of it has been looked at yet.
LEMMA OpenIsFine ==
    ASSUME NEW p \in Poller, p.todo # <<>>, feed \in [Session -> Seq(Activity)]
    PROVE  Open(p) \in Poller /\ \A done : Sound(Open(p), done)
<1> DEFINE first == Head(p.todo)
           asked == {a \in Range(feed[first.session]) : Asks(a, first.state)}
           opened == Open(p)
<1>1. p.todo \in Seq(Inspected)
      BY DEF Poller
<1>2. first \in Inspected
      BY <1>1, HeadTailProperties
<1>3. first.session \in Session
      BY <1>2 DEF Inspected
<1>4. feed[first.session] \in Seq(Activity)
      BY <1>3
<1>5. /\ DOMAIN feed[first.session] = 1..Len(feed[first.session])
      /\ \A k \in DOMAIN feed[first.session] : feed[first.session][k] \in Activity
      BY <1>4, LenProperties
<1>6. asked \subseteq Activity
      BY <1>5 DEF Range
<1> HIDE DEF first, asked
<1>7. opened = [Asleep EXCEPT !.pc = "activities", !.at = p.at, !.more = p.more,
                              !.todo = p.todo, !.from = 0, !.due = asked]
      BY DEF Open, FirstPage, first, asked
<1>8. opened = [pc |-> "activities", at |-> p.at, more |-> p.more, todo |-> p.todo,
                from |-> 0, further |-> "none", page |-> <<>>, mark |-> NoMark,
                existing |-> NoRow, due |-> asked]
      BY <1>7 DEF Asleep
<1> HIDE DEF opened
<1>9. opened \in Poller
      <2>1. 0 \in Offsets(ActivitiesPerPage)
            BY AsleepIsFine, OffsetsBelowCeiling
      <2>2. p.at \in Offsets(SessionsPerPage) /\ p.more \in More
            BY DEF Poller
      <2>3. <<>> \in Seq(Activity) /\ "none" \in More /\ NoMark \in Column
            BY DEF More, Column
      <2>. QED BY <1>1, <1>6, <1>8, <2>1, <2>2, <2>3 DEF Poller
<1>10. ASSUME NEW done
       PROVE  Sound(opened, done)
      <2>1. /\ opened.pc = "activities" /\ opened.todo = p.todo
            /\ opened.from = 0 /\ opened.due = asked
            BY <1>8
      <2>2. ASSUME NEW a \in asked
            PROVE  Asks(a, first.state) /\ Behind(a, 0, feed[first.session])
            <3>1. Asks(a, first.state) /\ a \in Range(feed[first.session])
                  BY DEF asked
            <3>2. PICK k \in DOMAIN feed[first.session] : feed[first.session][k] = a
                  BY <3>1 DEF Range
            <3>3. k > 0
                  BY <1>4, <1>5, LenProperties
            <3>. QED BY <3>1, <3>2, <3>3 DEF Behind
      <2>3. Looking(opened, done)
            BY <2>1, <2>2 DEF Looking, first
      <2>. QED BY <2>1, <2>3 DEF Sound, PageHere
<1>. QED BY <1>9, <1>10 DEF opened

\* The next session of the page, the next page, or the sleep.
LEMMA GoOnIsFine ==
    ASSUME NEW p \in Poller, feed \in [Session -> Seq(Activity)]
    PROVE  GoOn(p) \in Poller /\ \A done : Sound(GoOn(p), done)
<1> DEFINE ready == Ready(p.todo)
           rest == SubSeq(p.todo, Min(ready), Len(p.todo))
<1>1. p.todo \in Seq(Inspected) /\ p.at \in Offsets(SessionsPerPage)
      BY DEF Poller
<1>2. Len(p.todo) \in Nat /\ DOMAIN p.todo = 1..Len(p.todo)
      BY <1>1, LenProperties
<1>3. CASE ready # {}
      <2>1. ready \subseteq Nat /\ ready \subseteq DOMAIN p.todo
            BY <1>2 DEF Ready
      <2> HIDE DEF ready
      <2>2. Min(ready) \in 1..Len(p.todo)
            BY <1>2, <1>3, <2>1, LeastElement
      <2>3. rest \in Seq(Inspected) /\ rest # <<>>
            <3> DEFINE m == Min(ready)
            <3>1. m \in Int /\ Len(p.todo) \in Int /\ m \in 1..Len(p.todo)
                  BY <1>2, <2>2
            <3> HIDE DEF m
            <3>2. \A i \in m..Len(p.todo) : p.todo[i] \in Inspected
                  BY <1>1, <1>2, <3>1, ElementOfSeq
            <3>3. /\ SubSeq(p.todo, m, Len(p.todo)) \in Seq(Inspected)
                  /\ Len(SubSeq(p.todo, m, Len(p.todo)))
                       = IF m <= Len(p.todo) THEN Len(p.todo) - m + 1 ELSE 0
                  BY <3>1, <3>2, SubSeqProperties
            <3>4. Len(SubSeq(p.todo, m, Len(p.todo))) > 0
                  BY <1>2, <3>1, <3>3
            <3>5. SubSeq(p.todo, m, Len(p.todo)) # <<>>
                  <4> DEFINE t == SubSeq(p.todo, m, Len(p.todo))
                  <4>1. Len(t) > 0
                        BY <3>4
                  <4>2. Len(<<>>) = 0
                        OBVIOUS
                  <4> HIDE DEF t
                  <4>3. t # <<>>
                        BY <4>1, <4>2
                  <4>. QED BY <4>3 DEF t
            <3>. QED BY <3>3, <3>5 DEF m
      <2> DEFINE q == [p EXCEPT !.todo = rest]
      <2> HIDE DEF rest
      <2>4. q \in Poller /\ q.todo = rest
            BY <2>3 DEF Poller
      <2>5. GoOn(p) = Open(q)
            BY <1>3 DEF GoOn, ready, rest
      <2> HIDE DEF q
      <2>. QED BY <2>3, <2>4, <2>5, OpenIsFine
<1>4. CASE ready = {} /\ p.more = "next" /\ ~AtCeiling(p.at, SessionsPerPage)
      <2> DEFINE q == [Asleep EXCEPT !.pc = "sessions", !.at = p.at + SessionsPerPage]
      <2>1. GoOn(p) = q
            BY <1>4 DEF GoOn
      <2>2. p.at + SessionsPerPage \in Offsets(SessionsPerPage)
            BY <1>1, <1>4, AsleepIsFine, OffsetsBelowCeiling
      <2>3. q = [[Asleep EXCEPT !.pc = "sessions"] EXCEPT !.at = p.at + SessionsPerPage]
            BY DEF Asleep
      <2>4. q \in Poller /\ q.pc = "sessions"
            BY <2>2, <2>3, AsleepIsFine DEF Poller
      <2> HIDE DEF q
      <2>. QED BY <2>1, <2>4 DEF Sound, InSession, PageHere
<1>5. CASE ready = {} /\ ~(p.more = "next" /\ ~AtCeiling(p.at, SessionsPerPage))
      BY <1>5, AsleepIsFine DEF GoOn
<1>. QED BY <1>3, <1>4, <1>5

\* reconcileSession has returned, or thrown.
LEMMA LeaveIsFine ==
    ASSUME NEW p \in Poller, p.todo # <<>>, feed \in [Session -> Seq(Activity)]
    PROVE  /\ Leave(p) \in Poller /\ \A done : Sound(Leave(p), done)
           /\ LeaveFailed(p) \in Poller /\ \A done : Sound(LeaveFailed(p), done)
<1> DEFINE q == [p EXCEPT !.todo = Tail(p.todo)]
<1>1. p.todo \in Seq(Inspected)
      BY DEF Poller
<1>2. Tail(p.todo) \in Seq(Inspected)
      BY <1>1, HeadTailProperties
<1>3. q \in Poller
      BY <1>2 DEF Poller
<1>4. Leave(p) = GoOn(q) /\ LeaveFailed(p) = Leave(p)
      BY DEF Leave, LeaveFailed
<1> HIDE DEF q
<1>. QED BY <1>3, <1>4, GoOnIsFine

\* With a page at hand, or a part of one that has not been handed over.
LEMMA NextActivityIsFine ==
    ASSUME NEW p \in Poller, NEW done, p.todo # <<>>, Looked(p, done)
    PROVE  NextActivity(p) \in Poller /\ Sound(NextActivity(p), done)
<1>1. ASSUME NEW pc \in {"read", "deliver"},
             pc = "read" => p.page = <<>>, pc = "deliver" => p.page # <<>>
      PROVE  [p EXCEPT !.pc = pc] \in Poller /\ Sound([p EXCEPT !.pc = pc], done)
      <2> DEFINE q == [p EXCEPT !.pc = pc]
      <2>1. q \in Poller
            BY DEF Poller
      <2>2. /\ q.pc = pc /\ q.todo = p.todo /\ q.page = p.page /\ q.due = p.due
            /\ q.from = p.from /\ q.further = p.further
            BY DEF Poller
      <2> HIDE DEF q
      <2>3. Looked(q, done)
            BY <2>2 DEF Looked
      <2>4. Sound(q, done)
            BY <1>1, <2>2, <2>3 DEF Sound, InSession, PageHere
      <2>. QED BY <2>1, <2>4 DEF q
<1>. QED BY <1>1 DEF NextActivity

\* An activity that nobody asks about, or that has its decision, is through.
LEMMA HandedIsFine ==
    ASSUME NEW p \in Poller, NEW done, p.todo # <<>>, p.page # <<>>, Looked(p, done),
           Asks(Head(p.page), Head(p.todo).state) => Key(Head(p.page)) \in done
    PROVE  Handed(p) \in Poller /\ Sound(Handed(p), done)
<1> DEFINE q == [p EXCEPT !.mark = IdOf(Head(p.page)), !.page = Tail(p.page)]
<1>1. p.page \in Seq(Activity)
      BY DEF Poller
<1>2. /\ Head(p.page) \in Activity /\ Tail(p.page) \in Seq(Activity)
      /\ Len(Tail(p.page)) = Len(p.page) - 1
      /\ \A i \in 1..Len(Tail(p.page)) : Tail(p.page)[i] = p.page[i + 1]
      BY <1>1, HeadTailProperties
<1>3. IdOf(Head(p.page)) \in Column
      BY <1>2 DEF Column, Ids
<1> DEFINE q1 == [p EXCEPT !.mark = IdOf(Head(p.page))]
           q2 == [q1 EXCEPT !.page = Tail(p.page)]
<1>4. q1 \in Poller /\ q1.todo = p.todo /\ q1.due = p.due /\ q1.from = p.from
      /\ q1.further = p.further
      BY <1>3 DEF Poller
<1>5. q = q2
      OBVIOUS
<1> HIDE DEF q1
<1>6. /\ q2 \in Poller /\ q2.todo = p.todo /\ q2.due = p.due /\ q2.from = p.from
      /\ q2.further = p.further /\ q2.page = Tail(p.page)
      BY <1>2, <1>4 DEF Poller
<1> HIDE DEF q, q2
<1>7. \A a \in Range(p.page) : a = Head(p.page) \/ a \in Range(Tail(p.page))
      <2>1. /\ Len(p.page) \in Nat /\ DOMAIN p.page = 1..Len(p.page)
            /\ DOMAIN Tail(p.page) = 1..Len(Tail(p.page)) /\ Head(p.page) = p.page[1]
            BY <1>1, <1>2, LenProperties
      <2>2. ASSUME NEW k \in DOMAIN p.page, k # 1
            PROVE  p.page[k] \in Range(Tail(p.page))
            <3>1. k - 1 \in 1..Len(Tail(p.page)) /\ (k - 1) + 1 = k
                  BY <1>2, <2>1, <2>2
            <3>2. Tail(p.page)[k - 1] = p.page[k]
                  BY <1>2, <3>1
            <3>. QED BY <2>1, <3>1, <3>2 DEF Range
      <2>. QED BY <2>1, <2>2 DEF Range
<1>8. Looked(q2, done)
      BY <1>6, <1>7 DEF Looked
<1>9. Handed(p) = NextActivity(q2)
      BY <1>5 DEF Handed, q
<1>. QED BY <1>6, <1>8, <1>9, NextActivityIsFine

\* The next page, if its token is a new one.
LEMMA NextPageIsFine ==
    ASSUME NEW p \in Poller, NEW done, p.todo # <<>>, p.page = <<>>, Looked(p, done),
           feed \in [Session -> Seq(Activity)]
    PROVE  NextPage(p) \in Poller /\ Sound(NextPage(p), done)
<1>1. CASE p.further # "next" \/ AtCeiling(p.from, ActivitiesPerPage)
      <2>1. p.further \in More
            BY DEF Poller
      <2>. QED BY <1>1, <2>1, LeaveIsFine DEF NextPage, More
<1>2. CASE p.further = "next" /\ ~AtCeiling(p.from, ActivitiesPerPage)
      <2> DEFINE q1 == [p EXCEPT !.pc = "activities"]
                 q == [q1 EXCEPT !.from = p.from + ActivitiesPerPage]
      <2>1. NextPage(p) = q
            BY <1>2 DEF NextPage
      <2>2. p.from + ActivitiesPerPage \in Offsets(ActivitiesPerPage)
            <3>1. p.from \in Offsets(ActivitiesPerPage)
                  BY DEF Poller
            <3>. QED BY <1>2, <3>1, AsleepIsFine, OffsetsBelowCeiling
      <2>3. /\ q1 \in Poller /\ q1.pc = "activities" /\ q1.todo = p.todo /\ q1.due = p.due
            /\ q1.page = p.page
            BY DEF Poller
      <2> HIDE DEF q1
      <2>4. /\ q \in Poller /\ q.pc = "activities" /\ q.todo = p.todo /\ q.due = p.due
            /\ q.from = p.from + ActivitiesPerPage
            BY <2>2, <2>3 DEF Poller
      <2> HIDE DEF q
      <2>5. Range(p.page) = {}
            BY DEF Range
      <2>6. Looking(q, done)
            BY <1>2, <2>4, <2>5 DEF Looked, Looking
      <2>7. Sound(q, done)
            BY <2>4, <2>6 DEF Sound, PageHere
      <2>. QED BY <2>1, <2>4, <2>7
<1>. QED BY <1>1, <1>2
-----------------------------------------------------------------------------
(* The steps.                                                              *)

\* What is sound stays so when there are more decisions.
LEMMA MoreDecisions ==
    ASSUME NEW p, NEW done, NEW more, done \subseteq more, Sound(p, done)
    PROVE  Sound(p, more)
<1>1. Looking(p, done) => Looking(p, more)
      BY DEF Looking
<1>2. Looked(p, done) => Looked(p, more)
      BY DEF Looked
<1>. QED BY <1>1, <1>2 DEF Sound

\* One watcher moves; Jules does not.
LEMMA OneWatcherMoves ==
    ASSUME IInv, NEW w \in Worker, NEW q, Becomes(w, q),
           q \in Poller, Sound(q, decisions'),
           UNCHANGED <<jules, changes>>,
           decisions \subseteq decisions', decisions' \subseteq {Key(a) : a \in Activity},
           row' \in [Session -> Column \cup {NoRow}],
           lock' \in [Session -> Worker \cup {NoWorker}],
           faults' \in 0..MaxFaults
    PROVE  IInv'
<1>1. poller \in [Worker -> Poller] /\ poller' = [poller EXCEPT ![w] = q]
      BY DEF IInv, TypeOK, Becomes
<1>2. poller' \in [Worker -> Poller]
      BY <1>1
<1>3. TypeOK'
      BY <1>2 DEF IInv, TypeOK, jules
<1>4. ASSUME NEW v \in Worker
      PROVE  Sound(poller'[v], decisions')
      <2>1. CASE v = w
            BY <1>1, <2>1
      <2>2. CASE v # w
            BY <1>1, <2>2, MoreDecisions DEF IInv
      <2>. QED BY <2>1, <2>2
<1>5. feed' = feed
      BY DEF jules
<1>6. (\A v \in Worker : Sound(poller[v], decisions))'
      BY <1>4, <1>5 DEF Sound, Looking, Looked
<1>. QED BY <1>3, <1>6 DEF IInv

\* What the awaits of a worker find.
LEMMA AtWork ==
    ASSUME IInv, NEW w \in Worker
    PROVE  /\ poller[w] \in Poller /\ Sound(poller[w], decisions)
           /\ feed \in [Session -> Seq(Activity)]
           /\ listing \in Seq(Session) /\ state \in [Session -> SessionState]
           /\ decisions \subseteq {Key(a) : a \in Activity}
           /\ row \in [Session -> Column \cup {NoRow}]
           /\ lock \in [Session -> Worker \cup {NoWorker}]
           /\ faults \in 0..MaxFaults
           /\ MaxFaults \in Nat /\ MaxChanges \in Nat
           /\ Fails => faults' \in 0..MaxFaults
           /\ poller[w].todo # <<>> => Current(w) \in Session
<1>1. TypeOK
      BY DEF IInv
<1>2. MaxFaults \in Nat /\ MaxChanges \in Nat /\ IsFiniteSet(Session)
      BY PollingAssumption
<1>3. listing \in Seq(Session)
      <2>1. Cardinality(Session) \in Nat
            BY <1>2, FS_CardinalityType
      <2>. QED BY <1>1, <2>1 DEF TypeOK, SetToSeqs
<1>4. Fails => faults' \in 0..MaxFaults
      BY <1>1, <1>2 DEF Fails, TypeOK
<1>5. poller[w] \in Poller
      BY <1>1 DEF TypeOK
<1>6. poller[w].todo # <<>> => Current(w) \in Session
      <2>1. poller[w].todo \in Seq(Inspected)
            BY <1>5 DEF Poller
      <2>2. poller[w].todo # <<>> => Head(poller[w].todo) \in Inspected
            BY <2>1, HeadTailProperties
      <2>. QED BY <2>2 DEF Current, Inspected
<1>. QED BY <1>1, <1>2, <1>3, <1>4, <1>5, <1>6 DEF IInv, TypeOK

LEMMA WakeStep ==
    ASSUME IInv, NEW w \in Worker, Wake(w)
    PROVE  IInv'
<1>1. Becomes(w, [Asleep EXCEPT !.pc = "sessions"])
      BY DEF Wake
<1>2. UNCHANGED <<jules, decisions, row, lock, changes, faults>>
      BY DEF Wake
<1> DEFINE q == [Asleep EXCEPT !.pc = "sessions"]
<1>3. q \in Poller /\ Sound(q, decisions')
      BY AsleepIsFine
<1> HIDE DEF q
<1>4. Becomes(w, q)
      BY <1>1 DEF q
<1>. QED BY <1>2, <1>3, <1>4, AtWork, OneWatcherMoves

LEMMA StopStep ==
    ASSUME IInv, NEW w \in Worker, Stop(w) \/ Start(w)
    PROVE  IInv'
<1> DEFINE q == [Asleep EXCEPT !.pc = "down"]
<1>1. q \in Poller /\ Sound(q, decisions') /\ Asleep \in Poller /\ Sound(Asleep, decisions')
      BY AsleepIsFine
<1>2. /\ UNCHANGED <<jules, decisions, row, lock, changes>>
      /\ Fails \/ UNCHANGED faults
      /\ Becomes(w, q) \/ Becomes(w, Asleep)
      BY DEF Stop, Start
<1> HIDE DEF q
<1>. QED BY <1>1, <1>2, AtWork, OneWatcherMoves

\* The page of sessions, whatever its token says.
LEMMA ListSessionsStep ==
    ASSUME IInv, NEW w \in Worker, ListSessions(w)
    PROVE  IInv'
<1> DEFINE p == poller[w]
           inspected == [n \in DOMAIN listing |-> [session |-> listing[n], state |-> state[listing[n]]]]
           batch == Page(inspected, p.at, SessionsPerPage)
           listed(more) == [p EXCEPT !.todo = batch, !.more = more]
<1>1. /\ p \in Poller /\ listing \in Seq(Session) /\ state \in [Session -> SessionState]
      /\ feed \in [Session -> Seq(Activity)]
      BY AtWork
<1>2. inspected \in Seq(Inspected)
      <2>1. /\ Len(listing) \in Nat /\ DOMAIN listing = 1..Len(listing)
            /\ \A n \in DOMAIN listing : listing[n] \in Session
            BY <1>1, LenProperties
      <2>2. \A n \in DOMAIN listing : inspected[n] \in Inspected
            BY <1>1, <2>1 DEF Inspected
      <2>3. inspected \in [1..Len(listing) -> Inspected]
            BY <2>1, <2>2
      <2>. QED BY <2>1, <2>3
<1>3. p.at \in Nat /\ SessionsPerPage \in Nat \ {0}
      <2>1. p.at \in Offsets(SessionsPerPage)
            BY <1>1 DEF Poller
      <2>. QED BY <2>1, AsleepIsFine, OffsetsBelowCeiling
<1> HIDE DEF inspected
<1>4. batch \in Seq(Inspected)
      BY <1>2, <1>3, PageIsPart
<1> HIDE DEF batch
<1>5. ASSUME NEW more \in More
      PROVE  listed(more) \in Poller
      <2> DEFINE q1 == [p EXCEPT !.todo = batch]
                 q2 == [q1 EXCEPT !.more = more]
      <2>1. q1 \in Poller
            BY <1>1, <1>4 DEF Poller
      <2> HIDE DEF q1
      <2>2. q2 \in Poller
            BY <2>1 DEF Poller
      <2>. QED BY <2>2 DEF q1
<1>6. ASSUME NEW more \in More
      PROVE  /\ GoOn(listed(more)) \in Poller
             /\ Sound(GoOn(listed(more)), decisions')
      <2> HIDE DEF listed
      <2>. QED BY <1>1, <1>5, GoOnIsFine
<1>7. Following(listing, p.at, SessionsPerPage) \in More /\ "repeated" \in More
      BY DEF Following, More
<1>8. /\ UNCHANGED <<jules, decisions, row, lock, changes>>
      /\ Fails \/ UNCHANGED faults
      /\ \/ Becomes(w, GoOn(listed(Following(listing, p.at, SessionsPerPage))))
         \/ Becomes(w, Asleep)
         \/ Becomes(w, GoOn(listed("repeated")))
      BY DEF ListSessions, batch, inspected
<1> HIDE DEF listed
<1>9. PICK q \in Poller : Becomes(w, q) /\ Sound(q, decisions')
      BY <1>6, <1>7, <1>8, AsleepIsFine
<1>. QED BY <1>8, <1>9, AtWork, OneWatcherMoves

\* The page of activities: what is due lies on it, or behind it, and then its
\* token says so.
LEMMA ListActivitiesStep ==
    ASSUME IInv, NEW w \in Worker, ListActivities(w)
    PROVE  IInv'
<1> DEFINE p == poller[w]
           entries == feed[Current(w)]
           page == Page(entries, p.from, ActivitiesPerPage)
           token == Following(entries, p.from, ActivitiesPerPage)
           listed(further) == [p EXCEPT !.page = page, !.further = further]
<1>1. /\ p \in Poller /\ p.todo # <<>> /\ feed \in [Session -> Seq(Activity)]
      /\ Current(w) = Head(p.todo).session /\ Current(w) \in Session
      /\ Looking(p, decisions)
      BY AtWork DEF ListActivities, Sound, InSession, Current
<1>2. p.from \in Nat /\ ActivitiesPerPage \in Nat \ {0}
      <2>1. p.from \in Offsets(ActivitiesPerPage)
            BY <1>1 DEF Poller
      <2>. QED BY <2>1, AsleepIsFine, OffsetsBelowCeiling
<1>3. entries \in Seq(Activity) /\ Len(entries) \in Nat /\ DOMAIN entries = 1..Len(entries)
      BY <1>1, LenProperties
<1> HIDE DEF entries
<1>4. /\ page \in Seq(Activity)
      /\ \A k \in DOMAIN entries :
            k > p.from /\ k <= p.from + ActivitiesPerPage => entries[k] \in Range(page)
      BY <1>2, <1>3, PageIsPart
<1> HIDE DEF page
<1>5. ASSUME NEW a, Behind(a, p.from, entries)
      PROVE  \/ a \in Range(page)
             \/ token = "next" /\ Behind(a, p.from + ActivitiesPerPage, entries)
      <2>1. PICK k \in DOMAIN entries : k > p.from /\ entries[k] = a
            BY <1>5 DEF Behind
      <2>2. CASE k <= p.from + ActivitiesPerPage
            BY <1>4, <2>1, <2>2
      <2>3. CASE k > p.from + ActivitiesPerPage
            <3>1. p.from + ActivitiesPerPage < Len(entries)
                  BY <1>2, <1>3, <2>3
            <3>2. token = "next"
                  BY <3>1 DEF Following
            <3>. QED BY <2>1, <2>3, <3>2 DEF Behind
      <2>4. k \in Int
            BY <1>3
      <2>. QED BY <1>2, <2>2, <2>3, <2>4
<1>6. token \in More /\ "repeated" \in More
      BY DEF Following, More
<1> HIDE DEF token
<1>7. ASSUME NEW further \in {token, "repeated"}
      PROVE  /\ NextActivity(listed(further)) \in Poller
             /\ Sound(NextActivity(listed(further)), decisions)
      <2> DEFINE q1 == [p EXCEPT !.page = page]
                 q2 == [q1 EXCEPT !.further = further]
      <2>1. q1 \in Poller /\ q1.todo = p.todo /\ q1.from = p.from /\ q1.due = p.due /\ q1.page = page
            BY <1>1, <1>4 DEF Poller
      <2>2. q2 = listed(further)
            OBVIOUS
      <2> HIDE DEF q1, listed
      <2>3. /\ q2 \in Poller /\ q2.todo = p.todo /\ q2.from = p.from /\ q2.due = p.due
            /\ q2.page = page /\ q2.further = further
            BY <1>6, <2>1 DEF Poller
      <2> HIDE DEF q2
      <2>4. Looked(q2, decisions)
            BY <1>1, <1>5, <1>7, <2>3 DEF Looking, Looked, entries
      <2>. QED BY <1>1, <2>2, <2>3, <2>4, NextActivityIsFine
<1>8. /\ UNCHANGED <<jules, decisions, row, lock, changes>>
      /\ Fails \/ UNCHANGED faults
      /\ \/ Becomes(w, NextActivity(listed(token)))
         \/ Becomes(w, LeaveFailed(p))
         \/ Becomes(w, NextActivity(listed("repeated")))
      BY DEF ListActivities, page, entries, token
<1> HIDE DEF listed
<1>9. PICK q \in Poller : Becomes(w, q) /\ Sound(q, decisions')
      BY <1>1, <1>7, <1>8, LeaveIsFine
<1>. QED BY <1>8, <1>9, AtWork, OneWatcherMoves

\* A question is taken up under the lock; anything else is passed over.
LEMMA DeliverStep ==
    ASSUME IInv, NEW w \in Worker, Deliver(w)
    PROVE  IInv'
<1> DEFINE p == poller[w]
<1>1. /\ p \in Poller /\ p.todo # <<>> /\ p.page # <<>> /\ feed \in [Session -> Seq(Activity)]
      /\ Current(w) \in Session /\ Looked(p, decisions) /\ Sound(p, decisions)
      /\ lock \in [Session -> Worker \cup {NoWorker}]
      BY AtWork DEF Deliver, Sound, InSession, PageHere
<1>2. UNCHANGED <<jules, decisions, row, changes, faults>>
      BY DEF Deliver
<1>3. CASE /\ ~Asks(Head(p.page), Head(p.todo).state)
           /\ Becomes(w, Handed(p)) /\ UNCHANGED lock
      <2>1. Handed(p) \in Poller /\ Sound(Handed(p), decisions')
            BY <1>1, <1>2, <1>3, HandedIsFine
      <2>. QED BY <1>2, <1>3, <2>1, AtWork, OneWatcherMoves
<1>4. CASE lock' = [lock EXCEPT ![Current(w)] = w] /\ Becomes(w, [p EXCEPT !.pc = "inside"])
      <2> DEFINE q == [p EXCEPT !.pc = "inside"]
      <2>1. /\ q \in Poller /\ q.pc = "inside" /\ q.todo = p.todo /\ q.page = p.page
            /\ q.due = p.due /\ q.from = p.from /\ q.further = p.further
            BY <1>1 DEF Poller
      <2> HIDE DEF q
      <2>2. Looked(q, decisions)
            BY <1>1, <2>1 DEF Looked
      <2>3. Sound(q, decisions')
            BY <1>1, <1>2, <2>1, <2>2 DEF Sound, InSession, PageHere
      <2>4. lock' \in [Session -> Worker \cup {NoWorker}]
            BY <1>1, <1>4
      <2>. QED BY <1>2, <1>4, <2>1, <2>3, <2>4, AtWork, OneWatcherMoves DEF q
<1>5. CASE Becomes(w, LeaveFailed(p)) /\ UNCHANGED lock
      <2>1. LeaveFailed(p) \in Poller /\ Sound(LeaveFailed(p), decisions')
            BY <1>1, LeaveIsFine
      <2>. QED BY <1>2, <1>5, <2>1, AtWork, OneWatcherMoves
<1>. QED BY <1>3, <1>4, <1>5 DEF Deliver

\* The question has its decision, or its session is left.
LEMMA ProcessedStep ==
    ASSUME IInv, NEW w \in Worker, Processed(w)
    PROVE  IInv'
<1> DEFINE p == poller[w]
           a == Head(p.page)
<1>1. /\ p \in Poller /\ p.todo # <<>> /\ p.page # <<>> /\ feed \in [Session -> Seq(Activity)]
      /\ Current(w) \in Session /\ Sound(p, decisions) /\ p.pc = "inside"
      /\ lock \in [Session -> Worker \cup {NoWorker}]
      BY AtWork DEF Processed, Sound, InSession
<1>2. UNCHANGED <<jules, row, changes>> /\ Free(Current(w))
      BY DEF Processed
<1>3. lock' \in [Session -> Worker \cup {NoWorker}]
      BY <1>1, <1>2 DEF Free
<1>4. CASE /\ decisions' = decisions \cup {Key(a)}
           /\ Becomes(w, Handed(p)) /\ UNCHANGED faults
      <2>1. Sound(p, decisions')
            BY <1>1, <1>4, MoreDecisions
      <2>2. Looked(p, decisions')
            BY <1>1, <2>1 DEF Sound, PageHere
      <2>3. Handed(p) \in Poller /\ Sound(Handed(p), decisions')
            <3>1. Key(a) \in decisions'
                  BY <1>4
            <3>. QED BY <1>1, <2>2, <3>1, HandedIsFine
      <2>4. a \in Activity
            <3>1. p.page \in Seq(Activity)
                  BY <1>1 DEF Poller
            <3>. QED BY <1>1, <3>1, HeadTailProperties
      <2>5. decisions' \subseteq {Key(b) : b \in Activity}
            BY <1>4, <2>4, AtWork
      <2>. QED BY <1>2, <1>3, <1>4, <2>3, <2>5, AtWork, OneWatcherMoves
<1>5. CASE /\ Fails \/ UNCHANGED faults
           /\ Becomes(w, LeaveFailed(p)) /\ UNCHANGED decisions
      <2>1. LeaveFailed(p) \in Poller /\ Sound(LeaveFailed(p), decisions')
            BY <1>1, LeaveIsFine
      <2>. QED BY <1>2, <1>3, <1>5, <2>1, AtWork, OneWatcherMoves
<1>. QED BY <1>4, <1>5 DEF Processed

LEMMA ReadRowStep ==
    ASSUME IInv, NEW w \in Worker, ReadRow(w)
    PROVE  IInv'
<1> DEFINE p == poller[w]
           q == [p EXCEPT !.pc = "write", !.existing = row[Current(w)]]
<1>1. /\ p \in Poller /\ p.todo # <<>> /\ p.page = <<>> /\ feed \in [Session -> Seq(Activity)]
      /\ Current(w) \in Session /\ Looked(p, decisions)
      /\ row \in [Session -> Column \cup {NoRow}]
      BY AtWork DEF ReadRow, Sound, InSession, PageHere
<1>2. UNCHANGED <<jules, decisions, row, lock, changes>> /\ (Fails \/ UNCHANGED faults)
      BY DEF ReadRow
<1>3. Becomes(w, q) \/ Becomes(w, LeaveFailed(p))
      BY DEF ReadRow
<1> DEFINE q1 == [p EXCEPT !.pc = "write"]
           q2 == [q1 EXCEPT !.existing = row[Current(w)]]
<1>4. /\ q1 \in Poller /\ q1.pc = "write" /\ q1.todo = p.todo /\ q1.page = p.page
      /\ q1.due = p.due /\ q1.from = p.from /\ q1.further = p.further
      BY <1>1 DEF Poller
<1>5. q = q2
      OBVIOUS
<1> HIDE DEF q1
<1>6. /\ q2 \in Poller /\ q2.pc = "write" /\ q2.todo = p.todo /\ q2.page = p.page
      /\ q2.due = p.due /\ q2.from = p.from /\ q2.further = p.further
      BY <1>1, <1>4 DEF Poller
<1> HIDE DEF q, q2
<1>7. Looked(q2, decisions)
      BY <1>1, <1>6 DEF Looked
<1>8. Sound(q2, decisions')
      BY <1>1, <1>2, <1>6, <1>7 DEF Sound
<1>9. LeaveFailed(p) \in Poller /\ Sound(LeaveFailed(p), decisions')
      BY <1>1, LeaveIsFine
<1>. QED BY <1>2, <1>3, <1>5, <1>6, <1>8, <1>9, AtWork, OneWatcherMoves

LEMMA WriteRowStep ==
    ASSUME IInv, NEW w \in Worker, WriteRow(w)
    PROVE  IInv'
<1> DEFINE p == poller[w]
<1>1. /\ p \in Poller /\ p.todo # <<>> /\ p.page = <<>> /\ feed \in [Session -> Seq(Activity)]
      /\ Current(w) \in Session /\ Looked(p, decisions)
      /\ row \in [Session -> Column \cup {NoRow}]
      BY AtWork DEF WriteRow, Sound, InSession, PageHere
<1>2. UNCHANGED <<jules, decisions, lock, changes>>
      BY DEF WriteRow
<1>3. Cursor(p) \in Column \cup {NoRow}
      BY <1>1 DEF Cursor, Poller
<1>4. /\ NextPage(p) \in Poller /\ Sound(NextPage(p), decisions')
      /\ LeaveFailed(p) \in Poller /\ Sound(LeaveFailed(p), decisions')
      BY <1>1, <1>2, LeaveIsFine, NextPageIsFine
<1>5. /\ Fails \/ UNCHANGED faults
      /\ row' = [row EXCEPT ![Current(w)] = Cursor(p)] \/ UNCHANGED row
      /\ Becomes(w, NextPage(p)) \/ Becomes(w, LeaveFailed(p))
      BY DEF WriteRow
<1>6. row' \in [Session -> Column \cup {NoRow}]
      BY <1>1, <1>3, <1>5
<1>. QED BY <1>2, <1>4, <1>5, <1>6, AtWork, OneWatcherMoves

\* Behind what a watcher has looked at, nothing gets lost when a feed grows.
LEMMA FeedGrows ==
    ASSUME IInv, NEW a \in Activity, Arrive(a), UNCHANGED decisions
    PROVE  /\ feed' \in [Session -> Seq(Activity)]
           /\ \A s \in Session, b \in Activity, n \in Nat :
                 Behind(b, n, feed[s]) => Behind(b, n, feed'[s])
<1> DEFINE s == SessionOf[a]
<1>1. s \in Session
      BY PollingAssumption
<1>2. feed \in [Session -> Seq(Activity)] /\ feed[s] \in Seq(Activity)
      BY <1>1 DEF IInv, TypeOK
<1>3. PICK n \in 1..(Len(feed[s]) + 1) : feed' = [feed EXCEPT ![s] = InsertAt(feed[s], n, a)]
      BY DEF Arrive
<1> DEFINE grown == InsertAt(feed[s], n, a)
<1>4. /\ grown \in Seq(Activity)
      /\ \A k \in DOMAIN feed[s] : \E m \in DOMAIN grown : m >= k /\ grown[m] = feed[s][k]
      BY <1>2, InsertAtMovesUp
<1>5. DOMAIN grown \subseteq Nat /\ DOMAIN feed[s] \subseteq Nat
      BY <1>2, <1>4, LenProperties
<1> HIDE DEF grown
<1>6. feed' = [feed EXCEPT ![s] = grown]
      BY <1>3 DEF grown
<1>7. ASSUME NEW b \in Activity, NEW i \in Nat, Behind(b, i, feed[s])
      PROVE  Behind(b, i, grown)
      <2>1. PICK k \in DOMAIN feed[s] : k > i /\ feed[s][k] = b
            BY <1>7 DEF Behind
      <2>2. PICK m \in DOMAIN grown : m >= k /\ grown[m] = feed[s][k]
            BY <1>4
      <2>3. m > i
            BY <1>5, <2>1, <2>2
      <2>. QED BY <2>1, <2>2, <2>3 DEF Behind
<1>8. ASSUME NEW t \in Session, NEW b \in Activity, NEW i \in Nat, Behind(b, i, feed[t])
      PROVE  Behind(b, i, feed'[t])
      BY <1>1, <1>2, <1>6, <1>7, <1>8
<1>9. feed' \in [Session -> Seq(Activity)]
      BY <1>1, <1>2, <1>4, <1>6
<1>. QED BY <1>8, <1>9

LEMMA ArriveStep ==
    ASSUME IInv, NEW a \in Activity, Arrive(a), Jules
    PROVE  IInv'
<1>1. /\ UNCHANGED <<decisions, row, lock, poller, faults>>
      /\ changes < MaxChanges /\ changes' = changes + 1
      /\ UNCHANGED <<listing, state>>
      BY DEF Jules, Arrive
<1>2. /\ feed' \in [Session -> Seq(Activity)]
      /\ \A s \in Session, b \in Activity, n \in Nat :
            Behind(b, n, feed[s]) => Behind(b, n, feed'[s])
      BY <1>1, FeedGrows
<1>3. MaxChanges \in Nat
      BY PollingAssumption
<1>4. TypeOK'
      BY <1>1, <1>2, <1>3 DEF IInv, TypeOK
<1>5. ASSUME NEW w \in Worker
      PROVE  Sound(poller[w], decisions)'
      <2> DEFINE p == poller[w]
      <2>1. p \in Poller /\ Sound(p, decisions) /\ poller'[w] = p /\ decisions' = decisions
            BY <1>1, AtWork
      <2>2. p.due \subseteq Activity /\ p.from \in Offsets(ActivitiesPerPage)
            BY <2>1 DEF Poller
      <2>3. p.from \in Nat /\ p.from + ActivitiesPerPage \in Nat
            <3>1. ActivitiesPerPage \in Nat \ {0} /\ p.from \in Nat
                  BY <2>2, AsleepIsFine, OffsetsBelowCeiling
            <3>. QED BY <3>1
      <2>4. p.todo # <<>> => Head(p.todo).session \in Session
            BY AtWork DEF Current
      <2> HIDE DEF p
      <2>5. p.todo # <<>> /\ Looking(p, decisions) =>
               \A a_1 \in p.due :
                  /\ Asks(a_1, Head(p.todo).state)
                  /\ Key(a_1) \in decisions \/ Behind(a_1, p.from, feed'[Head(p.todo).session])
            BY <1>2, <2>2, <2>3, <2>4 DEF Looking
      <2>6. p.todo # <<>> /\ Looked(p, decisions) =>
               \A a_1 \in p.due :
                  /\ Asks(a_1, Head(p.todo).state)
                  /\ \/ Key(a_1) \in decisions
                     \/ a_1 \in Range(p.page)
                     \/ /\ p.further = "next"
                        /\ Behind(a_1, p.from + ActivitiesPerPage, feed'[Head(p.todo).session])
                     \/ p.further = "repeated"
            BY <1>2, <2>2, <2>3, <2>4 DEF Looked
      <2>7. /\ p.pc \in InSession => p.todo # <<>>
            /\ p.pc = "activities" => Looking(p, decisions)
            /\ p.pc \in PageHere => Looked(p, decisions)
            /\ p.pc \in {"deliver", "inside"} => p.page # <<>>
            /\ p.pc \in {"read", "write"} => p.page = <<>>
            BY <2>1 DEF Sound
      <2>8. PageHere \subseteq InSession /\ "activities" \in InSession
            BY DEF PageHere, InSession
      <2>9. poller[w]' = p /\ decisions' = decisions
            BY <1>1 DEF p
      <2>. QED BY <2>5, <2>6, <2>7, <2>8, <2>9 DEF Sound, Looking, Looked
<1>. QED BY <1>4, <1>5 DEF IInv

LEMMA JulesStep ==
    ASSUME IInv, Jules
    PROVE  IInv'
<1>1. /\ UNCHANGED <<decisions, row, lock, poller, faults>>
      /\ changes < MaxChanges /\ changes' = changes + 1
      BY DEF Jules
<1>2. changes' \in 0..MaxChanges
      BY <1>1, PollingAssumption DEF IInv, TypeOK
<1>3. CASE \E a \in Activity : Arrive(a)
      BY <1>3, ArriveStep
<1>4. CASE UNCHANGED feed /\ listing' \in SetToSeqs(Session) /\ state' \in [Session -> SessionState]
      <2>1. TypeOK'
            BY <1>1, <1>2, <1>4 DEF IInv, TypeOK
      <2>2. (\A w \in Worker : Sound(poller[w], decisions))'
            BY <1>1, <1>4 DEF IInv, Sound, Looking, Looked
      <2>. QED BY <2>1, <2>2 DEF IInv
<1>5. ASSUME NEW n \in DOMAIN listing, Move(n)
      PROVE  UNCHANGED feed /\ listing' \in SetToSeqs(Session) /\ state' \in [Session -> SessionState]
      <2>1. listing \in SetToSeqs(Session) /\ IsFiniteSet(Session) /\ state \in [Session -> SessionState]
            BY PollingAssumption DEF IInv, TypeOK
      <2>2. n # 1 /\ listing' = <<listing[n]>> \o RemoveAt(listing, n) /\ UNCHANGED <<state, feed>>
            BY <1>5 DEF Move
      <2>. QED BY <2>1, <2>2, MovedListing
<1>6. ASSUME NEW s \in Session, Change(s)
      PROVE  UNCHANGED feed /\ listing' \in SetToSeqs(Session) /\ state' \in [Session -> SessionState]
      BY <1>6 DEF Change, IInv, TypeOK
<1>. QED BY <1>3, <1>4, <1>5, <1>6 DEF Jules

LEMMA LapseStep ==
    ASSUME IInv, NEW s \in Session, Lapse(s)
    PROVE  IInv'
<1>1. UNCHANGED <<jules, decisions, row, poller, changes, faults>> /\ Free(s)
      BY DEF Lapse
<1>2. lock' \in [Session -> Worker \cup {NoWorker}]
      BY <1>1 DEF Free, IInv, TypeOK
<1>3. TypeOK'
      BY <1>1, <1>2 DEF IInv, TypeOK, jules
<1>4. (\A w \in Worker : Sound(poller[w], decisions))'
      BY <1>1 DEF IInv, jules, Sound, Looking, Looked
<1>. QED BY <1>3, <1>4 DEF IInv
-----------------------------------------------------------------------------
(* The theorems.                                                           *)

LEMMA Initially == Init => IInv
<1> SUFFICES ASSUME Init
             PROVE  IInv
    OBVIOUS
<1>1. /\ MaxChanges \in Nat /\ MaxFaults \in Nat
      /\ Beginning.listing \in SetToSeqs(Session)
      /\ Beginning.state \in [Session -> SessionState]
      /\ Beginning.feed \in [Session -> Seq(Activity)]
      BY PollingAssumption
<1>2. TypeOK
      BY <1>1, AsleepIsFine DEF Init, TypeOK
<1>3. \A w \in Worker : Sound(poller[w], decisions)
      BY AsleepIsFine DEF Init
<1>. QED BY <1>2, <1>3 DEF IInv

LEMMA StepsKeep == IInv /\ [Next]_vars => IInv'
<1> SUFFICES ASSUME IInv, [Next]_vars
             PROVE  IInv'
    OBVIOUS
<1>1. ASSUME NEW w \in Worker, Step(w)
      PROVE  IInv'
      BY <1>1, WakeStep, ListSessionsStep, ListActivitiesStep, DeliverStep, ProcessedStep,
         ReadRowStep, WriteRowStep DEF Step
<1>2. ASSUME NEW w \in Worker, Stop(w) \/ Start(w)
      PROVE  IInv'
      BY <1>2, StopStep
<1>3. ASSUME NEW s \in Session, Lapse(s)
      PROVE  IInv'
      BY <1>3, LapseStep
<1>4. CASE Jules
      BY <1>4, JulesStep
<1>5. CASE UNCHANGED vars
      BY <1>5 DEF vars, jules, IInv, TypeOK, Sound, Looking, Looked
<1>. QED BY <1>1, <1>2, <1>3, <1>4, <1>5 DEF Next

\* What is due in a session that is being looked at has its decision, is on the
\* page at hand or is still ahead, in every reachable state (poller.ts:134-191).
THEOREM InductiveInvariant == Spec => []IInv
BY Initially, StepsKeep, PTL DEF Spec

\* A watcher's record keeps its shape, its offsets stay below the page ceilings
\* (poller.ts:94-103, 146-156), a checkpoint holds an identifier or null, and the
\* list of sessions stays one of the same sessions.
THEOREM TypeCorrect == Spec => []TypeOK
<1>1. IInv => TypeOK
      BY DEF IInv
<1>. QED BY <1>1, InductiveInvariant, PTL

\* One pass over a session's activities is enough, whatever other workers do and
\* wherever Jules adds activities meanwhile: when the last page is through, what
\* the session asked when it was opened has its decisions (poller.ts:79-87).
THEOREM NothingIsLeftBehind == Spec => []NothingLeftBehind
<1>1. IInv => NothingLeftBehind
      <2> SUFFICES ASSUME IInv, NEW w \in Worker, poller[w].pc \in {"read", "write"},
                          poller[w].further = "none", NEW a \in poller[w].due
                   PROVE  Key(a) \in decisions
          BY DEF NothingLeftBehind
      <2>1. Looked(poller[w], decisions) /\ poller[w].page = <<>>
            BY DEF IInv, Sound, PageHere
      <2>2. Range(poller[w].page) = {}
            BY <2>1 DEF Range
      <2>. QED BY <2>1, <2>2 DEF Looked
<1>. QED BY <1>1, InductiveInvariant, PTL
=============================================================================
