---------------------------- MODULE SessionPolling ----------------------------
(***************************************************************************)
(* The session watcher of every worker: it pages through the sessions Jules *)
(* lists, pages through the activities of each that needs inspection, hands *)
(* them to the pipeline one by one, and writes a checkpoint row.  Pipeline   *)
(* says what processActivity does with a question; here it ends with the    *)
(* decision row that deduplicates it, or throws.                            *)
(*                                                                         *)
(* Jules' page tokens are opaque.  Here a token stands for the number of    *)
(* entries before the page; feeds grow in any place and lose nothing.       *)
(* X_Y before X is a variant of X with one defect.                          *)
(***************************************************************************)
EXTENDS Integers, SequencesExt

CONSTANTS
    Worker, Session, Activity,
    SessionOf,          \* the session of each activity
    Listed,             \* what Jules lists of each activity
    Unstorable,         \* activities whose row the database refuses
    SessionState,       \* the states of a session that are told apart
    Beginning,          \* what Jules lists when the first worker starts
    SessionsPerPage,    \* Jules' choice
    ActivitiesPerPage,  \* RECONCILIATION_PAGE_SIZE
    MaxPages,           \* MAX_PAGE_CEILING
    MaxChanges,         \* bounds what happens at Jules
    MaxFaults,          \* bounds crashes and calls that fail
    NoWorker

\* What the normaliser reads of an activity: does it have an id, or a name that
\* holds one, which official event is it, and does it carry a patch?
Dto == [id : BOOLEAN, name : BOOLEAN,
        event : {"planGenerated", "agentMessaged", "progressUpdated"}, patch : BOOLEAN]

ASSUME PollingAssumption ==
    /\ IsFiniteSet(Session)
    /\ SessionOf \in [Activity -> Session]
    /\ Listed \in [Activity -> Dto]
    /\ Unstorable \subseteq Activity
    /\ Beginning.listing \in SetToSeqs(Session)
    /\ Beginning.state \in [Session -> SessionState]
    /\ Beginning.feed \in [Session -> Seq(Activity)]
    /\ SessionsPerPage \in Nat \ {0}
    /\ ActivitiesPerPage \in Nat \ {0}
    /\ MaxPages \in Nat \ {0}
    /\ MaxChanges \in Nat
    /\ MaxFaults \in Nat

VARIABLES
    listing, state, feed,  \* Jules: the sessions in the order it lists them,
                           \* their states, and the activities of each
    decisions,             \* the idempotency keys of decision rows
    row,                   \* sync_checkpoints
    lock,                  \* session:<id> in Redis
    poller,                \* syncActiveSessions of each worker
    changes, faults

jules == <<listing, state, feed>>
vars == <<jules, decisions, row, lock, poller, changes, faults>>
-----------------------------------------------------------------------------
(* normalizeActivityDto.                                                   *)

IdOf(a) == IF Listed[a].id \/ Listed[a].name THEN a ELSE "unknown-activity"

EventType ==
    [planGenerated |-> "PLAN_GENERATED", agentMessaged |-> "AGENT_MESSAGE",
     progressUpdated |-> "PROGRESS_UPDATE"]

\* A patch hides the event that carries it.
TypeOf(a) == IF Listed[a].patch THEN "PATCH_CREATED" ELSE EventType[Listed[a].event]

(* processActivity: what it acts on, and under which key.                  *)

Asks(a, st) ==
    \/ st = "AWAITING_USER_INPUT" /\ TypeOf(a) = "AGENT_MESSAGE"
    \/ st = "AWAITING_PLAN_APPROVAL" /\ TypeOf(a) = "PLAN_GENERATED"

Key(a) == <<SessionOf[a], IdOf(a), TypeOf(a) = "PLAN_GENERATED">>

\* Of the states an old session ends in, none needs inspection.
NeedsInspection(st) ==
    st \in {"AWAITING_USER_INPUT", "AWAITING_PLAN_APPROVAL", "IN_PROGRESS", "PLANNING"}
-----------------------------------------------------------------------------
Ids == {IdOf(a) : a \in Activity}
NoMark == "null"
Column == Ids \cup {NoMark}
NoRow == "none"

Inspected == [session : Session, state : SessionState]
More == {"none", "next", "repeated"}  \* nextPageToken of an answer
Offsets(size) == {k * size : k \in 0..(MaxPages - 1)}

Poller == [pc : {"asleep", "sessions", "activities", "deliver", "inside", "read", "write", "down"},
           at : Offsets(SessionsPerPage), more : More, todo : Seq(Inspected),
           from : Offsets(ActivitiesPerPage), further : More, page : Seq(Activity),
           mark : Column,                   \* highWaterMark
           existing : Column \cup {NoRow},  \* of upsert
           due : SUBSET Activity]           \* history: what the session asks when it is opened

TypeOK ==
    /\ listing \in SetToSeqs(Session)
    /\ state \in [Session -> SessionState]
    /\ feed \in [Session -> Seq(Activity)]
    /\ decisions \subseteq {Key(a) : a \in Activity}
    /\ row \in [Session -> Column \cup {NoRow}]
    /\ lock \in [Session -> Worker \cup {NoWorker}]
    /\ poller \in [Worker -> Poller]
    /\ changes \in 0..MaxChanges
    /\ faults \in 0..MaxFaults

Asleep ==
    [pc |-> "asleep", at |-> 0, more |-> "none", todo |-> <<>>, from |-> 0, further |-> "none",
     page |-> <<>>, mark |-> NoMark, existing |-> NoRow, due |-> {}]

Init ==
    /\ listing = Beginning.listing
    /\ state = Beginning.state
    /\ feed = Beginning.feed
    /\ decisions = {}
    /\ row = [s \in Session |-> NoRow]
    /\ lock = [s \in Session |-> NoWorker]
    /\ poller = [w \in Worker |-> Asleep]
    /\ changes = 0
    /\ faults = 0
-----------------------------------------------------------------------------
(* Between two awaits of worker w.  Each operator takes the worker's record *)
(* as it is when the await is over, and gives it as it is at the next one.  *)

Page(entries, from, size) ==
    SubSeq(entries, from + 1, IF from + size < Len(entries) THEN from + size ELSE Len(entries))

\* The nextPageToken of an honest answer.
Following(entries, from, size) == IF from + size < Len(entries) THEN "next" ELSE "none"

AtCeiling_Never(from, size) == FALSE

\* Is this the last page the ceiling allows?
AtCeiling(from, size) == from + size >= MaxPages * size

\* With a token kept in the row since the last poll.
FirstPage_Persisted(s) == IF row[s] \in Ids THEN ActivitiesPerPage ELSE 0

\* reconcileSession starts a fresh listing.
FirstPage(s) == 0

Open(p) ==
    LET s == Head(p.todo).session
    IN [Asleep EXCEPT !.pc = "activities", !.at = p.at, !.more = p.more, !.todo = p.todo,
                      !.from = FirstPage(s),
                      !.due = {a \in Range(feed[s]) : Asks(a, Head(p.todo).state)}]

\* The sessions of a page that the loop over them does not skip.
Ready(todo) == {n \in DOMAIN todo : NeedsInspection(todo[n].state)}

\* The loops over the sessions of a page and over the pages.  A repeated token
\* throws; the poller then backs off, which is a longer sleep.
GoOn(p) ==
    IF Ready(p.todo) # {}
    THEN Open([p EXCEPT !.todo = SubSeq(@, Min(Ready(@)), Len(@))])
    ELSE IF p.more = "next" /\ ~AtCeiling(p.at, SessionsPerPage)
    THEN [Asleep EXCEPT !.pc = "sessions", !.at = p.at + SessionsPerPage]
    ELSE Asleep

\* reconcileSession has returned.
Leave(p) == GoOn([p EXCEPT !.todo = Tail(@)])

\* reconcileSession has thrown: logged, and the next session's turn.
LeaveFailed_Rethrown(p) == Asleep

LeaveFailed(p) == Leave(p)

\* After an activity, or an empty page.
NextActivity(p) == IF p.page = <<>> THEN [p EXCEPT !.pc = "read"] ELSE [p EXCEPT !.pc = "deliver"]

Handed(p) == NextActivity([p EXCEPT !.mark = IdOf(Head(p.page)), !.page = Tail(@)])

\* After the checkpoint.
NextPage(p) ==
    CASE p.further = "none" -> Leave(p)
      [] p.further = "repeated" -> LeaveFailed(p)
      [] AtCeiling(p.from, ActivitiesPerPage) -> Leave(p)
      [] OTHER -> [p EXCEPT !.pc = "activities", !.from = @ + ActivitiesPerPage]
-----------------------------------------------------------------------------
(* The awaits of worker w.                                                 *)

Becomes(w, p) == poller' = [poller EXCEPT ![w] = p]
Fails == faults < MaxFaults /\ faults' = faults + 1
Free(s) == lock' = [lock EXCEPT ![s] = NoWorker]
Current(w) == Head(poller[w].todo).session

\* pollLoop: the sleep is over.
Wake(w) ==
    /\ poller[w].pc = "asleep"
    /\ Becomes(w, [Asleep EXCEPT !.pc = "sessions"])
    /\ UNCHANGED <<jules, decisions, row, lock, changes, faults>>

\* A read may fail, retries included, or give a token it has given before.
ListSessions(w) ==
    LET p == poller[w]
        inspected == [n \in DOMAIN listing |-> [session |-> listing[n], state |-> state[listing[n]]]]
        batch == Page(inspected, p.at, SessionsPerPage)
    IN
    /\ p.pc = "sessions"
    /\ \/ /\ Becomes(w, GoOn([p EXCEPT !.todo = batch,
                                       !.more = Following(listing, p.at, SessionsPerPage)]))
          /\ UNCHANGED faults
       \/ /\ Fails
          /\ \/ Becomes(w, Asleep)
             \/ p.at > 0 /\ Becomes(w, GoOn([p EXCEPT !.todo = batch, !.more = "repeated"]))
    /\ UNCHANGED <<jules, decisions, row, lock, changes>>

ListActivities(w) ==
    LET p == poller[w]
        entries == feed[Current(w)]
        page == Page(entries, p.from, ActivitiesPerPage)
    IN
    /\ p.pc = "activities"
    /\ \/ /\ Becomes(w, NextActivity([p EXCEPT !.page = page,
                                               !.further = Following(entries, p.from, ActivitiesPerPage)]))
          /\ UNCHANGED faults
       \/ /\ Fails
          /\ \/ Becomes(w, LeaveFailed(p))
             \/ p.from > 0 /\ Becomes(w, NextActivity([p EXCEPT !.page = page, !.further = "repeated"]))
    /\ UNCHANGED <<jules, decisions, row, lock, changes>>

\* processActivity: nothing to do, or the session's lock, which throws if taken.
Deliver(w) ==
    LET p == poller[w]
        s == Current(w)
    IN
    /\ p.pc = "deliver"
    /\ \/ /\ ~Asks(Head(p.page), Head(p.todo).state)
          /\ Becomes(w, Handed(p))
          /\ UNCHANGED lock
       \/ /\ Asks(Head(p.page), Head(p.todo).state)
          /\ IF lock[s] = NoWorker
             THEN lock' = [lock EXCEPT ![s] = w] /\ Becomes(w, [p EXCEPT !.pc = "inside"])
             ELSE Becomes(w, LeaveFailed(p)) /\ UNCHANGED lock
    /\ UNCHANGED <<jules, decisions, row, changes, faults>>

\* It has run: there is a decision of this key, old or new; or it has thrown.
Processed(w) ==
    LET p == poller[w]
        a == Head(p.page)
    IN
    /\ p.pc = "inside"
    /\ Free(Current(w))
    /\ \/ /\ a \notin Unstorable
          /\ decisions' = decisions \cup {Key(a)}
          /\ Becomes(w, Handed(p))
          /\ UNCHANGED faults
       \/ /\ IF a \in Unstorable THEN UNCHANGED faults ELSE Fails
          /\ Becomes(w, LeaveFailed(p))
          /\ UNCHANGED decisions
    /\ UNCHANGED <<jules, row, changes>>

\* upsert: the row is read, and then inserted or updated.
ReadRow(w) ==
    LET p == poller[w] IN
    /\ p.pc = "read"
    /\ \/ /\ Becomes(w, [p EXCEPT !.pc = "write", !.existing = row[Current(w)]])
          /\ UNCHANGED faults
       \/ Fails /\ Becomes(w, LeaveFailed(p))
    /\ UNCHANGED <<jules, decisions, row, lock, changes>>

\* The mark of this pass, or what was read; never what is there by now.
Cursor(p) == IF p.mark = NoMark /\ p.existing # NoRow THEN p.existing ELSE p.mark

\* session_id is unique: an insert that comes second throws.
WriteRow(w) ==
    LET p == poller[w]
        s == Current(w)
        refused == p.existing = NoRow /\ row[s] # NoRow
    IN
    /\ p.pc = "write"
    /\ \/ /\ ~refused
          /\ row' = [row EXCEPT ![s] = Cursor(p)]
          /\ Becomes(w, NextPage(p))
          /\ UNCHANGED faults
       \/ /\ IF refused THEN UNCHANGED faults ELSE Fails
          /\ Becomes(w, LeaveFailed(p))
          /\ UNCHANGED row
    /\ UNCHANGED <<jules, decisions, lock, changes>>

Step(w) ==
    \/ Wake(w) \/ ListSessions(w) \/ ListActivities(w)
    \/ Deliver(w) \/ Processed(w) \/ ReadRow(w) \/ WriteRow(w)

\* The process dies, or is shut down: stop() makes every loop break at its next
\* look at the signal, and the process exits without awaiting the pass.
Stop(w) ==
    /\ poller[w].pc # "down"
    /\ Fails
    /\ Becomes(w, [Asleep EXCEPT !.pc = "down"])
    /\ UNCHANGED <<jules, decisions, row, lock, changes>>

Start(w) ==
    /\ poller[w].pc = "down"
    /\ Becomes(w, Asleep)
    /\ UNCHANGED <<jules, decisions, row, lock, changes, faults>>

\* The TTL of a key nobody renews.
Lapse(s) ==
    /\ lock[s] # NoWorker
    /\ \A w \in Worker : ~(poller[w].pc = "inside" /\ Current(w) = s)
    /\ Free(s)
    /\ UNCHANGED <<jules, decisions, row, poller, changes, faults>>
-----------------------------------------------------------------------------
(* Jules.                                                                  *)

\* A new activity, anywhere: identifiers and tokens promise no order.
Arrive(a) ==
    LET s == SessionOf[a] IN
    /\ a \notin Range(feed[s])
    /\ \E n \in 1..(Len(feed[s]) + 1) : feed' = [feed EXCEPT ![s] = InsertAt(@, n, a)]
    /\ UNCHANGED <<listing, state>>

\* A session moves to the top of the list.
Move(n) ==
    /\ n # 1
    /\ listing' = <<listing[n]>> \o RemoveAt(listing, n)
    /\ UNCHANGED <<state, feed>>

Change(s) ==
    /\ \E st \in SessionState \ {state[s]} : state' = [state EXCEPT ![s] = st]
    /\ UNCHANGED <<listing, feed>>

Jules ==
    /\ changes < MaxChanges
    /\ changes' = changes + 1
    /\ \/ \E a \in Activity : Arrive(a)
       \/ \E n \in DOMAIN listing : Move(n)
       \/ \E s \in Session : Change(s)
    /\ UNCHANGED <<decisions, row, lock, poller, faults>>

Next ==
    \/ \E w \in Worker : Step(w) \/ Stop(w) \/ Start(w)
    \/ \E s \in Session : Lapse(s)
    \/ Jules

Spec == Init /\ [][Next]_vars

\* Every await settles or throws (requests and their retries have timeouts), the
\* sleep ends, keys have a TTL.  Nothing is assumed of Jules, nor of a start.
FairSpec ==
    /\ Spec
    /\ \A w \in Worker : WF_vars(Step(w))
    /\ \A s \in Session : WF_vars(Lapse(s))
-----------------------------------------------------------------------------
(* Properties.                                                             *)

\* One pass is enough, whatever other workers do and Jules adds meanwhile: when
\* the last page of a session's activities is through, what the session asked
\* when it was opened has its decisions (poller.ts:79-87).
NothingLeftBehind ==
    \A w \in Worker :
        poller[w].pc \in {"read", "write"} /\ poller[w].further = "none" =>
            \A a \in poller[w].due : Key(a) \in decisions

\* Within the ceilings, and not behind an activity that throws every time.
Position(seq, e) == CHOOSE n \in DOMAIN seq : seq[n] = e
InReach(a) ==
    LET s == SessionOf[a] IN
    /\ a \in Range(feed[s])
    /\ Position(listing, s) <= MaxPages * SessionsPerPage
    /\ Position(feed[s], a) <= MaxPages * ActivitiesPerPage
    /\ \A n \in 1..Position(feed[s], a) :
          Asks(feed[s][n], state[s]) => feed[s][n] \notin Unstorable

\* A question comes to a decision if its session goes on waiting for it and one
\* worker is left undisturbed: failures of other sessions, earlier failures of
\* its own, a dead worker's lock and a lost insert do not keep it from it.
EveryQuestionHandedOver ==
    \A a \in Activity :
        (\E w \in Worker :
            <>[](/\ InReach(a) /\ Asks(a, state[SessionOf[a]])
                 /\ \A v \in Worker : (poller[v].pc = "down") = (v # w)))
        => <>(Key(a) \in decisions)

\* sync-checkpoint.repository.ts:44-46: "a stale replay never moves the cursor
\* backwards"; it stays at the later activity of one listing.
CursorNeverRegresses ==
    [][\A s \in Session :
          \A n, m \in DOMAIN feed[s] :
              row[s] = IdOf(feed[s][n]) /\ row'[s] = IdOf(feed[s][m]) => n <= m]_vars
=============================================================================
