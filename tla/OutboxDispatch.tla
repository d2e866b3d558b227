--------------------------- MODULE OutboxDispatch ---------------------------
(***************************************************************************)
(* How an action that a human sanctioned reaches Jules.                    *)
(*                                                                         *)
(* The web route resolves an approval and, in the same transaction, stages *)
(* a row of the outbox table.  Every worker runs OutboxDispatcher          *)
(* .dispatchOnce on a 2 s timer that does not wait for the previous pass,  *)
(* so a worker may have several passes in flight.  A pass takes the Redis  *)
(* lock of the item's session, claims the outbox row (a conditional UPDATE *)
(* that bumps the fencing token), writes a row of the execution_attempts   *)
(* ledger, calls Jules, and records the outcome in the ledger, the outbox, *)
(* the decision and the session.  Every worker also runs                   *)
(* ExecutionReconciler.reconcileOnce, which escalates ledger rows whose    *)
(* lease has lapsed.                                                       *)
(*                                                                         *)
(* Every await of the code is a step of its own.  Time appears only as     *)
(* "this lease has lapsed": a deadline may pass at any moment after it was *)
(* set.  An item stands for one approval together with its decision and,   *)
(* once sanctioned, its outbox row.                                        *)
(*                                                                         *)
(* A definition X_Y that precedes X is a variant of X with one plausible   *)
(* defect; the specification does not use it.  PROJECT.json names the      *)
(* property that notices when it takes the place of X.                     *)
(***************************************************************************)
EXTENDS Integers, FiniteSets

CONSTANTS
    Item,            \* approvals (with their decisions and outbox rows)
    Session,         \* Jules sessions
    SessionOf,       \* [Item -> Session]
    Worker,          \* worker identities, hostname:pid
    Pass,            \* dispatchOnce invocations that can be in flight
    Reconciler,      \* reconcileOnce invocations that can be in flight
    WorkerOf,        \* [Pass \cup Reconciler -> Worker]
    Verdict,         \* what operators answer in this instance
    SafetyState,     \* the positions of the kill switch they use
    MaxAttempts,     \* outbox.max_attempts, 3 in the code
    ScanLimit,       \* findClaimable's limit, 10 in the code
    RenewalMayFail,  \* may a live pass lose its Redis lock (stall, partition)?
    MaxFaults,       \* bound on crashes and failed database calls
    NoWorker, NoPass, NoItem

Resolution == {"APPROVED", "EDITED", "REJECTED", "CANCELLED"}
Sanctioning == {"APPROVED", "EDITED"}

ASSUME ConstantsAssumption ==
    /\ IsFiniteSet(Pass)
    /\ SessionOf \in [Item -> Session]
    /\ WorkerOf \in [Pass \cup Reconciler -> Worker]
    /\ Verdict \subseteq Resolution
    /\ SafetyState \subseteq {"RUNNING", "PAUSED", "SAFETY_LOCKED"}
    /\ MaxAttempts \in Nat \ {0}
    /\ ScanLimit \in Nat \ {0}
    /\ RenewalMayFail \in BOOLEAN
    /\ MaxFaults \in Nat
    /\ NoWorker \notin Worker
    /\ NoPass \notin Pass
    /\ NoItem \notin Item

VARIABLES
    \* PostgreSQL
    approval,      \* approval_requests.status
    decision,      \* decisions.executionState
    outbox,        \* outbox rows
    attempt,       \* execution_attempts rows, by item and attempt number
    corrections,   \* session_budgets.corrections
    sessionState,  \* sessions.state
    safety,        \* the kill switch
    \* Redis
    lock,          \* holder of lock:outbox:<session>
    \* one dispatchOnce pass
    pc, todo, item, token, number, verdict,
    \* one reconcileOnce pass: the ledger row it has re-claimed
    rescue,
    \* Jules: the attempts whose mutation took effect there
    applied,
    \* crashes and failed calls so far
    faults

rows == <<approval, decision, outbox, attempt, corrections, sessionState>>
local == <<todo, item, token, number, verdict>>
vars == <<rows, safety, lock, pc, local, rescue, applied, faults>>
-----------------------------------------------------------------------------
(* Types.                                                                  *)

InFlight == {"CLAIMED", "EXECUTING"}
OutboxTerminal == {"COMPLETED", "FAILED", "UNCERTAIN"}
OutboxStatus == {"NONE", "PENDING"} \cup InFlight \cup OutboxTerminal
AttemptTerminal == {"SUCCEEDED", "FAILED", "UNKNOWN_EFFECT", "NEEDS_RECONCILIATION"}
AttemptStatus == {"NONE", "PENDING"} \cup InFlight \cup AttemptTerminal
DecisionState == {"AWAITING_APPROVAL", "BLOCKED", "DISPATCH_REQUESTED", "EXECUTING",
                  "EXECUTED", "UNKNOWN_EFFECT", "EXECUTION_FAILED"}

\* No row is claimed more often than this (theorem AttemptsBounded).
AttemptCap == MaxAttempts - 1 + Cardinality(Pass)
AttemptNumber == 1..AttemptCap

OutboxRow == [status : OutboxStatus, claimOwner : Worker \cup {NoWorker},
              fencingToken : Nat, attempts : Nat, lapsed : BOOLEAN]
AttemptRow == [status : AttemptStatus, claimOwner : Worker \cup {NoWorker},
               fencingToken : Nat]

\* How a processItem ends: by success, by an AMBIGUOUS error, by an error
\* that gives up, by an error that is left to be tried again.
Ending == {"SUCCEEDED", "UNKNOWN", "FINAL", "RETRY"}
Category == {"AMBIGUOUS", "PERMANENT", "TRANSIENT"}

\* Steps before the try, inside the try, and the writes that record the ending.
Prelude == {"create", "claimAttempt", "executeAttempt", "executeOutbox", "executeDecision"}
Calling == {"getSession", "mutate"}
Settling == {"settleAttempt", "settleOutbox", "settleDecision", "updateSession"}
Claimed == Prelude \cup Calling \cup Settling
Step == {"idle", "scan", "next", "claim", "release"} \cup Claimed

NoOutbox == [status |-> "NONE", claimOwner |-> NoWorker,
             fencingToken |-> 0, attempts |-> 0, lapsed |-> FALSE]
NoAttempt == [status |-> "NONE", claimOwner |-> NoWorker, fencingToken |-> 0]
Nothing == <<>>

TypeOK ==
    /\ approval \in [Item -> {"PENDING"} \cup Resolution]
    /\ decision \in [Item -> DecisionState]
    /\ outbox \in [Item -> OutboxRow]
    /\ attempt \in [Item -> [AttemptNumber -> AttemptRow]]
    /\ corrections \in [Session -> Nat]
    /\ sessionState \in [Session -> {"AWAITING_APPROVAL", "IN_PROGRESS"}]
    /\ safety \in SafetyState \cup {"RUNNING"}
    /\ lock \in [Session -> Pass \cup {NoPass}]
    /\ pc \in [Pass -> Step]
    /\ todo \in [Pass -> SUBSET Item]
    /\ item \in [Pass -> Item \cup {NoItem}]
    /\ token \in [Pass -> Nat]
    /\ number \in [Pass -> Nat]
    /\ verdict \in [Pass -> Ending \cup {"NONE"}]
    /\ rescue \in [Reconciler -> {Nothing} \cup (Item \X AttemptNumber)]
    /\ applied \in [Item -> SUBSET AttemptNumber]
    /\ faults \in 0..MaxFaults

\* The pipeline has left every decision awaiting approval.
Init ==
    /\ approval = [i \in Item |-> "PENDING"]
    /\ decision = [i \in Item |-> "AWAITING_APPROVAL"]
    /\ outbox = [i \in Item |-> NoOutbox]
    /\ attempt = [i \in Item |-> [n \in AttemptNumber |-> NoAttempt]]
    /\ corrections = [s \in Session |-> 0]
    /\ sessionState = [s \in Session |-> "AWAITING_APPROVAL"]
    /\ safety = "RUNNING"
    /\ lock = [s \in Session |-> NoPass]
    /\ pc = [p \in Pass |-> "idle"]
    /\ todo = [p \in Pass |-> {}]
    /\ item = [p \in Pass |-> NoItem]
    /\ token = [p \in Pass |-> 0]
    /\ number = [p \in Pass |-> 0]
    /\ verdict = [p \in Pass |-> "NONE"]
    /\ rescue = [r \in Reconciler |-> Nothing]
    /\ applied = [i \in Item |-> {}]
    /\ faults = 0
-----------------------------------------------------------------------------
(* Operators: the approvals route and the kill switch.                     *)

\* ApprovalRepository.updateStatus matches only an open approval.
Open(i) == approval[i] = "PENDING"

\* POST /api/approvals/[id]: one transaction, decided by the conditional
\* UPDATE of the approval row.  The audit record is left out.
Resolve(i, answer) ==
    /\ Open(i)
    /\ approval' = [approval EXCEPT ![i] = answer]
    /\ IF answer \in Sanctioning
       THEN /\ decision' = [decision EXCEPT ![i] = "DISPATCH_REQUESTED"]
            /\ outbox' = [outbox EXCEPT ![i] =
                   [NoOutbox EXCEPT !.status = "PENDING", !.fencingToken = 1]]
       ELSE /\ decision' = [decision EXCEPT ![i] = "BLOCKED"]
            /\ outbox' = outbox
    /\ corrections' = IF answer = "REJECTED"
                      THEN [corrections EXCEPT ![SessionOf[i]] = @ + 1]
                      ELSE corrections
    /\ UNCHANGED <<attempt, sessionState, safety, lock, pc, local, rescue, applied, faults>>

\* The operator halts or resumes autonomy.
SetState(s) ==
    /\ safety' = s
    /\ UNCHANGED <<rows, lock, pc, local, rescue, applied, faults>>
-----------------------------------------------------------------------------
(* dispatchOnce.                                                           *)

Goto(p, step) == pc' = [pc EXCEPT ![p] = step]

\* The kill switch is read once, here.  Any other reading, a failed one
\* included, ends the pass at once, which changes nothing.
BeginPass(p) ==
    /\ pc[p] = "idle"
    /\ safety = "RUNNING"
    /\ Goto(p, "scan")
    /\ UNCHANGED <<rows, safety, lock, local, rescue, applied, faults>>

\* findClaimable's condition, and claim's: they differ in the attempts check.
Unowned_Uncertain(i) ==
    \/ outbox[i].status = "PENDING"
    \/ outbox[i].status \in InFlight \cup {"UNCERTAIN"} /\ outbox[i].lapsed
Unowned(i) ==
    \/ outbox[i].status = "PENDING"
    \/ outbox[i].status \in InFlight /\ outbox[i].lapsed

FindClaimable ==
    {i \in Item : /\ Unowned(i)
                  /\ outbox[i].status # "PENDING" => outbox[i].attempts < MaxAttempts}

\* SELECT ... LIMIT without ORDER BY: any batch of that size.
Scan(p) ==
    /\ pc[p] = "scan"
    /\ \E batch \in SUBSET FindClaimable :
         /\ batch = FindClaimable \/ (IsFiniteSet(batch) /\ Cardinality(batch) = ScanLimit)
         /\ IsFiniteSet(batch) => Cardinality(batch) <= ScanLimit
         /\ todo' = [todo EXCEPT ![p] = batch]
         /\ Goto(p, IF batch = {} THEN "idle" ELSE "next")
    /\ UNCHANGED <<rows, safety, lock, item, token, number, verdict, rescue, applied, faults>>

\* SET NX succeeds only on a key that is absent.
Free_Reentrant(p, s) == lock[s] # NoPass => WorkerOf[lock[s]] = WorkerOf[p]
Free(p, s) == lock[s] = NoPass

\* lock.withLock: a lock that is taken throws, and the exception
\* ends the whole pass: the rest of the batch is dropped.
TakeItem(p, i) ==
    /\ pc[p] = "next"
    /\ i \in todo[p]
    /\ \/ /\ Free(p, SessionOf[i])
          /\ lock' = [lock EXCEPT ![SessionOf[i]] = p]
          /\ item' = [item EXCEPT ![p] = i]
          /\ todo' = [todo EXCEPT ![p] = @ \ {i}]
          /\ Goto(p, "claim")
       \/ /\ ~Free(p, SessionOf[i])
          /\ todo' = [todo EXCEPT ![p] = {}]
          /\ Goto(p, "idle")
          /\ UNCHANGED <<lock, item>>
    /\ UNCHANGED <<rows, safety, token, number, verdict, rescue, applied, faults>>

\* The row as OutboxRepository.claim rewrites it.
Leased_SameToken(row, w) ==
    [status |-> "CLAIMED", claimOwner |-> w, fencingToken |-> row.fencingToken,
     attempts |-> row.attempts + 1, lapsed |-> FALSE]
Leased(row, w) ==
    [status |-> "CLAIMED", claimOwner |-> w, fencingToken |-> row.fencingToken + 1,
     attempts |-> row.attempts + 1, lapsed |-> FALSE]

\* OutboxRepository.claim; what it returns is the row it wrote.
Claim(p) ==
    LET i == item[p] IN
    /\ pc[p] = "claim"
    /\ IF Unowned(i)
       THEN /\ outbox' = [outbox EXCEPT ![i] = Leased(@, WorkerOf[p])]
            /\ token' = [token EXCEPT ![p] = Leased(outbox[i], WorkerOf[p]).fencingToken]
            /\ number' = [number EXCEPT ![p] = Leased(outbox[i], WorkerOf[p]).attempts]
            /\ Goto(p, "create")
       ELSE /\ Goto(p, "release")
            /\ UNCHANGED <<outbox, token, number>>
    /\ UNCHANGED <<approval, decision, attempt, corrections, sessionState, safety,
                   lock, todo, item, verdict, rescue, applied, faults>>
-----------------------------------------------------------------------------
(* processItem after the claim, up to the call.                            *)

MyAttempt(p) == attempt[item[p]][number[p]]

SetAttempt(i, n, row) == attempt' = [attempt EXCEPT ![i] = [@ EXCEPT ![n] = row]]

\* ExecutionAttemptRepository.create; (decision, number) is a unique index.
CreateAttempt(p) ==
    /\ pc[p] = "create"
    /\ MyAttempt(p).status = "NONE"
    /\ SetAttempt(item[p], number[p],
           [NoAttempt EXCEPT !.status = "PENDING", !.fencingToken = 1])
    /\ Goto(p, "claimAttempt")
    /\ UNCHANGED <<approval, decision, outbox, corrections, sessionState,
                   safety, lock, local, rescue, applied, faults>>

\* The row as claimPending and recoverStale rewrite it.
Reclaimed_Open(row, w) ==
    [status |-> row.status, claimOwner |-> w, fencingToken |-> row.fencingToken + 1]
Reclaimed(row, w) ==
    [status |-> "CLAIMED", claimOwner |-> w, fencingToken |-> row.fencingToken + 1]

\* claimPending; the caller ignores whether a row matched.
ClaimAttempt(p) ==
    /\ pc[p] = "claimAttempt"
    /\ IF MyAttempt(p).status = "PENDING"
       THEN SetAttempt(item[p], number[p], Reclaimed(MyAttempt(p), WorkerOf[p]))
       ELSE attempt' = attempt
    /\ Goto(p, "executeAttempt")
    /\ UNCHANGED <<approval, decision, outbox, corrections, sessionState,
                   safety, lock, local, rescue, applied, faults>>

\* The fencing token that guards a pass's ledger writes is the OUTBOX token.
OwnsAttempt(p, statuses) ==
    /\ MyAttempt(p).status \in statuses
    /\ MyAttempt(p).claimOwner = WorkerOf[p]
    /\ MyAttempt(p).fencingToken = token[p]

\* The WHERE clause of the outbox's mark... statements.
OwnsOutbox_NoToken(p, statuses) ==
    /\ outbox[item[p]].status \in statuses
    /\ outbox[item[p]].claimOwner = WorkerOf[p]
OwnsOutbox(p, statuses) ==
    /\ outbox[item[p]].status \in statuses
    /\ outbox[item[p]].claimOwner = WorkerOf[p]
    /\ outbox[item[p]].fencingToken = token[p]

\* ExecutionAttemptRepository.markExecuting.
ExecuteAttempt(p) ==
    /\ pc[p] = "executeAttempt"
    /\ IF OwnsAttempt(p, {"CLAIMED"})
       THEN SetAttempt(item[p], number[p], [MyAttempt(p) EXCEPT !.status = "EXECUTING"])
       ELSE attempt' = attempt
    /\ Goto(p, "executeOutbox")
    /\ UNCHANGED <<approval, decision, outbox, corrections, sessionState,
                   safety, lock, local, rescue, applied, faults>>

\* OutboxRepository.markExecuting.
ExecuteOutbox(p) ==
    /\ pc[p] = "executeOutbox"
    /\ outbox' = IF OwnsOutbox(p, {"CLAIMED"})
                 THEN [outbox EXCEPT ![item[p]] = [@ EXCEPT !.status = "EXECUTING"]]
                 ELSE outbox
    /\ Goto(p, "executeDecision")
    /\ UNCHANGED <<approval, decision, attempt, corrections, sessionState,
                   safety, lock, local, rescue, applied, faults>>

\* DecisionRepository.markExecuted is an unconditional UPDATE.
ExecuteDecision(p) ==
    /\ pc[p] = "executeDecision"
    /\ decision' = [decision EXCEPT ![item[p]] = "EXECUTING"]
    /\ Goto(p, "getSession")
    /\ UNCHANGED <<approval, outbox, attempt, corrections, sessionState,
                   safety, lock, local, rescue, applied, faults>>
-----------------------------------------------------------------------------
(* The try block and its catch.                                            *)

\* classifyExecutionEffect gives the category; a retry needs attempts to spare.
EndingOf_OneMore(p, category) ==
    IF category = "AMBIGUOUS" THEN "UNKNOWN"
    ELSE IF category = "PERMANENT" \/ number[p] > MaxAttempts THEN "FINAL"
    ELSE "RETRY"
EndingOf(p, category) ==
    IF category = "AMBIGUOUS" THEN "UNKNOWN"
    ELSE IF category = "PERMANENT" \/ number[p] >= MaxAttempts THEN "FINAL"
    ELSE "RETRY"

Settle(p, ending) ==
    /\ verdict' = [verdict EXCEPT ![p] = ending]
    /\ Goto(p, "settleAttempt")

\* getSession, a read.
GetSession(p) ==
    /\ pc[p] = "getSession"
    /\ \/ Goto(p, "mutate") /\ UNCHANGED verdict
       \/ \E c \in Category : Settle(p, EndingOf(p, c))
    /\ UNCHANGED <<rows, safety, lock, todo, item, token, number, rescue, applied, faults>>

Apply(p) == applied' = [applied EXCEPT ![item[p]] = @ \cup {number[p]}]

\* approvePlan or sendMessage.  A POST that fails may have taken effect (a
\* timeout, a gateway error after the commit).  The category is read off
\* substrings of a message that quotes the response, so it can be any.
Mutate(p) ==
    /\ pc[p] = "mutate"
    /\ \/ Settle(p, "SUCCEEDED") /\ Apply(p)
       \/ /\ \E c \in Category : Settle(p, EndingOf(p, c))
          /\ Apply(p) \/ UNCHANGED applied
    /\ UNCHANGED <<rows, safety, lock, todo, item, token, number, rescue, faults>>

AttemptStatusFor_Optimistic ==
    [SUCCEEDED |-> "SUCCEEDED", UNKNOWN |-> "SUCCEEDED", FINAL |-> "FAILED", RETRY |-> "FAILED"]
AttemptStatusFor ==
    [SUCCEEDED |-> "SUCCEEDED", UNKNOWN |-> "UNKNOWN_EFFECT", FINAL |-> "FAILED", RETRY |-> "FAILED"]
OutboxStatusFor == [SUCCEEDED |-> "COMPLETED", UNKNOWN |-> "UNCERTAIN", FINAL |-> "FAILED"]
DecisionStateFor_Unlisted ==
    [SUCCEEDED |-> "EXECUTED", UNKNOWN |-> "UNKNOWN_EFFECT", FINAL |-> "FAILED"]
DecisionStateFor_Pessimistic ==
    [SUCCEEDED |-> "EXECUTED", UNKNOWN |-> "EXECUTION_FAILED", FINAL |-> "EXECUTION_FAILED"]
DecisionStateFor ==
    [SUCCEEDED |-> "EXECUTED", UNKNOWN |-> "UNKNOWN_EFFECT", FINAL |-> "EXECUTION_FAILED"]

\* markSucceeded, markUnknownEffect or markFailed of the ledger.  An ending
\* to be retried writes nothing else: the claim is left to lapse.
SettleAttempt(p) ==
    /\ pc[p] = "settleAttempt"
    /\ IF OwnsAttempt(p, InFlight)
       THEN SetAttempt(item[p], number[p],
                [MyAttempt(p) EXCEPT !.status = AttemptStatusFor[verdict[p]]])
       ELSE attempt' = attempt
    /\ Goto(p, IF verdict[p] = "RETRY" THEN "release" ELSE "settleOutbox")
    /\ UNCHANGED <<approval, decision, outbox, corrections, sessionState,
                   safety, lock, local, rescue, applied, faults>>

\* markCompleted, markUncertain or markFailed of the outbox.
SettleOutbox(p) ==
    /\ pc[p] = "settleOutbox"
    /\ outbox' = IF OwnsOutbox(p, InFlight)
                 THEN [outbox EXCEPT ![item[p]] =
                          [@ EXCEPT !.status = OutboxStatusFor[verdict[p]]]]
                 ELSE outbox
    /\ Goto(p, "settleDecision")
    /\ UNCHANGED <<approval, decision, attempt, corrections, sessionState,
                   safety, lock, local, rescue, applied, faults>>

SettleDecision(p) ==
    /\ pc[p] = "settleDecision"
    /\ decision' = [decision EXCEPT ![item[p]] = DecisionStateFor[verdict[p]]]
    /\ Goto(p, IF verdict[p] = "SUCCEEDED" THEN "updateSession" ELSE "release")
    /\ UNCHANGED <<approval, outbox, attempt, corrections, sessionState,
                   safety, lock, local, rescue, applied, faults>>

UpdateSession(p) ==
    /\ pc[p] = "updateSession"
    /\ sessionState' = [sessionState EXCEPT ![SessionOf[item[p]]] = "IN_PROGRESS"]
    /\ Goto(p, "release")
    /\ UNCHANGED <<approval, decision, outbox, attempt, corrections,
                   safety, lock, local, rescue, applied, faults>>

Forget(p) ==
    /\ item' = [item EXCEPT ![p] = NoItem]
    /\ token' = [token EXCEPT ![p] = 0]
    /\ number' = [number EXCEPT ![p] = 0]
    /\ verdict' = [verdict EXCEPT ![p] = "NONE"]

\* withLock's finally, then the next item of the batch if there is one.
Release(p) ==
    LET s == SessionOf[item[p]] IN
    /\ pc[p] = "release"
    /\ lock' = IF lock[s] = p THEN [lock EXCEPT ![s] = NoPass] ELSE lock
    /\ Forget(p)
    /\ Goto(p, IF todo[p] = {} THEN "idle" ELSE "next")
    /\ UNCHANGED <<rows, safety, todo, rescue, applied, faults>>
-----------------------------------------------------------------------------
(* ExecutionReconciler.reconcileOnce.  findStaleAttempts and recoverStale  *)
(* are one step: whatever recoverStale still matches was, or could have    *)
(* been, listed.  Nothing else reads the lease of a ledger row, and it is  *)
(* never renewed, so any row not yet settled may turn out to be stale.     *)
(* The kill switch and the decision lookup choose only the wording of the  *)
(* escalation (a decision cannot vanish without its ledger rows: the       *)
(* foreign key cascades).                                                  *)

Stale_Claimed(i, n) == attempt[i][n].status \in InFlight
Stale(i, n) == attempt[i][n].status \in InFlight \cup {"PENDING"}

Recover(r, i, n) ==
    /\ rescue[r] = Nothing
    /\ Stale(i, n)
    /\ SetAttempt(i, n, Reclaimed(attempt[i][n], WorkerOf[r]))
    /\ rescue' = [rescue EXCEPT ![r] = <<i, n>>]
    /\ UNCHANGED <<approval, decision, outbox, corrections, sessionState,
                   safety, lock, pc, local, applied, faults>>

\* markNeedsReconciliation updates by id alone.
Escalate(r) ==
    LET i == rescue[r][1]
        n == rescue[r][2]
    IN
    /\ rescue[r] # Nothing
    /\ SetAttempt(i, n, [attempt[i][n] EXCEPT !.status = "NEEDS_RECONCILIATION"])
    /\ rescue' = [rescue EXCEPT ![r] = Nothing]
    /\ UNCHANGED <<approval, decision, outbox, corrections, sessionState,
                   safety, lock, pc, local, applied, faults>>
-----------------------------------------------------------------------------
(* Time and failures.                                                      *)

LapseOutbox(i) ==
    /\ outbox[i].status \in InFlight
    /\ ~outbox[i].lapsed
    /\ outbox' = [outbox EXCEPT ![i] = [@ EXCEPT !.lapsed = TRUE]]
    /\ UNCHANGED <<approval, decision, attempt, corrections, sessionState,
                   safety, lock, pc, local, rescue, applied, faults>>

\* Is pass p inside withLock for session s?
Inside(p, s) == /\ pc[p] \in Claimed \cup {"claim", "release"}
                /\ SessionOf[item[p]] = s

\* The key's TTL runs out.  A live holder renews it every third of the TTL,
\* so that takes a dead holder, or a stalled or partitioned one.
LapseLock(s) ==
    /\ lock[s] # NoPass
    /\ RenewalMayFail \/ ~Inside(lock[s], s)
    /\ lock' = [lock EXCEPT ![s] = NoPass]
    /\ UNCHANGED <<rows, safety, pc, local, rescue, applied, faults>>

Fault == faults < MaxFaults /\ faults' = faults + 1

\* A database call outside the try, or inside the catch, throws: the finally
\* still releases the lock, and the exception ends the pass.
Abort(p) ==
    /\ Fault
    /\ pc[p] \in {"claim"} \cup Prelude \cup {"settleAttempt", "settleOutbox", "settleDecision"}
    /\ verdict[p] # "SUCCEEDED"
    /\ todo' = [todo EXCEPT ![p] = {}]
    /\ Goto(p, "release")
    /\ UNCHANGED <<rows, safety, lock, item, token, number, verdict, rescue, applied>>

\* Redis fails in that finally: the key stays, and the exception ends the pass.
AbortRelease(p) ==
    /\ Fault
    /\ pc[p] = "release"
    /\ Forget(p)
    /\ todo' = [todo EXCEPT ![p] = {}]
    /\ Goto(p, "idle")
    /\ UNCHANGED <<rows, safety, lock, rescue, applied>>

\* A database call inside the try throws after Jules has acknowledged.  The
\* category is read off substrings of a message that quotes the query's
\* parameters, so it can be any.
Catch(p) ==
    /\ Fault
    /\ pc[p] \in Settling
    /\ verdict[p] = "SUCCEEDED"
    /\ \E c \in Category : Settle(p, EndingOf(p, c))
    /\ UNCHANGED <<rows, safety, lock, todo, item, token, number, rescue, applied>>

\* A database call of the reconciler throws, and the exception ends its pass:
\* the ledger row stays re-claimed until that lease lapses too.
AbandonRescue(r) ==
    /\ Fault
    /\ rescue[r] # Nothing
    /\ rescue' = [rescue EXCEPT ![r] = Nothing]
    /\ UNCHANGED <<rows, safety, lock, pc, local, applied>>

\* The process dies.  Its rows and its Redis keys stay as they are; it is
\* restarted under the same identity.
Crash(w) ==
    LET dead == {x \in Pass \cup Reconciler : WorkerOf[x] = w}
        wipe(f, nil) == [p \in Pass |-> IF p \in dead THEN nil ELSE f[p]]
    IN
    /\ Fault
    /\ pc' = wipe(pc, "idle")
    /\ todo' = wipe(todo, {})
    /\ item' = wipe(item, NoItem)
    /\ token' = wipe(token, 0)
    /\ number' = wipe(number, 0)
    /\ verdict' = wipe(verdict, "NONE")
    /\ rescue' = [r \in Reconciler |-> IF r \in dead THEN Nothing ELSE rescue[r]]
    /\ UNCHANGED <<rows, safety, lock, applied>>
-----------------------------------------------------------------------------
Advance(p) ==
    \/ BeginPass(p) \/ Scan(p) \/ (\E i \in Item : TakeItem(p, i)) \/ Claim(p)
    \/ CreateAttempt(p) \/ ClaimAttempt(p) \/ ExecuteAttempt(p)
    \/ ExecuteOutbox(p) \/ ExecuteDecision(p) \/ GetSession(p) \/ Mutate(p)
    \/ SettleAttempt(p) \/ SettleOutbox(p) \/ SettleDecision(p)
    \/ UpdateSession(p) \/ Release(p)

Reconcile(r) ==
    \/ \E i \in Item, n \in AttemptNumber : Recover(r, i, n)
    \/ Escalate(r)

Lapse ==
    \/ \E i \in Item : LapseOutbox(i)
    \/ \E s \in Session : LapseLock(s)

Next ==
    \/ \E i \in Item, answer \in Verdict : Resolve(i, answer)
    \/ \E s \in SafetyState : SetState(s)
    \/ \E p \in Pass : Advance(p) \/ Abort(p) \/ AbortRelease(p) \/ Catch(p)
    \/ \E r \in Reconciler : Reconcile(r) \/ AbandonRescue(r)
    \/ Lapse
    \/ \E w \in Worker : Crash(w)

Spec == Init /\ [][Next]_vars

\* Timers fire and promises settle; deadlines pass.  Operators owe nothing.
Fairness ==
    /\ \A p \in Pass : WF_vars(Advance(p))
    /\ \A r \in Reconciler : WF_vars(Reconcile(r))
    /\ \A i \in Item : WF_vars(LapseOutbox(i))
    /\ \A s \in Session : WF_vars(LapseLock(s))

FairSpec == Spec /\ Fairness
-----------------------------------------------------------------------------
(* What must hold.                                                         *)

Working(p) == pc[p] \in Claimed

\* Two claims in flight on one row never share a fencing token or an attempt
\* number, and the row remembers the last of them.  The owner column alone
\* would not tell them apart: overlapping passes share it.
ClaimsFenced ==
    \A p, q \in Pass :
        Working(p) =>
            /\ token[p] <= outbox[item[p]].fencingToken
            /\ number[p] <= outbox[item[p]].attempts
            /\ (q # p /\ Working(q) /\ item[q] = item[p]) =>
                   token[q] # token[p] /\ number[q] # number[p]

\* A COMPLETED outbox row was completed by the worker that claimed it last,
\* and Jules applied that very claim's mutation: an older claimant, however
\* late it wakes, cannot report on behalf of a newer one.
CompletedByLastClaim ==
    \A i \in Item : outbox[i].status = "COMPLETED" => outbox[i].attempts \in applied[i]

\* A row that says success is never wrong: a SUCCEEDED ledger row's own
\* mutation was applied, and a decision is EXECUTED, or a session resumed,
\* only if some mutation of it was.
SuccessIsTrue ==
    /\ \A i \in Item, n \in AttemptNumber :
           attempt[i][n].status = "SUCCEEDED" => n \in applied[i]
    /\ \A i \in Item : decision[i] = "EXECUTED" => applied[i] # {}
    /\ \A s \in Session : sessionState[s] = "IN_PROGRESS" =>
           \E i \in Item : SessionOf[i] = s /\ applied[i] # {}

\* Intent is durable before the effect: whatever Jules applied has a claimed
\* ledger row, which the reconciler can find after a crash.
EffectsAreLedgered ==
    \A i \in Item : \A n \in applied[i] : attempt[i][n].status \notin {"NONE", "PENDING"}

\* claim does not look at max_attempts, findClaimable does, some steps
\* earlier: stale batches can push attempts past the maximum, but by less
\* than the number of passes in flight.
AttemptsBounded == \A i \in Item : outbox[i].attempts <= AttemptCap

\* Once COMPLETED, FAILED or UNCERTAIN, an outbox row never changes: no stale
\* claimant and no new pass touches it.
SettledRowsFinal ==
    [][\A i \in Item : outbox[i].status \in OutboxTerminal => outbox'[i] = outbox[i]]_vars

\* While live passes keep renewing their lock, at most one is processing an
\* item of a session, even across crashes.
OneDispatcherPerSession ==
    \A p, q \in Pass, s \in Session : Inside(p, s) /\ Inside(q, s) => p = q

\* Then, until a first call fails, the decision tells what the outbox row
\* tells whenever nobody is working on it: the two are written by different
\* statements, the decision's without any ownership check.
DecisionFollowsOutbox ==
    \A i \in Item :
        (faults = 0 /\ \A p \in Pass : Working(p) => item[p] # i) =>
            decision[i] = CASE outbox[i].status = "COMPLETED" -> "EXECUTED"
                            [] outbox[i].status = "UNCERTAIN" -> "UNKNOWN_EFFECT"
                            [] outbox[i].status = "FAILED" -> "EXECUTION_FAILED"
                            [] outbox[i].status = "PENDING" -> "DISPATCH_REQUESTED"
                            [] outbox[i].status \in InFlight -> "EXECUTING"
                            [] OTHER -> decision[i]

\* An outcome recorded as UNCERTAIN is left to people: nothing more is applied.
UncertainNeverReplayed ==
    [][\A i \in Item : outbox[i].status = "UNCERTAIN" => applied'[i] = applied[i]]_vars

\* If operators leave the switch at RUNNING, everything they sanctioned is
\* completed, given up or handed back to them; only a crash or a failed call
\* can leave a row that has used up its attempts and says none of these.
SanctionedActionSettles ==
    <>[](safety = "RUNNING") =>
        \A i \in Item :
            outbox[i].status = "PENDING" ~>
                \/ outbox[i].status \in OutboxTerminal
                \/ faults > 0 /\ outbox[i].attempts >= MaxAttempts

\* Crashes or not, no ledger row stays open: its worker closes it or the
\* reconciler escalates it.
AttemptsResolve ==
    \A i \in Item, n \in AttemptNumber :
        attempt[i][n].status \in InFlight \cup {"PENDING"} ~> attempt[i][n].status \in AttemptTerminal
=============================================================================
