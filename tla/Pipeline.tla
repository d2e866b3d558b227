------------------------------ MODULE Pipeline ------------------------------
(***************************************************************************)
(* How a question that Jules asks becomes a decision.                      *)
(*                                                                         *)
(* Every worker polls Jules: it lists the sessions, then all activities of *)
(* each, and hands those the session waits on to SupervisionPipeline       *)
(* .processActivity, one after the other.  Under the Redis lock of the     *)
(* session the pipeline looks the decision up by its idempotency key, asks *)
(* the AI if budget and kill switch allow, disposes of the answer (module  *)
(* ExecutionGate), records one decision, and queues it for approval or     *)
(* executes it through the ledger.  What operators then do with an         *)
(* approval is module OutboxDispatch.                                      *)
(*                                                                         *)
(* Every await whose effect or answer another actor can change is a step   *)
(* of its own.  Listing the activities is one step with listing the        *)
(* sessions: only activities of the kind the session was seen waiting on   *)
(* go on, and when the last of them was raised the session was waiting so. *)
(* The in-memory fingerprints are left out: every one of them is in the    *)
(* table as well.  Token and cost ceilings may be reached at any time.     *)
(*                                                                         *)
(* A definition X_Y that precedes X is a variant of X with one plausible   *)
(* defect; the specification does not use it.                              *)
(***************************************************************************)
EXTENDS ExecutionGate, FiniteSets, Sequences

CONSTANTS
    Activity,        \* what Jules may ask
    Session,         \* Jules sessions
    SessionOf,       \* [Activity -> Session]
    Awaits,          \* the session state in which the activity wants an answer
    Worker,          \* worker processes; each polls sequentially
    Text,            \* responses the AI may propose
    Proposal,        \* what it may propose in this instance
    Assessed,        \* what risk and policy may make of it
    Configured,      \* configurations operators switch between
    Degraded,        \* degraded flags workers may have
    SafetyState,     \* positions of the kill switch they use
    MaxAiCalls,      \* BUDGET_MAX_AI_CALLS_PER_SESSION
    CallsPerDecision, \* providers times attempts per provider
    MaxCorrections,  \* BUDGET_MAX_CORRECTIONS_PER_SESSION
    RenewalMayFail,  \* may a live worker lose its Redis lock?
    MaxUncharged,    \* calls beyond this many are no longer counted in uncharged
    MaxFaults,       \* bound on crashes and failed database calls
    NoActivity, NoWorker, NoDecision, NoProposal

Waiting == {"AWAITING_USER_INPUT", "AWAITING_PLAN_APPROVAL"}
Proposed == [action : DecisionAction, risk : RiskLevel, confident : BOOLEAN, text : Text \cup {NoText}]

ASSUME PipelineAssumption ==
    /\ IsFiniteSet(Worker)
    /\ SessionOf \in [Activity -> Session]
    /\ Awaits \in [Activity -> Waiting]
    /\ Proposal \subseteq Proposed
    /\ Assessed \subseteq Assessment
    /\ Configured \subseteq Config
    /\ Degraded \subseteq BOOLEAN
    /\ SafetyState \subseteq {"RUNNING", "PAUSED", "SAFETY_LOCKED"}
    /\ MaxAiCalls \in Nat \ {0}
    /\ CallsPerDecision \in Nat \ {0}
    /\ MaxCorrections \in Nat \ {0}
    /\ RenewalMayFail \in BOOLEAN
    /\ MaxUncharged \in Nat
    /\ MaxFaults \in Nat
    /\ NoActivity \notin Activity
    /\ NoWorker \notin Worker
    /\ NoText \notin Text
    /\ NoProposal \notin Proposed

VARIABLES
    \* PostgreSQL
    decision,      \* decisions rows, one per idempotency key, that is per activity
    approval,      \* approval_requests rows
    attempt,       \* execution_attempts rows; a decision has one attempt here
    sessionRow,    \* sessions.state
    aiCalls,       \* session_budgets.aiCalls
    corrections,   \* session_budgets.corrections
    fingerprints,  \* corrections rows of a session
    safety,        \* the kill switch
    \* Redis
    lock,          \* holder of lock:session:<id>
    \* one worker's poll
    pc, seen, todo, act, offer, calls, verdict,
    \* its reconciler pass: the activity whose ledger row it has re-claimed
    rescue,
    \* Jules: session states, activities asked so far, mutations that took effect
    julesState, raised, applied,
    \* history: AI calls of a session that were made and never charged
    uncharged,
    faults

rows == <<decision, approval, attempt, sessionRow, aiCalls, corrections, fingerprints>>
local == <<seen, todo, act, offer, calls, verdict>>
jules == <<julesState, raised, applied>>
vars == <<rows, safety, lock, pc, local, rescue, jules, uncharged, faults>>
-----------------------------------------------------------------------------
(* Types.                                                                  *)

InFlight == {"CLAIMED", "EXECUTING"}
AttemptTerminal == {"SUCCEEDED", "FAILED", "UNKNOWN_EFFECT", "NEEDS_RECONCILIATION"}
AttemptRow == [status : {"NONE", "PENDING"} \cup InFlight \cup AttemptTerminal,
               claimOwner : Worker \cup {NoWorker}]
NoAttempt == [status |-> "NONE", claimOwner |-> NoWorker]
Category == {"AMBIGUOUS", "PERMANENT", "TRANSIENT"}
DecisionRow == [state : Disposition \cup {"EXECUTED", "EXECUTION_FAILED"},
                action : DecisionAction, risk : RiskLevel, text : Text \cup {NoText}]

ASSUME NoDecisionAssumption == NoDecision \notin DecisionRow

\* Inside withLock: before the decision row, after it, in the try block, in its catch.
Deciding == {"lookup", "readBudget", "readSafety", "ask", "charge", "decide"}
Queueing == {"audit", "approve", "flagSession"}
Ledgering == {"createAttempt", "claimAttempt", "executeAttempt"}
Recording == {"record", "count", "succeed", "markExecuted", "resume"}
Trying == Ledgering \cup {"recheck", "verifySession", "checkCorrection", "mutate"} \cup Recording
Catching == {"failAttempt", "failDecision"}
Locked == Deciding \cup Queueing \cup Trying \cup Catching \cup {"release"}

TypeOK ==
    /\ decision \in [Activity -> DecisionRow \cup {NoDecision}]
    /\ approval \in [Activity -> {"NONE", "PENDING"}]
    /\ attempt \in [Activity -> AttemptRow]
    /\ sessionRow \in [Session -> Waiting \cup {"NONE", "IN_PROGRESS"}]
    /\ aiCalls \in [Session -> Nat] /\ corrections \in [Session -> Nat]
    /\ fingerprints \in [Session -> SUBSET (Text \cup {NoText})]
    /\ safety \in SafetyState \cup {"RUNNING"}
    /\ lock \in [Session -> Worker \cup {NoWorker}]
    /\ pc \in [Worker -> {"idle", "next"} \cup Locked]
    /\ seen \in [Worker -> Waiting \cup {"NONE"}]
    /\ todo \in [Worker -> SUBSET Activity]
    /\ act \in [Worker -> Activity \cup {NoActivity}]
    /\ offer \in [Worker -> Proposed \cup {NoProposal}]
    /\ calls \in [Worker -> 0..CallsPerDecision]
    /\ verdict \in [Worker -> {"NONE", "WITHIN", "EXCEEDED", "FAILED"} \cup Disposition \cup Category]
    /\ rescue \in [Worker -> Activity \cup {NoActivity}]
    /\ julesState \in [Session -> Waiting \cup {"IN_PROGRESS"}]
    /\ raised \subseteq Activity
    /\ applied \in [Activity -> Seq([action : Mutation, text : Text \cup {NoText}])]
    /\ uncharged \in [Session -> 0..MaxUncharged]
    /\ faults \in 0..MaxFaults

Init ==
    /\ decision = [a \in Activity |-> NoDecision]
    /\ approval = [a \in Activity |-> "NONE"]
    /\ attempt = [a \in Activity |-> NoAttempt]
    /\ sessionRow = [s \in Session |-> "NONE"]
    /\ aiCalls = [s \in Session |-> 0] /\ corrections = [s \in Session |-> 0]
    /\ fingerprints = [s \in Session |-> {}]
    /\ safety = "RUNNING"
    /\ lock = [s \in Session |-> NoWorker]
    /\ pc = [w \in Worker |-> "idle"]
    /\ seen = [w \in Worker |-> "NONE"]
    /\ todo = [w \in Worker |-> {}]
    /\ act = [w \in Worker |-> NoActivity]
    /\ offer = [w \in Worker |-> NoProposal]
    /\ calls = [w \in Worker |-> 0]
    /\ verdict = [w \in Worker |-> "NONE"]
    /\ rescue = [w \in Worker |-> NoActivity]
    /\ julesState = [s \in Session |-> "IN_PROGRESS"]
    /\ raised = {}
    /\ applied = [a \in Activity |-> <<>>]
    /\ uncharged = [s \in Session |-> 0]
    /\ faults = 0
-----------------------------------------------------------------------------
(* The environment: Jules and the kill switch.                             *)

JulesAsks(a) ==
    LET s == SessionOf[a] IN
    /\ a \notin raised
    /\ julesState[s] = "IN_PROGRESS"
    /\ raised' = raised \cup {a}
    /\ julesState' = [julesState EXCEPT ![s] = Awaits[a]]
    /\ UNCHANGED <<rows, safety, lock, pc, local, rescue, applied, uncharged, faults>>

\* It got an answer: from here, from the dispatcher, or from a human at Jules.
JulesGoesOn(s) ==
    /\ julesState[s] # "IN_PROGRESS"
    /\ julesState' = [julesState EXCEPT ![s] = "IN_PROGRESS"]
    /\ UNCHANGED <<rows, safety, lock, pc, local, rescue, raised, applied, uncharged, faults>>

SetState(state) ==
    /\ safety' = state
    /\ UNCHANGED <<rows, lock, pc, local, rescue, jules, uncharged, faults>>
-----------------------------------------------------------------------------
(* SessionWatcher and the entry of processActivity.                        *)

Goto(w, step) == pc' = [pc EXCEPT ![w] = step]
At(w) == SessionOf[act[w]]

Forget(w) ==
    /\ act' = [act EXCEPT ![w] = NoActivity]
    /\ offer' = [offer EXCEPT ![w] = NoProposal]
    /\ calls' = [calls EXCEPT ![w] = 0]
    /\ verdict' = [verdict EXCEPT ![w] = "NONE"]

\* The activities of one session that pass requiresAction.  In mode DISABLED
\* processActivity returns at once, as if nothing had been polled.
Poll(w, s) ==
    LET found == {a \in raised : SessionOf[a] = s /\ Awaits[a] = julesState[s]} IN
    /\ pc[w] = "idle"
    /\ found # {}
    /\ seen' = [seen EXCEPT ![w] = julesState[s]]
    /\ todo' = [todo EXCEPT ![w] = found]
    /\ Goto(w, "next")
    /\ UNCHANGED <<rows, safety, lock, act, offer, calls, verdict, rescue, jules, uncharged, faults>>

\* withLock; a lock that is taken throws, and the poller leaves the session.
Deliver(w, a) ==
    /\ pc[w] = "next"
    /\ a \in todo[w]
    /\ IF lock[SessionOf[a]] = NoWorker
       THEN /\ lock' = [lock EXCEPT ![SessionOf[a]] = w]
            /\ act' = [act EXCEPT ![w] = a]
            /\ todo' = [todo EXCEPT ![w] = @ \ {a}]
            /\ Goto(w, "lookup")
            /\ seen' = seen
       ELSE /\ todo' = [todo EXCEPT ![w] = {}]
            /\ seen' = [seen EXCEPT ![w] = "NONE"]
            /\ Goto(w, "idle")
            /\ UNCHANGED <<lock, act>>
    /\ UNCHANGED <<rows, safety, offer, calls, verdict, rescue, jules, uncharged, faults>>

\* The session and the activity are stored, then the idempotency key is
\* looked up: an activity that has its decision is skipped.
Lookup(w) ==
    /\ pc[w] = "lookup"
    /\ sessionRow' = [sessionRow EXCEPT ![At(w)] = seen[w]]
    /\ Goto(w, IF decision[act[w]] = NoDecision THEN "readBudget" ELSE "release")
    /\ UNCHANGED <<decision, approval, attempt, aiCalls, corrections, fingerprints, safety,
                   lock, local, rescue, jules, uncharged, faults>>

\* evaluateBudgetExhaustion.  Tokens and cost may exceed theirs at any time.
Exhausted_OffByOne(s) == aiCalls[s] > MaxAiCalls \/ corrections[s] >= MaxCorrections
Exhausted(s) == aiCalls[s] >= MaxAiCalls \/ corrections[s] >= MaxCorrections

ReadBudget(w) ==
    /\ pc[w] = "readBudget"
    /\ \/ verdict' = [verdict EXCEPT ![w] = "EXCEEDED"]
       \/ ~Exhausted(At(w)) /\ verdict' = [verdict EXCEPT ![w] = "WITHIN"]
    /\ Goto(w, "readSafety")
    /\ UNCHANGED <<rows, safety, lock, seen, todo, act, offer, calls, rescue, jules, uncharged, faults>>

\* What stands in for the AI's answer when it is not asked.
Escalation(action) ==
    [action |-> action, risk |-> "high", confident |-> TRUE, text |-> NoText]

HaltedOffer(reading) == Escalation(IF reading = "SAFETY_LOCKED" THEN "BLOCK" ELSE "REQUEST_HUMAN")

\* The kill switch, read for the first time, goes before the budget.
ReadSafety(w) ==
    /\ pc[w] = "readSafety"
    /\ IF safety = "RUNNING" /\ verdict[w] = "WITHIN"
       THEN Goto(w, "ask") /\ offer' = offer
       ELSE /\ Goto(w, "decide")
            /\ offer' = [offer EXCEPT ![w] =
                   IF safety = "RUNNING" THEN Escalation("REQUEST_HUMAN") ELSE HaltedOffer(safety)]
    /\ verdict' = [verdict EXCEPT ![w] = "NONE"]
    /\ UNCHANGED <<rows, safety, lock, seen, todo, act, calls, rescue, jules, uncharged, faults>>
-----------------------------------------------------------------------------
(* The AI.                                                                 *)

\* An exception that leaves processActivity: withLock's finally, and the
\* poller leaves the session.
Leave(w) ==
    /\ todo' = [todo EXCEPT ![w] = {}]
    /\ Goto(w, "release")

Asked(w, n, answer, how) ==
    /\ pc[w] = "ask"
    /\ calls' = [calls EXCEPT ![w] = n]
    /\ offer' = [offer EXCEPT ![w] = answer]
    /\ verdict' = [verdict EXCEPT ![w] = how]
    /\ Goto(w, "charge")
    /\ UNCHANGED <<rows, safety, lock, seen, todo, act, rescue, jules, uncharged, faults>>

AskAnswered(w) ==
    \E answer \in Proposal, n \in 1..CallsPerDecision : Asked(w, n, answer, "NONE")

\* All providers failed; those whose circuit is open were not called.
AskRefused(w, n) == Asked(w, n, NoProposal, "FAILED")

\* n calls that no charge will ever cover.
GoUncharged(s, n) ==
    uncharged' = [uncharged EXCEPT ![s] = IF @ + n < MaxUncharged THEN @ + n ELSE MaxUncharged]

\* The total deadline aborts the routing; that exception carries no attempts,
\* so the calls made so far are not charged.  It may do so at every poll.
AskTimedOut(w) ==
    /\ pc[w] = "ask"
    /\ \E n \in 1..CallsPerDecision : GoUncharged(At(w), n)
    /\ Leave(w)
    /\ UNCHANGED <<rows, safety, lock, seen, act, offer, calls, verdict, rescue, jules, faults>>

\* incrementUsage: on success, and in the catch that rethrows.
Charged_OnSuccess(w) == IF verdict[w] = "FAILED" THEN 0 ELSE calls[w]
Charged(w) == calls[w]

Charge(w) ==
    /\ pc[w] = "charge"
    /\ aiCalls' = [aiCalls EXCEPT ![At(w)] = @ + Charged(w)]
    /\ calls' = [calls EXCEPT ![w] = 0]
    /\ IF verdict[w] = "FAILED" THEN Leave(w) ELSE Goto(w, "decide") /\ todo' = todo
    /\ UNCHANGED <<decision, approval, attempt, sessionRow, corrections, fingerprints, safety,
                   lock, seen, act, offer, verdict, rescue, jules, uncharged, faults>>
-----------------------------------------------------------------------------
(* The decision and the approval queue.                                    *)

\* A detected loop overrides the proposal, its text excepted.
Looped(proposal) == [proposal EXCEPT !.action = "REQUEST_HUMAN", !.risk = "high"]

DecisionOf(proposal, assessed, config, degraded) ==
    [state |-> Dispose(proposal, assessed, config, degraded), action |-> proposal.action,
     risk |-> EffectiveRisk(proposal, assessed), text |-> proposal.text]

\* create is ON CONFLICT DO NOTHING: whoever meets another's row leaves it be.
Insert_Upsert(w, row) ==
    /\ decision' = [decision EXCEPT ![act[w]] = row]
    /\ Goto(w, "audit")
Insert_Ignored(w, row) ==
    /\ decision' = [decision EXCEPT ![act[w]] = IF @ = NoDecision THEN row ELSE @]
    /\ Goto(w, "audit")
Insert(w, row) ==
    IF decision[act[w]] = NoDecision
    THEN /\ decision' = [decision EXCEPT ![act[w]] = row]
         /\ Goto(w, "audit")
    ELSE Goto(w, "release") /\ decision' = decision

\* Loop detection, risk, policy, gate, overrides and the insert.
Decide(w) ==
    /\ pc[w] = "decide"
    /\ \E proposal \in {offer[w], Looped(offer[w])}, assessed \in Assessed,
          config \in Configured, degraded \in Degraded :
         LET row == DecisionOf(proposal, assessed, config, degraded) IN
         /\ Insert(w, row)
         /\ offer' = [offer EXCEPT ![w] = proposal]
         /\ verdict' = [verdict EXCEPT ![w] = row.state]
    /\ UNCHANGED <<approval, attempt, sessionRow, aiCalls, corrections, fingerprints, safety,
                   lock, seen, todo, act, calls, rescue, jules, uncharged, faults>>

\* The audit record may only throw here; the memory's reflection does neither.
Audit(w) ==
    /\ pc[w] = "audit"
    /\ Goto(w, IF verdict[w] = "AWAITING_APPROVAL" THEN "approve"
               ELSE IF verdict[w] = "EXECUTING" THEN "createAttempt"
               ELSE "release")
    /\ UNCHANGED <<rows, safety, lock, local, rescue, jules, uncharged, faults>>

Approve(w) ==
    /\ pc[w] = "approve"
    /\ approval' = [approval EXCEPT ![act[w]] = "PENDING"]
    /\ Goto(w, "flagSession")
    /\ UNCHANGED <<decision, attempt, sessionRow, aiCalls, corrections, fingerprints, safety,
                   lock, local, rescue, jules, uncharged, faults>>

SetSessionRow(w, step, state, next) ==
    /\ pc[w] = step
    /\ sessionRow' = [sessionRow EXCEPT ![At(w)] = state]
    /\ Goto(w, next)
    /\ UNCHANGED <<decision, approval, attempt, aiCalls, corrections, fingerprints, safety,
                   lock, local, rescue, jules, uncharged, faults>>

FlagSession(w) == SetSessionRow(w, "flagSession", seen[w], "release")
-----------------------------------------------------------------------------
(* Execution: the try block.                                               *)

SetAttempt(a, row) == attempt' = [attempt EXCEPT ![a] = row]
Marked(row, status) == [row EXCEPT !.status = status]

\* A ledger write; whether a row matched is never looked at.
LedgerStep(w, step, matches, row, next) ==
    /\ pc[w] = step
    /\ IF matches THEN SetAttempt(act[w], row) ELSE attempt' = attempt
    /\ Goto(w, next)
    /\ UNCHANGED <<decision, approval, sessionRow, aiCalls, corrections, fingerprints, safety,
                   lock, local, rescue, jules, uncharged, faults>>

MyAttempt(w) == attempt[act[w]]
Open(row) == row.status \in InFlight

CreateAttempt_Later(w) ==
    LedgerStep(w, "createAttempt", FALSE, NoAttempt, "claimAttempt")
CreateAttempt(w) ==
    LedgerStep(w, "createAttempt", TRUE, Marked(NoAttempt, "PENDING"), "claimAttempt")

ClaimAttempt(w) ==
    LedgerStep(w, "claimAttempt", MyAttempt(w).status = "PENDING",
               [status |-> "CLAIMED", claimOwner |-> w], "executeAttempt")

\* markExecuting; the pipeline passes no fencing token.
ExecuteAttempt(w) ==
    LedgerStep(w, "executeAttempt", MyAttempt(w) = [status |-> "CLAIMED", claimOwner |-> w],
               Marked(MyAttempt(w), "EXECUTING"), "recheck")

\* The catch block takes over.
Catch(w, category) ==
    /\ verdict' = [verdict EXCEPT ![w] = category]
    /\ Goto(w, "failAttempt")

Proceed(w, next) == Goto(w, next) /\ UNCHANGED verdict

\* The kill switch again.
Recheck(w) ==
    /\ pc[w] = "recheck"
    /\ IF safety = "RUNNING" THEN Proceed(w, "verifySession") ELSE Catch(w, "PERMANENT")
    /\ UNCHANGED <<rows, safety, lock, seen, todo, act, offer, calls, rescue, jules, uncharged, faults>>

\* getSession: the session must still wait as it did when it was listed.
VerifySession(w) ==
    /\ pc[w] = "verifySession"
    /\ \/ IF julesState[At(w)] # seen[w] THEN Catch(w, "PERMANENT")
          ELSE Proceed(w, IF offer[w].action = "REQUEST_CHANGES" THEN "checkCorrection" ELSE "mutate")
       \/ \E c \in Category : Catch(w, c)
    /\ UNCHANGED <<rows, safety, lock, seen, todo, act, offer, calls, rescue, jules, uncharged, faults>>

\* canSubmitCorrection.
CanSubmitCorrection_Repeated(w) == Cardinality(fingerprints[At(w)]) < MaxCorrections
CanSubmitCorrection(w) ==
    /\ Cardinality(fingerprints[At(w)]) < MaxCorrections
    /\ offer[w].text \notin fingerprints[At(w)]

CheckCorrection(w) ==
    /\ pc[w] = "checkCorrection"
    /\ IF CanSubmitCorrection(w) THEN Proceed(w, "mutate") ELSE Catch(w, "PERMANENT")
    /\ UNCHANGED <<rows, safety, lock, seen, todo, act, offer, calls, rescue, jules, uncharged, faults>>

Apply(w) ==
    applied' = [applied EXCEPT ![act[w]] =
                   Append(@, [action |-> offer[w].action, text |-> offer[w].text])]

Sent(w) ==
    /\ Proceed(w, IF offer[w].action = "REQUEST_CHANGES" THEN "record" ELSE "succeed")
    /\ Apply(w)

\* approvePlan or sendMessage, never retried.  A POST that fails may have taken effect, and
\* the category is read off a message that quotes the response.
Mutate_Retried(w) ==
    /\ pc[w] = "mutate"
    /\ \/ Sent(w)
       \/ /\ \/ \E c \in Category : Catch(w, c)
             \/ UNCHANGED <<pc, verdict>>
          /\ Apply(w) \/ UNCHANGED applied
    /\ UNCHANGED <<rows, safety, lock, seen, todo, act, offer, calls, rescue, julesState, raised,
                   uncharged, faults>>
Mutate(w) ==
    /\ pc[w] = "mutate"
    /\ \/ Sent(w)
       \/ /\ \E c \in Category : Catch(w, c)
          /\ Apply(w) \/ UNCHANGED applied
    /\ UNCHANGED <<rows, safety, lock, seen, todo, act, offer, calls, rescue, julesState, raised,
                   uncharged, faults>>

Record(w) ==
    /\ pc[w] = "record"
    /\ fingerprints' = [fingerprints EXCEPT ![At(w)] = @ \cup {offer[w].text}]
    /\ Goto(w, "count")
    /\ UNCHANGED <<decision, approval, attempt, sessionRow, aiCalls, corrections, safety,
                   lock, local, rescue, jules, uncharged, faults>>

Count(w) ==
    /\ pc[w] = "count"
    /\ corrections' = [corrections EXCEPT ![At(w)] = @ + 1]
    /\ Goto(w, "succeed")
    /\ UNCHANGED <<decision, approval, attempt, sessionRow, aiCalls, fingerprints, safety,
                   lock, local, rescue, jules, uncharged, faults>>

\* markSucceeded, with neither owner nor token.
Succeed(w) ==
    LedgerStep(w, "succeed", Open(MyAttempt(w)),
               Marked(MyAttempt(w), "SUCCEEDED"), "markExecuted")

Settled(row, state) == [row EXCEPT !.state = state]

SetDecision(w, step, state, next) ==
    /\ pc[w] = step
    /\ decision' = [decision EXCEPT ![act[w]] = Settled(@, state)]
    /\ Goto(w, next)
    /\ UNCHANGED <<approval, attempt, sessionRow, aiCalls, corrections, fingerprints, safety,
                   lock, seen, act, offer, calls, verdict, rescue, jules, uncharged, faults>>

MarkExecuted(w) == SetDecision(w, "markExecuted", "EXECUTED", "resume") /\ todo' = todo
Resume(w) == SetSessionRow(w, "resume", "IN_PROGRESS", "release")
-----------------------------------------------------------------------------
(* The catch block and the finally.                                        *)

AttemptStatusFor_Unlisted(category) == IF category = "AMBIGUOUS" THEN "UNKNOWN" ELSE "FAILED"
AttemptStatusFor_Optimistic(category) == IF category = "AMBIGUOUS" THEN "SUCCEEDED" ELSE "FAILED"
AttemptStatusFor(category) == IF category = "AMBIGUOUS" THEN "UNKNOWN_EFFECT" ELSE "FAILED"

FailAttempt_Rethrows(w) ==
    LedgerStep(w, "failAttempt", Open(MyAttempt(w)),
               Marked(MyAttempt(w), AttemptStatusFor(verdict[w])), "release")
FailAttempt(w) ==
    LedgerStep(w, "failAttempt", Open(MyAttempt(w)),
               Marked(MyAttempt(w), AttemptStatusFor(verdict[w])), "failDecision")

\* The same state whatever the category; then the exception is rethrown.
FailDecision(w) ==
    /\ SetDecision(w, "failDecision", "EXECUTION_FAILED", "release")
    /\ todo' = [todo EXCEPT ![w] = {}]

Release(w) ==
    /\ pc[w] = "release"
    /\ lock' = IF lock[At(w)] = w THEN [lock EXCEPT ![At(w)] = NoWorker] ELSE lock
    /\ Forget(w)
    /\ Goto(w, IF todo[w] = {} THEN "idle" ELSE "next")
    /\ seen' = IF todo[w] = {} THEN [seen EXCEPT ![w] = "NONE"] ELSE seen
    /\ UNCHANGED <<rows, safety, todo, rescue, jules, uncharged, faults>>
-----------------------------------------------------------------------------
(* The reconciler, as in OutboxDispatch.                                   *)

Stale_Claimed(row) == row.status \in InFlight
Stale(row) == row.status \in InFlight \cup {"PENDING"}

Recover(w, a) ==
    /\ rescue[w] = NoActivity
    /\ Stale(attempt[a])
    /\ SetAttempt(a, [status |-> "CLAIMED", claimOwner |-> w])
    /\ rescue' = [rescue EXCEPT ![w] = a]
    /\ UNCHANGED <<decision, approval, sessionRow, aiCalls, corrections, fingerprints, safety,
                   lock, pc, local, jules, uncharged, faults>>

Escalate(w) ==
    /\ rescue[w] # NoActivity
    /\ SetAttempt(rescue[w], Marked(attempt[rescue[w]], "NEEDS_RECONCILIATION"))
    /\ rescue' = [rescue EXCEPT ![w] = NoActivity]
    /\ UNCHANGED <<decision, approval, sessionRow, aiCalls, corrections, fingerprints, safety,
                   lock, pc, local, jules, uncharged, faults>>
-----------------------------------------------------------------------------
(* Time and failures.                                                      *)

Inside(w, s) == pc[w] \in Locked /\ At(w) = s

LapseLock(s) ==
    /\ lock[s] # NoWorker
    /\ RenewalMayFail \/ ~Inside(lock[s], s)
    /\ lock' = [lock EXCEPT ![s] = NoWorker]
    /\ UNCHANGED <<rows, safety, pc, local, rescue, jules, uncharged, faults>>

Fault == faults < MaxFaults /\ faults' = faults + 1

\* A database call outside the try or inside the catch throws.  In the AI's
\* catch block that is swallowed, to the same end.
Throw(w) ==
    /\ Fault
    /\ pc[w] \in (Deciding \ {"readSafety", "ask"}) \cup Queueing \cup Catching
    /\ Leave(w)
    /\ GoUncharged(At(w), calls[w])
    /\ calls' = [calls EXCEPT ![w] = 0]
    /\ UNCHANGED <<rows, safety, lock, seen, act, offer, verdict, rescue, jules>>

\* One inside the try throws: its message may look like any category.
ThrowInside(w) ==
    /\ Fault
    /\ pc[w] \in Ledgering \cup {"checkCorrection"} \cup Recording
    /\ \E c \in Category : Catch(w, c)
    /\ UNCHANGED <<rows, safety, lock, seen, todo, act, offer, calls, rescue, jules, uncharged>>

\* The kill switch cannot be read: it counts as SAFETY_LOCKED.
SafetyUnread(w) ==
    /\ Fault
    /\ \/ /\ pc[w] = "readSafety"
          /\ offer' = [offer EXCEPT ![w] = HaltedOffer("SAFETY_LOCKED")]
          /\ verdict' = [verdict EXCEPT ![w] = "NONE"]
          /\ Goto(w, "decide")
       \/ /\ pc[w] = "recheck"
          /\ Catch(w, "PERMANENT")
          /\ offer' = offer
    /\ UNCHANGED <<rows, safety, lock, seen, todo, act, calls, rescue, jules, uncharged>>

\* Redis fails in the finally: the key stays.
ReleaseFails(w) ==
    /\ Fault
    /\ pc[w] = "release"
    /\ Forget(w)
    /\ todo' = [todo EXCEPT ![w] = {}]
    /\ seen' = [seen EXCEPT ![w] = "NONE"]
    /\ Goto(w, "idle")
    /\ UNCHANGED <<rows, safety, lock, rescue, jules, uncharged>>

AbandonRescue(w) ==
    /\ Fault
    /\ rescue[w] # NoActivity
    /\ rescue' = [rescue EXCEPT ![w] = NoActivity]
    /\ UNCHANGED <<rows, safety, lock, pc, local, jules, uncharged>>

\* The process dies, with whatever calls it had not charged yet.
Crash(w) ==
    /\ Fault
    /\ Forget(w)
    /\ seen' = [seen EXCEPT ![w] = "NONE"]
    /\ todo' = [todo EXCEPT ![w] = {}]
    /\ rescue' = [rescue EXCEPT ![w] = NoActivity]
    /\ IF act[w] = NoActivity THEN UNCHANGED uncharged ELSE GoUncharged(At(w), calls[w])
    /\ Goto(w, "idle")
    /\ UNCHANGED <<rows, safety, lock, jules>>
-----------------------------------------------------------------------------
Ask(w) ==
    \/ AskAnswered(w) \/ AskTimedOut(w)
    \/ \E n \in 0..CallsPerDecision : AskRefused(w, n)

Advance(w) ==
    \/ \E s \in Session : Poll(w, s)
    \/ \E a \in Activity : Deliver(w, a)
    \/ Lookup(w) \/ ReadBudget(w) \/ ReadSafety(w) \/ Ask(w) \/ Charge(w) \/ Decide(w)
    \/ Audit(w) \/ Approve(w) \/ FlagSession(w)
    \/ CreateAttempt(w) \/ ClaimAttempt(w) \/ ExecuteAttempt(w)
    \/ Recheck(w) \/ VerifySession(w) \/ CheckCorrection(w) \/ Mutate(w)
    \/ Record(w) \/ Count(w) \/ Succeed(w) \/ MarkExecuted(w) \/ Resume(w)
    \/ FailAttempt(w) \/ FailDecision(w) \/ Release(w)

Reconcile(w) == Escalate(w) \/ \E a \in Activity : Recover(w, a)

Fail(w) ==
    \/ Throw(w) \/ ThrowInside(w) \/ SafetyUnread(w) \/ ReleaseFails(w)
    \/ AbandonRescue(w) \/ Crash(w)

Next ==
    \/ \E a \in Activity : JulesAsks(a)
    \/ \E s \in Session : JulesGoesOn(s) \/ LapseLock(s)
    \/ \E state \in SafetyState : SetState(state)
    \/ \E w \in Worker : Advance(w) \/ Reconcile(w) \/ Fail(w)

Spec == Init /\ [][Next]_vars

\* Awaited calls settle, timers fire, deadlines pass; every poll visits every
\* session.  Nothing is assumed of what the AI answers, or whether it does.
Fairness ==
    /\ \A w \in Worker : WF_vars(Advance(w)) /\ WF_vars(Reconcile(w))
    /\ \A w \in Worker, s \in Session : SF_vars(Poll(w, s))
    /\ \A s \in Session : WF_vars(LapseLock(s))

FairSpec == Spec /\ Fairness
-----------------------------------------------------------------------------
(* What must hold.                                                         *)

StateOf(a) == IF decision[a] = NoDecision THEN "NONE" ELSE decision[a].state

\* However often an activity is polled, by however many workers, and even
\* when they lose their locks in the middle, at most one mutation is sent for it.
MutatedAtMostOnce == \A a \in Activity : Len(applied[a]) <= 1

\* What took effect without a human is exactly what the decision row tells
\* the human: its action and text, at a risk the gate lets through.
EffectIsTheDecision ==
    \A a \in Activity : applied[a] # <<>> =>
        /\ StateOf(a) \in {"EXECUTING", "EXECUTED", "EXECUTION_FAILED"}
        /\ decision[a].risk \in {"low", "medium"}
        /\ applied[a][1] = [action |-> decision[a].action, text |-> decision[a].text]

\* Intent is durable before the effect, for the reconciler to find.
EffectsAreLedgered ==
    \A a \in Activity : applied[a] # <<>> => attempt[a].status \notin {"NONE", "PENDING"}

\* A decision is either a human's or the pipeline's: what is queued for
\* approval has no attempt and no effect, and waits for exactly that.
QueuedIsUntouched ==
    \A a \in Activity : approval[a] = "PENDING" =>
        StateOf(a) = "AWAITING_APPROVAL" /\ attempt[a] = NoAttempt /\ applied[a] = <<>>

\* A row that says success is never wrong.
SuccessIsTrue ==
    /\ \A a \in Activity :
           attempt[a].status = "SUCCEEDED" \/ StateOf(a) = "EXECUTED" => applied[a] # <<>>
    /\ \A s \in Session : sessionRow[s] = "IN_PROGRESS" =>
           \E a \in Activity : SessionOf[a] = s /\ applied[a] # <<>>

\* Workers that may act on one session at a time.
Rivals == IF RenewalMayFail THEN Cardinality(Worker) ELSE 1

\* The budget is read before the call and charged after it: the counter
\* overshoots its ceiling by less than one decision's calls per rival.
AiBudgetHolds ==
    \A s \in Session : aiCalls[s] <= MaxAiCalls - 1 + CallsPerDecision * Rivals

\* While live workers keep their locks, no two decisions of a session have
\* executed the same correction.
CorrectionsDiffer ==
    \A a, b \in Activity :
        (/\ ~RenewalMayFail /\ a # b /\ SessionOf[a] = SessionOf[b]
         /\ \A c \in {a, b} : StateOf(c) = "EXECUTED" /\ decision[c].action = "REQUEST_CHANGES")
            => decision[a].text # decision[b].text

\* How the AI is asked about session s: with an answer, or calls that failed,
\* to charge; or in vain, cut off by the deadline or with every circuit open.
AskCharged(w, s) ==
    (AskAnswered(w) \/ \E n \in 1..CallsPerDecision : AskRefused(w, n)) /\ At(w) = s
AskInVain(w, s) == (AskTimedOut(w) \/ AskRefused(w, 0)) /\ At(w) = s

\* A question that Jules keeps waiting on gets a decision, whatever operators
\* switch: answers and failed calls alike use up the budget, and then a human
\* is asked.  The one way to stay undecided is an AI that hangs for good: the
\* question is then asked again and again, and no asking is charged any more
\* (provider-router.ts:226 throws without attempts, pipeline.ts:402-438
\* charges attempts only).
EveryQuestionDecided ==
    \A a \in Activity :
        LET s == SessionOf[a] IN
        <>[](a \in raised /\ julesState[s] = Awaits[a]) =>
            \/ <>(decision[a] # NoDecision)
            \/ /\ []<><<\E w \in Worker : AskInVain(w, s)>>_vars
               /\ <>[][\A w \in Worker : ~AskCharged(w, s)]_vars

\* A decision to act is acted on or given up, and one that needs a human
\* reaches the queue, unless a crash or a failed call intervenes.
DecisionsConclude ==
    \A a \in Activity :
        /\ StateOf(a) = "EXECUTING" ~> StateOf(a) # "EXECUTING" \/ faults > 0
        /\ StateOf(a) = "AWAITING_APPROVAL" ~> approval[a] = "PENDING" \/ faults > 0

\* Crashes or not, no ledger row stays open.
AttemptsClose ==
    \A a \in Activity : attempt[a] # NoAttempt ~> attempt[a].status \in AttemptTerminal
=============================================================================
