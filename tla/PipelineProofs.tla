--------------------------- MODULE PipelineProofs ---------------------------
(***************************************************************************)
(* Proofs about the disposition of proposals, for every proposal,          *)
(* assessment and configuration, and about the assessment that the code    *)
(* makes of a proposal's signs; then proofs about Pipeline, for any number *)
(* of activities, sessions, workers, calls and faults: types, and what a   *)
(* worker's place in the code says of its variables.                       *)
(* PipelineEffectProofs builds on this.                                    *)
(***************************************************************************)
EXTENDS Pipeline, RiskPolicy, TLAPS
-----------------------------------------------------------------------------
(* The gate.                                                               *)

\* What the gate looks at in a proposal; its text may be anything.
Judged(proposal) ==
    /\ proposal.action \in DecisionAction
    /\ proposal.risk \in RiskLevel
    /\ proposal.confident \in BOOLEAN

NoRiskier(r, q) == Order[r] <= Order[q]

LEMMA PolicyRiskTyped ==
    ASSUME NEW r \in RiskLevel, NEW v \in PolicyVerdict
    PROVE  /\ PolicyRisk(r, v) \in RiskLevel
           /\ NoRiskier(r, PolicyRisk(r, v))
BY DEF PolicyRisk, RiskLevel, PolicyVerdict, NoRiskier, Order

LEMMA RiskierTyped ==
    ASSUME NEW r \in RiskLevel, NEW q \in RiskLevel
    PROVE  /\ Riskier(r, q) \in {r, q}
           /\ Riskier(r, q) \in RiskLevel
           /\ NoRiskier(r, Riskier(r, q))
           /\ NoRiskier(q, Riskier(r, q))
BY DEF Riskier, RiskLevel, NoRiskier, Order

LEMMA NoRiskierTransitive ==
    ASSUME NEW r \in RiskLevel, NEW q \in RiskLevel, NEW u \in RiskLevel,
           NoRiskier(r, q), NoRiskier(q, u)
    PROVE  NoRiskier(r, u)
BY DEF RiskLevel, NoRiskier, Order

\* The effective risk is at least what the AI, the deterministic assessment
\* and the policy engine say each: none of them can talk another down.
THEOREM EffectiveRiskDominates ==
    ASSUME NEW proposal, Judged(proposal), NEW assessed \in Assessment
    PROVE  /\ EffectiveRisk(proposal, assessed) \in RiskLevel
           /\ NoRiskier(proposal.risk, EffectiveRisk(proposal, assessed))
           /\ NoRiskier(assessed.risk, EffectiveRisk(proposal, assessed))
           /\ NoRiskier(PolicyRisk(proposal.risk, assessed.policy),
                        EffectiveRisk(proposal, assessed))
<1> DEFINE own == proposal.risk
           computed == assessed.risk
           policy == PolicyRisk(own, assessed.policy)
           first == Riskier(own, computed)
<1>1. own \in RiskLevel /\ computed \in RiskLevel /\ assessed.policy \in PolicyVerdict
    BY DEF Judged, Assessment
<1>2. policy \in RiskLevel
    BY <1>1, PolicyRiskTyped
<1>3. first \in RiskLevel /\ NoRiskier(own, first) /\ NoRiskier(computed, first)
    BY <1>1, RiskierTyped
<1> HIDE DEF own, computed, policy, first
<1>4. /\ Riskier(first, policy) \in RiskLevel
      /\ NoRiskier(first, Riskier(first, policy))
      /\ NoRiskier(policy, Riskier(first, policy))
    BY <1>2, <1>3, RiskierTyped
<1>5. /\ NoRiskier(own, Riskier(first, policy))
      /\ NoRiskier(computed, Riskier(first, policy))
    BY <1>1, <1>3, <1>4, NoRiskierTransitive
<1> QED BY <1>4, <1>5 DEF EffectiveRisk, own, computed, policy, first

LEMMA DisposeTyped ==
    ASSUME NEW proposal, NEW assessed, NEW config, NEW degraded
    PROVE  Dispose(proposal, assessed, config, degraded) \in Disposition
BY DEF Dispose, Disposition

\* What the pipeline does by itself: only a mutation with something to send,
\* proposed with confidence, at low or medium effective risk, which policy
\* passed, in an automatic mode whose switch for it is on, and never degraded.
THEOREM ExecutesOnlyWhatIsSafe ==
    ASSUME NEW proposal, NEW assessed, NEW config, NEW degraded,
           Dispose(proposal, assessed, config, degraded) = "EXECUTING"
    PROVE  /\ proposal.action \in Mutation
           /\ proposal.confident
           /\ HasExecutablePayload(proposal)
           /\ EffectiveRisk(proposal, assessed) \in {"low", "medium"}
           /\ assessed.policy = "PASS"
           /\ config.mode \in {"AUTO_RESPOND", "FULL_AUTO"}
           /\ config.mode = "AUTO_RESPOND" => config.autoRespond
           /\ proposal.action = "APPROVE_PLAN" => config.mode = "FULL_AUTO" /\ config.autoPlan
           /\ ~degraded
BY DEF Dispose, AutoExecuted

LEMMA RiskierMonotone ==
    ASSUME NEW r \in RiskLevel, NEW q \in RiskLevel, NEW u \in RiskLevel, NEW v \in RiskLevel,
           NoRiskier(r, u), NoRiskier(q, v)
    PROVE  NoRiskier(Riskier(r, q), Riskier(u, v))
BY DEF Riskier, RiskLevel, NoRiskier, Order

\* Caution is monotone: what is executed under one assessment is executed
\* under every milder one, by a worker that is not degraded.  So raising a
\* risk or losing the infrastructure never sets a proposal free.
THEOREM CautionIsMonotone ==
    ASSUME NEW proposal, Judged(proposal), NEW strict \in Assessment, NEW mild \in Assessment,
           NEW config, NEW degraded,
           NoRiskier(mild.risk, strict.risk), mild.policy = strict.policy,
           Dispose(proposal, strict, config, degraded) = "EXECUTING"
    PROVE  Dispose(proposal, mild, config, FALSE) = "EXECUTING"
<1> DEFINE own == proposal.risk
           high == EffectiveRisk(proposal, strict)
           low == EffectiveRisk(proposal, mild)
<1>1. /\ own \in RiskLevel /\ mild.risk \in RiskLevel /\ strict.risk \in RiskLevel
      /\ PolicyRisk(own, strict.policy) \in RiskLevel
    BY PolicyRiskTyped DEF Judged, Assessment
<1>2. NoRiskier(low, high) /\ low \in RiskLevel /\ high \in RiskLevel
    <2>1. NoRiskier(Riskier(own, mild.risk), Riskier(own, strict.risk))
        <3>1. NoRiskier(own, own)
            BY <1>1 DEF NoRiskier, RiskLevel, Order
        <3> QED BY <1>1, <3>1, RiskierMonotone
    <2>2. Riskier(own, mild.risk) \in RiskLevel /\ Riskier(own, strict.risk) \in RiskLevel
        BY <1>1, RiskierTyped
    <2>3. NoRiskier(PolicyRisk(own, strict.policy), PolicyRisk(own, strict.policy))
        BY <1>1 DEF NoRiskier, RiskLevel, Order
    <2>4. NoRiskier(Riskier(Riskier(own, mild.risk), PolicyRisk(own, strict.policy)),
                    Riskier(Riskier(own, strict.risk), PolicyRisk(own, strict.policy)))
        BY <1>1, <2>1, <2>2, <2>3, RiskierMonotone
    <2> QED BY <2>4, EffectiveRiskDominates DEF EffectiveRisk
<1>3. AutoExecuted(proposal, high, config) /\ strict.policy = "PASS" /\ HasExecutablePayload(proposal)
    BY DEF Dispose
<1>4. AutoExecuted(proposal, low, config)
    <2>1. low \in {"low", "medium"} /\ (high = "low" => low = "low")
        BY <1>2, <1>3 DEF AutoExecuted, NoRiskier, RiskLevel, Order
    <2> QED BY <1>3, <2>1 DEF AutoExecuted
<1> HIDE DEF own, high, low
<1> QED BY <1>3, <1>4 DEF Dispose, low
-----------------------------------------------------------------------------
(* The assessment.                                                         *)

LEMMA AssessmentTyped ==
    ASSUME NEW s
    PROVE  AssessmentOf(s) \in Assessment
BY DEF AssessmentOf, Assessment, DeterministicRisk, Verdict, RiskLevel, PolicyVerdict

\* A forbidden command is blocked in every mode, even when only the normalised
\* text shows it and the AI calls it harmless: no human is asked to approve it.
THEOREM ForbiddenIsBlocked ==
    ASSUME NEW proposal, NEW config, NEW degraded, NEW s,
           s.folded \cap Forbidden # {}
    PROVE  Dispose(proposal, AssessmentOf(s), config, degraded) = "BLOCKED"
<1>1. AssessmentOf(s).policy = "HARD_BLOCK"
    BY DEF AssessmentOf, Verdict, NoDestructiveCommands
<1> QED BY <1>1 DEF Dispose

\* Whatever either list of protected paths names, the union of both, waits for
\* a human whatever the mode and the AI's own risk.
THEOREM ProtectedPathNeedsHuman ==
    ASSUME NEW proposal, Judged(proposal), NEW config, NEW degraded, NEW s,
           s.paths \cap (CriticalPath \cup SensitivePath) # {}
    PROVE  Dispose(proposal, AssessmentOf(s), config, degraded) # "EXECUTING"
<1> DEFINE assessed == AssessmentOf(s)
<1>1. CASE s.paths \cap SensitivePath # {}
    <2>1. assessed.policy # "PASS"
        BY <1>1 DEF AssessmentOf, Verdict, SecurityPaths
    <2> QED BY <2>1 DEF Dispose
<1>2. CASE s.paths \cap CriticalPath # {}
    <2>1. assessed.risk = "critical"
        BY <1>2 DEF AssessmentOf, DeterministicRisk
    <2>2. EffectiveRisk(proposal, assessed) \in RiskLevel
          /\ NoRiskier("critical", EffectiveRisk(proposal, assessed))
        BY <2>1, AssessmentTyped, EffectiveRiskDominates
    <2>3. EffectiveRisk(proposal, assessed) \notin {"low", "medium"}
        BY <2>2 DEF NoRiskier, Order, RiskLevel
    <2> QED BY <2>3, ExecutesOnlyWhatIsSafe
<1> QED BY <1>1, <1>2

\* Fewer signs than another proposal's.
Milder(s, u) ==
    /\ s.plain \subseteq u.plain /\ s.folded \subseteq u.folded /\ s.paths \subseteq u.paths
    /\ s.files <= u.files /\ s.cycles <= u.cycles
    /\ u.confidence <= s.confidence

\* Signs only ever count against a proposal: what is executed with some is
\* executed without them.  So no sign hides another, although both lists
\* return at their first match.
THEOREM SignsNeverExcuse ==
    ASSUME NEW proposal, Judged(proposal), NEW config, NEW degraded,
           NEW s \in Signs, NEW u \in Signs, Milder(s, u),
           Dispose(proposal, AssessmentOf(u), config, degraded) = "EXECUTING"
    PROVE  Dispose(proposal, AssessmentOf(s), config, FALSE) = "EXECUTING"
<1>1. AssessmentOf(u).policy = "PASS"
    BY ExecutesOnlyWhatIsSafe
<1>2. AssessmentOf(s).policy = "PASS"
    <2>1. /\ NoDestructiveCommands(u) = "PASS" /\ SecurityPaths(u) = "PASS"
          /\ ConfidenceGate(u) = "PASS" /\ SessionCycleCeiling(u) = "PASS"
        BY <1>1 DEF AssessmentOf, Verdict, NoDestructiveCommands, SecurityPaths,
                    ConfidenceGate, SessionCycleCeiling
    <2>2. NoDestructiveCommands(s) = "PASS" /\ SecurityPaths(s) = "PASS"
        BY <2>1 DEF Milder, NoDestructiveCommands, SecurityPaths
    <2>3. ConfidenceGate(s) = "PASS" /\ SessionCycleCeiling(s) = "PASS"
        BY <2>1 DEF Milder, ConfidenceGate, SessionCycleCeiling, Signs, MinConfidence, MaxCycles
    <2> QED BY <2>2, <2>3 DEF AssessmentOf, Verdict
<1>3. NoRiskier(AssessmentOf(s).risk, AssessmentOf(u).risk)
    BY DEF Milder, Signs, AssessmentOf, DeterministicRisk, NoRiskier, Order, MaxFiles
<1> QED BY <1>1, <1>2, <1>3, AssessmentTyped, CautionIsMonotone
-----------------------------------------------------------------------------
(* Types.                                                                  *)

\* The worker has inserted the decision row of its activity.
Authoring == {"audit"} \cup Queueing \cup Trying \cup Catching

Outcome == {"NONE", "WITHIN", "EXCEEDED", "FAILED"} \cup Disposition \cup Category

LocalTyped(w) ==
    /\ pc[w] \in {"idle", "next"} \cup Locked
    /\ seen[w] \in Waiting \cup {"NONE"}
    /\ todo[w] \in SUBSET Activity
    /\ act[w] \in Activity \cup {NoActivity}
    /\ offer[w] \in Proposed \cup {NoProposal}
    /\ calls[w] \in 0..CallsPerDecision
    /\ verdict[w] \in Outcome
    /\ pc[w] \in Locked => act[w] \in Activity
    /\ pc[w] # "idle" => seen[w] \in Waiting
    /\ pc[w] \in {"decide"} \cup Authoring => offer[w] \in Proposed
    /\ pc[w] \in Authoring => decision[act[w]] # NoDecision
    /\ pc[w] = "charge" /\ verdict[w] # "FAILED" => offer[w] \in Proposed
    /\ pc[w] \in Catching => verdict[w] \in Category
    /\ pc[w] \in Trying \cup Catching => offer[w].action \in Mutation
    /\ pc[w] = "audit" /\ verdict[w] = "EXECUTING" => offer[w].action \in Mutation

Placed == \A w \in Worker : LocalTyped(w)

SharedTyped ==
    /\ decision \in [Activity -> DecisionRow \cup {NoDecision}]
    /\ approval \in [Activity -> {"NONE", "PENDING"}]
    /\ attempt \in [Activity -> AttemptRow]
    /\ sessionRow \in [Session -> Waiting \cup {"NONE", "IN_PROGRESS"}]
    /\ aiCalls \in [Session -> Nat] /\ corrections \in [Session -> Nat]
    /\ fingerprints \in [Session -> SUBSET (Text \cup {NoText})]
    /\ safety \in SafetyState \cup {"RUNNING"}
    /\ lock \in [Session -> Worker \cup {NoWorker}]
    /\ rescue \in [Worker -> Activity \cup {NoActivity}]
    /\ julesState \in [Session -> Waiting \cup {"IN_PROGRESS"}]
    /\ raised \subseteq Activity
    /\ applied \in [Activity -> Seq([action : Mutation, text : Text \cup {NoText}])]
    /\ uncharged \in [Session -> 0..MaxUncharged]
    /\ faults \in 0..MaxFaults

Typed == TypeOK /\ Placed

\* Only w's variables change.
Moves(w) ==
    /\ pc' = [pc EXCEPT ![w] = pc'[w]]
    /\ seen' = [seen EXCEPT ![w] = seen'[w]]
    /\ todo' = [todo EXCEPT ![w] = todo'[w]]
    /\ act' = [act EXCEPT ![w] = act'[w]]
    /\ offer' = [offer EXCEPT ![w] = offer'[w]]
    /\ calls' = [calls EXCEPT ![w] = calls'[w]]
    /\ verdict' = [verdict EXCEPT ![w] = verdict'[w]]

\* A decision is never deleted.
Persists == \A a \in Activity : decision[a] # NoDecision => decision'[a] # NoDecision

LEMMA SharedOfTyped == Typed => SharedTyped
BY DEF Typed, TypeOK, SharedTyped

LEMMA MoveKeepsTyped ==
    ASSUME Typed, NEW w \in Worker, Moves(w), Persists, SharedTyped', LocalTyped(w)'
    PROVE  Typed'
<1>1. /\ pc'[w] \in {"idle", "next"} \cup Locked
      /\ seen'[w] \in Waiting \cup {"NONE"}
      /\ todo'[w] \in SUBSET Activity
      /\ act'[w] \in Activity \cup {NoActivity}
      /\ offer'[w] \in Proposed \cup {NoProposal}
      /\ calls'[w] \in 0..CallsPerDecision
      /\ verdict'[w] \in Outcome
    BY DEF LocalTyped
<1>2. /\ pc' \in [Worker -> {"idle", "next"} \cup Locked]
      /\ seen' \in [Worker -> Waiting \cup {"NONE"}]
      /\ todo' \in [Worker -> SUBSET Activity]
      /\ act' \in [Worker -> Activity \cup {NoActivity}]
      /\ offer' \in [Worker -> Proposed \cup {NoProposal}]
      /\ calls' \in [Worker -> 0..CallsPerDecision]
      /\ verdict' \in [Worker -> Outcome]
    <2>1. pc' \in [Worker -> {"idle", "next"} \cup Locked]
        <3>1. pc \in [Worker -> {"idle", "next"} \cup Locked] /\ pc' = [pc EXCEPT ![w] = pc'[w]]
            BY DEF Typed, TypeOK, Moves, Outcome
        <3> QED BY <1>1, <3>1
    <2>2. seen' \in [Worker -> Waiting \cup {"NONE"}]
        <3>1. seen \in [Worker -> Waiting \cup {"NONE"}] /\ seen' = [seen EXCEPT ![w] = seen'[w]]
            BY DEF Typed, TypeOK, Moves, Outcome
        <3> QED BY <1>1, <3>1
    <2>3. todo' \in [Worker -> SUBSET Activity]
        <3>1. todo \in [Worker -> SUBSET Activity] /\ todo' = [todo EXCEPT ![w] = todo'[w]]
            BY DEF Typed, TypeOK, Moves, Outcome
        <3> QED BY <1>1, <3>1
    <2>4. act' \in [Worker -> Activity \cup {NoActivity}]
        <3>1. act \in [Worker -> Activity \cup {NoActivity}] /\ act' = [act EXCEPT ![w] = act'[w]]
            BY DEF Typed, TypeOK, Moves, Outcome
        <3> QED BY <1>1, <3>1
    <2>5. offer' \in [Worker -> Proposed \cup {NoProposal}]
        <3>1. offer \in [Worker -> Proposed \cup {NoProposal}] /\ offer' = [offer EXCEPT ![w] = offer'[w]]
            BY DEF Typed, TypeOK, Moves, Outcome
        <3> QED BY <1>1, <3>1
    <2>6. calls' \in [Worker -> 0..CallsPerDecision]
        <3>1. calls \in [Worker -> 0..CallsPerDecision] /\ calls' = [calls EXCEPT ![w] = calls'[w]]
            BY DEF Typed, TypeOK, Moves, Outcome
        <3> QED BY <1>1, <3>1
    <2>7. verdict' \in [Worker -> Outcome]
        <3>1. verdict \in [Worker -> Outcome] /\ verdict' = [verdict EXCEPT ![w] = verdict'[w]]
            BY DEF Typed, TypeOK, Moves, Outcome
        <3> QED BY <1>1, <3>1
    <2> QED BY <2>1, <2>2, <2>3, <2>4, <2>5, <2>6, <2>7
<1>3. Placed'
    <2> SUFFICES ASSUME NEW v \in Worker, v # w
                 PROVE  LocalTyped(v)'
        BY DEF Placed
    <2>1. /\ pc'[v] = pc[v] /\ seen'[v] = seen[v] /\ todo'[v] = todo[v] /\ act'[v] = act[v]
          /\ offer'[v] = offer[v] /\ calls'[v] = calls[v] /\ verdict'[v] = verdict[v]
        BY DEF Moves, Typed, TypeOK
    <2>2. v \in Worker /\ (pc[v] \in Authoring => act[v] \in Activity)
        BY DEF Typed, Placed, LocalTyped, Authoring, Queueing, Locked
    <2> QED BY <2>1, <2>2 DEF Typed, Placed, LocalTyped, Persists
<1> QED BY <1>1, <1>2, <1>3 DEF Typed, TypeOK, SharedTyped, Outcome

\* Nobody's variables change.
LEMMA OthersKeepTyped ==
    ASSUME Typed, UNCHANGED <<pc, local, decision>>, SharedTyped'
    PROVE  Typed'
<1>1. Placed'
    BY DEF Typed, Placed, LocalTyped, local
<1> QED BY <1>1 DEF Typed, TypeOK, SharedTyped, local

LEMMA RecordUpdates ==
    /\ \A d \in DecisionRow : \A st \in Disposition \cup {"EXECUTED", "EXECUTION_FAILED"} :
          /\ Settled(d, st) \in DecisionRow
          /\ Settled(d, st).state = st
          /\ Settled(d, st).action = d.action
          /\ Settled(d, st).risk = d.risk
          /\ Settled(d, st).text = d.text
    /\ \A r \in AttemptRow : \A st \in {"NONE", "PENDING"} \cup InFlight \cup AttemptTerminal :
          /\ Marked(r, st) \in AttemptRow
          /\ Marked(r, st).status = st
          /\ Marked(r, st).claimOwner = r.claimOwner
    /\ NoAttempt \in AttemptRow
    /\ NoAttempt.status = "NONE"
    /\ \A o \in Proposed :
          /\ Looped(o) \in Proposed
          /\ Looped(o).action = "REQUEST_HUMAN"
          /\ Looped(o).text = o.text
<1>1. /\ \A d \in DecisionRow : \A st \in Disposition \cup {"EXECUTED", "EXECUTION_FAILED"} :
          /\ Settled(d, st) \in DecisionRow
          /\ Settled(d, st).state = st
          /\ Settled(d, st).action = d.action
          /\ Settled(d, st).risk = d.risk
          /\ Settled(d, st).text = d.text
    BY DEF DecisionRow, Settled
<1>2. /\ \A r \in AttemptRow : \A st \in {"NONE", "PENDING"} \cup InFlight \cup AttemptTerminal :
          /\ Marked(r, st) \in AttemptRow
          /\ Marked(r, st).status = st
          /\ Marked(r, st).claimOwner = r.claimOwner
    BY DEF AttemptRow, Marked
<1>3. NoAttempt \in AttemptRow /\ NoAttempt.status = "NONE"
    BY DEF NoAttempt, AttemptRow
<1>4. \A o \in Proposed :
          /\ Looped(o) \in Proposed
          /\ Looped(o).action = "REQUEST_HUMAN"
          /\ Looped(o).text = o.text
    BY DEF Looped, Proposed, RiskLevel, DecisionAction
<1> QED BY <1>1, <1>2, <1>3, <1>4

LEMMA EscalationTyped ==
    \A reading : /\ HaltedOffer(reading) \in Proposed
                 /\ Escalation("REQUEST_HUMAN") \in Proposed
BY DEF HaltedOffer, Escalation, Proposed, DecisionAction, RiskLevel

LEMMA DecisionOfTyped ==
    ASSUME NEW proposal \in Proposed, NEW assessed \in Assessment, NEW config, NEW degraded
    PROVE  DecisionOf(proposal, assessed, config, degraded) \in DecisionRow
<1>1. Judged(proposal) /\ proposal.text \in Text \cup {NoText}
    BY DEF Proposed, Judged
<1>2. EffectiveRisk(proposal, assessed) \in RiskLevel
    BY <1>1, EffectiveRiskDominates
<1>3. Dispose(proposal, assessed, config, degraded) \in Disposition
    BY DisposeTyped
<1> QED BY <1>1, <1>2, <1>3 DEF DecisionOf, DecisionRow, Judged

\* A count of lost calls stops at its bound.
LEMMA GoUnchargedTyped ==
    ASSUME uncharged \in [Session -> 0..MaxUncharged], NEW s \in Session, NEW n \in Nat,
           GoUncharged(s, n)
    PROVE  uncharged' \in [Session -> 0..MaxUncharged]
<1>1. (IF uncharged[s] + n < MaxUncharged THEN uncharged[s] + n ELSE MaxUncharged)
          \in 0..MaxUncharged
    BY PipelineAssumption
<1> QED BY <1>1 DEF GoUncharged

\* What every step below starts from.
LEMMA AtWorker ==
    ASSUME Typed, NEW w \in Worker
    PROVE  /\ SharedTyped
           /\ LocalTyped(w)
           /\ pc[w] \in Locked => act[w] \in Activity /\ At(w) \in Session
           /\ faults \in Nat
<1>1. SharedTyped /\ LocalTyped(w)
    BY SharedOfTyped DEF Typed, Placed
<1>2. pc[w] \in Locked => act[w] \in Activity /\ At(w) \in Session
    BY <1>1, PipelineAssumption DEF LocalTyped, At
<1>3. faults \in Nat
    BY <1>1, PipelineAssumption DEF SharedTyped
<1> QED BY <1>1, <1>2, <1>3

\* From the poll to the AI.
LEMMA DecidingKeepsTyped ==
    ASSUME Typed, NEW w \in Worker,
           \/ (\E s \in Session : Poll(w, s))
           \/ (\E a \in Activity : Deliver(w, a))
           \/ Lookup(w)
           \/ ReadBudget(w)
           \/ ReadSafety(w)
           \/ AskAnswered(w)
           \/ (\E n \in 0..CallsPerDecision : AskRefused(w, n))
           \/ AskTimedOut(w)
           \/ Charge(w)
    PROVE  Typed' /\ Moves(w)
<1> USE DEF Goto, rows, local, jules
<1>0. /\ SharedTyped /\ LocalTyped(w)
      /\ pc[w] \in Locked => act[w] \in Activity /\ At(w) \in Session
      /\ faults \in Nat
    BY AtWorker
<1>1. ASSUME (\E s \in Session : Poll(w, s)) PROVE Typed' /\ Moves(w)
    <2>2. SharedTyped'
        BY <1>0, <1>1 DEF Poll, SharedTyped
    <2>3. Moves(w)
        BY <1>1 DEF Poll, Moves, Typed, TypeOK
    <2>4. Persists
        BY <1>1 DEF Poll, Persists
    <2>5. LocalTyped(w)'
        BY <1>1, PipelineAssumption
           DEF Poll, Locked, Deciding, Authoring, Queueing, Ledgering, Recording, Trying,
               Catching, Outcome, LocalTyped, Typed, TypeOK, Placed
    <2> QED BY <2>2, <2>3, <2>4, <2>5, MoveKeepsTyped
<1>2. ASSUME (\E a \in Activity : Deliver(w, a)) PROVE Typed' /\ Moves(w)
    <2>1. lock' \in [Session -> Worker \cup {NoWorker}]
        BY <1>0, <1>2 DEF Deliver, SharedTyped
    <2>2. SharedTyped'
        BY <1>0, <1>2, <2>1 DEF Deliver, SharedTyped
    <2>3. Moves(w)
        BY <1>2 DEF Deliver, Moves, Typed, TypeOK
    <2>4. Persists
        BY <1>2 DEF Deliver, Persists
    <2>5. LocalTyped(w)'
        BY <1>2
           DEF Deliver, Locked, Deciding, Authoring, Queueing, Ledgering, Recording, Trying,
               Catching, Outcome, LocalTyped, Typed, TypeOK, Placed
    <2> QED BY <2>2, <2>3, <2>4, <2>5, MoveKeepsTyped
<1>3. ASSUME Lookup(w) PROVE Typed' /\ Moves(w)
    <2>1. sessionRow' \in [Session -> Waiting \cup {"NONE", "IN_PROGRESS"}]
        BY <1>0, <1>3 DEF Lookup, SharedTyped, LocalTyped, Locked, Deciding
    <2>2. SharedTyped'
        BY <1>0, <1>3, <2>1 DEF Lookup, SharedTyped
    <2>3. Moves(w)
        BY <1>3 DEF Lookup, Moves, Typed, TypeOK
    <2>4. Persists
        BY <1>3 DEF Lookup, Persists
    <2>5. LocalTyped(w)'
        BY <1>3
           DEF Lookup, Locked, Deciding, Authoring, Queueing, Ledgering, Recording, Trying,
               Catching, Outcome, LocalTyped, Typed, TypeOK, Placed
    <2> QED BY <2>2, <2>3, <2>4, <2>5, MoveKeepsTyped
<1>4. ASSUME ReadBudget(w) PROVE Typed' /\ Moves(w)
    <2>2. SharedTyped'
        BY <1>0, <1>4 DEF ReadBudget, SharedTyped
    <2>3. Moves(w)
        BY <1>4 DEF ReadBudget, Moves, Typed, TypeOK
    <2>4. Persists
        BY <1>4 DEF ReadBudget, Persists
    <2>5. LocalTyped(w)'
        BY <1>4
           DEF ReadBudget, Locked, Deciding, Authoring, Queueing, Ledgering, Recording, Trying,
               Catching, Outcome, LocalTyped, Typed, TypeOK, Placed
    <2> QED BY <2>2, <2>3, <2>4, <2>5, MoveKeepsTyped
<1>5. ASSUME ReadSafety(w) PROVE Typed' /\ Moves(w)
    <2>2. SharedTyped'
        BY <1>0, <1>5 DEF ReadSafety, SharedTyped
    <2>3. Moves(w)
        BY <1>5 DEF ReadSafety, Moves, Typed, TypeOK
    <2>4. Persists
        BY <1>5 DEF ReadSafety, Persists
    <2>5. LocalTyped(w)'
        BY <1>5, EscalationTyped
           DEF ReadSafety, Locked, Deciding, Authoring, Queueing, Ledgering, Recording, Trying,
               Catching, Outcome, LocalTyped, Typed, TypeOK, Placed
    <2> QED BY <2>2, <2>3, <2>4, <2>5, MoveKeepsTyped
<1>6. ASSUME AskAnswered(w) PROVE Typed' /\ Moves(w)
    <2>2. SharedTyped'
        BY <1>0, <1>6 DEF AskAnswered, Asked, SharedTyped
    <2>3. Moves(w)
        BY <1>6 DEF AskAnswered, Asked, Moves, Typed, TypeOK
    <2>4. Persists
        BY <1>6 DEF AskAnswered, Asked, Persists
    <2>5. LocalTyped(w)'
        BY <1>6, PipelineAssumption
           DEF AskAnswered, Asked, Locked, Deciding, Authoring, Queueing, Ledgering, Recording,
               Trying, Catching, Outcome, LocalTyped, Typed, TypeOK, Placed
    <2> QED BY <2>2, <2>3, <2>4, <2>5, MoveKeepsTyped
<1>7. ASSUME (\E n \in 0..CallsPerDecision : AskRefused(w, n)) PROVE Typed' /\ Moves(w)
    <2>2. SharedTyped'
        BY <1>0, <1>7 DEF AskRefused, Asked, SharedTyped
    <2>3. Moves(w)
        BY <1>7 DEF AskRefused, Asked, Moves, Typed, TypeOK
    <2>4. Persists
        BY <1>7 DEF AskRefused, Asked, Persists
    <2>5. LocalTyped(w)'
        BY <1>7
           DEF AskRefused, Asked, Locked, Deciding, Authoring, Queueing, Ledgering, Recording,
               Trying, Catching, Outcome, LocalTyped, Typed, TypeOK, Placed
    <2> QED BY <2>2, <2>3, <2>4, <2>5, MoveKeepsTyped
<1>8. ASSUME AskTimedOut(w) PROVE Typed' /\ Moves(w)
    <2>1. uncharged' \in [Session -> 0..MaxUncharged]
        <3>1. PICK n \in 1..CallsPerDecision : GoUncharged(At(w), n)
            BY <1>8 DEF AskTimedOut
        <3>2. At(w) \in Session /\ n \in Nat
            BY <1>0, <1>8, PipelineAssumption DEF AskTimedOut, Locked, Deciding
        <3> QED BY <1>0, <3>1, <3>2, GoUnchargedTyped DEF SharedTyped
    <2>2. SharedTyped'
        BY <1>0, <1>8, <2>1 DEF AskTimedOut, Leave, SharedTyped
    <2>3. Moves(w)
        BY <1>8 DEF AskTimedOut, Leave, Moves, Typed, TypeOK
    <2>4. Persists
        BY <1>8 DEF AskTimedOut, Leave, Persists
    <2>5. LocalTyped(w)'
        BY <1>8
           DEF AskTimedOut, Leave, Locked, Deciding, Authoring, Queueing, Ledgering, Recording,
               Trying, Catching, Outcome, LocalTyped, Typed, TypeOK, Placed
    <2> QED BY <2>2, <2>3, <2>4, <2>5, MoveKeepsTyped
<1>9. ASSUME Charge(w) PROVE Typed' /\ Moves(w)
    <2>1. aiCalls' \in [Session -> Nat]
        BY <1>0, <1>9, PipelineAssumption
           DEF Charge, Charged, Leave, SharedTyped, LocalTyped, Locked, Deciding
    <2>2. SharedTyped'
        BY <1>0, <1>9, <2>1 DEF Charge, Charged, Leave, SharedTyped
    <2>3. Moves(w)
        BY <1>9 DEF Charge, Charged, Leave, Moves, Typed, TypeOK
    <2>4. Persists
        BY <1>9 DEF Charge, Charged, Leave, Persists
    <2>5. LocalTyped(w)'
        BY <1>9, PipelineAssumption
           DEF Charge, Charged, Leave, Locked, Deciding, Authoring, Queueing, Ledgering,
               Recording, Trying, Catching, Outcome, LocalTyped, Typed, TypeOK, Placed
    <2> QED BY <2>2, <2>3, <2>4, <2>5, MoveKeepsTyped
<1> QED BY <1>1, <1>2, <1>3, <1>4, <1>5, <1>6, <1>7, <1>8, <1>9

\* Loop detection, the gate and the insert.
LEMMA DecideKeepsTyped ==
    ASSUME Typed, NEW w \in Worker, Decide(w)
    PROVE  Typed' /\ Moves(w)
<1>0. /\ SharedTyped /\ LocalTyped(w)
      /\ pc[w] \in Locked => act[w] \in Activity /\ At(w) \in Session
    BY AtWorker
<1>1. pc[w] = "decide" /\ act[w] \in Activity /\ offer[w] \in Proposed
    BY <1>0 DEF Decide, Locked, Deciding, LocalTyped
<1>2. PICK proposal \in {offer[w], Looped(offer[w])}, assessed \in Assessed,
           config \in Configured, degraded \in Degraded :
        /\ Insert(w, DecisionOf(proposal, assessed, config, degraded))
        /\ offer' = [offer EXCEPT ![w] = proposal]
        /\ verdict' = [verdict EXCEPT ![w] = DecisionOf(proposal, assessed, config, degraded).state]
    BY DEF Decide
<1> DEFINE row == DecisionOf(proposal, assessed, config, degraded)
<1>3. proposal \in Proposed /\ assessed \in Assessment
    BY <1>1, RecordUpdates, PipelineAssumption
<1>4. row \in DecisionRow /\ row.state \in Disposition
    BY <1>3, DecisionOfTyped, DisposeTyped DEF DecisionOf
<1>5. row.state = "EXECUTING" => proposal.action \in Mutation
    BY ExecutesOnlyWhatIsSafe DEF DecisionOf
<1> HIDE DEF row
<1>6. decision' \in [Activity -> DecisionRow \cup {NoDecision}]
    <2>1. decision' = decision \/ decision' = [decision EXCEPT ![act[w]] = row]
        BY <1>2 DEF Insert, row
    <2> QED BY <1>0, <1>1, <1>4, <2>1 DEF SharedTyped
<1>7. SharedTyped'
    BY <1>0, <1>6 DEF Decide, SharedTyped, rows, jules
<1>8. /\ offer'[w] = proposal /\ verdict'[w] = row.state /\ pc'[w] \in {"audit", "release"}
      /\ pc' = [pc EXCEPT ![w] = pc'[w]]
    BY <1>2 DEF Insert, Goto, Typed, TypeOK, row
<1>9. Moves(w)
    BY <1>2, <1>8 DEF Decide, Moves, Typed, TypeOK
<1>11. Persists
    BY <1>0, <1>1, <1>2, <1>4, NoDecisionAssumption DEF Insert, Persists, SharedTyped, row
<1>12. pc'[w] = "audit" => decision'[act[w]] # NoDecision
    BY <1>0, <1>1, <1>2, <1>4, <1>8, NoDecisionAssumption
       DEF Insert, Goto, SharedTyped, row, Typed, TypeOK
<1>10. LocalTyped(w)'
    <2>1. /\ seen'[w] = seen[w] /\ todo'[w] = todo[w] /\ act'[w] = act[w] /\ calls'[w] = calls[w]
        BY DEF Decide
    <2> QED BY <2>1, <1>0, <1>1, <1>3, <1>4, <1>5, <1>8, <1>12
            DEF LocalTyped, Locked, Authoring, Queueing, Deciding, Ledgering, Recording, Trying,
                Catching, Outcome
<1> QED BY <1>7, <1>9, <1>10, <1>11, MoveKeepsTyped

\* The audit record and the approval queue.
LEMMA QueueingKeepsTyped ==
    ASSUME Typed, NEW w \in Worker,
           \/ Audit(w)
           \/ Approve(w)
           \/ FlagSession(w)
    PROVE  Typed' /\ Moves(w)
<1> USE DEF Goto, rows, local, jules
<1>0. /\ SharedTyped /\ LocalTyped(w)
      /\ pc[w] \in Locked => act[w] \in Activity /\ At(w) \in Session
      /\ faults \in Nat
    BY AtWorker
<1>1. ASSUME Audit(w) PROVE Typed' /\ Moves(w)
    <2>2. SharedTyped'
        BY <1>0, <1>1 DEF Audit, SharedTyped
    <2>3. Moves(w)
        BY <1>1 DEF Audit, Moves, Typed, TypeOK
    <2>4. Persists
        BY <1>1 DEF Audit, Persists
    <2>5. LocalTyped(w)'
        BY <1>1
           DEF Audit, Locked, Deciding, Authoring, Queueing, Ledgering, Recording, Trying,
               Catching, Outcome, LocalTyped, Typed, TypeOK, Placed
    <2> QED BY <2>2, <2>3, <2>4, <2>5, MoveKeepsTyped
<1>2. ASSUME Approve(w) PROVE Typed' /\ Moves(w)
    <2>1. approval' \in [Activity -> {"NONE", "PENDING"}]
        BY <1>0, <1>2
           DEF Approve, SharedTyped, LocalTyped, Locked, Deciding, Queueing, Ledgering,
               Recording, Trying, Catching
    <2>2. SharedTyped'
        BY <1>0, <1>2, <2>1 DEF Approve, SharedTyped
    <2>3. Moves(w)
        BY <1>2 DEF Approve, Moves, Typed, TypeOK
    <2>4. Persists
        BY <1>2 DEF Approve, Persists
    <2>5. LocalTyped(w)'
        BY <1>2
           DEF Approve, Locked, Deciding, Authoring, Queueing, Ledgering, Recording, Trying,
               Catching, Outcome, LocalTyped, Typed, TypeOK, Placed
    <2> QED BY <2>2, <2>3, <2>4, <2>5, MoveKeepsTyped
<1>3. ASSUME FlagSession(w) PROVE Typed' /\ Moves(w)
    <2>1. sessionRow' \in [Session -> Waiting \cup {"NONE", "IN_PROGRESS"}]
        BY <1>0, <1>3
           DEF FlagSession, SetSessionRow, SharedTyped, LocalTyped, Locked, Deciding, Queueing,
               Ledgering, Recording, Trying, Catching
    <2>2. SharedTyped'
        BY <1>0, <1>3, <2>1 DEF FlagSession, SetSessionRow, SharedTyped
    <2>3. Moves(w)
        BY <1>3 DEF FlagSession, SetSessionRow, Moves, Typed, TypeOK
    <2>4. Persists
        BY <1>3 DEF FlagSession, SetSessionRow, Persists
    <2>5. LocalTyped(w)'
        BY <1>3
           DEF FlagSession, SetSessionRow, Locked, Deciding, Authoring, Queueing, Ledgering,
               Recording, Trying, Catching, Outcome, LocalTyped, Typed, TypeOK, Placed
    <2> QED BY <2>2, <2>3, <2>4, <2>5, MoveKeepsTyped
<1> QED BY <1>1, <1>2, <1>3

\* The ledger rows that a worker may write.
LEMMA LedgerRows ==
    ASSUME Typed, NEW w \in Worker, pc[w] \in Trying \cup Catching
    PROVE  /\ act[w] \in Activity
           /\ MyAttempt(w) \in AttemptRow
           /\ Marked(NoAttempt, "PENDING") \in AttemptRow
           /\ [status |-> "CLAIMED", claimOwner |-> w] \in AttemptRow
           /\ Marked(MyAttempt(w), "EXECUTING") \in AttemptRow
           /\ Marked(MyAttempt(w), "SUCCEEDED") \in AttemptRow
           /\ pc[w] \in Catching =>
                 /\ AttemptStatusFor(verdict[w]) \in {"UNKNOWN_EFFECT", "FAILED"}
                 /\ Marked(MyAttempt(w), AttemptStatusFor(verdict[w])) \in AttemptRow
<1>1. /\ SharedTyped /\ LocalTyped(w) /\ act[w] \in Activity
    BY AtWorker DEF Locked
<1>2. MyAttempt(w) \in AttemptRow
    BY <1>1 DEF MyAttempt, SharedTyped
<1>3. [status |-> "CLAIMED", claimOwner |-> w] \in AttemptRow
    BY DEF AttemptRow, InFlight
<1>4. pc[w] \in Catching => AttemptStatusFor(verdict[w]) \in {"UNKNOWN_EFFECT", "FAILED"}
    BY DEF AttemptStatusFor
<1> QED BY <1>1, <1>2, <1>3, <1>4, RecordUpdates DEF InFlight, AttemptTerminal

\* What it may send.
LEMMA Sendable ==
    ASSUME Typed, NEW w \in Worker, pc[w] \in Trying
    PROVE  [action |-> offer[w].action, text |-> offer[w].text]
                \in [action : Mutation, text : Text \cup {NoText}]
BY AtWorker DEF LocalTyped, Trying, Locked, Authoring, Proposed

\* The writes of the ledger.
LEMMA LedgerKeepsTyped ==
    ASSUME Typed, NEW w \in Worker,
           \/ CreateAttempt(w)
           \/ ClaimAttempt(w)
           \/ ExecuteAttempt(w)
           \/ Succeed(w)
           \/ FailAttempt(w)
    PROVE  Typed' /\ Moves(w)
<1> USE DEF Goto, rows, local, jules
<1>0. /\ SharedTyped /\ LocalTyped(w)
      /\ pc[w] \in Locked => act[w] \in Activity /\ At(w) \in Session
      /\ faults \in Nat
    BY AtWorker
<1>1. ASSUME CreateAttempt(w) PROVE Typed' /\ Moves(w)
    <2>1. attempt' \in [Activity -> AttemptRow]
        BY <1>0, <1>1, LedgerRows
           DEF CreateAttempt, LedgerStep, SetAttempt, SharedTyped, Ledgering, Recording, Trying,
               Catching
    <2>2. SharedTyped'
        BY <1>0, <1>1, <2>1 DEF CreateAttempt, LedgerStep, SetAttempt, SharedTyped
    <2>3. Moves(w)
        BY <1>1 DEF CreateAttempt, LedgerStep, SetAttempt, Moves, Typed, TypeOK
    <2>4. Persists
        BY <1>1 DEF CreateAttempt, LedgerStep, SetAttempt, Persists
    <2>5. LocalTyped(w)'
        BY <1>1
           DEF CreateAttempt, LedgerStep, SetAttempt, Locked, Deciding, Authoring, Queueing,
               Ledgering, Recording, Trying, Catching, Outcome, LocalTyped, Typed, TypeOK,
               Placed
    <2> QED BY <2>2, <2>3, <2>4, <2>5, MoveKeepsTyped
<1>2. ASSUME ClaimAttempt(w) PROVE Typed' /\ Moves(w)
    <2>1. attempt' \in [Activity -> AttemptRow]
        BY <1>0, <1>2, LedgerRows
           DEF ClaimAttempt, LedgerStep, SetAttempt, SharedTyped, Ledgering, Recording, Trying,
               Catching
    <2>2. SharedTyped'
        BY <1>0, <1>2, <2>1 DEF ClaimAttempt, LedgerStep, SetAttempt, SharedTyped
    <2>3. Moves(w)
        BY <1>2 DEF ClaimAttempt, LedgerStep, SetAttempt, Moves, Typed, TypeOK
    <2>4. Persists
        BY <1>2 DEF ClaimAttempt, LedgerStep, SetAttempt, Persists
    <2>5. LocalTyped(w)'
        BY <1>2
           DEF ClaimAttempt, LedgerStep, SetAttempt, Locked, Deciding, Authoring, Queueing,
               Ledgering, Recording, Trying, Catching, Outcome, LocalTyped, Typed, TypeOK,
               Placed
    <2> QED BY <2>2, <2>3, <2>4, <2>5, MoveKeepsTyped
<1>3. ASSUME ExecuteAttempt(w) PROVE Typed' /\ Moves(w)
    <2>1. attempt' \in [Activity -> AttemptRow]
        BY <1>0, <1>3, LedgerRows
           DEF ExecuteAttempt, LedgerStep, SetAttempt, SharedTyped, Ledgering, Recording,
               Trying, Catching
    <2>2. SharedTyped'
        BY <1>0, <1>3, <2>1 DEF ExecuteAttempt, LedgerStep, SetAttempt, SharedTyped
    <2>3. Moves(w)
        BY <1>3 DEF ExecuteAttempt, LedgerStep, SetAttempt, Moves, Typed, TypeOK
    <2>4. Persists
        BY <1>3 DEF ExecuteAttempt, LedgerStep, SetAttempt, Persists
    <2>5. LocalTyped(w)'
        BY <1>3
           DEF ExecuteAttempt, LedgerStep, SetAttempt, Locked, Deciding, Authoring, Queueing,
               Ledgering, Recording, Trying, Catching, Outcome, LocalTyped, Typed, TypeOK,
               Placed
    <2> QED BY <2>2, <2>3, <2>4, <2>5, MoveKeepsTyped
<1>4. ASSUME Succeed(w) PROVE Typed' /\ Moves(w)
    <2>1. attempt' \in [Activity -> AttemptRow]
        BY <1>0, <1>4, LedgerRows
           DEF Succeed, LedgerStep, SetAttempt, SharedTyped, Ledgering, Recording, Trying,
               Catching
    <2>2. SharedTyped'
        BY <1>0, <1>4, <2>1 DEF Succeed, LedgerStep, SetAttempt, SharedTyped
    <2>3. Moves(w)
        BY <1>4 DEF Succeed, LedgerStep, SetAttempt, Moves, Typed, TypeOK
    <2>4. Persists
        BY <1>4 DEF Succeed, LedgerStep, SetAttempt, Persists
    <2>5. LocalTyped(w)'
        BY <1>4
           DEF Succeed, LedgerStep, SetAttempt, Locked, Deciding, Authoring, Queueing,
               Ledgering, Recording, Trying, Catching, Outcome, LocalTyped, Typed, TypeOK,
               Placed
    <2> QED BY <2>2, <2>3, <2>4, <2>5, MoveKeepsTyped
<1>5. ASSUME FailAttempt(w) PROVE Typed' /\ Moves(w)
    <2>1. attempt' \in [Activity -> AttemptRow]
        BY <1>0, <1>5, LedgerRows
           DEF FailAttempt, LedgerStep, SetAttempt, SharedTyped, Ledgering, Recording, Trying,
               Catching
    <2>2. SharedTyped'
        BY <1>0, <1>5, <2>1 DEF FailAttempt, LedgerStep, SetAttempt, SharedTyped
    <2>3. Moves(w)
        BY <1>5 DEF FailAttempt, LedgerStep, SetAttempt, Moves, Typed, TypeOK
    <2>4. Persists
        BY <1>5 DEF FailAttempt, LedgerStep, SetAttempt, Persists
    <2>5. LocalTyped(w)'
        BY <1>5
           DEF FailAttempt, LedgerStep, SetAttempt, Locked, Deciding, Authoring, Queueing,
               Ledgering, Recording, Trying, Catching, Outcome, LocalTyped, Typed, TypeOK,
               Placed
    <2> QED BY <2>2, <2>3, <2>4, <2>5, MoveKeepsTyped
<1> QED BY <1>1, <1>2, <1>3, <1>4, <1>5

\* The rest of the try block.
LEMMA TryingKeepsTyped ==
    ASSUME Typed, NEW w \in Worker,
           \/ Recheck(w)
           \/ VerifySession(w)
           \/ CheckCorrection(w)
           \/ Mutate(w)
           \/ Record(w)
           \/ Count(w)
    PROVE  Typed' /\ Moves(w)
<1> USE DEF Goto, rows, local, jules
<1>0. /\ SharedTyped /\ LocalTyped(w)
      /\ pc[w] \in Locked => act[w] \in Activity /\ At(w) \in Session
      /\ faults \in Nat
    BY AtWorker
<1>1. ASSUME Recheck(w) PROVE Typed' /\ Moves(w)
    <2>2. SharedTyped'
        BY <1>0, <1>1 DEF Recheck, Proceed, Catch, SharedTyped
    <2>3. Moves(w)
        BY <1>1 DEF Recheck, Proceed, Catch, Moves, Typed, TypeOK
    <2>4. Persists
        BY <1>1 DEF Recheck, Proceed, Catch, Persists
    <2>5. LocalTyped(w)'
        BY <1>1
           DEF Recheck, Proceed, Catch, Locked, Deciding, Authoring, Queueing, Ledgering,
               Recording, Trying, Catching, Outcome, LocalTyped, Typed, TypeOK, Placed, Category
    <2> QED BY <2>2, <2>3, <2>4, <2>5, MoveKeepsTyped
<1>2. ASSUME VerifySession(w) PROVE Typed' /\ Moves(w)
    <2>2. SharedTyped'
        BY <1>0, <1>2 DEF VerifySession, Proceed, Catch, SharedTyped
    <2>3. Moves(w)
        BY <1>2 DEF VerifySession, Proceed, Catch, Moves, Typed, TypeOK
    <2>4. Persists
        BY <1>2 DEF VerifySession, Proceed, Catch, Persists
    <2>5. LocalTyped(w)'
        BY <1>2
           DEF VerifySession, Proceed, Catch, Locked, Deciding, Authoring, Queueing, Ledgering,
               Recording, Trying, Catching, Outcome, LocalTyped, Typed, TypeOK, Placed, Category
    <2> QED BY <2>2, <2>3, <2>4, <2>5, MoveKeepsTyped
<1>3. ASSUME CheckCorrection(w) PROVE Typed' /\ Moves(w)
    <2>2. SharedTyped'
        BY <1>0, <1>3 DEF CheckCorrection, Proceed, Catch, SharedTyped
    <2>3. Moves(w)
        BY <1>3 DEF CheckCorrection, Proceed, Catch, Moves, Typed, TypeOK
    <2>4. Persists
        BY <1>3 DEF CheckCorrection, Proceed, Catch, Persists
    <2>5. LocalTyped(w)'
        BY <1>3
           DEF CheckCorrection, Proceed, Catch, Locked, Deciding, Authoring, Queueing,
               Ledgering, Recording, Trying, Catching, Outcome, LocalTyped, Typed, TypeOK,
               Placed, Category
    <2> QED BY <2>2, <2>3, <2>4, <2>5, MoveKeepsTyped
<1>4. ASSUME Mutate(w) PROVE Typed' /\ Moves(w)
    <2>1. applied' \in [Activity -> Seq([action : Mutation, text : Text \cup {NoText}])]
        <3>1. /\ act[w] \in Activity
              /\ applied[act[w]] \in Seq([action : Mutation, text : Text \cup {NoText}])
              /\ [action |-> offer[w].action, text |-> offer[w].text]
                     \in [action : Mutation, text : Text \cup {NoText}]
            BY <1>0, <1>4, Sendable DEF Mutate, SharedTyped, Locked, Trying
        <3>2. Append(applied[act[w]], [action |-> offer[w].action, text |-> offer[w].text])
                 \in Seq([action : Mutation, text : Text \cup {NoText}])
            BY <3>1
        <3> QED BY <1>0, <1>4, <3>1, <3>2 DEF Mutate, Sent, Apply, SharedTyped
    <2>2. SharedTyped'
        BY <1>0, <1>4, <2>1 DEF Mutate, Sent, Proceed, Catch, Apply, SharedTyped
    <2>3. Moves(w)
        BY <1>4 DEF Mutate, Sent, Proceed, Catch, Apply, Moves, Typed, TypeOK
    <2>4. Persists
        BY <1>4 DEF Mutate, Sent, Proceed, Catch, Apply, Persists
    <2>5. LocalTyped(w)'
        BY <1>4
           DEF Mutate, Sent, Proceed, Catch, Apply, Locked, Deciding, Authoring, Queueing,
               Ledgering, Recording, Trying, Catching, Outcome, LocalTyped, Typed, TypeOK,
               Placed, Category
    <2> QED BY <2>2, <2>3, <2>4, <2>5, MoveKeepsTyped
<1>5. ASSUME Record(w) PROVE Typed' /\ Moves(w)
    <2>1. fingerprints' \in [Session -> SUBSET (Text \cup {NoText})]
        BY <1>0, <1>5
           DEF Record, SharedTyped, LocalTyped, Locked, Deciding, Queueing, Ledgering,
               Recording, Trying, Catching, Authoring, Proposed
    <2>2. SharedTyped'
        BY <1>0, <1>5, <2>1 DEF Record, SharedTyped
    <2>3. Moves(w)
        BY <1>5 DEF Record, Moves, Typed, TypeOK
    <2>4. Persists
        BY <1>5 DEF Record, Persists
    <2>5. LocalTyped(w)'
        BY <1>5
           DEF Record, Locked, Deciding, Authoring, Queueing, Ledgering, Recording, Trying,
               Catching, Outcome, LocalTyped, Typed, TypeOK, Placed
    <2> QED BY <2>2, <2>3, <2>4, <2>5, MoveKeepsTyped
<1>6. ASSUME Count(w) PROVE Typed' /\ Moves(w)
    <2>1. corrections' \in [Session -> Nat]
        BY <1>0, <1>6
           DEF Count, SharedTyped, LocalTyped, Locked, Deciding, Queueing, Ledgering, Recording,
               Trying, Catching
    <2>2. SharedTyped'
        BY <1>0, <1>6, <2>1 DEF Count, SharedTyped
    <2>3. Moves(w)
        BY <1>6 DEF Count, Moves, Typed, TypeOK
    <2>4. Persists
        BY <1>6 DEF Count, Persists
    <2>5. LocalTyped(w)'
        BY <1>6
           DEF Count, Locked, Deciding, Authoring, Queueing, Ledgering, Recording, Trying,
               Catching, Outcome, LocalTyped, Typed, TypeOK, Placed
    <2> QED BY <2>2, <2>3, <2>4, <2>5, MoveKeepsTyped
<1> QED BY <1>1, <1>2, <1>3, <1>4, <1>5, <1>6

\* The end of the try block, the catch block and the finally.
LEMMA SettlingKeepsTyped ==
    ASSUME Typed, NEW w \in Worker,
           \/ MarkExecuted(w)
           \/ FailDecision(w)
           \/ Resume(w)
           \/ Release(w)
    PROVE  Typed' /\ Moves(w)
<1> USE DEF Goto, rows, local, jules
<1>0. /\ SharedTyped /\ LocalTyped(w)
      /\ pc[w] \in Locked => act[w] \in Activity /\ At(w) \in Session
      /\ faults \in Nat
    BY AtWorker
<1>1. ASSUME MarkExecuted(w) PROVE Typed' /\ Moves(w)
    <2>1. decision' \in [Activity -> DecisionRow \cup {NoDecision}]
        <3>1. pc[w] \in Trying \cup Catching /\ pc[w] \in Authoring
            BY <1>1
               DEF MarkExecuted, FailDecision, SetDecision, Trying, Recording, Catching,
                   Authoring
        <3>2. act[w] \in Activity /\ decision[act[w]] \in DecisionRow
            BY <1>0, <3>1 DEF LocalTyped, SharedTyped, Locked
        <3> QED BY <1>0, <1>1, <3>2, RecordUpdates
                   DEF MarkExecuted, FailDecision, SetDecision, SharedTyped
    <2>2. SharedTyped'
        BY <1>0, <1>1, <2>1 DEF MarkExecuted, SetDecision, SharedTyped
    <2>3. Moves(w)
        BY <1>1 DEF MarkExecuted, SetDecision, Moves, Typed, TypeOK
    <2>4. Persists
        BY <1>1, AtWorker, RecordUpdates, NoDecisionAssumption
           DEF MarkExecuted, SetDecision, Persists, LocalTyped, SharedTyped, Locked, Authoring,
               Trying, Recording, Catching, Typed, TypeOK
    <2>5. LocalTyped(w)'
        BY <1>1, <2>4
           DEF MarkExecuted, SetDecision, Locked, Deciding, Authoring, Queueing, Ledgering,
               Recording, Trying, Catching, Outcome, LocalTyped, Typed, TypeOK, Placed, Persists
    <2> QED BY <2>2, <2>3, <2>4, <2>5, MoveKeepsTyped
<1>2. ASSUME FailDecision(w) PROVE Typed' /\ Moves(w)
    <2>1. decision' \in [Activity -> DecisionRow \cup {NoDecision}]
        <3>1. pc[w] \in Trying \cup Catching /\ pc[w] \in Authoring
            BY <1>2
               DEF MarkExecuted, FailDecision, SetDecision, Trying, Recording, Catching,
                   Authoring
        <3>2. act[w] \in Activity /\ decision[act[w]] \in DecisionRow
            BY <1>0, <3>1 DEF LocalTyped, SharedTyped, Locked
        <3> QED BY <1>0, <1>2, <3>2, RecordUpdates
                   DEF MarkExecuted, FailDecision, SetDecision, SharedTyped
    <2>2. SharedTyped'
        BY <1>0, <1>2, <2>1 DEF FailDecision, SetDecision, SharedTyped
    <2>3. Moves(w)
        BY <1>2 DEF FailDecision, SetDecision, Moves, Typed, TypeOK
    <2>4. Persists
        BY <1>2, AtWorker, RecordUpdates, NoDecisionAssumption
           DEF FailDecision, SetDecision, Persists, LocalTyped, SharedTyped, Locked, Authoring,
               Trying, Recording, Catching, Typed, TypeOK
    <2>5. LocalTyped(w)'
        BY <1>2, <2>4
           DEF FailDecision, SetDecision, Locked, Deciding, Authoring, Queueing, Ledgering,
               Recording, Trying, Catching, Outcome, LocalTyped, Typed, TypeOK, Placed, Persists
    <2> QED BY <2>2, <2>3, <2>4, <2>5, MoveKeepsTyped
<1>3. ASSUME Resume(w) PROVE Typed' /\ Moves(w)
    <2>1. sessionRow' \in [Session -> Waiting \cup {"NONE", "IN_PROGRESS"}]
        BY <1>0, <1>3
           DEF Resume, SetSessionRow, SharedTyped, LocalTyped, Locked, Deciding, Queueing,
               Ledgering, Recording, Trying, Catching
    <2>2. SharedTyped'
        BY <1>0, <1>3, <2>1 DEF Resume, SetSessionRow, SharedTyped
    <2>3. Moves(w)
        BY <1>3 DEF Resume, SetSessionRow, Moves, Typed, TypeOK
    <2>4. Persists
        BY <1>3 DEF Resume, SetSessionRow, Persists
    <2>5. LocalTyped(w)'
        BY <1>3
           DEF Resume, SetSessionRow, Locked, Deciding, Authoring, Queueing, Ledgering,
               Recording, Trying, Catching, Outcome, LocalTyped, Typed, TypeOK, Placed
    <2> QED BY <2>2, <2>3, <2>4, <2>5, MoveKeepsTyped
<1>4. ASSUME Release(w) PROVE Typed' /\ Moves(w)
    <2>1. lock' \in [Session -> Worker \cup {NoWorker}]
        BY <1>0, <1>4
           DEF Release, Forget, SharedTyped, LocalTyped, Locked, Deciding, Queueing, Ledgering,
               Recording, Trying, Catching
    <2>2. SharedTyped'
        BY <1>0, <1>4, <2>1 DEF Release, Forget, SharedTyped
    <2>3. Moves(w)
        BY <1>4 DEF Release, Forget, Moves, Typed, TypeOK
    <2>4. Persists
        BY <1>4 DEF Release, Forget, Persists
    <2>5. LocalTyped(w)'
        <3>1. /\ pc'[w] \in {"idle", "next"} /\ act'[w] = NoActivity /\ offer'[w] = NoProposal
              /\ calls'[w] = 0 /\ verdict'[w] = "NONE" /\ todo'[w] = todo[w]
              /\ \/ pc'[w] = "idle" /\ seen'[w] = "NONE"
                 \/ pc'[w] = "next" /\ seen'[w] = seen[w]
            BY <1>4 DEF Release, Forget, Typed, TypeOK
        <3>2. pc[w] = "release"
            BY <1>4 DEF Release
        <3> QED BY <1>0, <3>1, <3>2, PipelineAssumption
                DEF LocalTyped, Locked, Deciding, Authoring, Queueing, Ledgering, Recording,
                    Trying, Catching, Outcome
    <2> QED BY <2>2, <2>3, <2>4, <2>5, MoveKeepsTyped
<1> QED BY <1>1, <1>2, <1>3, <1>4

\* Failures.
LEMMA FailingKeepsTyped ==
    ASSUME Typed, NEW w \in Worker,
           \/ Throw(w)
           \/ ThrowInside(w)
           \/ SafetyUnread(w)
           \/ ReleaseFails(w)
           \/ Crash(w)
    PROVE  Typed' /\ Moves(w)
<1> USE DEF Goto, rows, local, jules
<1>0. /\ SharedTyped /\ LocalTyped(w)
      /\ pc[w] \in Locked => act[w] \in Activity /\ At(w) \in Session
      /\ faults \in Nat
    BY AtWorker
<1>1. ASSUME Throw(w) PROVE Typed' /\ Moves(w)
    <2>1. faults' \in 0..MaxFaults /\ uncharged' \in [Session -> 0..MaxUncharged]
        <3>1. faults' \in 0..MaxFaults
            BY <1>0, <1>1, PipelineAssumption DEF Throw, Fault, SharedTyped
        <3>2. pc[w] \in Locked
            BY <1>1 DEF Throw, Locked
        <3>3. At(w) \in Session /\ calls[w] \in Nat
            BY <1>0, <3>2, PipelineAssumption DEF LocalTyped
        <3>4. GoUncharged(At(w), calls[w])
            BY <1>1 DEF Throw
        <3> QED BY <1>0, <3>1, <3>3, <3>4, GoUnchargedTyped DEF SharedTyped
    <2>2. SharedTyped'
        BY <1>0, <1>1, <2>1 DEF Throw, Fault, Leave, SharedTyped
    <2>3. Moves(w)
        BY <1>1 DEF Throw, Fault, Leave, Moves, Typed, TypeOK
    <2>4. Persists
        BY <1>1 DEF Throw, Fault, Leave, Persists
    <2>5. LocalTyped(w)'
        BY <1>1, PipelineAssumption
           DEF Throw, Fault, Leave, Locked, Deciding, Authoring, Queueing, Ledgering, Recording,
               Trying, Catching, Outcome, LocalTyped, Typed, TypeOK, Placed
    <2> QED BY <2>2, <2>3, <2>4, <2>5, MoveKeepsTyped
<1>2. ASSUME ThrowInside(w) PROVE Typed' /\ Moves(w)
    <2>1. faults' \in 0..MaxFaults
        BY <1>0, <1>2, PipelineAssumption DEF ThrowInside, Fault, Catch, SharedTyped
    <2>2. SharedTyped'
        BY <1>0, <1>2, <2>1 DEF ThrowInside, Fault, Catch, SharedTyped
    <2>3. Moves(w)
        BY <1>2 DEF ThrowInside, Fault, Catch, Moves, Typed, TypeOK
    <2>4. Persists
        BY <1>2 DEF ThrowInside, Fault, Catch, Persists
    <2>5. LocalTyped(w)'
        BY <1>2
           DEF ThrowInside, Fault, Catch, Locked, Deciding, Authoring, Queueing, Ledgering,
               Recording, Trying, Catching, Outcome, LocalTyped, Typed, TypeOK, Placed
    <2> QED BY <2>2, <2>3, <2>4, <2>5, MoveKeepsTyped
<1>3. ASSUME SafetyUnread(w) PROVE Typed' /\ Moves(w)
    <2>1. faults' \in 0..MaxFaults
        BY <1>0, <1>3, PipelineAssumption DEF SafetyUnread, Fault, Catch, SharedTyped
    <2>2. SharedTyped'
        BY <1>0, <1>3, <2>1 DEF SafetyUnread, Fault, Catch, SharedTyped
    <2>3. Moves(w)
        BY <1>3 DEF SafetyUnread, Fault, Catch, Moves, Typed, TypeOK
    <2>4. Persists
        BY <1>3 DEF SafetyUnread, Fault, Catch, Persists
    <2>5. LocalTyped(w)'
        BY <1>3, EscalationTyped
           DEF SafetyUnread, Fault, Catch, Locked, Deciding, Authoring, Queueing, Ledgering,
               Recording, Trying, Catching, Outcome, LocalTyped, Typed, TypeOK, Placed, Category
    <2> QED BY <2>2, <2>3, <2>4, <2>5, MoveKeepsTyped
<1>4. ASSUME ReleaseFails(w) PROVE Typed' /\ Moves(w)
    <2>1. faults' \in 0..MaxFaults
        BY <1>0, <1>4, PipelineAssumption DEF ReleaseFails, Fault, Forget, SharedTyped
    <2>2. SharedTyped'
        BY <1>0, <1>4, <2>1 DEF ReleaseFails, Fault, Forget, SharedTyped
    <2>3. Moves(w)
        BY <1>4 DEF ReleaseFails, Fault, Forget, Moves, Typed, TypeOK
    <2>4. Persists
        BY <1>4 DEF ReleaseFails, Fault, Forget, Persists
    <2>5. LocalTyped(w)'
        BY <1>4, PipelineAssumption
           DEF ReleaseFails, Fault, Forget, Locked, Deciding, Authoring, Queueing, Ledgering,
               Recording, Trying, Catching, Outcome, LocalTyped, Typed, TypeOK, Placed
    <2> QED BY <2>2, <2>3, <2>4, <2>5, MoveKeepsTyped
<1>5. ASSUME Crash(w) PROVE Typed' /\ Moves(w)
    <2>0. /\ faults' \in 0..MaxFaults
          /\ rescue' \in [Worker -> Activity \cup {NoActivity}]
        BY <1>0, <1>5, PipelineAssumption DEF Crash, Fault, SharedTyped
    <2>1. uncharged' \in [Session -> 0..MaxUncharged]
        <3>1. CASE act[w] = NoActivity
            BY <1>0, <1>5, <3>1 DEF Crash, SharedTyped
        <3>2. CASE act[w] # NoActivity
            <4>1. At(w) \in Session /\ calls[w] \in Nat
                BY <1>0, <3>2, PipelineAssumption DEF LocalTyped, At
            <4>2. GoUncharged(At(w), calls[w])
                BY <1>5, <3>2 DEF Crash
            <4> QED BY <1>0, <4>1, <4>2, GoUnchargedTyped DEF SharedTyped
        <3> QED BY <3>1, <3>2
    <2>2. SharedTyped'
        BY <1>0, <1>5, <2>0, <2>1 DEF Crash, Fault, Forget, SharedTyped
    <2>3. Moves(w)
        BY <1>5 DEF Crash, Fault, Forget, Moves, Typed, TypeOK
    <2>4. Persists
        BY <1>5 DEF Crash, Fault, Forget, Persists
    <2>5. LocalTyped(w)'
        BY <1>5, PipelineAssumption
           DEF Crash, Fault, Forget, Locked, Deciding, Authoring, Queueing, Ledgering,
               Recording, Trying, Catching, Outcome, LocalTyped, Typed, TypeOK, Placed
    <2> QED BY <2>2, <2>3, <2>4, <2>5, MoveKeepsTyped
<1> QED BY <1>1, <1>2, <1>3, <1>4, <1>5

LEMMA TypedInitially == Init => Typed
<1> SUFFICES ASSUME Init PROVE Typed
    OBVIOUS
<1>1. TypeOK
    <2>1. /\ aiCalls \in [Session -> Nat] /\ corrections \in [Session -> Nat]
          /\ uncharged \in [Session -> 0..MaxUncharged] /\ calls \in [Worker -> 0..CallsPerDecision]
          /\ faults \in 0..MaxFaults
        BY PipelineAssumption DEF Init
    <2>2. attempt \in [Activity -> AttemptRow]
        BY RecordUpdates DEF Init
    <2>3. applied \in [Activity -> Seq([action : Mutation, text : Text \cup {NoText}])]
        BY DEF Init
    <2> QED BY <2>1, <2>2, <2>3 DEF Init, TypeOK
<1>2. Placed
    BY PipelineAssumption
       DEF Init, Placed, LocalTyped, Locked, Deciding, Authoring, Queueing, Ledgering, Recording,
           Trying, Catching, Outcome
<1> QED BY <1>1, <1>2 DEF Typed

\* The environment, the reconciler and the clock leave every worker's poll alone.
LEMMA BackgroundKeepsTyped ==
    ASSUME Typed,
           \/ (\E a \in Activity : JulesAsks(a))
           \/ (\E s \in Session : JulesGoesOn(s) \/ LapseLock(s))
           \/ (\E state \in SafetyState : SetState(state))
           \/ (\E w \in Worker : Reconcile(w) \/ AbandonRescue(w))
    PROVE  Typed'
<1> USE DEF rows, local, jules
<1> DEFINE Rest == SharedTyped' /\ UNCHANGED <<pc, local, decision>>
<1>0. SharedTyped
    BY SharedOfTyped
<1>1. ASSUME NEW a \in Activity, JulesAsks(a) PROVE Rest
    BY <1>0, <1>1, PipelineAssumption DEF JulesAsks, SharedTyped
<1>2. ASSUME NEW s \in Session, JulesGoesOn(s) PROVE Rest
    BY <1>0, <1>2 DEF JulesGoesOn, SharedTyped
<1>3. ASSUME NEW s \in Session, LapseLock(s) PROVE Rest
    BY <1>0, <1>3 DEF LapseLock, SharedTyped
<1>4. ASSUME NEW state \in SafetyState, SetState(state)
      PROVE  Rest
    BY <1>0, <1>4 DEF SetState, SharedTyped
<1>5. ASSUME NEW w \in Worker, NEW a \in Activity, Recover(w, a)
      PROVE  Rest
    <2>1. [status |-> "CLAIMED", claimOwner |-> w] \in AttemptRow
        BY DEF AttemptRow, InFlight
    <2> QED BY <1>0, <1>5, <2>1 DEF Recover, SetAttempt, SharedTyped
<1>6. ASSUME NEW w \in Worker, Escalate(w) PROVE Rest
    <2>1. /\ rescue[w] \in Activity
          /\ Marked(attempt[rescue[w]], "NEEDS_RECONCILIATION") \in AttemptRow
        BY <1>0, <1>6, RecordUpdates DEF Escalate, SharedTyped, AttemptTerminal
    <2> QED BY <1>0, <1>6, <2>1 DEF Escalate, SetAttempt, SharedTyped
<1>7. ASSUME NEW w \in Worker, AbandonRescue(w)
      PROVE  Rest
    <2>1. faults' \in 0..MaxFaults
        BY <1>0, <1>7, PipelineAssumption DEF AbandonRescue, Fault, SharedTyped
    <2>2. rescue' \in [Worker -> Activity \cup {NoActivity}]
        BY <1>0, <1>7 DEF AbandonRescue, SharedTyped
    <2> QED BY <1>0, <1>7, <2>1, <2>2 DEF AbandonRescue, SharedTyped
<1> HIDE DEF Rest
<1>8. Rest
    BY <1>1, <1>2, <1>3, <1>4, <1>5, <1>6, <1>7 DEF Reconcile
<1> QED BY <1>8, OthersKeepTyped DEF Rest

LEMMA StepKeepsTyped == ASSUME Typed, [Next]_vars PROVE Typed'
<1>1. CASE UNCHANGED vars
    <2>1. SharedTyped'
        <3>1. UNCHANGED <<rows, safety, lock, rescue, jules, uncharged, faults>>
            BY <1>1 DEF vars
        <3> QED BY <3>1, SharedOfTyped DEF rows, jules, SharedTyped
    <2> QED BY <1>1, <2>1, OthersKeepTyped DEF vars, rows, local
<1>2. ASSUME NEW w \in Worker, Advance(w) PROVE Typed'
    BY <1>2, DecidingKeepsTyped, DecideKeepsTyped, QueueingKeepsTyped, LedgerKeepsTyped,
       TryingKeepsTyped, SettlingKeepsTyped DEF Advance, Ask
<1>3. ASSUME NEW w \in Worker, Fail(w) PROVE Typed'
    BY <1>3, FailingKeepsTyped, BackgroundKeepsTyped DEF Fail
<1> QED BY <1>1, <1>2, <1>3, BackgroundKeepsTyped DEF Next

\* Every variable has its type, and no worker is anywhere in the code without
\* what that place needs: a session in hand, a proposal, a row it inserted.
THEOREM PipelineTypeCorrect == Spec => []TypeOK
<1>1. Typed /\ [Next]_vars => Typed'
    BY StepKeepsTyped
<1>2. Typed => TypeOK
    BY DEF Typed
<1> QED BY TypedInitially, <1>1, <1>2, PTL DEF Spec
=============================================================================
