--------------------------- MODULE ExecutionGate ---------------------------
(***************************************************************************)
(* What becomes of a decision the AI proposes: whether the pipeline acts   *)
(* on it by itself, queues it for a human, blocks it, or only records it.  *)
(* Pure: the execution gate, the risk it is given, and the overrides the   *)
(* pipeline lays over the gate's verdict.                                  *)
(*                                                                         *)
(* A proposal is [action, risk, confident, text]: confident says whether   *)
(* the confidence reaches the configured threshold, text is the response   *)
(* or NoText.  An assessment is what the code itself makes of a proposal:  *)
(* the deterministic risk and the policy engine's verdict.                 *)
(***************************************************************************)
EXTENDS Integers

CONSTANT NoText

Mutation == {"RESPOND", "APPROVE_PLAN", "REQUEST_CHANGES"}
DecisionAction == Mutation \cup {"REQUEST_HUMAN", "IGNORE", "BLOCK"}
RiskLevel == {"low", "medium", "high", "critical"}
Mode == {"DISABLED", "DRY_RUN", "ASSISTED", "AUTO_RESPOND", "FULL_AUTO"}
PolicyVerdict == {"PASS", "REVIEW", "HARD_BLOCK"}
Config == [mode : Mode, autoRespond : BOOLEAN, autoPlan : BOOLEAN]
Assessment == [risk : RiskLevel, policy : PolicyVerdict]
Disposition == {"EXECUTING", "AWAITING_APPROVAL", "BLOCKED", "DRY_RUN_COMPLETED"}

Order == [low |-> 0, medium |-> 1, high |-> 2, critical |-> 3]
Riskier(r, q) == IF Order[r] > Order[q] THEN r ELSE q

\* PolicyEngine.evaluate's effectiveRisk.
PolicyRisk(risk, policy) ==
    IF policy = "HARD_BLOCK" THEN "critical"
    ELSE IF policy = "REVIEW" /\ risk = "low" THEN "medium"
    ELSE risk

EffectiveRisk(proposal, assessed) ==
    Riskier(Riskier(proposal.risk, assessed.risk), PolicyRisk(proposal.risk, assessed.policy))

\* evaluateExecutionGate.  Its early returns are disjoint, so the verdict is
\* three independent facts.
AutoExecuted(proposal, risk, config) ==
    /\ risk \in {"low", "medium"}
    /\ proposal.action \in Mutation
    /\ proposal.confident
    /\ \/ /\ config.mode = "AUTO_RESPOND"
          /\ proposal.action = "RESPOND" /\ risk = "low" /\ config.autoRespond
       \/ /\ config.mode = "FULL_AUTO"
          /\ proposal.action = "APPROVE_PLAN" => config.autoPlan

RequiresHumanReview(proposal, risk, config) ==
    /\ config.mode \notin {"DISABLED", "DRY_RUN"}
    /\ ~AutoExecuted(proposal, risk, config)
    /\ ~(risk \in {"low", "medium"} /\ proposal.action = "IGNORE")

GateBlocked(proposal, risk, config) ==
    \/ config.mode = "DISABLED"
    \/ /\ config.mode # "DRY_RUN"
       /\ risk = "critical" \/ (risk \in {"low", "medium"} /\ proposal.action = "BLOCK")

HasExecutablePayload(proposal) ==
    proposal.action = "APPROVE_PLAN" \/ proposal.text # NoText

\* The pipeline's overrides, then executionState.  A hard block silences the
\* review; a policy review, a degraded worker or a missing payload turns the
\* execution into one.
Dispose(proposal, assessed, config, degraded) ==
    LET risk == EffectiveRisk(proposal, assessed)
        auto == AutoExecuted(proposal, risk, config) /\ assessed.policy = "PASS"
        act == auto /\ ~degraded /\ HasExecutablePayload(proposal)
        review == \/ auto /\ ~act
                  \/ assessed.policy = "REVIEW"
                  \/ assessed.policy = "PASS" /\ RequiresHumanReview(proposal, risk, config)
    IN  IF act THEN "EXECUTING"
        ELSE IF review THEN "AWAITING_APPROVAL"
        ELSE IF assessed.policy = "HARD_BLOCK" \/ GateBlocked(proposal, risk, config)
             THEN "BLOCKED"
        ELSE "DRY_RUN_COMPLETED"
=============================================================================
