------------------------- MODULE PipelineRefinement -------------------------
(* The pipeline keeps the promises of SupervisedQuestion: the decision row *)
(* is the ruling and, in its state, the report; the approval row is what   *)
(* is put to a human, and the ledger row the trace.                        *)
EXTENDS Pipeline

Acting == {"EXECUTING", "EXECUTED", "EXECUTION_FAILED"}

CourseOf(row) == IF row.state \in Acting THEN "act"
                 ELSE IF row.state = "AWAITING_APPROVAL" THEN "ask" ELSE "leave"

IntentOf(row) == [action |-> row.action, text |-> row.text]

RulingOf(a) ==
    IF decision[a] = NoDecision THEN [course |-> "none"]
    ELSE [course |-> CourseOf(decision[a]), risk |-> decision[a].risk,
          intent |-> IntentOf(decision[a])]

ReportOf(a) == CASE StateOf(a) = "EXECUTED" -> "done"
                 [] StateOf(a) = "EXECUTION_FAILED" -> "failed"
                 [] OTHER -> "none"

Promise == INSTANCE SupervisedQuestion
    WITH Question <- Activity,
         Intent <- [action : DecisionAction, text : Text \cup {NoText}],
         Risk <- RiskLevel,
         Tolerable <- {"low", "medium"},
         ruling <- [a \in Activity |-> RulingOf(a)],
         queued <- {a \in Activity : approval[a] = "PENDING"},
         traced <- {a \in Activity : attempt[a].status \notin {"NONE", "PENDING"}},
         effects <- applied,
         report <- [a \in Activity |-> ReportOf(a)]

\* Workers that poll the same activity, with or without their locks, their
\* reconcilers, failed calls and crashes never show an operator, an auditor or
\* Jules anything SupervisedQuestion does not allow.
RulesOnce == Promise!Spec
=============================================================================
