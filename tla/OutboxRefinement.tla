-------------------------- MODULE OutboxRefinement --------------------------
(* The outbox keeps the promises of SanctionedAction: the approval is the  *)
(* sanction, the outbox row's terminal status the report.                  *)
EXTENDS OutboxDispatch

SanctionOf(i) == CASE approval[i] = "PENDING" -> "open"
                   [] approval[i] \in Sanctioning -> "given"
                   [] OTHER -> "refused"

ReportOf(i) == CASE outbox[i].status = "COMPLETED" -> "done"
                 [] outbox[i].status = "FAILED" -> "failed"
                 [] outbox[i].status = "UNCERTAIN" -> "uncertain"
                 [] OTHER -> "none"

Promise == INSTANCE SanctionedAction
    WITH Call <- AttemptNumber,
         sanction <- [i \in Item |-> SanctionOf(i)],
         effects <- applied,
         report <- [i \in Item |-> ReportOf(i)]

\* Approvals route, dispatcher, reconciler, crashes and lapsed leases together
\* never show an operator or Jules anything SanctionedAction does not allow.
KeepsPromise == Promise!Spec
=============================================================================
