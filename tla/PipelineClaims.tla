--------------------------- MODULE PipelineClaims ---------------------------
(* What comments and documents say of the pipeline and its code does not   *)
(* keep.  TLC refutes both on the instances listed in the README.          *)
EXTENDS Pipeline

\* "Enforces hard ceilings on AI calls, tokens, estimated cost, and corrections
\* per Jules session" (packages/core/src/budget.ts:4), even if the calls of one
\* decision may go over it.
AiCallsWithinCeiling ==
    \A s \in Session :
        aiCalls[s] + uncharged[s] <= MaxAiCalls - 1 + CallsPerDecision * Rivals

\* "so identical corrections are never re-sent"
\* (packages/core/src/correction-loop.ts:23).
IdenticalCorrectionSentOnce ==
    \A a, b \in Activity :
        (/\ a # b /\ SessionOf[a] = SessionOf[b]
         /\ \A d \in {a, b} : applied[d] # <<>> /\ applied[d][1].action = "REQUEST_CHANGES")
            => applied[a][1].text # applied[b][1].text
=============================================================================
