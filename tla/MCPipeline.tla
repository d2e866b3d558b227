----------------------------- MODULE MCPipeline -----------------------------
(* Instances of Pipeline for TLC.                                          *)
EXTENDS PipelineRefinement, PipelineClaims, RiskPolicy, TLC

CONSTANTS a1, a2, s1, w1, w2, fix, other

OneSession == [a \in Activity |-> s1]
AllQuestions == [a \in Activity |-> "AWAITING_USER_INPUT"]

Answer(action, risk, text) ==
    [action |-> action, risk |-> risk, confident |-> TRUE, text |-> text]

\* A harmless reply, a correction, a plan approval without feedback.
Mixed == {Answer("RESPOND", "low", other), Answer("REQUEST_CHANGES", "low", fix),
          Answer("APPROVE_PLAN", "medium", NoText)}
OneCorrection == {Answer("REQUEST_CHANGES", "low", fix)}

Harmless == {AssessmentOf(NoSigns)}
\* With a path only the risk knows, a doubtful AI, or a command that only the
\* normalised text shows.
HarmlessOrNot ==
    {AssessmentOf(s) : s \in {NoSigns, [NoSigns EXCEPT !.paths = {"billing/"}],
                              [NoSigns EXCEPT !.confidence = 84],
                              [NoSigns EXCEPT !.folded = {"rm -rf"}]}}

FullAuto == {[mode |-> "FULL_AUTO", autoRespond |-> TRUE, autoPlan |-> TRUE]}
FullAutoOrDry == FullAuto \cup {[mode |-> "DRY_RUN", autoRespond |-> TRUE, autoPlan |-> TRUE]}

WorkerSymmetry == Permutations(Worker)
\* Where all activities are questions of one session.
FullSymmetry == Permutations(Worker) \cup Permutations(Activity)
=============================================================================
