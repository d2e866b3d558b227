----------------------------- MODULE RiskPolicy -----------------------------
(***************************************************************************)
(* What the code itself makes of a proposal: the deterministic risk of     *)
(* packages/core/src/risk.ts and the verdict of the rules in               *)
(* packages/policy/src/rules.ts.  Together they are the assessment that    *)
(* module ExecutionGate takes.                                             *)
(*                                                                         *)
(* Both match regular expressions against the reply, the diff and the      *)
(* paths of the patch.  All that counts is which patterns match, so a      *)
(* proposal is known by its signs:                                         *)
(*    plain       destructive patterns that match the text as it is        *)
(*    folded      those that match it once it is normalised; a plain match *)
(*                survives normalisation                                   *)
(*    paths       path patterns that match some changed file               *)
(*    files       how many files changed                                   *)
(*    confidence  of the AI, in percent                                    *)
(*    cycles      the session's cycle count; the pipeline passes none      *)
(***************************************************************************)
EXTENDS ExecutionGate

\* The destructive patterns that both lists have, and those of the risk alone.
Forbidden == {"drop table", "truncate table", "delete from users", "rm -rf",
              "git push --force", "--no-verify"}
Destructive == Forbidden \cup {"bypass_security", "chmod 777"}

\* ".env" is the end of a path or ".env.<something>", ".env within" any other
\* path with .env in it.
SensitivePath == {".env", ".env within", "auth/", "migrations/", ".github/workflows/",
                  "secrets/", "crypto/"}
CriticalPath == (SensitivePath \ {".env within"}) \cup {"billing/", "keys/"}
MediumPath == {"package.json", "pnpm-lock.yaml", "docker-compose", "Dockerfile", "infra/", "api/"}

Signs == {s \in [plain : SUBSET Destructive, folded : SUBSET Destructive,
                 paths : SUBSET (CriticalPath \cup SensitivePath \cup MediumPath),
                 files : Nat, confidence : 0..100, cycles : Nat] :
            s.plain \subseteq s.folded}

NoSigns == [plain |-> {}, folded |-> {}, paths |-> {}, files |-> 0,
            confidence |-> 100, cycles |-> 0]
-----------------------------------------------------------------------------
MaxFiles == 10
MinConfidence == 85
MaxCycles == 5

\* calculateDeterministicRisk looks at the text as it is.
DeterministicRisk(s) ==
    IF s.plain # {} \/ s.paths \cap CriticalPath # {} THEN "critical"
    ELSE IF s.paths \cap MediumPath # {} \/ s.files > MaxFiles THEN "medium"
    ELSE "low"

\* What each rule asks for, "PASS" if the rule is passed.
NoDestructiveCommands(s) == IF s.folded \cap Forbidden = {} THEN "PASS" ELSE "HARD_BLOCK"
SecurityPaths(s) == IF s.paths \cap SensitivePath = {} THEN "PASS" ELSE "REVIEW"
ConfidenceGate(s) == IF s.confidence >= MinConfidence THEN "PASS" ELSE "REVIEW"
SessionCycleCeiling(s) == IF s.cycles < MaxCycles THEN "PASS" ELSE "REVIEW"

\* PolicyEngine.evaluate: the gravest of them.
Verdict(s) ==
    LET asked == {NoDestructiveCommands(s), SecurityPaths(s), ConfidenceGate(s),
                  SessionCycleCeiling(s)}
    IN  IF "HARD_BLOCK" \in asked THEN "HARD_BLOCK"
        ELSE IF "REVIEW" \in asked THEN "REVIEW"
        ELSE "PASS"

AssessmentOf(s) == [risk |-> DeterministicRisk(s), policy |-> Verdict(s)]
=============================================================================
