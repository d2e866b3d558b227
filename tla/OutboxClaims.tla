---------------------------- MODULE OutboxClaims ----------------------------
(* What the repository's documents and comments say of the outbox and the  *)
(* code does not do.  TLC refutes each on an instance where nothing more   *)
(* goes wrong than the statement is about: claim_never_lost.cfg for        *)
(* NeverLost, those listed in the README for the others.                   *)
EXTENDS OutboxRefinement

\* The reconciler will "never issue another mutation during recovery" and
\* crash recovery "never auto-replays uncertain mutations": an action is sent
\* again only if the ledger says that the earlier attempt failed.
OnlyFailedAttemptsRetried ==
    \A i \in Item : \A m, n \in applied[i] : m < n => attempt[i][m].status = "FAILED"

\* "Transition to terminal success with owner & fencing verification": with no
\* reconciler about, a worker that has recorded its outcome has closed its
\* own ledger row.
OutcomeIsRecorded ==
    \A p \in Pass : pc[p] = "settleOutbox" => MyAttempt(p).status \in AttemptTerminal

\* The halt is "enforced in the same critical section as any external
\* mutation": nothing takes effect unless the switch is at RUNNING.
HaltStopsMutations == [][applied' # applied => safety = "RUNNING"]_vars

\* "Guarantees an approved action is never lost and survives worker crashes":
\* while the switch stays at RUNNING, whatever was staged reaches an end.
NeverLost ==
    <>[](safety = "RUNNING") =>
        \A i \in Item : outbox[i].status = "PENDING" ~> outbox[i].status \in OutboxTerminal
=============================================================================
