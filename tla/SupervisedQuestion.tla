------------------------- MODULE SupervisedQuestion -------------------------
(***************************************************************************)
(* What the pipeline promises about a question that Jules asks: what an    *)
(* operator, an auditor or Jules may observe, whatever workers do          *)
(* underneath.                                                             *)
(*                                                                         *)
(*   - a question is ruled on once, and the ruling is never revised;       *)
(*   - only what was ruled to need a human is put to one;                  *)
(*   - only what was ruled tolerable is acted on, once, as it was ruled,   *)
(*     after it was traced in the ledger, and before anything is reported; *)
(*   - "done" is only reported of something that took effect, and it is    *)
(*     the only report that may be taken back.                             *)
(*                                                                         *)
(* It does not promise that a failure that is reported had no effect:      *)
(* neither does the code.                                                  *)
(***************************************************************************)
CONSTANTS Question, Intent, Risk, Tolerable

VARIABLES
    ruling,     \* what is to become of a question
    queued,     \* the questions that are put to a human
    traced,     \* those that the ledger says may be acted on
    effects,    \* what took effect at Jules
    report      \* what became of it, as far as the decision row tells

vars == <<ruling, queued, traced, effects, report>>

Unruled == [course |-> "none"]
Ruling == [course : {"act", "ask", "leave"}, risk : Risk, intent : Intent]

Init ==
    /\ ruling = [q \in Question |-> Unruled]
    /\ queued = {}
    /\ traced = {}
    /\ effects = [q \in Question |-> <<>>]
    /\ report = [q \in Question |-> "none"]

Course(q, c) == ruling[q].course = c

Rule(q) ==
    /\ \E r \in Ruling :
         /\ r.course = "act" => r.risk \in Tolerable
         /\ ruling' = [ruling EXCEPT ![q] = r]
    /\ UNCHANGED <<queued, traced, effects, report>>

PutToHuman(q) ==
    /\ q \notin queued
    /\ queued' = queued \cup {q}
    /\ UNCHANGED <<ruling, traced, effects, report>>

Trace(q) ==
    /\ q \notin traced
    /\ traced' = traced \cup {q}
    /\ UNCHANGED <<ruling, queued, effects, report>>

TakeEffect(q) ==
    /\ q \in traced
    /\ effects[q] = <<>>
    /\ report[q] = "none"
    /\ effects' = [effects EXCEPT ![q] = <<ruling[q].intent>>]
    /\ UNCHANGED <<ruling, queued, traced, report>>

Report(q, r) ==
    /\ report[q] \in IF r = "done" THEN {"none"} ELSE {"none", "done"}
    /\ r = "done" => effects[q] # <<>>
    /\ report' = [report EXCEPT ![q] = r]
    /\ UNCHANGED <<ruling, queued, traced, effects>>

Next ==
    \E q \in Question :
        \/ Course(q, "none") /\ Rule(q)
        \/ Course(q, "ask") /\ PutToHuman(q)
        \/ Course(q, "act") /\ (Trace(q) \/ TakeEffect(q) \/ \E r \in {"done", "failed"} : Report(q, r))

Spec == Init /\ [][Next]_vars
=============================================================================
