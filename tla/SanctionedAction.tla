-------------------------- MODULE SanctionedAction --------------------------
(***************************************************************************)
(* What the outbox promises about an action that needs a human: what an    *)
(* operator, or Jules, may observe, whatever workers do underneath.        *)
(*                                                                         *)
(*   - nothing takes effect unless it was sanctioned, and a refusal stands;*)
(*   - each of a bounded number of calls takes effect at most once;        *)
(*   - the report is made once and never revised, and "done" is only       *)
(*     reported of something that took effect.                             *)
(*                                                                         *)
(* It does not promise a single effect, nor that a report of failure means *)
(* no effect: neither does the code.                                       *)
(***************************************************************************)
CONSTANTS Item, Call

VARIABLES
    sanction,   \* the operator's answer
    effects,    \* the calls whose mutation took effect at Jules
    report      \* what became of the action, as far as the outbox tells

vars == <<sanction, effects, report>>

Init ==
    /\ sanction = [i \in Item |-> "open"]
    /\ effects = [i \in Item |-> {}]
    /\ report = [i \in Item |-> "none"]

Answer(i, a) ==
    /\ sanction[i] = "open"
    /\ sanction' = [sanction EXCEPT ![i] = a]
    /\ UNCHANGED <<effects, report>>

TakeEffect(i, c) ==
    /\ sanction[i] = "given"
    /\ c \notin effects[i]
    /\ effects' = [effects EXCEPT ![i] = @ \cup {c}]
    /\ UNCHANGED <<sanction, report>>

Report(i, r) ==
    /\ sanction[i] = "given"
    /\ report[i] = "none"
    /\ r = "done" => effects[i] # {}
    /\ report' = [report EXCEPT ![i] = r]
    /\ UNCHANGED <<sanction, effects>>

Next ==
    \E i \in Item :
        \/ \E a \in {"given", "refused"} : Answer(i, a)
        \/ \E c \in Call : TakeEffect(i, c)
        \/ \E r \in {"done", "failed", "uncertain"} : Report(i, r)

Spec == Init /\ [][Next]_vars
=============================================================================
