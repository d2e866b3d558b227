------------------------ MODULE OutboxEffectProofs ------------------------
(***************************************************************************)
(* Proofs about OutboxDispatch: that what it records is true of what Jules *)
(* did, with no assumption; that decision and outbox row agree, and that   *)
(* nothing uncertain is repeated, while live passes keep their locks; and  *)
(* that it implements SanctionedAction.                                    *)
(***************************************************************************)
EXTENDS OutboxRefinement, OutboxProofs

\* A pass past the ledger's insert, and past its claim, has left its mark there.
Ledgered ==
    \A p \in Pass : Working(p) =>
        /\ pc[p] # "create" => MyAttempt(p).status # "NONE"
        /\ pc[p] \notin {"create", "claimAttempt"} => MyAttempt(p).status \notin {"NONE", "PENDING"}

Resuming == \A p \in Pass : pc[p] = "updateSession" => verdict[p] = "SUCCEEDED"

Truth ==
    /\ Ledgered
    /\ EffectsAreLedgered
    /\ Resuming
    /\ SuccessIsTrue

\* The row is the one that the pass claimed.
Mine(p) ==
    /\ outbox[item[p]].status \in InFlight
    /\ outbox[item[p]].claimOwner = WorkerOf[p]
    /\ outbox[item[p]].fencingToken = token[p]

\* Up to the call's answer nobody takes the row away.
Owned == \A p \in Pass : pc[p] \in Prelude \cup Calling => Mine(p)

\* The decision says what the outbox row says.
Agrees(i) ==
    /\ outbox[i].status = "COMPLETED" => decision[i] = "EXECUTED"
    /\ outbox[i].status = "UNCERTAIN" => decision[i] = "UNKNOWN_EFFECT"
    /\ outbox[i].status = "FAILED" => decision[i] = "EXECUTION_FAILED"
    /\ outbox[i].status = "PENDING" => decision[i] = "DISPATCH_REQUESTED"
    /\ outbox[i].status \in InFlight => decision[i] = "EXECUTING"

\* Where a pass is says how far the two rows have come; without a pass at work
\* they agree.
Stages ==
    faults = 0 =>
        /\ \A p \in Pass :
              /\ pc[p] \in {"settleAttempt", "settleOutbox"} => Mine(p)
              /\ pc[p] \in Calling \cup {"settleAttempt", "settleOutbox"} =>
                     decision[item[p]] = "EXECUTING"
              /\ pc[p] = "settleDecision" => outbox[item[p]].status = OutboxStatusFor[verdict[p]]
              /\ pc[p] = "updateSession" => Agrees(item[p])
        /\ \A i \in Item : (\A p \in Pass : Working(p) => item[p] # i) => Agrees(i)
-----------------------------------------------------------------------------
(* Who changes what.                                                       *)

\* A pass changes its own place and variables only; a crash ends it.
LEMMA ActorOrFrame ==
    ASSUME IInv, [Next]_vars, NEW p \in Pass
    PROVE  \/ Advance(p) \/ Abort(p) \/ AbortRelease(p) \/ Catch(p)
           \/ pc'[p] = "idle"
           \/ /\ pc'[p] = pc[p] /\ item'[p] = item[p] /\ token'[p] = token[p]
              /\ number'[p] = number[p] /\ verdict'[p] = verdict[p]
<1> USE DEF Goto, Forget, Settle, local
<1>0. /\ pc \in [Pass -> Step] /\ item \in [Pass -> Item \cup {NoItem}] /\ token \in [Pass -> Nat]
      /\ number \in [Pass -> Nat] /\ verdict \in [Pass -> Ending \cup {"NONE"}]
    BY DEF IInv, TypeOK
<1>1. ASSUME NEW q \in Pass, q # p, Advance(q) \/ Abort(q) \/ AbortRelease(q) \/ Catch(q)
      PROVE  /\ pc'[p] = pc[p] /\ item'[p] = item[p] /\ token'[p] = token[p]
             /\ number'[p] = number[p] /\ verdict'[p] = verdict[p]
    <2>1. CASE BeginPass(q) \/ Scan(q) \/ (\E i \in Item : TakeItem(q, i))
        BY <1>0, <1>1, <2>1 DEF BeginPass, Scan, TakeItem
    <2>2. CASE Claim(q) \/ CreateAttempt(q) \/ ClaimAttempt(q) \/ ExecuteAttempt(q)
               \/ ExecuteOutbox(q) \/ ExecuteDecision(q)
        BY <1>0, <1>1, <2>2 DEF Claim, CreateAttempt, ClaimAttempt, ExecuteAttempt,
            ExecuteOutbox, ExecuteDecision
    <2>3. CASE GetSession(q) \/ Mutate(q) \/ Catch(q)
        BY <1>0, <1>1, <2>3 DEF GetSession, Mutate, Catch
    <2>4. CASE SettleAttempt(q) \/ SettleOutbox(q) \/ SettleDecision(q) \/ UpdateSession(q)
        BY <1>0, <1>1, <2>4 DEF SettleAttempt, SettleOutbox, SettleDecision, UpdateSession
    <2>5. CASE Release(q) \/ Abort(q) \/ AbortRelease(q)
        BY <1>0, <1>1, <2>5 DEF Release, Abort, AbortRelease
    <2> QED BY <1>1, <2>1, <2>2, <2>3, <2>4, <2>5 DEF Advance
<1>2. CASE \E w \in Worker : Crash(w)
    BY <1>0, <1>2 DEF Crash
<1>3. CASE \/ \E i \in Item, answer \in Verdict : Resolve(i, answer)
           \/ \E s \in SafetyState : SetState(s)
           \/ \E r \in Reconciler : Reconcile(r) \/ AbandonRescue(r)
           \/ Lapse
           \/ UNCHANGED vars
    <2>1. UNCHANGED <<pc, item, token, number, verdict>>
        BY <1>3 DEF Resolve, SetState, Reconcile, Recover, Escalate, AbandonRescue, Lapse,
            LapseOutbox, LapseLock, vars
    <2> QED BY <2>1
<1> QED BY <1>1, <1>2, <1>3 DEF Next

\* How a pass gets to a place inside processItem.
LEMMA WithinProcessItem ==
    ASSUME IInv, [Next]_vars, NEW p \in Pass, pc'[p] \in Claimed
    PROVE  \/ Claim(p) /\ pc'[p] = "create"
           \/ /\ pc[p] \in Claimed
              /\ item'[p] = item[p] /\ token'[p] = token[p] /\ number'[p] = number[p]
              /\ \/ pc'[p] = pc[p] /\ verdict'[p] = verdict[p]
                 \/ CreateAttempt(p) /\ pc'[p] = "claimAttempt"
                 \/ ClaimAttempt(p) /\ pc'[p] = "executeAttempt"
                 \/ ExecuteAttempt(p) /\ pc'[p] = "executeOutbox"
                 \/ ExecuteOutbox(p) /\ pc'[p] = "executeDecision"
                 \/ ExecuteDecision(p) /\ pc'[p] = "getSession"
                 \/ GetSession(p) /\ pc'[p] \in {"mutate", "settleAttempt"}
                 \/ Mutate(p) /\ pc'[p] = "settleAttempt"
                 \/ Catch(p) /\ pc'[p] = "settleAttempt"
                 \/ /\ SettleAttempt(p) /\ pc'[p] = "settleOutbox" /\ verdict'[p] = verdict[p]
                    /\ verdict[p] # "RETRY"
                 \/ SettleOutbox(p) /\ pc'[p] = "settleDecision" /\ verdict'[p] = verdict[p]
                 \/ /\ SettleDecision(p) /\ pc'[p] = "updateSession" /\ verdict'[p] = verdict[p]
                    /\ verdict[p] = "SUCCEEDED"
<1> USE DEF Goto, Claimed, Prelude, Calling, Settling
<1>0. pc \in [Pass -> Step]
    BY DEF IInv, TypeOK
<1>1. CASE BeginPass(p) \/ Scan(p) \/ (\E i \in Item : TakeItem(p, i)) \/ Release(p)
           \/ Abort(p) \/ AbortRelease(p) \/ UpdateSession(p)
    BY <1>0, <1>1 DEF BeginPass, Scan, TakeItem, Release, Abort, AbortRelease, UpdateSession
<1>2. CASE Claim(p)
    BY <1>0, <1>2 DEF Claim
<1>3. CASE CreateAttempt(p) \/ ClaimAttempt(p) \/ ExecuteAttempt(p) \/ ExecuteOutbox(p)
           \/ ExecuteDecision(p)
    BY <1>0, <1>3 DEF CreateAttempt, ClaimAttempt, ExecuteAttempt, ExecuteOutbox,
        ExecuteDecision, local
<1>4. CASE GetSession(p) \/ Mutate(p) \/ Catch(p)
    BY <1>0, <1>4 DEF GetSession, Mutate, Catch, Settle
<1>5. CASE SettleAttempt(p) \/ SettleOutbox(p) \/ SettleDecision(p)
    BY <1>0, <1>5 DEF SettleAttempt, SettleOutbox, SettleDecision, local
<1>6. CASE pc'[p] = "idle"
    BY <1>6
<1>7. CASE /\ pc'[p] = pc[p] /\ item'[p] = item[p] /\ token'[p] = token[p]
           /\ number'[p] = number[p] /\ verdict'[p] = verdict[p]
    BY <1>7
<1> QED BY <1>1, <1>2, <1>3, <1>4, <1>5, <1>6, <1>7, ActorOrFrame DEF Advance

\* One ledger row is written, the others stay.
LEMMA OneRowWritten ==
    ASSUME attempt \in [Item -> [AttemptNumber -> AttemptRow]],
           NEW i \in Item, NEW n \in AttemptNumber, NEW row, SetAttempt(i, n, row)
    PROVE  /\ attempt'[i][n] = row
           /\ \A j \in Item, m \in AttemptNumber :
                 <<j, m>> # <<i, n>> => attempt'[j][m] = attempt[j][m]
BY DEF SetAttempt

\* Only a pass in its call has an effect, and effects are not undone.
LEMMA OnlyCallsTakeEffect ==
    ASSUME IInv, [Next]_vars
    PROVE  UNCHANGED applied \/ \E p \in Pass : Mutate(p) /\ Apply(p)
<1> USE DEF local, rows
<1>1. CASE \E p \in Pass : Advance(p)
    <2> PICK p \in Pass : Advance(p)
        BY <1>1
    <2>1. CASE Mutate(p)
        BY <2>1 DEF Mutate
    <2>2. CASE ~Mutate(p)
        BY <2>2 DEF Advance, BeginPass, Scan, TakeItem, Claim, CreateAttempt, ClaimAttempt,
            ExecuteAttempt, ExecuteOutbox, ExecuteDecision, GetSession, SettleAttempt,
            SettleOutbox, SettleDecision, UpdateSession, Release
    <2> QED BY <2>1, <2>2
<1>2. CASE ~\E p \in Pass : Advance(p)
    BY <1>2 DEF Next, Resolve, SetState, Abort, AbortRelease, Catch, Reconcile, Recover,
        Escalate, AbandonRescue, Lapse, LapseOutbox, LapseLock, Crash, vars
<1> QED BY <1>1, <1>2

LEMMA EffectsStay ==
    ASSUME IInv, [Next]_vars
    PROVE  \A i \in Item :
              /\ applied[i] \subseteq applied'[i]
              /\ \A n \in applied'[i] :
                    \/ n \in applied[i]
                    \/ \E p \in Pass : pc[p] = "mutate" /\ item[p] = i /\ number[p] = n
<1>1. CASE UNCHANGED applied
    BY <1>1
<1>2. ASSUME NEW p \in Pass, Mutate(p), Apply(p)
      PROVE  \A i \in Item :
                /\ applied[i] \subseteq applied'[i]
                /\ \A n \in applied'[i] : n \in applied[i] \/ (item[p] = i /\ number[p] = n)
    BY <1>2 DEF Apply, IInv, TypeOK
<1> QED BY <1>1, <1>2, OnlyCallsTakeEffect DEF Mutate

\* A ledger row never becomes open again, and success is written for an effect.
LEMMA LedgerGoesForward ==
    ASSUME IInv, [Next]_vars, NEW i \in Item, NEW n \in AttemptNumber
    PROVE  /\ attempt[i][n].status # "NONE" => attempt'[i][n].status # "NONE"
           /\ attempt[i][n].status \notin {"NONE", "PENDING"} =>
                  attempt'[i][n].status \notin {"NONE", "PENDING"}
           /\ attempt'[i][n].status = "SUCCEEDED" =>
                  attempt[i][n].status = "SUCCEEDED" \/ n \in applied[i]
<1> DEFINE Goal == /\ attempt[i][n].status # "NONE" => attempt'[i][n].status # "NONE"
                   /\ attempt[i][n].status \notin {"NONE", "PENDING"} =>
                          attempt'[i][n].status \notin {"NONE", "PENDING"}
                   /\ attempt'[i][n].status = "SUCCEEDED" =>
                          attempt[i][n].status = "SUCCEEDED" \/ n \in applied[i]
<1>0. attempt \in [Item -> [AttemptNumber -> AttemptRow]]
    BY DEF IInv, TypeOK
<1>1. CASE UNCHANGED attempt
    BY <1>1
<1>2. ASSUME NEW j \in Item, NEW m \in AttemptNumber, NEW row, SetAttempt(j, m, row),
             row.status \notin {"NONE", "PENDING"} \/ attempt[j][m].status = "NONE",
             row.status # "NONE",
             row.status = "SUCCEEDED" => m \in applied[j]
      PROVE  Goal
    BY <1>0, <1>2, OneRowWritten
<1>3. ASSUME NEW p \in Pass,
             CreateAttempt(p) \/ ClaimAttempt(p) \/ ExecuteAttempt(p) \/ SettleAttempt(p)
      PROVE  Goal
    <2>1. item[p] \in Item /\ number[p] \in AttemptNumber
        BY <1>3, NumberInCap DEF CreateAttempt, ClaimAttempt, ExecuteAttempt, SettleAttempt,
            Working, Claimed, Prelude, Settling
    <2>2. MyAttempt(p) \in AttemptRow /\ MyAttempt(p) = attempt[item[p]][number[p]]
        BY <1>0, <2>1 DEF MyAttempt
    <2>3. CASE UNCHANGED attempt
        BY <2>3
    <2>4. CASE CreateAttempt(p)
        <3>1. [NoAttempt EXCEPT !.status = "PENDING", !.fencingToken = 1].status = "PENDING"
            BY DEF NoAttempt
        <3> QED BY <1>2, <2>1, <2>2, <2>4, <3>1 DEF CreateAttempt
    <2>5. CASE ClaimAttempt(p) /\ MyAttempt(p).status = "PENDING"
        <3>1. Reclaimed(MyAttempt(p), WorkerOf[p]).status = "CLAIMED"
            BY DEF Reclaimed
        <3> QED BY <1>2, <2>1, <2>5, <3>1 DEF ClaimAttempt
    <2>6. CASE ExecuteAttempt(p) /\ OwnsAttempt(p, {"CLAIMED"})
        <3>1. [MyAttempt(p) EXCEPT !.status = "EXECUTING"].status = "EXECUTING"
            BY <2>2 DEF AttemptRow
        <3> QED BY <1>2, <2>1, <2>6, <3>1 DEF ExecuteAttempt
    <2>7. CASE SettleAttempt(p) /\ OwnsAttempt(p, InFlight)
        <3> DEFINE row == [MyAttempt(p) EXCEPT !.status = AttemptStatusFor[verdict[p]]]
        <3>1. /\ verdict[p] \in Ending
              /\ verdict[p] = "SUCCEEDED" => number[p] \in applied[item[p]]
            BY <2>7 DEF SettleAttempt, IInv, Endings, Settling
        <3>2. row.status = AttemptStatusFor[verdict[p]]
            BY <2>2 DEF AttemptRow
        <3>3. /\ row.status \notin {"NONE", "PENDING"}
              /\ row.status = "SUCCEEDED" => verdict[p] = "SUCCEEDED"
            BY <3>1, <3>2 DEF Ending, AttemptStatusFor
        <3>4. SetAttempt(item[p], number[p], row)
            BY <2>7 DEF SettleAttempt
        <3> HIDE DEF row
        <3> QED BY <1>2, <2>1, <3>1, <3>3, <3>4
    <2> QED BY <1>3, <2>3, <2>4, <2>5, <2>6, <2>7
            DEF ClaimAttempt, ExecuteAttempt, SettleAttempt
<1>4. ASSUME NEW r \in Reconciler, Reconcile(r) PROVE Goal
    <2>1. ASSUME NEW j \in Item, NEW m \in AttemptNumber, Recover(r, j, m) PROVE Goal
        <3>1. Reclaimed(attempt[j][m], WorkerOf[r]).status = "CLAIMED"
            BY DEF Reclaimed
        <3> QED BY <1>2, <2>1, <3>1 DEF Recover
    <2>2. CASE Escalate(r)
        <3>1. PICK j \in Item, m \in AttemptNumber : rescue[r] = <<j, m>>
            BY <2>2 DEF Escalate, IInv, TypeOK
        <3>2. SetAttempt(j, m, [attempt[j][m] EXCEPT !.status = "NEEDS_RECONCILIATION"])
            BY <2>2, <3>1 DEF Escalate
        <3>3. [attempt[j][m] EXCEPT !.status = "NEEDS_RECONCILIATION"].status
                  = "NEEDS_RECONCILIATION"
            BY <1>0 DEF AttemptRow
        <3> QED BY <1>2, <3>2, <3>3
    <2> QED BY <1>4, <2>1, <2>2 DEF Reconcile
<1>5. \/ UNCHANGED attempt
      \/ \E p \in Pass : CreateAttempt(p) \/ ClaimAttempt(p) \/ ExecuteAttempt(p) \/ SettleAttempt(p)
      \/ \E r \in Reconciler : Reconcile(r)
    BY DEF Next, Advance, BeginPass, Scan, TakeItem, Claim, ExecuteOutbox, ExecuteDecision,
        GetSession, Mutate, SettleOutbox, SettleDecision, UpdateSession, Release, Resolve,
        SetState, Abort, AbortRelease, Catch, AbandonRescue, Lapse, LapseOutbox, LapseLock,
        Crash, vars, rows
<1> QED BY <1>1, <1>3, <1>4, <1>5
-----------------------------------------------------------------------------
(* What is recorded is true.                                               *)

LEMMA LedgeredStep ==
    ASSUME IInv, Ledgered, [Next]_vars
    PROVE  Ledgered'
<1> SUFFICES ASSUME NEW p \in Pass, pc'[p] \in Claimed
             PROVE  /\ pc'[p] # "create" => MyAttempt(p)'.status # "NONE"
                    /\ pc'[p] \notin {"create", "claimAttempt"} =>
                           MyAttempt(p)'.status \notin {"NONE", "PENDING"}
    BY DEF Ledgered, Working
<1>0. attempt \in [Item -> [AttemptNumber -> AttemptRow]]
    BY DEF IInv, TypeOK
<1>1. CASE pc'[p] = "create"
    BY <1>1
<1>2. CASE pc[p] \in Claimed /\ item'[p] = item[p] /\ number'[p] = number[p]
    <2>1. /\ item[p] \in Item /\ number[p] \in AttemptNumber /\ Working(p)
          /\ MyAttempt(p) = attempt[item[p]][number[p]]
          /\ MyAttempt(p)' = attempt'[item[p]][number[p]]
        BY <1>2, NumberInCap DEF MyAttempt, Working
    <2>2. /\ MyAttempt(p).status # "NONE" => MyAttempt(p)'.status # "NONE"
          /\ MyAttempt(p).status \notin {"NONE", "PENDING"} =>
                 MyAttempt(p)'.status \notin {"NONE", "PENDING"}
        BY <2>1, LedgerGoesForward
    <2>3. CASE CreateAttempt(p) /\ pc'[p] = "claimAttempt"
        <3> DEFINE row == [NoAttempt EXCEPT !.status = "PENDING", !.fencingToken = 1]
        <3>1. row.status = "PENDING"
            BY DEF NoAttempt
        <3>2. SetAttempt(item[p], number[p], row)
            BY <2>3 DEF CreateAttempt
        <3> HIDE DEF row
        <3>3. MyAttempt(p)'.status = "PENDING"
            BY <1>0, <2>1, <3>1, <3>2, OneRowWritten
        <3> QED BY <2>3, <3>3
    <2>4. CASE ClaimAttempt(p)
        <3>1. MyAttempt(p).status # "NONE"
            BY <2>1, <2>4 DEF ClaimAttempt, Ledgered
        <3>2. Reclaimed(MyAttempt(p), WorkerOf[p]).status = "CLAIMED"
            BY DEF Reclaimed
        <3>3. CASE MyAttempt(p).status = "PENDING"
            BY <1>0, <2>1, <2>4, <3>2, <3>3, OneRowWritten DEF ClaimAttempt
        <3> QED BY <2>2, <3>1, <3>3
    <2>5. CASE ~(CreateAttempt(p) \/ ClaimAttempt(p))
        <3>1. /\ pc'[p] \notin {"create", "claimAttempt"} => pc[p] \notin {"create", "claimAttempt"}
              /\ pc'[p] = "claimAttempt" => pc[p] # "create"
            BY <1>2, <2>5, WithinProcessItem
            DEF Claim, ExecuteAttempt, ExecuteOutbox, ExecuteDecision, GetSession, Mutate, Catch,
                SettleAttempt, SettleOutbox, SettleDecision, Settling
        <3> QED BY <2>1, <2>2, <3>1 DEF Ledgered
    <2>6. CreateAttempt(p) => pc'[p] = "claimAttempt"
        BY DEF CreateAttempt, Goto, IInv, TypeOK
    <2> QED BY <2>3, <2>4, <2>5, <2>6
<1> QED BY <1>1, <1>2, WithinProcessItem

LEMMA ResumingStep ==
    ASSUME IInv, Resuming, [Next]_vars
    PROVE  Resuming'
<1> SUFFICES ASSUME NEW p \in Pass, pc'[p] = "updateSession"
             PROVE  verdict'[p] = "SUCCEEDED"
    BY DEF Resuming
<1> QED BY WithinProcessItem DEF Resuming, Claimed, Settling

LEMMA EffectsAreLedgeredStep ==
    ASSUME IInv, Truth, [Next]_vars
    PROVE  EffectsAreLedgered'
<1> SUFFICES ASSUME NEW i \in Item, NEW n \in applied'[i]
             PROVE  attempt'[i][n].status \notin {"NONE", "PENDING"}
    BY DEF EffectsAreLedgered
<1>1. n \in AttemptNumber /\ attempt[i][n].status \notin {"NONE", "PENDING"}
    <2>1. CASE n \in applied[i]
        BY <2>1 DEF Truth, EffectsAreLedgered, IInv, TypeOK
    <2>2. ASSUME NEW p \in Pass, pc[p] = "mutate", item[p] = i, number[p] = n
          PROVE  n \in AttemptNumber /\ attempt[i][n].status \notin {"NONE", "PENDING"}
        <3>1. Working(p)
            BY <2>2 DEF Working, Claimed, Calling
        <3>2. MyAttempt(p).status \notin {"NONE", "PENDING"}
            BY <2>2, <3>1 DEF Truth, Ledgered
        <3> QED BY <2>2, <3>1, <3>2, NumberInCap DEF MyAttempt
    <2> QED BY <2>1, <2>2, EffectsStay
<1> QED BY <1>1, LedgerGoesForward

\* The decision is called executed, and the session resumed, for an effect.
LEMMA SuccessIsTrueStep ==
    ASSUME IInv, Truth, [Next]_vars
    PROVE  SuccessIsTrue'
<1>1. \A i \in Item, n \in AttemptNumber :
          attempt'[i][n].status = "SUCCEEDED" => n \in applied'[i]
    BY EffectsStay, LedgerGoesForward DEF Truth, SuccessIsTrue
<1>2. ASSUME NEW i \in Item, decision'[i] = "EXECUTED" PROVE applied'[i] # {}
    <2>1. CASE decision[i] = "EXECUTED"
        BY <2>1, EffectsStay DEF Truth, SuccessIsTrue
    <2>2. CASE \E p \in Pass : SettleDecision(p) /\ item[p] = i /\ DecisionStateFor[verdict[p]] = "EXECUTED"
        <3> PICK p \in Pass : SettleDecision(p) /\ item[p] = i /\ DecisionStateFor[verdict[p]] = "EXECUTED"
            BY <2>2
        <3>1. /\ verdict[p] \in Ending \ {"RETRY"}
              /\ verdict[p] = "SUCCEEDED" => number[p] \in applied[item[p]]
            BY DEF SettleDecision, IInv, Endings, Settling
        <3>2. verdict[p] = "SUCCEEDED"
            BY <3>1 DEF Ending, DecisionStateFor
        <3> QED BY <3>1, <3>2, EffectsStay
    <2>3. decision[i] = "EXECUTED" \/
          \E p \in Pass : SettleDecision(p) /\ item[p] = i /\ DecisionStateFor[verdict[p]] = "EXECUTED"
        <3>0. decision \in [Item -> DecisionState] /\ \A p \in Pass : pc[p] \in Claimed => item[p] \in Item
            BY DEF IInv, TypeOK, Placed
        <3>1. ASSUME NEW j \in Item, NEW answer \in Verdict, Resolve(j, answer)
              PROVE  decision[i] = "EXECUTED"
            BY <1>2, <3>0, <3>1 DEF Resolve
        <3>2. ASSUME NEW p \in Pass, ExecuteDecision(p) PROVE decision[i] = "EXECUTED"
            BY <1>2, <3>0, <3>2 DEF ExecuteDecision
        <3>3. ASSUME NEW p \in Pass, SettleDecision(p)
              PROVE  \/ decision[i] = "EXECUTED"
                     \/ item[p] = i /\ DecisionStateFor[verdict[p]] = "EXECUTED"
            BY <1>2, <3>0, <3>3 DEF SettleDecision, Claimed, Settling
        <3>4. \/ UNCHANGED decision
              \/ \E j \in Item, answer \in Verdict : Resolve(j, answer)
              \/ \E p \in Pass : ExecuteDecision(p) \/ SettleDecision(p)
            BY DEF Next, Advance, BeginPass, Scan, TakeItem, Claim, CreateAttempt, ClaimAttempt,
                ExecuteAttempt, ExecuteOutbox, GetSession, Mutate, SettleAttempt, SettleOutbox,
                UpdateSession, Release, SetState, Abort, AbortRelease, Catch, Reconcile, Recover,
                Escalate, AbandonRescue, Lapse, LapseOutbox, LapseLock, Crash, vars, rows
        <3> QED BY <1>2, <3>1, <3>2, <3>3, <3>4
    <2> QED BY <2>1, <2>2, <2>3
<1>3. ASSUME NEW s \in Session, sessionState'[s] = "IN_PROGRESS"
      PROVE  \E i \in Item : SessionOf[i] = s /\ applied'[i] # {}
    <2>1. CASE sessionState[s] = "IN_PROGRESS"
        <3>1. PICK i \in Item : SessionOf[i] = s /\ applied[i] # {}
            BY <2>1 DEF Truth, SuccessIsTrue
        <3> QED BY <3>1, EffectsStay
    <2>2. ASSUME NEW p \in Pass, UpdateSession(p), SessionOf[item[p]] = s
          PROVE  \E i \in Item : SessionOf[i] = s /\ applied'[i] # {}
        <3>1. /\ item[p] \in Item /\ pc[p] = "updateSession"
              /\ verdict[p] = "SUCCEEDED" /\ number[p] \in applied[item[p]]
            BY <2>2 DEF UpdateSession, IInv, Placed, Endings, Claimed, Settling, Truth, Resuming
        <3> QED BY <2>2, <3>1, EffectsStay
    <2>3. \/ UNCHANGED sessionState
          \/ \E p \in Pass : UpdateSession(p)
        BY DEF Next, Advance, BeginPass, Scan, TakeItem, Claim, CreateAttempt, ClaimAttempt,
            ExecuteAttempt, ExecuteOutbox, ExecuteDecision, GetSession, Mutate, SettleAttempt,
            SettleOutbox, SettleDecision, Release, Resolve, SetState, Abort, AbortRelease, Catch,
            Reconcile, Recover, Escalate, AbandonRescue, Lapse, LapseOutbox, LapseLock, Crash,
            vars, rows
    <2>4. ASSUME NEW p \in Pass, UpdateSession(p), SessionOf[item[p]] # s
          PROVE  sessionState[s] = "IN_PROGRESS"
        BY <1>3, <2>4 DEF UpdateSession, IInv, TypeOK
    <2> QED BY <1>3, <2>1, <2>2, <2>3, <2>4
<1> QED BY <1>1, <1>2, <1>3 DEF SuccessIsTrue

LEMMA InitTruth == Init => Truth
BY DEF Init, Truth, Ledgered, EffectsAreLedgered, Resuming, SuccessIsTrue, Working, Claimed,
    Prelude, Calling, Settling, NoAttempt

\* The invariant of the rows' truthfulness: it needs no lock and no luck.
LEMMA TruthAlways == Spec => []Truth
<1>1. IInv /\ Truth /\ [Next]_vars => Truth'
    BY LedgeredStep, ResumingStep, EffectsAreLedgeredStep, SuccessIsTrueStep DEF Truth
<1> QED BY <1>1, InitTruth, InductiveInvariant, PTL DEF Spec

\* A claimed ledger row precedes every effect at Jules: after a crash at any
\* point the reconciler finds it (execution-attempt.repository.ts).
THEOREM EffectsAreLedgeredAlways == Spec => []EffectsAreLedgered
<1>1. Truth => EffectsAreLedgered
    BY DEF Truth
<1> QED BY <1>1, TruthAlways, PTL

\* SUCCEEDED, EXECUTED and a resumed session are recorded only for what Jules
\* applied, whatever overlaps, fails or crashes.
THEOREM SuccessIsTrueAlways == Spec => []SuccessIsTrue
<1>1. Truth => SuccessIsTrue
    BY DEF Truth
<1> QED BY <1>1, TruthAlways, PTL
-----------------------------------------------------------------------------
(* While live passes keep their locks.                                     *)

\* Nobody else is inside processItem, or about to claim, for the same item.
LEMMA AloneWithItem ==
    ASSUME HolderInside, NEW p \in Pass, NEW q \in Pass, item[p] = item[q],
           pc[p] \in Claimed \cup {"claim", "release"}, pc[q] \in Claimed \cup {"claim", "release"}
    PROVE  p = q
BY DEF HolderInside

LEMMA WhoWritesOutbox ==
    ASSUME IInv, [Next]_vars, NEW i \in Item
    PROVE  \/ outbox'[i] = outbox[i]
           \/ outbox'[i] = [outbox[i] EXCEPT !.lapsed = TRUE]
           \/ \E answer \in Verdict : Resolve(i, answer)
           \/ \E p \in Pass : item[p] = i /\ (Claim(p) \/ ExecuteOutbox(p) \/ SettleOutbox(p))
<1>0. outbox \in [Item -> OutboxRow]
    BY DEF IInv, TypeOK
<1>1. \/ UNCHANGED outbox
      \/ \E j \in Item : LapseOutbox(j)
      \/ \E j \in Item, answer \in Verdict : Resolve(j, answer)
      \/ \E p \in Pass : Claim(p) \/ ExecuteOutbox(p) \/ SettleOutbox(p)
    BY DEF Next, Advance, BeginPass, Scan, TakeItem, CreateAttempt, ClaimAttempt,
        ExecuteAttempt, ExecuteDecision, GetSession, Mutate, SettleAttempt, SettleDecision,
        UpdateSession, Release, SetState, Abort, AbortRelease, Catch, Reconcile, Recover,
        Escalate, AbandonRescue, Lapse, LapseLock, Crash, vars, rows
<1>2. ASSUME NEW j \in Item, LapseOutbox(j)
      PROVE  outbox'[i] = outbox[i] \/ outbox'[i] = [outbox[i] EXCEPT !.lapsed = TRUE]
    BY <1>0, <1>2 DEF LapseOutbox
<1>3. ASSUME NEW j \in Item, NEW answer \in Verdict, Resolve(j, answer), j # i
      PROVE  outbox'[i] = outbox[i]
    BY <1>0, <1>3 DEF Resolve
<1>4. ASSUME NEW p \in Pass, Claim(p) \/ ExecuteOutbox(p) \/ SettleOutbox(p), item[p] # i
      PROVE  outbox'[i] = outbox[i]
    BY <1>0, <1>4 DEF Claim, ExecuteOutbox, SettleOutbox
<1> QED BY <1>1, <1>2, <1>3, <1>4

LEMMA WhoWritesDecision ==
    ASSUME IInv, [Next]_vars, NEW i \in Item
    PROVE  \/ decision'[i] = decision[i]
           \/ \E answer \in Verdict : Resolve(i, answer)
           \/ \E p \in Pass : item[p] = i /\ (ExecuteDecision(p) \/ SettleDecision(p))
<1>0. decision \in [Item -> DecisionState]
    BY DEF IInv, TypeOK
<1>1. \/ UNCHANGED decision
      \/ \E j \in Item, answer \in Verdict : Resolve(j, answer)
      \/ \E p \in Pass : ExecuteDecision(p) \/ SettleDecision(p)
    BY DEF Next, Advance, BeginPass, Scan, TakeItem, Claim, CreateAttempt, ClaimAttempt,
        ExecuteAttempt, ExecuteOutbox, GetSession, Mutate, SettleAttempt, SettleOutbox,
        UpdateSession, Release, SetState, Abort, AbortRelease, Catch, Reconcile, Recover,
        Escalate, AbandonRescue, Lapse, LapseOutbox, LapseLock, Crash, vars, rows
<1>2. ASSUME NEW j \in Item, NEW answer \in Verdict, Resolve(j, answer), j # i
      PROVE  decision'[i] = decision[i]
    BY <1>0, <1>2 DEF Resolve
<1>3. ASSUME NEW p \in Pass, ExecuteDecision(p) \/ SettleDecision(p), item[p] # i
      PROVE  decision'[i] = decision[i]
    BY <1>0, <1>3 DEF ExecuteDecision, SettleDecision
<1> QED BY <1>1, <1>2, <1>3

\* An item at work was sanctioned: its approval is closed.
LEMMA AtWorkIsResolved ==
    ASSUME IInv, NEW p \in Pass, pc[p] \in Claimed
    PROVE  /\ item[p] \in Item
           /\ ~Open(item[p])
           /\ outbox[item[p]].status # "NONE"
<1>1. item[p] \in Item /\ number[p] \in 1..outbox[item[p]].attempts
    BY DEF IInv, Placed, Claims, Working
<1>2. outbox[item[p]] # NoOutbox
    BY <1>1 DEF NoOutbox
<1> QED BY <1>1, <1>2 DEF IInv, Staged, Open, Sanctioning

\* What a pass claimed remains its own until it settles the row.
LEMMA MineKept ==
    ASSUME IInv, HolderInside, [Next]_vars, NEW p \in Pass, pc[p] \in Claimed, Mine(p),
           ~SettleOutbox(p), item'[p] = item[p], token'[p] = token[p]
    PROVE  Mine(p)'
<1> DEFINE i == item[p]
<1>0. i \in Item /\ outbox \in [Item -> OutboxRow] /\ ~Open(i)
    BY AtWorkIsResolved DEF IInv, TypeOK
<1>1. CASE outbox'[i] = outbox[i]
    BY <1>1 DEF Mine
<1>2. CASE outbox'[i] = [outbox[i] EXCEPT !.lapsed = TRUE]
    BY <1>0, <1>2 DEF Mine, OutboxRow
<1>3. ASSUME NEW q \in Pass, item[q] = i, Claim(q) \/ ExecuteOutbox(q) \/ SettleOutbox(q)
      PROVE  Mine(p)'
    <2>1. q = p
        BY <1>3, AloneWithItem DEF Claim, ExecuteOutbox, SettleOutbox, Claimed, Prelude, Settling
    <2>2. ExecuteOutbox(p)
        BY <1>3, <2>1 DEF Claim, Claimed, Prelude, Calling, Settling
    <2>3. \/ outbox'[i] = outbox[i]
          \/ outbox'[i] = [outbox[i] EXCEPT !.status = "EXECUTING"]
        BY <1>0, <2>2 DEF ExecuteOutbox
    <2> QED BY <1>0, <1>1, <2>3 DEF Mine, OutboxRow, InFlight
<1> QED BY <1>0, <1>1, <1>2, <1>3, WhoWritesOutbox DEF Resolve

\* The claim makes the row the pass's own.
LEMMA ClaimMakesMine ==
    ASSUME IInv, NEW p \in Pass, Claim(p), pc'[p] = "create"
    PROVE  Mine(p)'
<1> DEFINE i == item[p]
<1>1. i \in Item
    BY DEF Claim, IInv, Placed
<1>2. /\ outbox' = [outbox EXCEPT ![i] = Leased(@, WorkerOf[p])]
      /\ token' = [token EXCEPT ![p] = Leased(outbox[i], WorkerOf[p]).fencingToken]
      /\ item' = item
    BY DEF Claim, Goto, IInv, TypeOK
<1>3. /\ outbox'[i] = Leased(outbox[i], WorkerOf[p])
      /\ token'[p] = Leased(outbox[i], WorkerOf[p]).fencingToken
    BY <1>1, <1>2 DEF IInv, TypeOK
<1> QED BY <1>2, <1>3 DEF Mine, Leased, InFlight

LEMMA OwnedStep ==
    ASSUME IInv, HolderInside, Owned, [Next]_vars
    PROVE  Owned'
<1> SUFFICES ASSUME NEW p \in Pass, pc'[p] \in Prelude \cup Calling PROVE Mine(p)'
    BY DEF Owned
<1>1. CASE Claim(p) /\ pc'[p] = "create"
    BY <1>1, ClaimMakesMine
<1>2. CASE ~(Claim(p) /\ pc'[p] = "create")
    <2>1. pc[p] \in Claimed /\ item'[p] = item[p] /\ token'[p] = token[p]
        BY <1>2, WithinProcessItem DEF Claimed
    <2>2. pc[p] \in Prelude \cup Calling
        BY <1>2, WithinProcessItem
        DEF Claimed, Prelude, Calling, Settling, CreateAttempt, ClaimAttempt, ExecuteAttempt,
            ExecuteOutbox, ExecuteDecision, GetSession
    <2>3. ~SettleOutbox(p)
        BY <2>2 DEF SettleOutbox, Prelude, Calling
    <2> QED BY <2>1, <2>2, <2>3, MineKept DEF Owned
<1> QED BY <1>1, <1>2

\* Without a fault nothing throws.
LEMMA NothingThrows ==
    ASSUME IInv, [Next]_vars, faults' = 0
    PROVE  /\ faults = 0
           /\ \A p \in Pass : ~Abort(p) /\ ~AbortRelease(p) /\ ~Catch(p)
           /\ \A w \in Worker : ~Crash(w)
<1>1. faults \in Nat
    BY ConstantsAssumption DEF IInv, TypeOK
<1>2. /\ \A p \in Pass : ~Abort(p) /\ ~AbortRelease(p) /\ ~Catch(p)
      /\ \A w \in Worker : ~Crash(w)
      /\ \A r \in Reconciler : ~AbandonRescue(r)
    BY <1>1 DEF Abort, AbortRelease, Catch, Crash, AbandonRescue, Fault
<1>3. faults' = faults
    BY <1>2 DEF Next, Advance, BeginPass, Scan, TakeItem, Claim, CreateAttempt, ClaimAttempt,
        ExecuteAttempt, ExecuteOutbox, ExecuteDecision, GetSession, Mutate, SettleAttempt,
        SettleOutbox, SettleDecision, UpdateSession, Release, Resolve, SetState, Reconcile,
        Recover, Escalate, Lapse, LapseOutbox, LapseLock, vars
<1> QED BY <1>2, <1>3

\* Then processItem is left at three places only.
LEMMA LeavesProcessItem ==
    ASSUME IInv, [Next]_vars, faults' = 0, NEW p \in Pass, pc[p] \in Claimed, pc'[p] \notin Claimed
    PROVE  \/ SettleAttempt(p) /\ verdict[p] = "RETRY"
           \/ SettleDecision(p)
           \/ UpdateSession(p)
<1> USE DEF Goto, Claimed, Prelude, Calling, Settling
<1>0. /\ pc \in [Pass -> Step] /\ \A q \in Pass : ~Abort(q) /\ ~AbortRelease(q) /\ ~Catch(q)
      /\ \A w \in Worker : ~Crash(w)
    BY NothingThrows DEF IInv, TypeOK
<1>1. \/ Advance(p)
      \/ pc'[p] = pc[p]
    <2>1. ASSUME NEW q \in Pass, q # p, Advance(q) PROVE pc'[p] = pc[p]
        BY <1>0, <2>1 DEF Advance, BeginPass, Scan, TakeItem, Claim, CreateAttempt,
            ClaimAttempt, ExecuteAttempt, ExecuteOutbox, ExecuteDecision, GetSession, Mutate,
            SettleAttempt, SettleOutbox, SettleDecision, UpdateSession, Release, Settle
    <2>2. CASE UNCHANGED pc
        BY <2>2
    <2>3. \/ \E q \in Pass : Advance(q)
          \/ UNCHANGED pc
        BY <1>0 DEF Next, Resolve, SetState, Reconcile, Recover, Escalate, AbandonRescue, Lapse,
            LapseOutbox, LapseLock, vars
    <2> QED BY <2>1, <2>2, <2>3
<1>2. ~(BeginPass(p) \/ Scan(p) \/ (\E i \in Item : TakeItem(p, i)) \/ Claim(p) \/ Release(p))
    BY DEF BeginPass, Scan, TakeItem, Claim, Release
<1>3. ~(CreateAttempt(p) \/ ClaimAttempt(p) \/ ExecuteAttempt(p) \/ ExecuteOutbox(p)
        \/ ExecuteDecision(p))
    BY <1>0 DEF CreateAttempt, ClaimAttempt, ExecuteAttempt, ExecuteOutbox, ExecuteDecision
<1>4. ~(GetSession(p) \/ Mutate(p))
    BY <1>0 DEF GetSession, Mutate, Settle
<1>5. SettleAttempt(p) => verdict[p] = "RETRY"
    BY <1>0 DEF SettleAttempt
<1>6. ~SettleOutbox(p)
    BY <1>0 DEF SettleOutbox
<1> QED BY <1>1, <1>2, <1>3, <1>4, <1>5, <1>6 DEF Advance

\* The row's status and the decision of an item at work change by that work only.
LEMMA OthersLeaveAlone ==
    ASSUME IInv, HolderInside, [Next]_vars, NEW p \in Pass, pc[p] \in Claimed
    PROVE  LET i == item[p] IN
           /\ ~ExecuteOutbox(p) /\ ~SettleOutbox(p) => outbox'[i].status = outbox[i].status
           /\ ~ExecuteDecision(p) /\ ~SettleDecision(p) => decision'[i] = decision[i]
<1> DEFINE i == item[p]
<1>0. i \in Item /\ outbox \in [Item -> OutboxRow] /\ ~Open(i)
    BY AtWorkIsResolved DEF IInv, TypeOK
<1>1. \A q \in Pass : item[q] = i /\ pc[q] \in Claimed \cup {"claim"} => q = p
    BY AloneWithItem
<1>2. ~Claim(p)
    BY DEF Claim, Claimed, Prelude, Calling, Settling
<1>3. ~ExecuteOutbox(p) /\ ~SettleOutbox(p) => outbox'[i].status = outbox[i].status
    <2>1. [outbox[i] EXCEPT !.lapsed = TRUE].status = outbox[i].status
        BY <1>0 DEF OutboxRow
    <2>2. \A answer \in Verdict : ~Resolve(i, answer)
        BY <1>0 DEF Resolve
    <2>3. \A q \in Pass : item[q] = i /\ (Claim(q) \/ ExecuteOutbox(q) \/ SettleOutbox(q)) => q = p
        BY <1>1 DEF Claim, ExecuteOutbox, SettleOutbox, Claimed, Prelude, Settling
    <2> QED BY <1>0, <1>2, <2>1, <2>2, <2>3, WhoWritesOutbox
<1>4. ~ExecuteDecision(p) /\ ~SettleDecision(p) => decision'[i] = decision[i]
    <2>1. \A answer \in Verdict : ~Resolve(i, answer)
        BY <1>0 DEF Resolve
    <2>2. \A q \in Pass : item[q] = i /\ (ExecuteDecision(q) \/ SettleDecision(q)) => q = p
        BY <1>1 DEF ExecuteDecision, SettleDecision, Claimed, Prelude, Settling
    <2> QED BY <1>0, <2>1, <2>2, WhoWritesDecision
<1> QED BY <1>3, <1>4

\* The last two writes of an ending make the two rows agree.
LEMMA SettledAgrees ==
    ASSUME IInv, NEW p \in Pass, SettleDecision(p),
           outbox[item[p]].status = OutboxStatusFor[verdict[p]]
    PROVE  Agrees(item[p])'
<1>1. /\ item[p] \in Item /\ verdict[p] \in Ending \ {"RETRY"}
      /\ decision \in [Item -> DecisionState]
    BY DEF SettleDecision, IInv, TypeOK, Placed, Endings, Claimed, Settling
<1>2. /\ decision'[item[p]] = DecisionStateFor[verdict[p]]
      /\ outbox' = outbox /\ item' = item
    BY <1>1 DEF SettleDecision, local
<1> QED BY <1>1, <1>2 DEF Agrees, Ending, OutboxStatusFor, DecisionStateFor, InFlight

LEMMA StagesStep ==
    ASSUME IInv, HolderInside, Owned, Stages, [Next]_vars
    PROVE  Stages'
<1> SUFFICES ASSUME faults' = 0
             PROVE  /\ \A p \in Pass :
                          /\ pc'[p] \in {"settleAttempt", "settleOutbox"} => Mine(p)'
                          /\ pc'[p] \in Calling \cup {"settleAttempt", "settleOutbox"} =>
                                 decision'[item'[p]] = "EXECUTING"
                          /\ pc'[p] = "settleDecision" =>
                                 outbox'[item'[p]].status = OutboxStatusFor[verdict'[p]]
                          /\ pc'[p] = "updateSession" => Agrees(item[p])'
                    /\ \A i \in Item : (\A p \in Pass : Working(p)' => item'[p] # i) => Agrees(i)'
    BY DEF Stages
<1>0. /\ faults = 0 /\ \A p \in Pass : ~Catch(p)
      /\ outbox \in [Item -> OutboxRow] /\ decision \in [Item -> DecisionState]
    BY NothingThrows DEF IInv, TypeOK
<1>1. ASSUME NEW p \in Pass, pc'[p] \in Claimed, pc'[p] \notin Prelude
      PROVE  /\ pc[p] \in Claimed /\ item'[p] = item[p] /\ token'[p] = token[p]
             /\ item[p] \in Item
      BY <1>1, WithinProcessItem, AtWorkIsResolved DEF Prelude
<1>2. ASSUME NEW p \in Pass, pc'[p] \in {"settleAttempt", "settleOutbox"} PROVE Mine(p)'
    <2>1. pc'[p] \in Claimed /\ pc'[p] \notin Prelude
        BY <1>2 DEF Claimed, Settling, Prelude
    <2>2. /\ pc[p] \in Calling \cup {"settleAttempt", "settleOutbox"} /\ ~SettleOutbox(p)
        BY <1>0, <1>2, <2>1, WithinProcessItem
        DEF Calling, GetSession, Mutate, SettleAttempt, SettleOutbox, Goto, IInv, TypeOK
    <2>3. Mine(p)
        BY <1>0, <2>2 DEF Owned, Stages
    <2> QED BY <1>1, <2>1, <2>2, <2>3, MineKept
<1>3. ASSUME NEW p \in Pass, pc'[p] \in Calling \cup {"settleAttempt", "settleOutbox"}
      PROVE  decision'[item'[p]] = "EXECUTING"
    <2>1. pc'[p] \in Claimed /\ pc'[p] \notin Prelude
        BY <1>3 DEF Claimed, Settling, Calling, Prelude
    <2>2. CASE ExecuteDecision(p)
        BY <1>0, <1>1, <2>1, <2>2 DEF ExecuteDecision
    <2>3. CASE ~ExecuteDecision(p)
        <3>1. /\ pc[p] \in Calling \cup {"settleAttempt", "settleOutbox"} /\ ~SettleDecision(p)
            BY <1>0, <1>3, <2>1, <2>3, WithinProcessItem
            DEF Calling, GetSession, Mutate, SettleAttempt, SettleDecision, Goto, IInv, TypeOK
        <3>2. decision[item[p]] = "EXECUTING"
            BY <1>0, <3>1 DEF Stages
        <3> QED BY <1>1, <2>1, <2>3, <3>1, <3>2, OthersLeaveAlone
    <2> QED BY <2>2, <2>3
<1>4. ASSUME NEW p \in Pass, pc'[p] = "settleDecision"
      PROVE  outbox'[item'[p]].status = OutboxStatusFor[verdict'[p]]
    <2>1. pc'[p] \in Claimed /\ pc'[p] \notin Prelude
        BY <1>4 DEF Claimed, Settling, Prelude
    <2>2. CASE SettleOutbox(p)
        <3>1. Mine(p) /\ OwnsOutbox(p, InFlight)
            BY <1>0, <2>2 DEF SettleOutbox, Stages, Mine, OwnsOutbox
        <3>2. outbox'[item[p]] = [outbox[item[p]] EXCEPT !.status = OutboxStatusFor[verdict[p]]]
            BY <1>0, <1>1, <2>1, <2>2, <3>1 DEF SettleOutbox
        <3>3. outbox'[item[p]].status = OutboxStatusFor[verdict[p]]
            BY <1>0, <1>1, <2>1, <3>2 DEF OutboxRow
        <3> QED BY <2>2, <3>3 DEF SettleOutbox, local
    <2>3. CASE ~SettleOutbox(p)
        <3>1. pc[p] = "settleDecision" /\ verdict'[p] = verdict[p] /\ ~ExecuteOutbox(p)
            BY <1>0, <1>4, <2>1, <2>3, WithinProcessItem DEF ExecuteOutbox
        <3>2. outbox[item[p]].status = OutboxStatusFor[verdict[p]]
            BY <1>0, <3>1 DEF Stages
        <3> QED BY <1>1, <2>1, <2>3, <3>1, <3>2, OthersLeaveAlone
    <2> QED BY <2>2, <2>3
<1>5. ASSUME NEW p \in Pass, pc'[p] = "updateSession" PROVE Agrees(item[p])'
    <2>1. pc'[p] \in Claimed /\ pc'[p] \notin Prelude
        BY <1>5 DEF Claimed, Settling, Prelude
    <2>2. CASE SettleDecision(p)
        <3>1. outbox[item[p]].status = OutboxStatusFor[verdict[p]]
            BY <1>0, <2>2 DEF SettleDecision, Stages
        <3> QED BY <2>2, <3>1, SettledAgrees
    <2>3. CASE ~SettleDecision(p)
        <3>1. pc[p] = "updateSession"
            BY <1>0, <1>5, <2>1, <2>3, WithinProcessItem
        <3>2. Agrees(item[p])
            BY <1>0, <3>1 DEF Stages
        <3>3. /\ outbox'[item[p]].status = outbox[item[p]].status
              /\ decision'[item[p]] = decision[item[p]]
            BY <1>1, <2>1, <3>1, OthersLeaveAlone
               DEF ExecuteOutbox, SettleOutbox, ExecuteDecision, SettleDecision
        <3> QED BY <1>1, <2>1, <3>2, <3>3 DEF Agrees
    <2> QED BY <2>2, <2>3
<1>6. ASSUME NEW i \in Item, \A p \in Pass : Working(p)' => item'[p] # i
      PROVE  Agrees(i)'
    <2>1. CASE \A p \in Pass : Working(p) => item[p] # i
        <3>1. Agrees(i)
            BY <1>0, <2>1 DEF Stages
        <3>2. ASSUME NEW answer \in Verdict, Resolve(i, answer) PROVE Agrees(i)'
            <4>1. CASE answer \in Sanctioning
                <5>1. decision'[i] = "DISPATCH_REQUESTED"
                    BY <1>0, <3>2, <4>1 DEF Resolve
                <5>2. outbox'[i] = [NoOutbox EXCEPT !.status = "PENDING", !.fencingToken = 1]
                    BY <1>0, <3>2, <4>1 DEF Resolve
                <5>3. outbox'[i].status = "PENDING"
                    BY <5>2 DEF NoOutbox
                <5> QED BY <5>1, <5>3 DEF Agrees, InFlight
            <4>2. CASE answer \notin Sanctioning
                <5>1. outbox'[i] = NoOutbox
                    BY <3>2, <4>2 DEF Resolve, Open, IInv, Staged, Sanctioning
                <5> QED BY <5>1 DEF Agrees, NoOutbox, InFlight
            <4> QED BY <4>1, <4>2
        <3>3. ASSUME \A answer \in Verdict : ~Resolve(i, answer) PROVE Agrees(i)'
            <4>1. decision'[i] = decision[i]
                BY <2>1, <3>3, WhoWritesDecision
                DEF ExecuteDecision, SettleDecision, Working, Claimed, Prelude, Settling
            <4>2. ASSUME NEW p \in Pass, item[p] = i, Claim(p) PROVE outbox'[i] = outbox[i]
                <5>1. pc'[p] # "create"
                    BY <1>6, <4>2 DEF Claim, Working, Claimed, Prelude
                <5> QED BY <4>2, <5>1 DEF Claim, Goto, IInv, TypeOK
            <4>3. outbox'[i] = outbox[i] \/ outbox'[i] = [outbox[i] EXCEPT !.lapsed = TRUE]
                BY <2>1, <3>3, <4>2, WhoWritesOutbox
                DEF ExecuteOutbox, SettleOutbox, Working, Claimed, Prelude, Settling
            <4>4. outbox'[i].status = outbox[i].status
                BY <1>0, <4>3 DEF OutboxRow
            <4> QED BY <3>1, <4>1, <4>4 DEF Agrees
        <3> QED BY <3>2, <3>3
    <2>2. ASSUME NEW p \in Pass, Working(p), item[p] = i PROVE Agrees(i)'
        <3>1. pc'[p] \notin Claimed
            BY <1>6, <2>2, WithinProcessItem DEF Working, Claim, Claimed, Prelude, Calling, Settling
        <3>2. CASE SettleAttempt(p) /\ verdict[p] = "RETRY"
            <4>1. Mine(p) /\ decision[i] = "EXECUTING"
                BY <1>0, <2>2, <3>2 DEF SettleAttempt, Stages
            <4> QED BY <2>2, <3>2, <4>1 DEF SettleAttempt, Mine, Agrees, InFlight
        <3>3. CASE SettleDecision(p)
            <4>1. outbox[item[p]].status = OutboxStatusFor[verdict[p]] /\ item' = item
                BY <1>0, <3>3 DEF SettleDecision, Stages, local
            <4> QED BY <2>2, <3>3, <4>1, SettledAgrees
        <3>4. CASE UpdateSession(p)
            BY <1>0, <2>2, <3>4 DEF UpdateSession, Stages, Agrees
        <3> QED BY <2>2, <3>1, <3>2, <3>3, <3>4, LeavesProcessItem DEF Working
    <2> QED BY <2>1, <2>2
<1> QED BY <1>2, <1>3, <1>4, <1>5, <1>6

LEMMA OwnershipAlways == ~RenewalMayFail /\ Spec => [](Owned /\ Stages)
<1> SUFFICES ASSUME ~RenewalMayFail PROVE Spec => [](Owned /\ Stages)
    OBVIOUS
<1>1. Init => Owned /\ Stages
    BY DEF Init, Owned, Stages, Prelude, Calling, Agrees, NoOutbox, InFlight
<1>2. IInv /\ HolderInside /\ (Owned /\ Stages) /\ [Next]_vars => (Owned /\ Stages)'
    BY OwnedStep, StagesStep
<1> QED BY <1>1, <1>2, InductiveInvariant, HolderInsideAlways, PTL DEF Spec

\* While live passes keep their locks, and until a first call fails, decision
\* and outbox row agree on every item nobody is working on, although they are
\* written apart and the decision's write checks nothing.
THEOREM DecisionFollowsOutboxAlways == ~RenewalMayFail /\ Spec => []DecisionFollowsOutbox
<1>1. IInv /\ Stages => DecisionFollowsOutbox
    <2> SUFFICES ASSUME IInv, Stages, NEW i \in Item, faults = 0,
                        \A p \in Pass : Working(p) => item[p] # i
                 PROVE  decision[i] = CASE outbox[i].status = "COMPLETED" -> "EXECUTED"
                                        [] outbox[i].status = "UNCERTAIN" -> "UNKNOWN_EFFECT"
                                        [] outbox[i].status = "FAILED" -> "EXECUTION_FAILED"
                                        [] outbox[i].status = "PENDING" -> "DISPATCH_REQUESTED"
                                        [] outbox[i].status \in InFlight -> "EXECUTING"
                                        [] OTHER -> decision[i]
        BY DEF DecisionFollowsOutbox
    <2> QED BY DEF Stages, Agrees, InFlight
<1> QED BY <1>1, InductiveInvariant, OwnershipAlways, PTL

\* While live passes keep their locks, an outcome recorded as UNCERTAIN is the
\* end of it at Jules: nobody is about to call for that item.
THEOREM UncertainNeverReplayedAlways == ~RenewalMayFail /\ Spec => UncertainNeverReplayed
<1>1. IInv /\ Owned /\ [Next]_vars =>
          [\A i \in Item : outbox[i].status = "UNCERTAIN" => applied'[i] = applied[i]]_vars
    <2> SUFFICES ASSUME IInv, Owned, [Next]_vars, NEW i \in Item, outbox[i].status = "UNCERTAIN"
                 PROVE  applied'[i] = applied[i]
        OBVIOUS
    <2>1. ASSUME NEW p \in Pass, Mutate(p), Apply(p) PROVE applied'[i] = applied[i]
        <3>1. outbox[item[p]].status \in InFlight
            BY <2>1 DEF Mutate, Owned, Mine, Calling
        <3>2. item[p] # i
            BY <3>1 DEF InFlight
        <3> QED BY <2>1, <3>2 DEF Apply, IInv, TypeOK
    <2> QED BY <2>1, OnlyCallsTakeEffect
<1> QED BY <1>1, InductiveInvariant, OwnershipAlways, PTL DEF Spec, UncertainNeverReplayed
-----------------------------------------------------------------------------
(* The outbox implements SanctionedAction, for every instance.             *)

\* Only a settling owner gives a row a terminal status.
LEMMA OtherStepsStutter ==
    ASSUME IInv, UNCHANGED <<approval, applied>>,
           \A i \in Item : ReportOf(i)' = ReportOf(i)
    PROVE  UNCHANGED Promise!vars
<1>1. [i \in Item |-> SanctionOf(i)]' = [i \in Item |-> SanctionOf(i)]
    BY DEF SanctionOf
<1>2. [i \in Item |-> ReportOf(i)]' = [i \in Item |-> ReportOf(i)]
    OBVIOUS
<1> QED BY <1>1, <1>2 DEF Promise!vars

LEMMA ResolveAnswers ==
    ASSUME IInv, NEW i \in Item, NEW answer \in Verdict, Resolve(i, answer)
    PROVE  Promise!Next
<1>1. /\ approval[i] = "PENDING" /\ answer \in Resolution
      /\ approval' = [approval EXCEPT ![i] = answer]
      /\ approval \in [Item -> {"PENDING"} \cup Resolution]
      /\ outbox \in [Item -> OutboxRow]
      /\ applied' = applied
    BY ConstantsAssumption DEF Resolve, Open, IInv, TypeOK
<1>2. outbox[i].status = "NONE"
    BY <1>1 DEF IInv, Staged, Sanctioning, NoOutbox
<1>3. /\ \A j \in Item : j # i => outbox'[j] = outbox[j]
      /\ outbox'[i].status \in {"NONE", "PENDING"}
    BY <1>1, <1>2 DEF Resolve, NoOutbox
<1> DEFINE a == IF answer \in Sanctioning THEN "given" ELSE "refused"
<1>4. [j \in Item |-> SanctionOf(j)]' = [[j \in Item |-> SanctionOf(j)] EXCEPT ![i] = a]
    <2>1. \A j \in Item : j # i => SanctionOf(j)' = SanctionOf(j)
        BY <1>1 DEF SanctionOf
    <2>2. SanctionOf(i)' = a
        BY <1>1 DEF SanctionOf, Resolution, Sanctioning
    <2> QED BY <2>1, <2>2
<1>5. [j \in Item |-> ReportOf(j)]' = [j \in Item |-> ReportOf(j)]
    BY <1>2, <1>3 DEF ReportOf
<1>6. SanctionOf(i) = "open"
    BY <1>1 DEF SanctionOf, Sanctioning
<1>7. Promise!Answer(i, a)
    BY <1>1, <1>4, <1>5, <1>6 DEF Promise!Answer
<1> QED BY <1>7 DEF Promise!Next

LEMMA MutateTakesEffect ==
    ASSUME IInv, NEW p \in Pass, Mutate(p)
    PROVE  [Promise!Next]_(Promise!vars)
<1>1. /\ item[p] \in Item /\ number[p] \in AttemptNumber
      /\ number[p] \in 1..outbox[item[p]].attempts
    BY NumberInCap DEF Mutate, Working, Claimed, Calling, IInv, Claims
<1>2. UNCHANGED <<approval, outbox>> /\ applied \in [Item -> SUBSET AttemptNumber]
    BY DEF Mutate, rows, IInv, TypeOK
<1>3. SanctionOf(item[p]) = "given"
    <2>1. outbox[item[p]] # NoOutbox
        BY <1>1 DEF NoOutbox
    <2>2. approval[item[p]] \in Sanctioning
        BY <1>1, <2>1 DEF IInv, Staged
    <2> QED BY <2>2 DEF SanctionOf, Sanctioning
<1>4. /\ [j \in Item |-> SanctionOf(j)]' = [j \in Item |-> SanctionOf(j)]
      /\ [j \in Item |-> ReportOf(j)]' = [j \in Item |-> ReportOf(j)]
    BY <1>2 DEF SanctionOf, ReportOf
<1>5. Apply(p) \/ UNCHANGED applied
    BY DEF Mutate
<1>6. CASE applied' = applied
    BY <1>4, <1>6 DEF Promise!vars
<1>7. CASE applied' # applied
    <2>1. /\ number[p] \notin applied[item[p]]
          /\ applied' = [applied EXCEPT ![item[p]] = applied[item[p]] \cup {number[p]}]
        BY <1>1, <1>2, <1>5, <1>7 DEF Apply
    <2>2. Promise!TakeEffect(item[p], number[p])
        BY <1>1, <1>3, <1>4, <2>1 DEF Promise!TakeEffect
    <2> QED BY <1>1, <2>2 DEF Promise!Next
<1> QED BY <1>6, <1>7

LEMMA SettleOutboxReports ==
    ASSUME IInv, NEW p \in Pass, SettleOutbox(p)
    PROVE  [Promise!Next]_(Promise!vars)
<1> DEFINE i == item[p]
<1>1. /\ i \in Item /\ outbox \in [Item -> OutboxRow]
      /\ verdict[p] \in {"SUCCEEDED", "UNKNOWN", "FINAL"}
      /\ verdict[p] = "SUCCEEDED" => number[p] \in applied[i]
    BY DEF SettleOutbox, IInv, Placed, TypeOK, Endings, Ending, Settling, Claimed
<1>2. UNCHANGED <<approval, applied>>
    BY DEF SettleOutbox
<1>3. CASE outbox' = outbox
    BY <1>2, <1>3, OtherStepsStutter DEF ReportOf
<1>4. CASE /\ OwnsOutbox(p, InFlight)
           /\ outbox' = [outbox EXCEPT ![i] = [outbox[i] EXCEPT !.status = OutboxStatusFor[verdict[p]]]]
    <2> DEFINE r == CASE verdict[p] = "SUCCEEDED" -> "done"
                      [] verdict[p] = "UNKNOWN" -> "uncertain"
                      [] OTHER -> "failed"
    <2>1. outbox[i].status \in InFlight
        BY <1>4 DEF OwnsOutbox
    <2>2. /\ \A j \in Item : j # i => outbox'[j] = outbox[j]
          /\ outbox'[i].status = OutboxStatusFor[verdict[p]]
        BY <1>1, <1>4 DEF OutboxRow
    <2>3. ReportOf(i) = "none"
        BY <2>1 DEF InFlight, ReportOf
    <2>4. (CASE outbox'[i].status = "COMPLETED" -> "done"
             [] outbox'[i].status = "FAILED" -> "failed"
             [] outbox'[i].status = "UNCERTAIN" -> "uncertain"
             [] OTHER -> "none") = r
        BY <1>1, <2>2 DEF OutboxStatusFor
    <2>5. [j \in Item |-> ReportOf(j)]' = [[j \in Item |-> ReportOf(j)] EXCEPT ![i] = r]
        <3>1. \A j \in Item : j # i => ReportOf(j)' = ReportOf(j)
            BY <2>2 DEF ReportOf
        <3>2. \A j \in Item : j = i => ReportOf(j)' = r
            BY <2>4 DEF ReportOf
        <3> HIDE DEF r, i
        <3> QED BY <1>1, <3>1, <3>2
    <2>6. [j \in Item |-> SanctionOf(j)]' = [j \in Item |-> SanctionOf(j)]
        BY <1>2 DEF SanctionOf
    <2>7. SanctionOf(i) = "given"
        <3>1. outbox[i] # NoOutbox
            BY <2>1 DEF NoOutbox, InFlight
        <3>2. approval[i] \in Sanctioning
            BY <1>1, <3>1 DEF IInv, Staged
        <3> QED BY <3>2 DEF SanctionOf, Sanctioning
    <2>8. r \in {"done", "failed", "uncertain"} /\ (r = "done" => applied[i] # {})
        BY <1>1
    <2>9. Promise!Report(i, r)
        <3> HIDE DEF r, i
        <3> QED BY <1>1, <1>2, <2>3, <2>5, <2>6, <2>7, <2>8 DEF Promise!Report
    <2> QED BY <1>1, <2>8, <2>9 DEF Promise!Next
<1> QED BY <1>3, <1>4 DEF SettleOutbox

\* Route, dispatcher, reconciler, crashes and lapsed leases together show
\* operators and Jules only what SanctionedAction allows.
THEOREM KeepsPromiseAlways == Spec => KeepsPromise
<1>1. Init => Promise!Init
    <2> SUFFICES ASSUME Init PROVE Promise!Init
        OBVIOUS
    <2>1. \A i \in Item : SanctionOf(i) = "open" /\ ReportOf(i) = "none"
        BY DEF Init, SanctionOf, Sanctioning, ReportOf, NoOutbox
    <2> QED BY <2>1 DEF Init, Promise!Init
<1>2. IInv /\ [Next]_vars => [Promise!Next]_(Promise!vars)
    <2> SUFFICES ASSUME IInv, [Next]_vars PROVE [Promise!Next]_(Promise!vars)
        OBVIOUS
    <2>0. outbox \in [Item -> OutboxRow]
        BY DEF IInv, TypeOK
    <2>1. ASSUME NEW i \in Item, NEW answer \in Verdict, Resolve(i, answer)
          PROVE  Promise!Next
        BY <2>1, ResolveAnswers
    <2>2. ASSUME NEW p \in Pass, Mutate(p) PROVE [Promise!Next]_(Promise!vars)
        BY <2>2, MutateTakesEffect
    <2>3. ASSUME NEW p \in Pass, SettleOutbox(p) PROVE [Promise!Next]_(Promise!vars)
        BY <2>3, SettleOutboxReports
    <2>4. ASSUME NEW p \in Pass, Claim(p) PROVE UNCHANGED Promise!vars
        <3>1. UNCHANGED <<approval, applied>> /\ item[p] \in Item
            BY <2>4 DEF Claim, IInv, Placed
        <3>2. \A i \in Item : ReportOf(i)' = ReportOf(i)
            BY <2>0, <2>4, <3>1 DEF Claim, Unowned, Leased, InFlight, ReportOf
        <3> QED BY <3>1, <3>2, OtherStepsStutter
    <2>5. ASSUME NEW p \in Pass, ExecuteOutbox(p) PROVE UNCHANGED Promise!vars
        <3>1. UNCHANGED <<approval, applied>> /\ item[p] \in Item
            BY <2>5 DEF ExecuteOutbox, IInv, Placed, Claimed, Prelude
        <3>2. \A i \in Item : ReportOf(i)' = ReportOf(i)
            BY <2>0, <2>5, <3>1 DEF ExecuteOutbox, OwnsOutbox, OutboxRow, ReportOf
        <3> QED BY <3>1, <3>2, OtherStepsStutter
    <2>6. ASSUME NEW i \in Item, LapseOutbox(i) PROVE UNCHANGED Promise!vars
        <3>1. UNCHANGED <<approval, applied>>
            BY <2>6 DEF LapseOutbox
        <3>2. \A j \in Item : ReportOf(j)' = ReportOf(j)
            BY <2>0, <2>6 DEF LapseOutbox, OutboxRow, ReportOf
        <3> QED BY <3>1, <3>2, OtherStepsStutter
    <2>7. ASSUME UNCHANGED <<approval, applied, outbox>> PROVE UNCHANGED Promise!vars
        BY <2>7, OtherStepsStutter DEF ReportOf
    <2>8. ASSUME NEW p \in Pass, Advance(p) PROVE [Promise!Next]_(Promise!vars)
        <3>1. \/ Claim(p) \/ ExecuteOutbox(p) \/ Mutate(p) \/ SettleOutbox(p)
              \/ UNCHANGED <<approval, applied, outbox>>
            BY <2>8 DEF Advance, BeginPass, Scan, TakeItem, CreateAttempt, ClaimAttempt,
                ExecuteAttempt, ExecuteDecision, GetSession, SettleAttempt,
                SettleDecision, UpdateSession, Release, rows
        <3> QED BY <2>2, <2>3, <2>4, <2>5, <2>7, <3>1
    <2>9. CASE \/ \E s \in SafetyState : SetState(s)
               \/ \E p \in Pass : Abort(p) \/ AbortRelease(p) \/ Catch(p)
               \/ \E r \in Reconciler : Reconcile(r) \/ AbandonRescue(r)
               \/ \E s \in Session : LapseLock(s)
               \/ \E w \in Worker : Crash(w)
               \/ UNCHANGED vars
        BY <2>7, <2>9 DEF SetState, Abort, AbortRelease, Catch, Reconcile, Recover, Escalate,
            AbandonRescue, LapseLock, Crash, vars, rows
    <2> QED BY <2>1, <2>6, <2>8, <2>9 DEF Next, Lapse
<1> QED BY <1>1, <1>2, InductiveInvariant, PTL DEF Spec, KeepsPromise, Promise!Spec
=============================================================================
