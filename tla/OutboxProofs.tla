---------------------------- MODULE OutboxProofs ----------------------------
(***************************************************************************)
(* Proofs about OutboxDispatch, for any number of items, sessions,         *)
(* workers, passes and faults.                                             *)
(***************************************************************************)
EXTENDS OutboxDispatch, FiniteSetTheorems, TLAPS

(* The inductive invariant.                                                *)

\* The passes that hold i in a batch and have not come to claim it yet.  They
\* are why attempts may still grow after findClaimable would refuse the row.
Queued(i) == {p \in Pass : i \in todo[p] \/ (pc[p] = "claim" /\ item[p] = i)}

Bounded == \A i \in Item : outbox[i].attempts + Cardinality(Queued(i)) <= AttemptCap

\* A pass inside withLock has an item, which has left its batch.
Placed ==
    \A p \in Pass :
        /\ pc[p] \in Claimed \cup {"claim", "release"} => item[p] \in Item
        /\ pc[p] = "claim" => item[p] \notin todo[p]

\* There is a row exactly if an operator sanctioned it; each claim has moved
\* the token and the attempt count together.
Staged ==
    \A i \in Item :
        /\ approval[i] \notin Sanctioning => outbox[i] = NoOutbox
        /\ outbox[i].status = "NONE" => outbox[i] = NoOutbox
        /\ outbox[i].status # "NONE" => outbox[i].fencingToken = outbox[i].attempts + 1
        /\ outbox[i].status = "PENDING" => outbox[i].attempts = 0

\* What claim returned to a pass is the row's past, or its present.
Claims ==
    \A p \in Pass : Working(p) =>
        /\ number[p] \in 1..outbox[item[p]].attempts
        /\ token[p] = number[p] + 1

Distinct ==
    \A p, q \in Pass :
        Working(p) /\ Working(q) /\ q # p /\ item[q] = item[p] => number[q] # number[p]

\* What the pass is about to record is known, and success is no lie.
Endings ==
    \A p \in Pass : pc[p] \in Settling =>
        /\ verdict[p] \in Ending
        /\ pc[p] # "settleAttempt" => verdict[p] # "RETRY"
        /\ verdict[p] = "SUCCEEDED" => number[p] \in applied[item[p]]

IInv ==
    /\ TypeOK
    /\ Bounded
    /\ Placed
    /\ Staged
    /\ Claims
    /\ Distinct
    /\ Endings
    /\ CompletedByLastClaim
-----------------------------------------------------------------------------
(* Arithmetic of the bound.                                                *)

LEMMA CapFacts ==
    /\ Cardinality(Pass) \in Nat
    /\ AttemptCap \in Nat
    /\ MaxAttempts - 1 + Cardinality(Pass) = AttemptCap
BY FS_CardinalityType, ConstantsAssumption DEF AttemptCap

LEMMA QueuedFacts ==
    ASSUME NEW i \in Item
    PROVE  /\ Queued(i) \in SUBSET Pass
           /\ IsFiniteSet(Queued(i))
           /\ Cardinality(Queued(i)) \in Nat
           /\ Cardinality(Queued(i)) <= Cardinality(Pass)
<1>1. Queued(i) \in SUBSET Pass
    BY DEF Queued
<1>2. IsFiniteSet(Queued(i)) /\ Cardinality(Queued(i)) <= Cardinality(Pass)
    BY <1>1, FS_Subset, ConstantsAssumption
<1>3. Cardinality(Queued(i)) \in Nat
    BY <1>2, FS_CardinalityType
<1> QED BY <1>1, <1>2, <1>3

\* A step that claims nothing and adds nothing to a batch keeps the bound.
LEMMA BoundKept ==
    ASSUME TypeOK, Bounded,
           \A i \in Item : outbox'[i].attempts = outbox[i].attempts,
           \A i \in Item : Queued(i)' \subseteq Queued(i)
    PROVE  Bounded'
<1> SUFFICES ASSUME NEW i \in Item
             PROVE  (outbox[i].attempts + Cardinality(Queued(i)) <= AttemptCap)'
    BY DEF Bounded
<1>1. IsFiniteSet(Queued(i)) /\ Cardinality(Queued(i)) \in Nat
    BY QueuedFacts
<1>2. /\ Cardinality(Queued(i)') <= Cardinality(Queued(i))
      /\ IsFiniteSet(Queued(i)')
    BY <1>1, FS_Subset
<1>3. Cardinality(Queued(i)') \in Nat
    BY <1>2, FS_CardinalityType
<1>4. outbox[i].attempts \in Nat
    BY DEF TypeOK, OutboxRow
<1> QED BY <1>1, <1>2, <1>3, <1>4, CapFacts DEF Bounded, AttemptCap

\* A pass at work has a number that is an index of the ledger.
LEMMA NumberInCap ==
    ASSUME IInv, NEW p \in Pass, Working(p)
    PROVE  /\ item[p] \in Item
           /\ number[p] \in AttemptNumber
<1>1. item[p] \in Item
    BY DEF IInv, Placed, Working
<1>2. /\ outbox[item[p]].attempts + Cardinality(Queued(item[p])) <= AttemptCap
      /\ outbox[item[p]].attempts \in Nat
      /\ number[p] \in 1..outbox[item[p]].attempts
    BY <1>1 DEF IInv, Bounded, TypeOK, OutboxRow, Claims
<1>3. Cardinality(Queued(item[p])) \in Nat
    BY <1>1, QueuedFacts
<1> QED BY <1>1, <1>2, <1>3, CapFacts DEF AttemptNumber

\* Any write of one ledger row leaves the ledger well typed.
LEMMA SetAttemptTyped ==
    ASSUME attempt \in [Item -> [AttemptNumber -> AttemptRow]],
           NEW i \in Item, NEW n \in AttemptNumber, NEW row \in AttemptRow,
           SetAttempt(i, n, row)
    PROVE  attempt' \in [Item -> [AttemptNumber -> AttemptRow]]
<1>1. [attempt[i] EXCEPT ![n] = row] \in [AttemptNumber -> AttemptRow]
    OBVIOUS
<1> QED BY <1>1 DEF SetAttempt
-----------------------------------------------------------------------------
(* Steps inside processItem that write no outbox row.                      *)

\* A pass that moves on inside processItem keeps the invariant, provided that
\* what it is about to record is known and no lie.
LEMMA MoveKeepsIInv ==
    ASSUME IInv, TypeOK', NEW p \in Pass, pc[p] \in Claimed,
           NEW step \in Claimed \cup {"release"}, Goto(p, step),
           UNCHANGED <<approval, outbox, todo, item, token, number>>,
           \A q \in Pass : q # p => verdict'[q] = verdict[q],
           \A i \in Item : applied[i] \subseteq applied'[i],
           step \in Settling =>
               /\ verdict'[p] \in Ending
               /\ step # "settleAttempt" => verdict'[p] # "RETRY"
               /\ verdict'[p] = "SUCCEEDED" => number[p] \in applied'[item[p]]
    PROVE  IInv'
<1> USE DEF IInv, Goto
<1>1. pc' = [pc EXCEPT ![p] = step] /\ pc \in [Pass -> Step]
    BY DEF TypeOK
<1>2. Bounded'
    <2>1. \A i \in Item : Queued(i)' \subseteq Queued(i)
        BY <1>1 DEF Queued, Claimed, Prelude, Calling, Settling
    <2> QED BY <2>1, BoundKept
<1>3. Placed'
    BY <1>1 DEF Placed, Claimed, Prelude, Calling, Settling
<1>4. Staged' /\ CompletedByLastClaim'
    BY DEF Staged, CompletedByLastClaim
<1>5. \A q \in Pass : Working(q)' => Working(q)
    BY <1>1 DEF Working, Claimed
<1>6. Claims' /\ Distinct'
    BY <1>5 DEF Claims, Distinct
<1>7. Endings'
    <2> SUFFICES ASSUME NEW q \in Pass, pc'[q] \in Settling
                 PROVE  /\ verdict'[q] \in Ending
                        /\ pc'[q] # "settleAttempt" => verdict'[q] # "RETRY"
                        /\ verdict'[q] = "SUCCEEDED" => number[q] \in applied'[item[q]]
        BY DEF Endings
    <2>1. CASE q = p
        BY <2>1, <1>1
    <2>2. CASE q # p
        <3>1. pc[q] \in Settling /\ pc'[q] = pc[q] /\ item[q] \in Item
            BY <2>2, <1>1 DEF Placed, Claimed
        <3> QED BY <2>2, <3>1 DEF Endings
    <2> QED BY <2>1, <2>2
<1> QED BY <1>2, <1>3, <1>4, <1>6, <1>7

\* The steps that write the ledger: typing is all there is to show.
LEMMA LedgerStepKeepsIInv ==
    ASSUME IInv, NEW p \in Pass,
           CreateAttempt(p) \/ ClaimAttempt(p) \/ ExecuteAttempt(p) \/ SettleAttempt(p)
    PROVE  IInv'
<1> DEFINE Next_pc == IF pc[p] = "create" THEN "claimAttempt"
                      ELSE IF pc[p] = "claimAttempt" THEN "executeAttempt"
                      ELSE IF pc[p] = "executeAttempt" THEN "executeOutbox"
                      ELSE IF verdict[p] = "RETRY" THEN "release" ELSE "settleOutbox"
<1>1. /\ pc[p] \in {"create", "claimAttempt", "executeAttempt", "settleAttempt"}
      /\ Goto(p, Next_pc)
      /\ UNCHANGED <<approval, decision, outbox, corrections, sessionState,
                     safety, lock, todo, item, token, number, verdict, rescue, applied, faults>>
    BY DEF CreateAttempt, ClaimAttempt, ExecuteAttempt, SettleAttempt, local
<1>2. pc[p] \in Claimed /\ Next_pc \in Claimed \cup {"release"}
    BY <1>1 DEF Claimed, Prelude, Settling
<1>3. item[p] \in Item /\ number[p] \in AttemptNumber
    BY <1>2, NumberInCap DEF Working
<1>4. MyAttempt(p) \in AttemptRow /\ attempt \in [Item -> [AttemptNumber -> AttemptRow]]
    BY <1>3 DEF IInv, TypeOK, MyAttempt
<1>5. attempt' \in [Item -> [AttemptNumber -> AttemptRow]]
    <2>1. CASE CreateAttempt(p)
        <3>1. [NoAttempt EXCEPT !.status = "PENDING", !.fencingToken = 1] \in AttemptRow
            BY DEF NoAttempt, AttemptRow, AttemptStatus
        <3> QED BY <2>1, <3>1, <1>3, <1>4, SetAttemptTyped DEF CreateAttempt
    <2>2. CASE ClaimAttempt(p)
        <3>1. Reclaimed(MyAttempt(p), WorkerOf[p]) \in AttemptRow
            BY <1>4, ConstantsAssumption DEF Reclaimed, AttemptRow, AttemptStatus, InFlight
        <3> QED BY <2>2, <3>1, <1>3, <1>4, SetAttemptTyped DEF ClaimAttempt
    <2>3. CASE ExecuteAttempt(p)
        <3>1. [MyAttempt(p) EXCEPT !.status = "EXECUTING"] \in AttemptRow
            BY <1>4 DEF AttemptRow, AttemptStatus, InFlight
        <3> QED BY <2>3, <3>1, <1>3, <1>4, SetAttemptTyped DEF ExecuteAttempt
    <2>4. CASE SettleAttempt(p)
        <3>1. verdict[p] \in Ending
            BY <2>4 DEF SettleAttempt, IInv, Endings, Settling
        <3>2. AttemptStatusFor[verdict[p]] \in AttemptStatus
            BY <3>1 DEF Ending, AttemptStatusFor, AttemptStatus, AttemptTerminal
        <3>3. [MyAttempt(p) EXCEPT !.status = AttemptStatusFor[verdict[p]]] \in AttemptRow
            BY <3>2, <1>4 DEF AttemptRow
        <3> QED BY <2>4, <3>3, <1>3, <1>4, SetAttemptTyped DEF SettleAttempt
    <2> QED BY <2>1, <2>2, <2>3, <2>4
<1>6. TypeOK'
    BY <1>1, <1>2, <1>5 DEF IInv, TypeOK, Goto, Step
<1>7. Next_pc \in Settling =>
          /\ verdict[p] \in Ending
          /\ verdict[p] # "RETRY"
          /\ verdict[p] = "SUCCEEDED" => number[p] \in applied[item[p]]
    BY <1>1 DEF Settling, IInv, Endings
<1> QED BY <1>1, <1>2, <1>6, <1>7, MoveKeepsIInv

\* The steps that write the decision or the session.
LEMMA DecisionStepKeepsIInv ==
    ASSUME IInv, NEW p \in Pass,
           ExecuteDecision(p) \/ SettleDecision(p) \/ UpdateSession(p)
    PROVE  IInv'
<1>1. CASE ExecuteDecision(p)
    <2>1. TypeOK'
        BY <1>1 DEF ExecuteDecision, Goto, local, IInv, TypeOK, DecisionState, Step, Claimed, Calling
    <2> QED BY <1>1, <2>1, MoveKeepsIInv
            DEF ExecuteDecision, local, Claimed, Prelude, Calling, Settling
<1>2. CASE SettleDecision(p)
    <2>1. /\ verdict[p] \in Ending \ {"RETRY"}
          /\ verdict[p] = "SUCCEEDED" => number[p] \in applied[item[p]]
        BY <1>2 DEF SettleDecision, IInv, Endings, Settling
    <2>2. DecisionStateFor[verdict[p]] \in DecisionState
        BY <2>1 DEF Ending, DecisionStateFor, DecisionState
    <2>3. TypeOK'
        BY <1>2, <2>2 DEF SettleDecision, Goto, local, IInv, TypeOK, Step, Claimed, Settling
    <2> QED BY <1>2, <2>1, <2>3, MoveKeepsIInv DEF SettleDecision, local, Claimed, Settling
<1>3. CASE UpdateSession(p)
    <2>1. TypeOK'
        BY <1>3 DEF UpdateSession, Goto, local, IInv, TypeOK, Step
    <2> QED BY <1>3, <2>1, MoveKeepsIInv DEF UpdateSession, local, Claimed, Settling
<1> QED BY <1>1, <1>2, <1>3

LEMMA EndingOfTyped ==
    ASSUME NEW p \in Pass, NEW c \in Category
    PROVE  EndingOf(p, c) \in Ending \ {"SUCCEEDED"}
BY DEF EndingOf, Ending

\* The call, and the catch: a verdict of success comes with an effect.
LEMMA CallKeepsIInv ==
    ASSUME IInv, NEW p \in Pass, GetSession(p) \/ Mutate(p) \/ Catch(p)
    PROVE  IInv'
<1> USE DEF Goto, Settle, Fault
<1>1. pc[p] \in Claimed
    BY DEF GetSession, Mutate, Catch, Claimed, Calling
<1>2. item[p] \in Item /\ number[p] \in AttemptNumber
    BY <1>1, NumberInCap DEF Working
<1>3. CASE GetSession(p) /\ Goto(p, "mutate") /\ UNCHANGED verdict
    <2>1. UNCHANGED <<rows, safety, lock, todo, item, token, number, rescue, applied, faults>>
        BY <1>3, <1>1 DEF GetSession
    <2>2. TypeOK'
        BY <1>3, <2>1 DEF rows, IInv, TypeOK, Step, Claimed, Calling
    <2> QED BY <1>1, <1>3, <2>1, <2>2, MoveKeepsIInv DEF rows, Claimed, Calling, Settling
<1>4. ASSUME NEW ending \in Ending, Settle(p, ending),
             ending = "SUCCEEDED" => Apply(p),
             Apply(p) \/ UNCHANGED applied,
             faults' \in 0..MaxFaults,
             UNCHANGED <<rows, safety, lock, todo, item, token, number, rescue>>
      PROVE  IInv'
    <2>1. /\ applied' \in [Item -> SUBSET AttemptNumber]
          /\ \A i \in Item : applied[i] \subseteq applied'[i]
          /\ ending = "SUCCEEDED" => number[p] \in applied'[item[p]]
        <3>1. applied \in [Item -> SUBSET AttemptNumber]
            BY DEF IInv, TypeOK
        <3>2. CASE Apply(p)
            <4> DEFINE more == applied[item[p]] \cup {number[p]}
            <4>1. more \in SUBSET AttemptNumber
                BY <1>2, <3>1
            <4>2. applied' = [applied EXCEPT ![item[p]] = more]
                BY <3>2 DEF Apply
            <4> HIDE DEF more
            <4>4. applied' \in [Item -> SUBSET AttemptNumber]
                BY <3>1, <4>1, <4>2
            <4>5. applied'[item[p]] = more
                BY <1>2, <3>1, <4>2
            <4>6. \A i \in Item : applied[i] \subseteq applied'[i]
                BY <1>2, <3>1, <4>2 DEF more
            <4> QED BY <4>4, <4>5, <4>6 DEF more
        <3>3. CASE UNCHANGED applied
            BY <1>4, <3>1, <3>2, <3>3
        <3> QED BY <1>4, <3>2, <3>3
    <2>2. verdict' = [verdict EXCEPT ![p] = ending] /\ verdict \in [Pass -> Ending \cup {"NONE"}]
        BY <1>4 DEF IInv, TypeOK
    <2>3. TypeOK'
        BY <1>4, <2>1, <2>2 DEF rows, IInv, TypeOK, Step, Claimed, Settling
    <2> QED BY <1>1, <1>4, <2>1, <2>2, <2>3, MoveKeepsIInv DEF rows, Claimed, Settling
<1>5. CASE Mutate(p)
    <2>1. faults' \in 0..MaxFaults /\ "SUCCEEDED" \in Ending
        BY <1>5 DEF Mutate, IInv, TypeOK, Ending
    <2> QED BY <1>4, <1>5, <2>1, EndingOfTyped DEF Mutate
<1>6. CASE GetSession(p) /\ \E c \in Category : Settle(p, EndingOf(p, c))
    BY <1>4, <1>6, EndingOfTyped DEF GetSession, IInv, TypeOK
<1>7. CASE Catch(p)
    <2>1. faults' \in 0..MaxFaults
        BY <1>7, ConstantsAssumption DEF Catch, IInv, TypeOK
    <2> QED BY <1>4, <1>7, <2>1, EndingOfTyped DEF Catch
<1> QED BY <1>3, <1>5, <1>6, <1>7 DEF GetSession
-----------------------------------------------------------------------------
(* Steps outside processItem that write no outbox row.                     *)

\* Passes (D) that stay or go outside processItem keep the invariant.
LEMMA OutsideKeepsIInv ==
    ASSUME IInv, TypeOK', Bounded', NEW D \in SUBSET Pass,
           UNCHANGED <<approval, outbox, applied>>,
           \A q \in Pass \ D : /\ pc'[q] = pc[q]
                               /\ todo'[q] = todo[q]
                               /\ item'[q] = item[q]
                               /\ token'[q] = token[q]
                               /\ number'[q] = number[q]
                               /\ verdict'[q] = verdict[q],
           \A q \in D : /\ pc'[q] \notin Claimed
                        /\ pc'[q] \in {"claim", "release"} => item'[q] \in Item
                        /\ pc'[q] = "claim" => item'[q] \notin todo'[q]
    PROVE  IInv'
<1> USE DEF IInv
<1>1. Placed'
    BY DEF Placed, Claimed, Prelude
<1>2. Staged' /\ CompletedByLastClaim'
    BY DEF Staged, CompletedByLastClaim
<1>3. \A q \in Pass : Working(q)' => Working(q) /\ q \notin D
    BY DEF Working
<1>4. Claims' /\ Distinct'
    BY <1>3 DEF Claims, Distinct
<1>5. Endings'
    <2>1. \A q \in Pass : pc'[q] \in Settling => q \notin D
        BY DEF Claimed
    <2> QED BY <2>1 DEF Endings
<1> QED BY <1>1, <1>2, <1>4, <1>5

LEMMA PassStepKeepsIInv ==
    ASSUME IInv, NEW p \in Pass,
           \/ BeginPass(p) \/ Scan(p) \/ (\E i \in Item : TakeItem(p, i)) \/ Release(p)
           \/ Abort(p) \/ AbortRelease(p)
    PROVE  IInv'
<1> USE DEF Goto
<1>1. pc \in [Pass -> Step] /\ todo \in [Pass -> SUBSET Item] /\ outbox \in [Item -> OutboxRow]
    BY DEF IInv, TypeOK
<1>2. CASE BeginPass(p)
    <2>1. TypeOK'
        BY <1>2 DEF BeginPass, IInv, TypeOK, Step, rows, local
    <2>2. Bounded'
        <3>1. \A i \in Item : Queued(i)' \subseteq Queued(i)
            BY <1>1, <1>2 DEF BeginPass, Queued, local
        <3> QED BY <1>2, <3>1, BoundKept DEF BeginPass, rows, IInv
    <2> QED BY <1>1, <1>2, <2>1, <2>2, OutsideKeepsIInv, {p} \in SUBSET Pass
            DEF BeginPass, rows, local, Claimed, Prelude, Calling, Settling
<1>3. CASE Scan(p)
    <2>1. PICK batch \in SUBSET FindClaimable :
              /\ todo' = [todo EXCEPT ![p] = batch]
              /\ Goto(p, IF batch = {} THEN "idle" ELSE "next")
        BY <1>3 DEF Scan
    <2>2. UNCHANGED <<rows, safety, lock, item, token, number, verdict, rescue, applied, faults>>
        BY <1>3 DEF Scan
    <2>3. TypeOK'
        BY <1>3, <2>1, <2>2 DEF FindClaimable, IInv, TypeOK, Step, rows
    <2>4. Bounded'
        <3> SUFFICES ASSUME NEW i \in Item
                     PROVE  outbox[i].attempts + Cardinality(Queued(i)') <= AttemptCap
            BY <2>2 DEF Bounded, rows, AttemptCap
        <3>1. CASE i \in batch
            <4>1. outbox[i].attempts \in Nat /\ outbox[i].attempts <= MaxAttempts - 1
                <5>1. /\ i \in FindClaimable
                      /\ outbox[i].attempts \in Nat
                      /\ outbox[i].status = "PENDING" => outbox[i].attempts = 0
                    BY <1>1, <2>1, <3>1 DEF OutboxRow, IInv, Staged
                <5> QED BY <5>1, ConstantsAssumption DEF FindClaimable
            <4>2. Queued(i)' \in SUBSET Pass
                BY DEF Queued
            <4>3. /\ IsFiniteSet(Queued(i)')
                  /\ Cardinality(Queued(i)') <= Cardinality(Pass)
                BY <4>2, FS_Subset, ConstantsAssumption
            <4>4. Cardinality(Queued(i)') \in Nat
                BY <4>3, FS_CardinalityType
            <4> QED BY <4>1, <4>3, <4>4, CapFacts, ConstantsAssumption
        <3>2. CASE i \notin batch
            <4>1. Queued(i)' \subseteq Queued(i)
                BY <1>1, <1>3, <2>1, <2>2, <3>2 DEF Scan, Queued
            <4>2. IsFiniteSet(Queued(i)) /\ Cardinality(Queued(i)) \in Nat
                BY QueuedFacts
            <4>3. IsFiniteSet(Queued(i)') /\ Cardinality(Queued(i)') <= Cardinality(Queued(i))
                BY <4>1, <4>2, FS_Subset
            <4>4. Cardinality(Queued(i)') \in Nat /\ outbox[i].attempts \in Nat
                BY <1>1, <4>3, FS_CardinalityType DEF OutboxRow
            <4> QED BY <4>2, <4>3, <4>4, CapFacts DEF IInv, Bounded
        <3> QED BY <3>1, <3>2
    <2> QED BY <1>1, <2>1, <2>2, <2>3, <2>4, OutsideKeepsIInv, {p} \in SUBSET Pass
            DEF rows, Claimed, Prelude, Calling, Settling
<1>4. ASSUME NEW i \in Item, TakeItem(p, i) PROVE IInv'
    <2>1. /\ todo' = [todo EXCEPT ![p] = todo'[p]] /\ todo'[p] \subseteq todo[p]
          /\ \/ pc' = [pc EXCEPT ![p] = "claim"] /\ item' = [item EXCEPT ![p] = i]
                /\ i \in todo[p] \ todo'[p]
             \/ pc' = [pc EXCEPT ![p] = "idle"] /\ item' = item
        BY <1>1, <1>4 DEF TakeItem
    <2>2. TypeOK'
        <3>1. /\ todo' \in [Pass -> SUBSET Item] /\ pc' \in [Pass -> Step]
              /\ item' \in [Pass -> Item \cup {NoItem}]
            <4>1. /\ todo'[p] \in SUBSET Item /\ item \in [Pass -> Item \cup {NoItem}]
                  /\ {"claim", "idle"} \subseteq Step
                BY <1>1, <2>1 DEF IInv, TypeOK, Step
            <4> QED BY <1>1, <2>1, <4>1
        <3>2. lock' \in [Session -> Pass \cup {NoPass}]
            BY <1>4 DEF TakeItem, IInv, TypeOK
        <3> QED BY <1>4, <3>1, <3>2 DEF TakeItem, IInv, TypeOK, rows
    <2>3. Bounded'
        <3>1. \A j \in Item : Queued(j)' \subseteq Queued(j)
            BY <1>1, <1>4, <2>1 DEF Queued, IInv, TypeOK, TakeItem
        <3> QED BY <1>4, <3>1, BoundKept DEF TakeItem, rows, IInv
    <2>4. /\ \A q \in Pass \ {p} : /\ pc'[q] = pc[q] /\ todo'[q] = todo[q] /\ item'[q] = item[q]
                                /\ token'[q] = token[q] /\ number'[q] = number[q]
                                /\ verdict'[q] = verdict[q]
        <3>1. UNCHANGED <<token, number, verdict>>
            BY <1>4 DEF TakeItem
        <3>2. item \in [Pass -> Item \cup {NoItem}]
            BY DEF IInv, TypeOK
        <3> QED BY <1>1, <2>1, <3>1, <3>2
    <2>5. pc'[p] = "idle" \/ (pc'[p] = "claim" /\ item'[p] = i /\ i \notin todo'[p])
        BY <1>1, <2>1 DEF IInv, TypeOK
    <2>6. UNCHANGED <<approval, outbox, applied>>
        BY <1>4 DEF TakeItem, rows
    <2>7. \A q \in {p} : /\ pc'[q] \notin Claimed
                         /\ pc'[q] \in {"claim", "release"} => item'[q] \in Item
                         /\ pc'[q] = "claim" => item'[q] \notin todo'[q]
        BY <2>5 DEF Claimed, Prelude, Calling, Settling
    <2> QED BY <2>2, <2>3, <2>4, <2>6, <2>7, OutsideKeepsIInv, {p} \in SUBSET Pass
<1>5. CASE Release(p)
    <2>1. TypeOK'
        BY <1>5 DEF Release, Forget, IInv, TypeOK, Step, rows
    <2>2. Bounded'
        <3>1. \A i \in Item : Queued(i)' \subseteq Queued(i)
            BY <1>1, <1>5 DEF Release, Forget, Queued, IInv, TypeOK
        <3> QED BY <1>5, <3>1, BoundKept DEF Release, rows, IInv
    <2>3. /\ \A q \in Pass \ {p} : /\ pc'[q] = pc[q] /\ todo'[q] = todo[q] /\ item'[q] = item[q]
                                /\ token'[q] = token[q] /\ number'[q] = number[q]
                                /\ verdict'[q] = verdict[q]
          /\ pc'[p] \in {"idle", "next"}
        BY <1>1, <1>5 DEF Release, Forget, IInv, TypeOK
    <2> QED BY <1>5, <2>1, <2>2, <2>3, OutsideKeepsIInv, {p} \in SUBSET Pass
            DEF Release, rows, Claimed, Prelude, Calling, Settling
<1>6. CASE Abort(p)
    <2>1. TypeOK'
        BY <1>6, ConstantsAssumption DEF Abort, Fault, IInv, TypeOK, Step, rows
    <2>2. Bounded'
        <3>1. \A i \in Item : Queued(i)' \subseteq Queued(i)
            BY <1>1, <1>6 DEF Abort, Queued
        <3> QED BY <1>6, <3>1, BoundKept DEF Abort, rows, IInv
    <2>3. item[p] \in Item
        BY <1>6 DEF Abort, IInv, Placed, Claimed, Settling
    <2> QED BY <1>1, <1>6, <2>1, <2>2, <2>3, OutsideKeepsIInv, {p} \in SUBSET Pass
            DEF Abort, rows, Claimed, Prelude, Calling, Settling
<1>7. CASE AbortRelease(p)
    <2>1. TypeOK'
        BY <1>7, ConstantsAssumption DEF AbortRelease, Forget, Fault, IInv, TypeOK, Step, rows
    <2>2. Bounded'
        <3>1. \A i \in Item : Queued(i)' \subseteq Queued(i)
            BY <1>1, <1>7 DEF AbortRelease, Forget, Queued, IInv, TypeOK
        <3> QED BY <1>7, <3>1, BoundKept DEF AbortRelease, rows, IInv
    <2>3. /\ \A q \in Pass \ {p} : /\ pc'[q] = pc[q] /\ todo'[q] = todo[q] /\ item'[q] = item[q]
                                /\ token'[q] = token[q] /\ number'[q] = number[q]
                                /\ verdict'[q] = verdict[q]
          /\ pc'[p] \in {"idle", "next"}
        BY <1>1, <1>7 DEF AbortRelease, Forget, IInv, TypeOK
    <2> QED BY <1>7, <2>1, <2>2, <2>3, OutsideKeepsIInv, {p} \in SUBSET Pass
            DEF AbortRelease, rows, Claimed, Prelude, Calling, Settling
<1> QED BY <1>2, <1>3, <1>4, <1>5, <1>6, <1>7

LEMMA CrashKeepsIInv ==
    ASSUME IInv, NEW w \in Worker, Crash(w)
    PROVE  IInv'
<1> DEFINE D == {p \in Pass : WorkerOf[p] = w}
<1>1. /\ \A q \in Pass \ D : /\ pc'[q] = pc[q]
                             /\ todo'[q] = todo[q]
                             /\ item'[q] = item[q]
                             /\ token'[q] = token[q]
                             /\ number'[q] = number[q]
                             /\ verdict'[q] = verdict[q]
      /\ \A q \in D : pc'[q] = "idle" /\ todo'[q] = {}
    BY DEF Crash
<1>2. TypeOK'
    <2>1. /\ pc' \in [Pass -> Step] /\ todo' \in [Pass -> SUBSET Item]
          /\ item' \in [Pass -> Item \cup {NoItem}]
        BY DEF Crash, IInv, TypeOK, Step
    <2>2. /\ token' \in [Pass -> Nat] /\ number' \in [Pass -> Nat]
          /\ verdict' \in [Pass -> Ending \cup {"NONE"}]
        BY DEF Crash, IInv, TypeOK
    <2>3. rescue' \in [Reconciler -> {Nothing} \cup (Item \X AttemptNumber)]
        BY DEF Crash, IInv, TypeOK
    <2>4. faults' \in 0..MaxFaults
        BY ConstantsAssumption DEF Crash, Fault, IInv, TypeOK
    <2> QED BY <2>1, <2>2, <2>3, <2>4 DEF Crash, rows, IInv, TypeOK
<1>3. Bounded'
    <2>1. \A i \in Item : Queued(i)' \subseteq Queued(i)
        BY <1>1 DEF Queued
    <2> QED BY <2>1, BoundKept DEF Crash, rows, IInv
<1>4. D \in SUBSET Pass
    OBVIOUS
<1> QED BY <1>1, <1>2, <1>3, <1>4, OutsideKeepsIInv DEF Crash, rows, Claimed, Prelude, Calling, Settling
-----------------------------------------------------------------------------
(* Steps that write an outbox row.                                         *)

\* The rewrite of a row in flight that leaves its counters alone.
LEMMA SameCounters ==
    ASSUME IInv, NEW i \in Item, NEW row \in OutboxRow,
           outbox[i].status \in InFlight,
           row.status \in InFlight \cup OutboxTerminal,
           row.attempts = outbox[i].attempts,
           row.fencingToken = outbox[i].fencingToken,
           row.status = "COMPLETED" => row.attempts \in applied'[i],
           outbox' = [outbox EXCEPT ![i] = row],
           UNCHANGED <<approval, applied>>
    PROVE  /\ outbox' \in [Item -> OutboxRow]
           /\ \A j \in Item : outbox'[j].attempts = outbox[j].attempts
           /\ Staged'
           /\ CompletedByLastClaim'
<1>1. outbox \in [Item -> OutboxRow]
    BY DEF IInv, TypeOK
<1>2. /\ outbox' \in [Item -> OutboxRow]
      /\ outbox'[i] = row
      /\ \A j \in Item : j # i => outbox'[j] = outbox[j]
    BY <1>1
<1>3. \A j \in Item : outbox'[j].attempts = outbox[j].attempts
    BY <1>2
<1>4. Staged'
    <2>1. outbox[i] # NoOutbox /\ outbox[i].status \notin {"NONE", "PENDING"}
        BY DEF InFlight, NoOutbox
    <2>2. /\ approval[i] \in Sanctioning
          /\ outbox[i].fencingToken = outbox[i].attempts + 1
        BY <2>1 DEF IInv, Staged
    <2>3. row.status \notin {"NONE", "PENDING"}
        BY DEF InFlight, OutboxTerminal
    <2> QED BY <1>2, <2>2, <2>3 DEF IInv, Staged
<1>5. CompletedByLastClaim'
    BY <1>2 DEF IInv, CompletedByLastClaim
<1> QED BY <1>2, <1>3, <1>4, <1>5

LEMMA LapseOutboxKeepsIInv ==
    ASSUME IInv, NEW i \in Item, LapseOutbox(i)
    PROVE  IInv'
<1> DEFINE row == [outbox[i] EXCEPT !.lapsed = TRUE]
<1>1. outbox[i] \in OutboxRow /\ outbox[i].status \in InFlight
    BY DEF LapseOutbox, IInv, TypeOK
<1>2. /\ row \in OutboxRow
      /\ row.status = outbox[i].status
      /\ row.attempts = outbox[i].attempts
      /\ row.fencingToken = outbox[i].fencingToken
    BY <1>1 DEF OutboxRow
<1>3. /\ outbox' = [outbox EXCEPT ![i] = row]
      /\ UNCHANGED <<approval, decision, attempt, corrections, sessionState,
                     safety, lock, pc, todo, item, token, number, verdict,
                     rescue, applied, faults>>
    BY DEF LapseOutbox, local
<1> HIDE DEF row
<1>4. row.status # "COMPLETED"
    BY <1>1, <1>2 DEF InFlight
<1>5. /\ outbox' \in [Item -> OutboxRow]
      /\ \A j \in Item : outbox'[j].attempts = outbox[j].attempts
      /\ Staged'
      /\ CompletedByLastClaim'
    BY <1>1, <1>2, <1>3, <1>4, SameCounters
<1>6. TypeOK'
    BY <1>3, <1>5 DEF IInv, TypeOK
<1>7. Bounded'
    <2>1. \A j \in Item : Queued(j)' \subseteq Queued(j)
        BY <1>3 DEF Queued
    <2> QED BY <1>5, <2>1, BoundKept DEF IInv
<1>8. Placed' /\ Distinct' /\ Endings'
    BY <1>3 DEF IInv, Placed, Distinct, Endings, Working
<1>9. Claims'
    <2>1. \A p \in Pass : Working(p) => item[p] \in Item
        BY DEF IInv, Placed, Working
    <2> QED BY <1>3, <1>5, <2>1 DEF IInv, Claims, Working
<1> QED BY <1>5, <1>6, <1>7, <1>8, <1>9 DEF IInv

\* The owner's own status writes.  A token that matches makes the pass the
\* last claimant, so the effect it vouches for is the last claim's.
LEMMA OutboxMarkKeepsIInv ==
    ASSUME IInv, NEW p \in Pass, ExecuteOutbox(p) \/ SettleOutbox(p)
    PROVE  IInv'
<1> DEFINE i == item[p]
<1> DEFINE status == IF pc[p] = "executeOutbox" THEN "EXECUTING" ELSE OutboxStatusFor[verdict[p]]
<1> DEFINE row == [outbox[i] EXCEPT !.status = status]
<1> DEFINE step == IF pc[p] = "executeOutbox" THEN "executeDecision" ELSE "settleDecision"
<1>1. /\ pc[p] \in {"executeOutbox", "settleOutbox"}
      /\ Goto(p, step)
      /\ UNCHANGED <<approval, decision, attempt, corrections, sessionState, safety,
                     lock, todo, item, token, number, verdict, rescue, applied, faults>>
      /\ \/ OwnsOutbox(p, InFlight) /\ outbox' = [outbox EXCEPT ![i] = row]
         \/ outbox' = outbox
    BY DEF ExecuteOutbox, SettleOutbox, OwnsOutbox, InFlight, local
<1>2. /\ Working(p) /\ i \in Item
      /\ outbox[i] \in OutboxRow /\ outbox \in [Item -> OutboxRow]
      /\ pc \in [Pass -> Step]
    BY <1>1 DEF Working, Claimed, Prelude, Settling, IInv, Placed, TypeOK
<1>3. pc[p] = "settleOutbox" => /\ verdict[p] \in {"SUCCEEDED", "UNKNOWN", "FINAL"}
                                /\ verdict[p] = "SUCCEEDED" => number[p] \in applied[i]
    BY DEF IInv, Endings, Settling, Ending
<1>4. /\ status \in InFlight \cup OutboxTerminal
      /\ status = "COMPLETED" => number[p] \in applied[i]
    BY <1>1, <1>3 DEF OutboxStatusFor, InFlight, OutboxTerminal
<1>5. OwnsOutbox(p, InFlight) => number[p] = outbox[i].attempts
    <2>1. Working(p) => token[p] = number[p] + 1 /\ number[p] \in 1..outbox[i].attempts
        BY DEF IInv, Claims
    <2>2. outbox[i].status # "NONE" => outbox[i].fencingToken = outbox[i].attempts + 1
        BY <1>2 DEF IInv, Staged
    <2> QED BY <1>2, <2>1, <2>2 DEF OwnsOutbox, InFlight, OutboxRow
<1>6. /\ outbox' \in [Item -> OutboxRow]
      /\ \A j \in Item : outbox'[j].attempts = outbox[j].attempts
      /\ Staged'
      /\ CompletedByLastClaim'
    <2>1. CASE outbox' = outbox
        BY <1>1, <1>2, <2>1 DEF IInv, Staged, CompletedByLastClaim
    <2>2. CASE OwnsOutbox(p, InFlight) /\ outbox' = [outbox EXCEPT ![i] = row]
        <3> HIDE DEF status
        <3>1. /\ row \in OutboxRow /\ row.status = status
              /\ row.attempts = outbox[i].attempts
              /\ row.fencingToken = outbox[i].fencingToken
            BY <1>2, <1>4 DEF OutboxRow, OutboxStatus
        <3>2. outbox[i].status \in InFlight
            BY <2>2 DEF OwnsOutbox
        <3> HIDE DEF row, i
        <3>3. row.status = "COMPLETED" => row.attempts \in applied'[i]
            BY <1>1, <1>4, <1>5, <2>2, <3>1
        <3>4. UNCHANGED <<approval, applied>>
            BY <1>1
        <3> QED BY <1>2, <1>4, <2>2, <3>1, <3>2, <3>3, <3>4, SameCounters
    <2> QED BY <1>1, <2>1, <2>2
<1>7. TypeOK'
    <2>1. pc' \in [Pass -> Step]
        BY <1>1, <1>2 DEF Goto, Step, Claimed, Prelude, Settling
    <2> QED BY <1>1, <1>6, <2>1 DEF IInv, TypeOK
<1>8. /\ \A q \in Pass : q # p => pc'[q] = pc[q]
      /\ pc'[p] = step
    BY <1>1, <1>2 DEF Goto
<1>9. Bounded'
    <2>1. \A j \in Item : Queued(j)' \subseteq Queued(j)
        BY <1>1, <1>8 DEF Queued
    <2> QED BY <1>6, <2>1, BoundKept DEF IInv
<1>10. Placed'
    BY <1>1, <1>2, <1>8 DEF IInv, Placed, Claimed, Prelude
<1>11. \A q \in Pass : Working(q)' => Working(q) /\ item[q] \in Item
    BY <1>2, <1>8 DEF Working, IInv, Placed
<1>12. Claims' /\ Distinct'
    BY <1>1, <1>6, <1>11 DEF IInv, Claims, Distinct
<1>13. Endings'
    BY <1>1, <1>3, <1>8 DEF IInv, Endings, Settling
<1> QED BY <1>6, <1>7, <1>9, <1>10, <1>12, <1>13 DEF IInv

\* claim: the new number is one more than any pass has been given.
LEMMA ClaimKeepsIInv ==
    ASSUME IInv, NEW p \in Pass, Claim(p)
    PROVE  IInv'
<1> DEFINE i == item[p]
<1>1. /\ pc[p] = "claim" /\ i \in Item /\ i \notin todo[p]
      /\ outbox \in [Item -> OutboxRow] /\ pc \in [Pass -> Step]
      /\ token \in [Pass -> Nat] /\ number \in [Pass -> Nat]
    BY DEF Claim, IInv, Placed, TypeOK
<1>2. UNCHANGED <<approval, decision, attempt, corrections, sessionState, safety,
                  lock, todo, item, verdict, rescue, applied, faults>>
    BY DEF Claim
<1>3. CASE ~Unowned(i)
    <2>1. Goto(p, "release") /\ UNCHANGED <<outbox, token, number>>
        BY <1>3 DEF Claim
    <2>2. pc' \in [Pass -> Step] /\ pc'[p] = "release" /\ \A q \in Pass \ {p} : pc'[q] = pc[q]
        BY <1>1, <2>1 DEF Goto, Step
    <2>3. TypeOK'
        BY <1>2, <2>1, <2>2 DEF IInv, TypeOK
    <2>4. Bounded'
        <3>1. \A j \in Item : Queued(j)' \subseteq Queued(j)
            BY <1>2, <2>2 DEF Queued
        <3> QED BY <2>1, <3>1, BoundKept DEF IInv
    <2>5. \A q \in {p} : /\ pc'[q] \notin Claimed
                         /\ pc'[q] \in {"claim", "release"} => item'[q] \in Item
                         /\ pc'[q] = "claim" => item'[q] \notin todo'[q]
        BY <1>1, <1>2, <2>2 DEF Claimed, Prelude, Calling, Settling
    <2> QED BY <1>2, <2>1, <2>2, <2>3, <2>4, <2>5, OutsideKeepsIInv, {p} \in SUBSET Pass
<1>4. CASE Unowned(i)
    <2> DEFINE row == Leased(outbox[i], WorkerOf[p])
    <2>1. /\ outbox' = [outbox EXCEPT ![i] = row]
          /\ token' = [token EXCEPT ![p] = row.fencingToken]
          /\ number' = [number EXCEPT ![p] = row.attempts]
          /\ pc' = [pc EXCEPT ![p] = "create"]
        BY <1>4 DEF Claim, Goto
    <2>2. /\ row \in OutboxRow
          /\ row.status = "CLAIMED"
          /\ row.attempts = outbox[i].attempts + 1
          /\ row.fencingToken = outbox[i].fencingToken + 1
        BY <1>1, ConstantsAssumption DEF Leased, OutboxRow, OutboxStatus, InFlight
    <2>3. /\ outbox[i].status \notin {"NONE", "COMPLETED"}
          /\ outbox[i].attempts \in Nat
          /\ outbox[i].fencingToken = outbox[i].attempts + 1
          /\ approval[i] \in Sanctioning
        <3>1. outbox[i].status \notin {"NONE", "COMPLETED"}
            BY <1>4 DEF Unowned, InFlight
        <3> QED BY <1>1, <3>1 DEF OutboxRow, IInv, Staged, NoOutbox
    <2> HIDE DEF row, i
    <2>4. /\ outbox' \in [Item -> OutboxRow]
          /\ outbox'[i] = row
          /\ \A j \in Item : j # i => outbox'[j] = outbox[j]
        BY <1>1, <2>1, <2>2
    <2>5. /\ pc' \in [Pass -> Step]
          /\ pc'[p] = "create"
          /\ \A q \in Pass : q # p => /\ pc'[q] = pc[q]
                                     /\ token'[q] = token[q]
                                     /\ number'[q] = number[q]
        BY <1>1, <2>1 DEF Step, Claimed, Prelude
    <2>6. /\ token' \in [Pass -> Nat] /\ token'[p] = outbox[i].attempts + 2
          /\ number' \in [Pass -> Nat] /\ number'[p] = outbox[i].attempts + 1
        BY <1>1, <2>1, <2>2, <2>3
    <2>7. TypeOK'
        BY <1>2, <2>4, <2>5, <2>6 DEF IInv, TypeOK
    <2>8. Bounded'
        <3> SUFFICES ASSUME NEW j \in Item
                     PROVE  outbox'[j].attempts + Cardinality(Queued(j)') <= AttemptCap
            BY DEF Bounded, AttemptCap
        <3>1. /\ IsFiniteSet(Queued(j)) /\ Cardinality(Queued(j)) \in Nat
              /\ outbox[j].attempts \in Nat
              /\ outbox[j].attempts + Cardinality(Queued(j)) <= AttemptCap
            BY <1>1, QueuedFacts DEF OutboxRow, IInv, Bounded
        <3>2. CASE j = i
            <4>1. p \in Queued(j) /\ Queued(j)' = Queued(j) \ {p}
                BY <1>1, <1>2, <2>5, <3>2 DEF Queued, i
            <4>2. Cardinality(Queued(j)') = Cardinality(Queued(j)) - 1
                BY <3>1, <4>1, FS_RemoveElement
            <4> QED BY <2>2, <2>4, <3>1, <3>2, <4>2, CapFacts
        <3>3. CASE j # i
            <4>1. Queued(j)' \subseteq Queued(j)
                BY <1>2, <2>5 DEF Queued
            <4>2. IsFiniteSet(Queued(j)') /\ Cardinality(Queued(j)') <= Cardinality(Queued(j))
                BY <3>1, <4>1, FS_Subset
            <4>3. Cardinality(Queued(j)') \in Nat
                BY <4>2, FS_CardinalityType
            <4> QED BY <2>4, <3>1, <3>3, <4>2, <4>3, CapFacts
        <3> QED BY <3>2, <3>3
    <2>9. Placed'
        BY <1>1, <1>2, <2>5 DEF IInv, Placed, Claimed, i
    <2>10. Staged'
        <3>1. /\ approval'[i] \in Sanctioning
              /\ outbox'[i].status \notin {"NONE", "PENDING"}
              /\ outbox'[i].fencingToken = outbox'[i].attempts + 1
            BY <1>2, <2>2, <2>3, <2>4
        <3> QED BY <1>2, <2>4, <3>1 DEF IInv, Staged
    <2>11. \A q \in Pass : Working(q)' => q = p \/ (Working(q) /\ item[q] \in Item)
        BY <2>5 DEF Working, IInv, Placed
    <2>12. \A j \in Item : /\ outbox[j].attempts \in Nat /\ outbox'[j].attempts \in Nat
                           /\ outbox[j].attempts <= outbox'[j].attempts
        BY <1>1, <2>2, <2>4 DEF OutboxRow
    <2>13. Claims'
        <3> SUFFICES ASSUME NEW q \in Pass, Working(q)'
                     PROVE  /\ number'[q] \in 1..outbox'[item[q]].attempts
                            /\ token'[q] = number'[q] + 1
            BY <1>2 DEF Claims
        <3>1. CASE q = p
            BY <2>2, <2>3, <2>4, <2>6, <3>1 DEF i
        <3>2. CASE q # p
            <4>1. /\ Working(q) /\ item[q] \in Item
                  /\ number'[q] = number[q] /\ token'[q] = token[q]
                BY <2>5, <2>11, <3>2
            <4>2. number[q] \in 1..outbox[item[q]].attempts /\ token[q] = number[q] + 1
                BY <4>1 DEF IInv, Claims
            <4> QED BY <2>12, <4>1, <4>2
        <3> QED BY <3>1, <3>2
    <2>14. Distinct'
        <3>1. \A q \in Pass : Working(q) /\ item[q] = i => number[q] <= outbox[i].attempts
            BY <2>3 DEF IInv, Claims
        <3>2. \A q \in Pass : Working(q)' /\ q # p /\ item[q] = i => number'[q] # number'[p]
            BY <1>1, <2>3, <2>5, <2>6, <2>11, <3>1
        <3> QED BY <1>2, <2>5, <2>11, <3>2 DEF IInv, Distinct, i
    <2>15. Endings'
        BY <1>2, <2>5 DEF IInv, Endings, Settling
    <2>16. CompletedByLastClaim'
        BY <1>2, <2>2, <2>4 DEF IInv, CompletedByLastClaim
    <2> QED BY <2>7, <2>8, <2>9, <2>10, <2>13, <2>14, <2>15, <2>16 DEF IInv
<1> QED BY <1>3, <1>4

\* The approvals route stages a row only where there was none.
LEMMA ResolveKeepsIInv ==
    ASSUME IInv, NEW i \in Item, NEW answer \in Verdict, Resolve(i, answer)
    PROVE  IInv'
<1> DEFINE fresh == [NoOutbox EXCEPT !.status = "PENDING", !.fencingToken = 1]
<1>1. /\ approval[i] = "PENDING" /\ answer \in Resolution
      /\ approval' = [approval EXCEPT ![i] = answer]
      /\ approval \in [Item -> {"PENDING"} \cup Resolution]
      /\ outbox \in [Item -> OutboxRow]
      /\ UNCHANGED <<attempt, sessionState, safety, lock, pc, todo, item, token, number,
                     verdict, rescue, applied, faults>>
    BY ConstantsAssumption DEF Resolve, Open, local, IInv, TypeOK
<1>2. outbox[i] = NoOutbox
    BY <1>1 DEF IInv, Staged, Sanctioning
<1>3. /\ fresh \in OutboxRow /\ fresh.status = "PENDING"
      /\ fresh.attempts = 0 /\ fresh.fencingToken = 1
    BY DEF NoOutbox, OutboxRow, OutboxStatus
<1>4. IF answer \in Sanctioning THEN outbox' = [outbox EXCEPT ![i] = fresh]
                                ELSE outbox' = outbox
    BY DEF Resolve
<1> HIDE DEF fresh
<1>5. /\ outbox' \in [Item -> OutboxRow]
      /\ \A j \in Item : outbox'[j].attempts = outbox[j].attempts
      /\ \A j \in Item : j # i => outbox'[j] = outbox[j]
      /\ outbox'[i] = IF answer \in Sanctioning THEN fresh ELSE NoOutbox
    <2>1. NoOutbox.attempts = 0
        BY DEF NoOutbox
    <2> QED BY <1>1, <1>2, <1>3, <1>4, <2>1
<1>6. TypeOK'
    <2>1. approval' \in [Item -> {"PENDING"} \cup Resolution]
        BY <1>1
    <2>2. decision' \in [Item -> DecisionState]
        BY DEF Resolve, IInv, TypeOK, DecisionState
    <2>3. corrections' \in [Session -> Nat]
        <3>1. SessionOf[i] \in Session /\ corrections \in [Session -> Nat]
            BY ConstantsAssumption DEF IInv, TypeOK
        <3>2. corrections[SessionOf[i]] + 1 \in Nat
            BY <3>1
        <3>3. \/ corrections' = [corrections EXCEPT ![SessionOf[i]] = corrections[SessionOf[i]] + 1]
              \/ corrections' = corrections
            BY DEF Resolve
        <3> QED BY <3>1, <3>2, <3>3
    <2>4. UNCHANGED <<attempt, sessionState, safety, lock, pc, todo, item, token, number,
                      verdict, rescue, applied, faults>>
        BY <1>1
    <2>5. outbox' \in [Item -> OutboxRow]
        BY <1>5
    <2> QED BY <2>1, <2>2, <2>3, <2>4, <2>5 DEF IInv, TypeOK
<1>7. Bounded'
    <2>1. \A j \in Item : Queued(j)' \subseteq Queued(j)
        BY <1>1 DEF Queued
    <2> QED BY <1>5, <2>1, BoundKept DEF IInv
<1>8. Placed' /\ Distinct' /\ Endings'
    BY <1>1 DEF IInv, Placed, Distinct, Endings, Working
<1>9. Claims'
    <2>1. \A p \in Pass : Working(p) => item[p] \in Item
        BY DEF IInv, Placed, Working
    <2> QED BY <1>1, <1>5, <2>1 DEF IInv, Claims, Working
<1>10. Staged'
    <2>1. NoOutbox.status = "NONE"
        BY DEF NoOutbox
    <2> QED BY <1>1, <1>3, <1>5, <2>1 DEF IInv, Staged
<1>11. CompletedByLastClaim'
    <2>1. outbox'[i].status # "COMPLETED"
        BY <1>3, <1>5 DEF NoOutbox
    <2> QED BY <1>1, <1>5, <2>1 DEF IInv, CompletedByLastClaim
<1> QED BY <1>6, <1>7, <1>8, <1>9, <1>10, <1>11 DEF IInv
-----------------------------------------------------------------------------
(* Steps that touch no pass, approval or outbox row.                       *)

LEMMA ElsewhereKeepsIInv ==
    ASSUME IInv,
           \/ \E s \in SafetyState : SetState(s)
           \/ \E r \in Reconciler : Reconcile(r) \/ AbandonRescue(r)
           \/ \E s \in Session : LapseLock(s)
           \/ UNCHANGED vars
    PROVE  IInv'
<1>1. UNCHANGED <<approval, outbox, pc, todo, item, token, number, verdict, applied>>
    BY DEF SetState, Reconcile, Recover, Escalate, AbandonRescue, LapseLock, vars, rows, local
<1>2. TypeOK'
    <2>1. CASE \E s \in SafetyState : SetState(s)
        BY <2>1 DEF SetState, rows, local, IInv, TypeOK
    <2>2. ASSUME NEW r \in Reconciler, NEW i \in Item, NEW n \in AttemptNumber, Recover(r, i, n)
          PROVE  TypeOK'
        <3>1. Reclaimed(attempt[i][n], WorkerOf[r]) \in AttemptRow
            BY ConstantsAssumption
            DEF Reclaimed, AttemptRow, AttemptStatus, InFlight, IInv, TypeOK
        <3>2. attempt' \in [Item -> [AttemptNumber -> AttemptRow]]
            BY <2>2, <3>1, SetAttemptTyped DEF Recover, IInv, TypeOK
        <3>3. rescue' \in [Reconciler -> {Nothing} \cup (Item \X AttemptNumber)]
            BY <2>2 DEF Recover, IInv, TypeOK
        <3> QED BY <1>1, <2>2, <3>2, <3>3 DEF Recover, IInv, TypeOK
    <2>3. ASSUME NEW r \in Reconciler, Escalate(r) PROVE TypeOK'
        <3> DEFINE i == rescue[r][1]
        <3> DEFINE n == rescue[r][2]
        <3>1. i \in Item /\ n \in AttemptNumber
            BY <2>3 DEF Escalate, IInv, TypeOK
        <3>2. [attempt[i][n] EXCEPT !.status = "NEEDS_RECONCILIATION"] \in AttemptRow
            <4>1. attempt[i][n] \in AttemptRow
                BY <3>1 DEF IInv, TypeOK
            <4> QED BY <4>1 DEF AttemptRow, AttemptStatus, AttemptTerminal
        <3>3. attempt' \in [Item -> [AttemptNumber -> AttemptRow]]
            BY <2>3, <3>1, <3>2, SetAttemptTyped DEF Escalate, IInv, TypeOK
        <3>4. rescue' \in [Reconciler -> {Nothing} \cup (Item \X AttemptNumber)]
            BY <2>3 DEF Escalate, IInv, TypeOK
        <3> QED BY <1>1, <2>3, <3>3, <3>4 DEF Escalate, IInv, TypeOK
    <2>4. CASE \E s \in Session : LapseLock(s)
        BY <2>4 DEF LapseLock, rows, local, IInv, TypeOK
    <2>5. ASSUME NEW r \in Reconciler, AbandonRescue(r) PROVE TypeOK'
        BY <2>5, ConstantsAssumption DEF AbandonRescue, Fault, rows, local, IInv, TypeOK
    <2>6. CASE UNCHANGED vars
        BY <2>6 DEF vars, rows, local, IInv, TypeOK
    <2> QED BY <2>1, <2>2, <2>3, <2>4, <2>5, <2>6 DEF Reconcile
<1>3. Bounded'
    <2>1. \A i \in Item : Queued(i)' \subseteq Queued(i)
        BY <1>1 DEF Queued
    <2> QED BY <1>1, <2>1, BoundKept DEF IInv
<1>4. {} \in SUBSET Pass
    OBVIOUS
<1> QED BY <1>1, <1>2, <1>3, <1>4, OutsideKeepsIInv
-----------------------------------------------------------------------------
(* The invariant.                                                          *)

LEMMA InitIInv == Init => IInv
<1> SUFFICES ASSUME Init PROVE IInv
    OBVIOUS
<1> USE DEF Init
<1>1. TypeOK
    <2>1. NoOutbox \in OutboxRow
        BY DEF NoOutbox, OutboxRow, OutboxStatus
    <2>2. NoAttempt \in AttemptRow
        BY DEF NoAttempt, AttemptRow, AttemptStatus
    <2> QED BY <2>1, <2>2, ConstantsAssumption DEF TypeOK, DecisionState, Step
<1>2. Bounded
    <2> SUFFICES ASSUME NEW i \in Item
                 PROVE  outbox[i].attempts + Cardinality(Queued(i)) <= AttemptCap
        BY DEF Bounded
    <2>1. Cardinality(Queued(i)) \in Nat /\ Cardinality(Queued(i)) <= Cardinality(Pass)
        BY QueuedFacts
    <2>2. outbox[i].attempts = 0
        BY DEF NoOutbox
    <2> QED BY <2>1, <2>2, CapFacts, ConstantsAssumption
<1>3. Placed /\ Claims /\ Distinct /\ Endings
    BY DEF Placed, Claims, Distinct, Endings, Working, Claimed, Prelude, Calling, Settling
<1>4. Staged /\ CompletedByLastClaim
    BY DEF Staged, CompletedByLastClaim, NoOutbox
<1> QED BY <1>1, <1>2, <1>3, <1>4 DEF IInv

LEMMA NextIInv == IInv /\ [Next]_vars => IInv'
<1> SUFFICES ASSUME IInv, [Next]_vars PROVE IInv'
    OBVIOUS
<1>1. ASSUME NEW i \in Item, NEW answer \in Verdict, Resolve(i, answer) PROVE IInv'
    BY <1>1, ResolveKeepsIInv
<1>2. ASSUME NEW p \in Pass, Advance(p) PROVE IInv'
    <2>1. CASE Claim(p)
        BY <2>1, ClaimKeepsIInv
    <2>2. CASE ExecuteOutbox(p) \/ SettleOutbox(p)
        BY <2>2, OutboxMarkKeepsIInv
    <2>3. CASE CreateAttempt(p) \/ ClaimAttempt(p) \/ ExecuteAttempt(p) \/ SettleAttempt(p)
        BY <2>3, LedgerStepKeepsIInv
    <2>4. CASE ExecuteDecision(p) \/ SettleDecision(p) \/ UpdateSession(p)
        BY <2>4, DecisionStepKeepsIInv
    <2>5. CASE GetSession(p) \/ Mutate(p)
        BY <2>5, CallKeepsIInv
    <2>6. CASE BeginPass(p) \/ Scan(p) \/ (\E i \in Item : TakeItem(p, i)) \/ Release(p)
        BY <2>6, PassStepKeepsIInv
    <2> QED BY <1>2, <2>1, <2>2, <2>3, <2>4, <2>5, <2>6 DEF Advance
<1>3. ASSUME NEW p \in Pass, Abort(p) \/ AbortRelease(p) PROVE IInv'
    BY <1>3, PassStepKeepsIInv
<1>4. ASSUME NEW p \in Pass, Catch(p) PROVE IInv'
    BY <1>4, CallKeepsIInv
<1>5. ASSUME NEW i \in Item, LapseOutbox(i) PROVE IInv'
    BY <1>5, LapseOutboxKeepsIInv
<1>6. ASSUME NEW w \in Worker, Crash(w) PROVE IInv'
    BY <1>6, CrashKeepsIInv
<1>7. CASE \/ \E s \in SafetyState : SetState(s)
           \/ \E r \in Reconciler : Reconcile(r) \/ AbandonRescue(r)
           \/ \E s \in Session : LapseLock(s)
           \/ UNCHANGED vars
    BY <1>7, ElsewhereKeepsIInv
<1> QED BY <1>1, <1>2, <1>3, <1>4, <1>5, <1>6, <1>7 DEF Next, Lapse

\* The inductive invariant holds of every behaviour.
THEOREM InductiveInvariant == Spec => []IInv
BY InitIInv, NextIInv, PTL DEF Spec
-----------------------------------------------------------------------------
(* What follows from it.                                                   *)

\* Every variable keeps its type; above all, no ledger row is ever numbered
\* beyond AttemptCap.
THEOREM TypeCorrect == Spec => []TypeOK
<1>1. IInv => TypeOK
    BY DEF IInv
<1> QED BY <1>1, InductiveInvariant, PTL

\* claim's missing max_attempts check costs less than one claim per pass in
\* flight (outbox.repository.ts): attempts stay below MaxAttempts + passes.
THEOREM AttemptsBoundedAlways == Spec => []AttemptsBounded
<1>1. IInv => AttemptsBounded
    <2> SUFFICES ASSUME IInv, NEW i \in Item PROVE outbox[i].attempts <= AttemptCap
        BY DEF AttemptsBounded
    <2>1. /\ outbox[i].attempts \in Nat
          /\ Cardinality(Queued(i)) \in Nat
          /\ outbox[i].attempts + Cardinality(Queued(i)) <= AttemptCap
        BY QueuedFacts DEF IInv, Bounded, TypeOK, OutboxRow
    <2> QED BY <2>1, CapFacts
<1> QED BY <1>1, InductiveInvariant, PTL

\* Claims in flight on one outbox row never share a token or a number.
THEOREM ClaimsFencedAlways == Spec => []ClaimsFenced
<1>1. IInv => ClaimsFenced
    <2> SUFFICES ASSUME IInv, NEW p \in Pass, NEW q \in Pass, Working(p)
                 PROVE  /\ token[p] <= outbox[item[p]].fencingToken
                        /\ number[p] <= outbox[item[p]].attempts
                        /\ (q # p /\ Working(q) /\ item[q] = item[p]) =>
                               token[q] # token[p] /\ number[q] # number[p]
        BY DEF ClaimsFenced
    <2>1. item[p] \in Item
        BY DEF IInv, Placed, Working
    <2>2. /\ outbox[item[p]].attempts \in Nat
          /\ number[p] \in 1..outbox[item[p]].attempts
          /\ token[p] = number[p] + 1
        BY <2>1 DEF IInv, TypeOK, OutboxRow, Claims
    <2>3. outbox[item[p]].fencingToken = outbox[item[p]].attempts + 1
        BY <2>1, <2>2 DEF IInv, Staged, NoOutbox
    <2>4. (q # p /\ Working(q) /\ item[q] = item[p]) => number[q] # number[p] /\ number[q] \in Nat
        BY <2>2 DEF IInv, Distinct, Claims
    <2>5. Working(q) => token[q] = number[q] + 1
        BY DEF IInv, Claims
    <2> QED BY <2>2, <2>3, <2>4, <2>5
<1> QED BY <1>1, InductiveInvariant, PTL

\* COMPLETED is only ever written for the last claim, and its effect is real.
THEOREM CompletedByLastClaimAlways == Spec => []CompletedByLastClaim
<1>1. IInv => CompletedByLastClaim
    BY DEF IInv
<1> QED BY <1>1, InductiveInvariant, PTL

\* Nothing touches an outbox row once it is COMPLETED, FAILED or UNCERTAIN.
THEOREM SettledRowsFinalAlways == Spec => SettledRowsFinal
<1> DEFINE Kept == \A i \in Item : outbox[i].status \in OutboxTerminal => outbox'[i] = outbox[i]
<1>1. IInv /\ [Next]_vars => Kept
    <2> SUFFICES ASSUME IInv, [Next]_vars, outbox' # outbox PROVE Kept
        OBVIOUS
    <2>1. outbox \in [Item -> OutboxRow]
        BY DEF IInv, TypeOK
    <2>2. ASSUME NEW i \in Item, NEW answer \in Verdict, Resolve(i, answer) PROVE Kept
        <3>1. outbox[i].status \notin OutboxTerminal
            BY <2>2 DEF Resolve, Open, IInv, Staged, Sanctioning, NoOutbox, OutboxTerminal
        <3> QED BY <2>1, <2>2, <3>1 DEF Resolve
    <2>3. ASSUME NEW p \in Pass, Claim(p) PROVE Kept
        <3>1. Unowned(item[p]) => outbox[item[p]].status \notin OutboxTerminal
            BY DEF Unowned, InFlight, OutboxTerminal
        <3> QED BY <2>1, <2>3, <3>1 DEF Claim
    <2>4. ASSUME NEW p \in Pass, ExecuteOutbox(p) \/ SettleOutbox(p) PROVE Kept
        <3>1. OwnsOutbox(p, InFlight) => outbox[item[p]].status \notin OutboxTerminal
            BY DEF OwnsOutbox, InFlight, OutboxTerminal
        <3>2. OwnsOutbox(p, {"CLAIMED"}) => OwnsOutbox(p, InFlight)
            BY DEF OwnsOutbox, InFlight
        <3> QED BY <2>1, <2>4, <3>1, <3>2 DEF ExecuteOutbox, SettleOutbox
    <2>5. ASSUME NEW i \in Item, LapseOutbox(i) PROVE Kept
        BY <2>1, <2>5 DEF LapseOutbox, InFlight, OutboxTerminal
    <2>6. ASSUME NEW p \in Pass, Advance(p) PROVE Kept
        <3>1. Claim(p) \/ ExecuteOutbox(p) \/ SettleOutbox(p)
            BY <2>6 DEF Advance, BeginPass, Scan, TakeItem, CreateAttempt, ClaimAttempt,
                ExecuteAttempt, ExecuteDecision, GetSession, Mutate, SettleAttempt,
                SettleDecision, UpdateSession, Release, rows
        <3> QED BY <2>3, <2>4, <3>1
    <2> QED BY <2>2, <2>5, <2>6
        DEF Next, Lapse, SetState, Abort, AbortRelease, Catch, Reconcile, Recover, Escalate,
            AbandonRescue, LapseLock, Crash, vars, rows
<1> QED BY <1>1, InductiveInvariant, PTL DEF Spec, SettledRowsFinal
-----------------------------------------------------------------------------
(* One dispatcher per session: the lock is held by whoever is inside.      *)

HolderInside ==
    \A p \in Pass : pc[p] \in Claimed \cup {"claim", "release"} => lock[SessionOf[item[p]]] = p

\* A pass enters by taking the lock, and the lock of a pass inside neither
\* lapses nor is taken.
LEMMA HolderInsideStep ==
    ASSUME ~RenewalMayFail, IInv, HolderInside, [Next]_vars
    PROVE  HolderInside'
<1> DEFINE Busy == Claimed \cup {"claim", "release"}
<1>1. /\ pc \in [Pass -> Step] /\ item \in [Pass -> Item \cup {NoItem}]
      /\ lock \in [Session -> Pass \cup {NoPass}]
      /\ \A p \in Pass : pc[p] \in Busy => item[p] \in Item /\ SessionOf[item[p]] \in Session
    BY ConstantsAssumption DEF IInv, TypeOK, Placed
<1>2. ASSUME UNCHANGED <<lock, item>>, \A p \in Pass : pc'[p] \in Busy => pc[p] \in Busy
      PROVE  HolderInside'
    BY <1>2 DEF HolderInside
<1>3. ASSUME NEW p \in Pass, NEW i \in Item, TakeItem(p, i) PROVE HolderInside'
    <2>1. CASE Free(p, SessionOf[i]) /\ lock' = [lock EXCEPT ![SessionOf[i]] = p]
               /\ item' = [item EXCEPT ![p] = i] /\ Goto(p, "claim")
        <3>1. SessionOf[i] \in Session /\ lock[SessionOf[i]] \notin Pass
            BY <2>1, ConstantsAssumption DEF Free
        <3>2. \A q \in Pass : q # p /\ pc'[q] \in Busy =>
                  /\ pc[q] \in Busy /\ item'[q] = item[q]
                  /\ SessionOf[item[q]] # SessionOf[i]
            BY <1>1, <2>1, <3>1 DEF HolderInside, Goto
        <3>3. \A q \in Pass : q # p /\ pc'[q] \in Busy => lock'[SessionOf[item'[q]]] = q
            BY <1>1, <2>1, <3>2 DEF HolderInside
        <3>4. lock'[SessionOf[item'[p]]] = p
            BY <1>1, <2>1, <3>1
        <3> QED BY <3>3, <3>4 DEF HolderInside
    <2>2. CASE UNCHANGED <<lock, item>> /\ Goto(p, "idle")
        <3>1. \A q \in Pass : pc'[q] \in Busy => pc[q] \in Busy
            BY <1>1, <2>2 DEF Goto, Claimed, Prelude, Calling, Settling
        <3> QED BY <1>2, <2>2, <3>1
    <2> QED BY <1>3, <2>1, <2>2 DEF TakeItem
<1>4. ASSUME NEW p \in Pass, Release(p) PROVE HolderInside'
    <2> DEFINE s == SessionOf[item[p]]
    <2>1. pc[p] \in Busy /\ s \in Session /\ lock[s] = p
        BY <1>1, <1>4 DEF Release, HolderInside
    <2>2. /\ lock' = [lock EXCEPT ![s] = NoPass]
          /\ pc'[p] \notin Busy
          /\ \A q \in Pass : q # p => pc'[q] = pc[q] /\ item'[q] = item[q]
        BY <1>1, <1>4, <2>1 DEF Release, Forget, Goto, Claimed, Prelude, Calling, Settling
    <2>3. \A q \in Pass : q # p /\ pc[q] \in Busy => SessionOf[item[q]] # s
        BY <2>1 DEF HolderInside
    <2> QED BY <1>1, <2>2, <2>3 DEF HolderInside
<1>5. ASSUME NEW t \in Session, LapseLock(t) PROVE HolderInside'
    <2>1. \A q \in Pass : pc[q] \in Busy => SessionOf[item[q]] # t
        BY <1>1, <1>5 DEF LapseLock, Inside, HolderInside
    <2> QED BY <1>1, <1>5, <2>1 DEF LapseLock, HolderInside, local
<1>6. ASSUME NEW p \in Pass, AbortRelease(p) PROVE HolderInside'
    <2>1. /\ pc'[p] \notin Busy /\ lock' = lock
          /\ \A q \in Pass : q # p => pc'[q] = pc[q] /\ item'[q] = item[q]
        BY <1>1, <1>6 DEF AbortRelease, Forget, Goto, Claimed, Prelude, Calling, Settling
    <2> QED BY <2>1 DEF HolderInside
<1>7. ASSUME NEW w \in Worker, Crash(w) PROVE HolderInside'
    <2>1. /\ lock' = lock
          /\ \A q \in Pass : pc'[q] \in Busy => pc[q] \in Busy /\ item'[q] = item[q]
        BY <1>7 DEF Crash, Claimed, Prelude, Calling, Settling
    <2> QED BY <2>1 DEF HolderInside
<1>8. ASSUME NEW p \in Pass,
             \/ BeginPass(p) \/ Scan(p) \/ Claim(p)
             \/ CreateAttempt(p) \/ ClaimAttempt(p) \/ ExecuteAttempt(p)
             \/ ExecuteOutbox(p) \/ ExecuteDecision(p) \/ GetSession(p) \/ Mutate(p)
             \/ SettleAttempt(p) \/ SettleOutbox(p) \/ SettleDecision(p)
             \/ UpdateSession(p) \/ Abort(p) \/ Catch(p)
      PROVE  HolderInside'
    <2>1. UNCHANGED <<lock, item>>
        BY <1>8 DEF BeginPass, Scan, Claim, CreateAttempt, ClaimAttempt, ExecuteAttempt,
            ExecuteOutbox, ExecuteDecision, GetSession, Mutate, SettleAttempt, SettleOutbox,
            SettleDecision, UpdateSession, Abort, Catch, local
    <2>2. pc[p] \in Busy \/ pc'[p] \notin Busy
        <3>1. CASE BeginPass(p) \/ Scan(p)
            BY <1>1, <3>1 DEF BeginPass, Scan, Goto, Claimed, Prelude, Calling, Settling
        <3>2. CASE ~(BeginPass(p) \/ Scan(p))
            BY <1>8, <3>2 DEF Claim, CreateAttempt, ClaimAttempt, ExecuteAttempt,
                ExecuteOutbox, ExecuteDecision, GetSession, Mutate, SettleAttempt,
                SettleOutbox, SettleDecision, UpdateSession, Abort, Catch,
                Claimed, Prelude, Calling, Settling
        <3> QED BY <3>1, <3>2
    <2>3. \A q \in Pass : q # p => pc'[q] = pc[q]
        BY <1>1, <1>8 DEF BeginPass, Scan, Claim, CreateAttempt, ClaimAttempt, ExecuteAttempt,
            ExecuteOutbox, ExecuteDecision, GetSession, Mutate, SettleAttempt, SettleOutbox,
            SettleDecision, UpdateSession, Abort, Catch, Settle, Goto
    <2> QED BY <1>2, <2>1, <2>2, <2>3
<1>9. CASE \/ \E i \in Item, answer \in Verdict : Resolve(i, answer)
           \/ \E s \in SafetyState : SetState(s)
           \/ \E r \in Reconciler : Reconcile(r) \/ AbandonRescue(r)
           \/ \E i \in Item : LapseOutbox(i)
           \/ UNCHANGED vars
    <2>1. UNCHANGED <<lock, item, pc>>
        BY <1>9 DEF Resolve, SetState, Reconcile, Recover, Escalate, AbandonRescue, LapseOutbox,
            vars, local
    <2> QED BY <1>2, <2>1
<1> QED BY <1>3, <1>4, <1>5, <1>6, <1>7, <1>8, <1>9 DEF Next, Advance, Lapse

LEMMA HolderInsideAlways == ~RenewalMayFail /\ Spec => []HolderInside
<1> SUFFICES ASSUME ~RenewalMayFail PROVE Spec => []HolderInside
    OBVIOUS
<1>1. Init => HolderInside
    BY DEF Init, HolderInside, Claimed, Prelude, Calling, Settling
<1>2. IInv /\ HolderInside /\ [Next]_vars => HolderInside'
    BY HolderInsideStep
<1> QED BY <1>1, <1>2, InductiveInvariant, PTL DEF Spec

\* As long as live passes keep renewing their lock, it excludes, whatever
\* crashes and overlaps there are.
THEOREM OneDispatcherAlways == ~RenewalMayFail /\ Spec => []OneDispatcherPerSession
<1>1. HolderInside => OneDispatcherPerSession
    BY DEF HolderInside, OneDispatcherPerSession, Inside
<1> QED BY <1>1, HolderInsideAlways, PTL
=============================================================================
