------------------------ MODULE PipelineEffectProofs ------------------------
(***************************************************************************)
(* Proofs about Pipeline: who may touch a decision, and what has become of *)
(* it at each place of the code.  Nothing here needs the session's lock:   *)
(* the insert of the decision row lets one worker through, and only that   *)
(* one goes on to the queue or to Jules.  The second half is what the lock *)
(* is for: while renewals succeed one worker is inside a session, so that  *)
(* the budget, read before the AI is asked and charged after it, and the   *)
(* fingerprints, read before a correction and recorded after it, are read  *)
(* and written as one.  The last part shows from the first that Pipeline   *)
(* implements SupervisedQuestion.                                          *)
(***************************************************************************)
EXTENDS PipelineProofs, PipelineRefinement, FiniteSetTheorems

\* The worker has not sent its mutation yet, or has its attempt open.
Unsent == Ledgering \cup {"recheck", "verifySession", "checkCorrection", "mutate"}
Claimed == {"executeAttempt"} \cup (Trying \ Ledgering)

\* What w knows of the decision it inserted.
Stage(w) ==
    /\ pc[w] \in Authoring =>
           decision[act[w]].action = offer[w].action /\ decision[act[w]].text = offer[w].text
    /\ pc[w] \in {"audit", "approve"} \cup Unsent => applied[act[w]] = <<>>
    /\ pc[w] \in {"audit", "approve", "createAttempt"} => attempt[act[w]] = NoAttempt
    /\ pc[w] \in {"audit"} \cup Trying \cup Catching => approval[act[w]] = "NONE"
    /\ pc[w] = "audit" => decision[act[w]].state = verdict[w]
    /\ pc[w] = "approve" => decision[act[w]].state = "AWAITING_APPROVAL"
    /\ pc[w] \in Trying \cup Catching => decision[act[w]].state \in Acting
    /\ pc[w] \in Trying \ {"resume"} => decision[act[w]].state = "EXECUTING"
    /\ pc[w] \in Trying \cup Catching \/ (pc[w] = "audit" /\ verdict[w] = "EXECUTING") =>
           decision[act[w]].risk \in {"low", "medium"}
    /\ pc[w] = "claimAttempt" => attempt[act[w]].status # "NONE"
    /\ pc[w] \in Claimed => attempt[act[w]].status \notin {"NONE", "PENDING"}
    /\ pc[w] \in Recording => applied[act[w]] # <<>>

\* What holds of an activity's rows and of what Jules did.
Sound(a) ==
    /\ decision[a] = NoDecision =>
           applied[a] = <<>> /\ attempt[a] = NoAttempt /\ approval[a] = "NONE"
    /\ Len(applied[a]) <= 1
    /\ applied[a] # <<>> =>
           /\ StateOf(a) \in Acting
           /\ decision[a].risk \in {"low", "medium"}
           /\ applied[a][1] = [action |-> decision[a].action, text |-> decision[a].text]
           /\ attempt[a].status \notin {"NONE", "PENDING"}
    /\ approval[a] = "PENDING" =>
           StateOf(a) = "AWAITING_APPROVAL" /\ attempt[a] = NoAttempt /\ applied[a] = <<>>
    /\ attempt[a].status = "SUCCEEDED" \/ StateOf(a) = "EXECUTED" => applied[a] # <<>>
    /\ attempt[a].status # "NONE" => StateOf(a) \in Acting

\* A decision has one author: the worker whose insert won.
OneAuthor ==
    \A v, w \in Worker :
        v # w /\ pc[v] \in Authoring /\ pc[w] \in Authoring => act[v] # act[w]

\* Only a row that exists is rescued.
RescueFound(w) == rescue[w] # NoActivity => attempt[rescue[w]].status # "NONE"

ResumedTruly(s) ==
    sessionRow[s] = "IN_PROGRESS" => \E a \in Activity : SessionOf[a] = s /\ applied[a] # <<>>

Authored ==
    /\ OneAuthor
    /\ \A w \in Worker : Stage(w) /\ RescueFound(w)
    /\ \A a \in Activity : Sound(a)
    /\ \A s \in Session : ResumedTruly(s)

\* Nothing of the activity changes.
Kept(a) ==
    /\ decision'[a] = decision[a] /\ approval'[a] = approval[a]
    /\ attempt'[a] = attempt[a] /\ applied'[a] = applied[a]

USE DEF Acting

LEMMA KeptSound ==
    ASSUME NEW a, Kept(a), Sound(a) PROVE Sound(a)'
BY DEF Kept, Sound, StateOf

LEMMA KeptStage ==
    ASSUME NEW v, Stage(v), pc'[v] = pc[v], act'[v] = act[v], offer'[v] = offer[v],
           verdict'[v] = verdict[v], pc[v] \in Authoring => Kept(act[v])
    PROVE  Stage(v)'
BY DEF Kept, Stage, Authoring, Queueing, Unsent, Claimed, Ledgering, Recording, Trying, Catching

\* The other workers' variables, when w moves.
LEMMA OthersStay ==
    ASSUME Typed, NEW w \in Worker, Moves(w), NEW v \in Worker, v # w
    PROVE  /\ pc'[v] = pc[v] /\ act'[v] = act[v] /\ offer'[v] = offer[v]
           /\ verdict'[v] = verdict[v]
BY DEF Moves, Typed, TypeOK

LEMMA AuthorsAct ==
    ASSUME Typed, NEW v \in Worker, pc[v] \in Authoring
    PROVE  /\ act[v] \in Activity /\ decision[act[v]] \in DecisionRow
           /\ decision[act[v]] # NoDecision
           /\ act[v] \in DOMAIN decision /\ act[v] \in DOMAIN approval
           /\ act[v] \in DOMAIN attempt /\ act[v] \in DOMAIN applied
BY DEF Typed, TypeOK, Placed, LocalTyped, Authoring, Queueing, Locked

\* A step of w that touches no decision, approval, attempt or effect.
Private(w) ==
    /\ UNCHANGED <<decision, approval, attempt, applied>>
    /\ rescue' = rescue \/ rescue' = [rescue EXCEPT ![w] = NoActivity]
    /\ pc'[w] \in Authoring => pc[w] \in Authoring /\ act'[w] = act[w]
    /\ Stage(w)'
    /\ \A s \in Session : sessionRow'[s] = "IN_PROGRESS" =>
          \/ sessionRow[s] = "IN_PROGRESS"
          \/ \E a \in Activity : SessionOf[a] = s /\ applied[a] # <<>>

LEMMA PrivateKeepsAuthored ==
    ASSUME Typed, Authored, NEW w \in Worker, Moves(w), Private(w)
    PROVE  Authored'
<1>1. \A a : Kept(a)
    BY DEF Private, Kept
<1>2. \A v \in Worker : Stage(v)'
    <2> SUFFICES ASSUME NEW v \in Worker, v # w PROVE Stage(v)'
        BY DEF Private
    <2> QED BY <1>1, OthersStay, KeptStage DEF Authored
<1>3. OneAuthor'
    <2> SUFFICES ASSUME NEW u \in Worker, NEW v \in Worker, u # v,
                        pc'[u] \in Authoring, pc'[v] \in Authoring
                 PROVE  act'[u] # act'[v]
        BY DEF OneAuthor, Authoring, Queueing, Ledgering, Recording, Trying, Catching
    <2>1. pc[u] \in Authoring /\ act'[u] = act[u]
        BY OthersStay DEF Private
    <2>2. pc[v] \in Authoring /\ act'[v] = act[v]
        BY OthersStay DEF Private
    <2> QED BY <2>1, <2>2 DEF Authored, OneAuthor
<1>4. \A v \in Worker : RescueFound(v)'
    BY DEF Private, Authored, RescueFound, Typed, TypeOK
<1>5. \A a \in Activity : Sound(a)'
    BY <1>1, KeptSound DEF Authored
<1>6. \A s \in Session : ResumedTruly(s)'
    BY DEF Private, Authored, ResumedTruly
<1> QED BY <1>2, <1>3, <1>4, <1>5, <1>6 DEF Authored

\* A step of the one worker that may touch act[w].
OnOwn(w) ==
    /\ UNCHANGED <<rescue, sessionRow>>
    /\ act[w] \in Activity /\ act'[w] = act[w]
    /\ pc[w] \in Authoring \/ decision[act[w]] = NoDecision
    /\ \A b \in Activity : b # act[w] => Kept(b)
    /\ attempt[act[w]].status # "NONE" => attempt'[act[w]].status # "NONE"
    /\ applied[act[w]] # <<>> => applied'[act[w]] # <<>>
    /\ Sound(act[w])'
    /\ Stage(w)'

LEMMA OnOwnKeepsAuthored ==
    ASSUME Typed, Authored, NEW w \in Worker, Moves(w), OnOwn(w)
    PROVE  Authored'
<1>1. ASSUME NEW v \in Worker, v # w, pc[v] \in Authoring
      PROVE  act[v] \in Activity /\ act[v] # act[w]
    BY <1>1, AuthorsAct DEF OnOwn, Authored, OneAuthor
<1>2. \A v \in Worker : Stage(v)'
    <2> SUFFICES ASSUME NEW v \in Worker, v # w PROVE Stage(v)'
        BY DEF OnOwn
    <2>1. pc[v] \in Authoring => Kept(act[v])
        BY <1>1 DEF OnOwn
    <2> QED BY <2>1, OthersStay, KeptStage DEF Authored
<1>3. OneAuthor'
    <2> SUFFICES ASSUME NEW u \in Worker, NEW v \in Worker, u # v,
                        pc'[u] \in Authoring, pc'[v] \in Authoring
                 PROVE  act'[u] # act'[v]
        BY DEF OneAuthor, Authoring, Queueing, Ledgering, Recording, Trying, Catching
    <2>1. CASE u = w
        BY <2>1, <1>1, OthersStay DEF OnOwn
    <2>2. CASE v = w
        BY <2>2, <1>1, OthersStay DEF OnOwn
    <2>3. CASE u # w /\ v # w
        BY <2>3, OthersStay DEF Authored, OneAuthor
    <2> QED BY <2>1, <2>2, <2>3
<1>4. \A v \in Worker : RescueFound(v)'
    <2> SUFFICES ASSUME NEW v \in Worker, rescue[v] # NoActivity
                 PROVE  attempt'[rescue[v]].status # "NONE"
        BY DEF OnOwn, RescueFound
    <2>1. rescue[v] \in Activity /\ attempt[rescue[v]].status # "NONE"
        BY DEF Authored, RescueFound, Typed, TypeOK
    <2> QED BY <2>1 DEF OnOwn, Kept
<1>5. \A a \in Activity : Sound(a)'
    BY KeptSound DEF OnOwn, Authored
<1>6. \A s \in Session : ResumedTruly(s)'
    <2> SUFFICES ASSUME NEW s \in Session, sessionRow[s] = "IN_PROGRESS"
                 PROVE  \E a \in Activity : SessionOf[a] = s /\ applied'[a] # <<>>
        BY DEF OnOwn, ResumedTruly
    <2>1. PICK a \in Activity : SessionOf[a] = s /\ applied[a] # <<>>
        BY DEF Authored, ResumedTruly
    <2> QED BY <2>1 DEF OnOwn, Kept
<1> QED BY <1>2, <1>3, <1>4, <1>5, <1>6 DEF Authored

\* A step of the reconciler, of the environment or of the clock.
Background ==
    /\ UNCHANGED <<pc, local, decision, approval, applied, sessionRow>>
    /\ \A a \in Activity :
          \/ attempt'[a] = attempt[a]
          \/ /\ attempt[a].status # "NONE"
             /\ attempt'[a].status \in {"CLAIMED", "NEEDS_RECONCILIATION"}
    /\ \A w \in Worker : RescueFound(w)'

LEMMA BackgroundKeepsAuthored ==
    ASSUME Typed, Authored, Background
    PROVE  Authored'
<1> USE DEF local
<1>1. NoAttempt.status = "NONE"
    BY RecordUpdates
<1>2. ASSUME NEW v \in Worker PROVE Stage(v)'
    <2>1. CASE pc[v] \in Authoring
        <3>1. act[v] \in Activity /\ Stage(v)
            BY <2>1, AuthorsAct DEF Authored
        <3> QED BY <1>1, <2>1, <3>1 DEF Background, Stage
    <2>2. CASE pc[v] \notin Authoring
        BY <2>2 DEF Background, Stage, Authoring, Queueing, Unsent, Claimed, Ledgering, Recording,
                    Trying, Catching
    <2> QED BY <2>1, <2>2
<1>3. OneAuthor'
    BY DEF Background, Authored, OneAuthor
<1>4. ASSUME NEW a \in Activity PROVE Sound(a)'
    BY <1>1 DEF Background, Authored, Sound, StateOf
<1>5. \A s \in Session : ResumedTruly(s)'
    BY DEF Background, Authored, ResumedTruly
<1> QED BY <1>2, <1>3, <1>4, <1>5 DEF Authored, Background

\* From the poll to the AI.
LEMMA DecidingIsPrivate ==
    ASSUME Typed, Authored, NEW w \in Worker,
           \/ (\E s \in Session : Poll(w, s))
           \/ (\E a \in Activity : Deliver(w, a))
           \/ Lookup(w)
           \/ ReadBudget(w)
           \/ ReadSafety(w)
           \/ AskAnswered(w)
           \/ (\E n \in 0..CallsPerDecision : AskRefused(w, n))
           \/ AskTimedOut(w)
           \/ Charge(w)
    PROVE  Private(w)
<1> USE DEF Goto, rows, local, jules
<1>0. SharedTyped /\ LocalTyped(w) /\ Stage(w)
    BY AtWorker DEF Authored
<1>1. ASSUME (\E s \in Session : Poll(w, s)) PROVE Private(w)
    BY <1>0, <1>1
       DEF Poll, Private, Stage, Authoring, Queueing, Unsent, Claimed, Ledgering, Recording,
           Trying, Catching, Deciding, Typed, TypeOK
<1>2. ASSUME (\E a \in Activity : Deliver(w, a)) PROVE Private(w)
    BY <1>0, <1>2
       DEF Deliver, Private, Stage, Authoring, Queueing, Unsent, Claimed, Ledgering, Recording,
           Trying, Catching, Deciding, Typed, TypeOK
<1>3. ASSUME Lookup(w) PROVE Private(w)
    BY <1>0, <1>3
       DEF Lookup, Private, Stage, Authoring, Queueing, Unsent, Claimed, Ledgering, Recording,
           Trying, Catching, Deciding, Typed, TypeOK, LocalTyped, Waiting
<1>4. ASSUME ReadBudget(w) PROVE Private(w)
    BY <1>0, <1>4
       DEF ReadBudget, Private, Stage, Authoring, Queueing, Unsent, Claimed, Ledgering,
           Recording, Trying, Catching, Deciding, Typed, TypeOK
<1>5. ASSUME ReadSafety(w) PROVE Private(w)
    BY <1>0, <1>5
       DEF ReadSafety, Private, Stage, Authoring, Queueing, Unsent, Claimed, Ledgering,
           Recording, Trying, Catching, Deciding, Typed, TypeOK
<1>6. ASSUME AskAnswered(w) PROVE Private(w)
    BY <1>0, <1>6
       DEF AskAnswered, Asked, Private, Stage, Authoring, Queueing, Unsent, Claimed, Ledgering,
           Recording, Trying, Catching, Deciding, Typed, TypeOK
<1>7. ASSUME (\E n \in 0..CallsPerDecision : AskRefused(w, n)) PROVE Private(w)
    BY <1>0, <1>7
       DEF AskRefused, Asked, Private, Stage, Authoring, Queueing, Unsent, Claimed, Ledgering,
           Recording, Trying, Catching, Deciding, Typed, TypeOK
<1>8. ASSUME AskTimedOut(w) PROVE Private(w)
    BY <1>0, <1>8
       DEF AskTimedOut, Leave, Private, Stage, Authoring, Queueing, Unsent, Claimed, Ledgering,
           Recording, Trying, Catching, Deciding, Typed, TypeOK
<1>9. ASSUME Charge(w) PROVE Private(w)
    BY <1>0, <1>9
       DEF Charge, Leave, Private, Stage, Authoring, Queueing, Unsent, Claimed, Ledgering,
           Recording, Trying, Catching, Deciding, Typed, TypeOK
<1> QED BY <1>1, <1>2, <1>3, <1>4, <1>5, <1>6, <1>7, <1>8, <1>9

\* Of what follows the insert, the steps that write none of its rows.
LEMMA DoingIsPrivate ==
    ASSUME Typed, Authored, NEW w \in Worker,
           \/ FlagSession(w)
           \/ Audit(w)
           \/ Recheck(w)
           \/ VerifySession(w)
           \/ CheckCorrection(w)
           \/ Record(w)
           \/ Count(w)
           \/ Resume(w)
           \/ Release(w)
    PROVE  Private(w)
<1> USE DEF Goto, rows, local, jules
<1>0. SharedTyped /\ LocalTyped(w) /\ Stage(w)
    BY AtWorker DEF Authored
<1>1. ASSUME FlagSession(w) PROVE Private(w)
    BY <1>0, <1>1
       DEF FlagSession, SetSessionRow, Private, Stage, Authoring, Queueing, Unsent, Claimed,
           Ledgering, Recording, Trying, Catching, Deciding, Typed, TypeOK, LocalTyped, Waiting
<1>2. ASSUME Audit(w) PROVE Private(w)
    BY <1>0, <1>2
       DEF Audit, Private, Stage, Authoring, Queueing, Unsent, Claimed, Ledgering, Recording,
           Trying, Catching, Deciding, Typed, TypeOK
<1>3. ASSUME Recheck(w) PROVE Private(w)
    BY <1>0, <1>3
       DEF Recheck, Proceed, Catch, Private, Stage, Authoring, Queueing, Unsent, Claimed,
           Ledgering, Recording, Trying, Catching, Deciding, Typed, TypeOK
<1>4. ASSUME VerifySession(w) PROVE Private(w)
    BY <1>0, <1>4
       DEF VerifySession, Proceed, Catch, Private, Stage, Authoring, Queueing, Unsent, Claimed,
           Ledgering, Recording, Trying, Catching, Deciding, Typed, TypeOK
<1>5. ASSUME CheckCorrection(w) PROVE Private(w)
    BY <1>0, <1>5
       DEF CheckCorrection, Proceed, Catch, Private, Stage, Authoring, Queueing, Unsent,
           Claimed, Ledgering, Recording, Trying, Catching, Deciding, Typed, TypeOK
<1>6. ASSUME Record(w) PROVE Private(w)
    BY <1>0, <1>6
       DEF Record, Private, Stage, Authoring, Queueing, Unsent, Claimed, Ledgering, Recording,
           Trying, Catching, Deciding, Typed, TypeOK
<1>7. ASSUME Count(w) PROVE Private(w)
    BY <1>0, <1>7
       DEF Count, Private, Stage, Authoring, Queueing, Unsent, Claimed, Ledgering, Recording,
           Trying, Catching, Deciding, Typed, TypeOK
<1>8. ASSUME Resume(w) PROVE Private(w)
    BY <1>0, <1>8
       DEF Resume, SetSessionRow, Private, Stage, Authoring, Queueing, Unsent, Claimed,
           Ledgering, Recording, Trying, Catching, Deciding, Typed, TypeOK, LocalTyped, Locked,
           At
<1>9. ASSUME Release(w) PROVE Private(w)
    BY <1>0, <1>9
       DEF Release, Forget, Private, Stage, Authoring, Queueing, Unsent, Claimed, Ledgering,
           Recording, Trying, Catching, Deciding, Typed, TypeOK
<1> QED BY <1>1, <1>2, <1>3, <1>4, <1>5, <1>6, <1>7, <1>8, <1>9

\* Failures.
LEMMA FailingIsPrivate ==
    ASSUME Typed, Authored, NEW w \in Worker,
           \/ Throw(w)
           \/ ThrowInside(w)
           \/ SafetyUnread(w)
           \/ ReleaseFails(w)
           \/ Crash(w)
    PROVE  Private(w)
<1> USE DEF Goto, rows, local, jules
<1>0. SharedTyped /\ LocalTyped(w) /\ Stage(w)
    BY AtWorker DEF Authored
<1>1. ASSUME Throw(w) PROVE Private(w)
    BY <1>0, <1>1
       DEF Throw, Fault, Leave, Private, Stage, Authoring, Queueing, Unsent, Claimed, Ledgering,
           Recording, Trying, Catching, Deciding, Typed, TypeOK
<1>2. ASSUME ThrowInside(w) PROVE Private(w)
    BY <1>0, <1>2
       DEF ThrowInside, Fault, Catch, Private, Stage, Authoring, Queueing, Unsent, Claimed,
           Ledgering, Recording, Trying, Catching, Deciding, Typed, TypeOK
<1>3. ASSUME SafetyUnread(w) PROVE Private(w)
    BY <1>0, <1>3
       DEF SafetyUnread, Fault, Catch, Private, Stage, Authoring, Queueing, Unsent, Claimed,
           Ledgering, Recording, Trying, Catching, Deciding, Typed, TypeOK
<1>4. ASSUME ReleaseFails(w) PROVE Private(w)
    BY <1>0, <1>4
       DEF ReleaseFails, Fault, Forget, Private, Stage, Authoring, Queueing, Unsent, Claimed,
           Ledgering, Recording, Trying, Catching, Deciding, Typed, TypeOK
<1>5. ASSUME Crash(w) PROVE Private(w)
    BY <1>0, <1>5
       DEF Crash, Fault, Forget, Private, Stage, Authoring, Queueing, Unsent, Claimed,
           Ledgering, Recording, Trying, Catching, Deciding, Typed, TypeOK
<1> QED BY <1>1, <1>2, <1>3, <1>4, <1>5

\* What the ledger's writes make of a row.
LEMMA AttemptUpdates ==
    ASSUME NEW row \in AttemptRow
    PROVE  /\ Marked(NoAttempt, "PENDING").status = "PENDING"
           /\ Marked(row, "EXECUTING").status = "EXECUTING"
           /\ Marked(row, "SUCCEEDED").status = "SUCCEEDED"
           /\ \A c \in Category :
                 Marked(row, AttemptStatusFor(c)).status \in {"UNKNOWN_EFFECT", "FAILED"}
           /\ NoAttempt.status = "NONE"
<1>1. \A c \in Category : AttemptStatusFor(c) \in {"UNKNOWN_EFFECT", "FAILED"}
    BY DEF AttemptStatusFor
<1> QED BY <1>1, RecordUpdates DEF InFlight, AttemptTerminal

\* The writes of the ledger.
LEMMA LedgerIsOwn ==
    ASSUME Typed, Authored, NEW w \in Worker,
           \/ CreateAttempt(w)
           \/ ClaimAttempt(w)
           \/ ExecuteAttempt(w)
           \/ Succeed(w)
           \/ FailAttempt(w)
    PROVE  OnOwn(w)
<1> USE DEF Goto, rows, local, jules
<1>0. SharedTyped /\ LocalTyped(w) /\ Stage(w)
    BY AtWorker DEF Authored
<1>1. ASSUME CreateAttempt(w) PROVE OnOwn(w)
    <2>1. pc[w] \in Authoring
        BY <1>1
           DEF CreateAttempt, LedgerStep, SetAttempt, Authoring, Queueing, Unsent, Claimed,
               Ledgering, Recording, Trying, Catching, Deciding
    <2>2. act[w] \in Activity /\ decision[act[w]] \in DecisionRow
          /\ decision[act[w]] # NoDecision /\ Sound(act[w])
        BY <2>1, AuthorsAct DEF Authored
    <2>3. /\ pc[w] = "createAttempt" /\ pc'[w] = "claimAttempt"
          /\ decision'[act[w]] = decision[act[w]] /\ applied'[act[w]] = applied[act[w]]
          /\ approval'[act[w]] = approval[act[w]]
          /\ IF TRUE
             THEN attempt'[act[w]].status = "PENDING"
             ELSE attempt'[act[w]] = attempt[act[w]]
        BY <1>0, <1>1, <2>2, AttemptUpdates, RecordUpdates
           DEF CreateAttempt, LedgerStep, SetAttempt, Typed, TypeOK
    <2>4. /\ UNCHANGED <<rescue, sessionRow>> /\ act'[w] = act[w] /\ offer'[w] = offer[w]
          /\ \A b \in Activity : b # act[w] => Kept(b)
        BY <1>1, <2>2 DEF CreateAttempt, LedgerStep, SetAttempt, Kept, Typed, TypeOK
    <2>5. Sound(act[w])'
        BY <1>0, <2>2, <2>3, <2>4, AttemptUpdates, RecordUpdates
           DEF Sound, StateOf, Stage, Authoring, Queueing, Unsent, Claimed, Ledgering,
               Recording, Trying, Catching, Deciding
    <2>6. Stage(w)'
        BY <1>0, <2>2, <2>3, <2>4
           DEF Stage, Authoring, Queueing, Unsent, Claimed, Ledgering, Recording, Trying,
               Catching, Deciding
    <2> QED BY <2>1, <2>2, <2>3, <2>4, <2>5, <2>6 DEF OnOwn
<1>2. ASSUME ClaimAttempt(w) PROVE OnOwn(w)
    <2>1. pc[w] \in Authoring
        BY <1>2
           DEF ClaimAttempt, MyAttempt, LedgerStep, SetAttempt, Authoring, Queueing, Unsent,
               Claimed, Ledgering, Recording, Trying, Catching, Deciding
    <2>2. act[w] \in Activity /\ decision[act[w]] \in DecisionRow
          /\ decision[act[w]] # NoDecision /\ Sound(act[w])
        BY <2>1, AuthorsAct DEF Authored
    <2>3. /\ pc[w] = "claimAttempt" /\ pc'[w] = "executeAttempt"
          /\ decision'[act[w]] = decision[act[w]] /\ applied'[act[w]] = applied[act[w]]
          /\ approval'[act[w]] = approval[act[w]]
          /\ IF attempt[act[w]].status = "PENDING"
             THEN attempt'[act[w]].status = "CLAIMED"
             ELSE attempt'[act[w]] = attempt[act[w]]
        BY <1>0, <1>2, <2>2 DEF ClaimAttempt, MyAttempt, LedgerStep, SetAttempt, Typed, TypeOK
    <2>4. /\ UNCHANGED <<rescue, sessionRow>> /\ act'[w] = act[w] /\ offer'[w] = offer[w]
          /\ \A b \in Activity : b # act[w] => Kept(b)
        BY <1>2, <2>2 DEF ClaimAttempt, MyAttempt, LedgerStep, SetAttempt, Kept, Typed, TypeOK
    <2>5. Sound(act[w])'
        BY <1>0, <2>2, <2>3, <2>4, RecordUpdates
           DEF Sound, StateOf, Stage, Authoring, Queueing, Unsent, Claimed, Ledgering,
               Recording, Trying, Catching, Deciding
    <2>6. Stage(w)'
        BY <1>0, <2>2, <2>3, <2>4
           DEF Stage, Authoring, Queueing, Unsent, Claimed, Ledgering, Recording, Trying,
               Catching, Deciding
    <2> QED BY <2>1, <2>2, <2>3, <2>4, <2>5, <2>6 DEF OnOwn
<1>3. ASSUME ExecuteAttempt(w) PROVE OnOwn(w)
    <2>1. pc[w] \in Authoring
        BY <1>3
           DEF ExecuteAttempt, MyAttempt, LedgerStep, SetAttempt, Authoring, Queueing, Unsent,
               Claimed, Ledgering, Recording, Trying, Catching, Deciding
    <2>2. act[w] \in Activity /\ decision[act[w]] \in DecisionRow
          /\ decision[act[w]] # NoDecision /\ Sound(act[w])
        BY <2>1, AuthorsAct DEF Authored
    <2>3. /\ pc[w] = "executeAttempt" /\ pc'[w] = "recheck"
          /\ decision'[act[w]] = decision[act[w]] /\ applied'[act[w]] = applied[act[w]]
          /\ approval'[act[w]] = approval[act[w]]
          /\ IF attempt[act[w]].status = "CLAIMED" /\ attempt[act[w]].claimOwner = w
             THEN attempt'[act[w]].status = "EXECUTING"
             ELSE attempt'[act[w]] = attempt[act[w]]
        BY <1>0, <1>3, <2>2, AttemptUpdates
           DEF ExecuteAttempt, MyAttempt, LedgerStep, SetAttempt, AttemptRow, Typed, TypeOK
    <2>4. /\ UNCHANGED <<rescue, sessionRow>> /\ act'[w] = act[w] /\ offer'[w] = offer[w]
          /\ \A b \in Activity : b # act[w] => Kept(b)
        BY <1>3, <2>2 DEF ExecuteAttempt, MyAttempt, LedgerStep, SetAttempt, Kept, Typed, TypeOK
    <2>5. Sound(act[w])'
        BY <1>0, <2>2, <2>3, <2>4, RecordUpdates
           DEF Sound, StateOf, Stage, Authoring, Queueing, Unsent, Claimed, Ledgering,
               Recording, Trying, Catching, Deciding
    <2>6. Stage(w)'
        BY <1>0, <2>2, <2>3, <2>4
           DEF Stage, Authoring, Queueing, Unsent, Claimed, Ledgering, Recording, Trying,
               Catching, Deciding
    <2> QED BY <2>1, <2>2, <2>3, <2>4, <2>5, <2>6 DEF OnOwn
<1>4. ASSUME Succeed(w) PROVE OnOwn(w)
    <2>1. pc[w] \in Authoring
        BY <1>4
           DEF Succeed, MyAttempt, Open, LedgerStep, SetAttempt, Authoring, Queueing, Unsent,
               Claimed, Ledgering, Recording, Trying, Catching, Deciding
    <2>2. act[w] \in Activity /\ decision[act[w]] \in DecisionRow
          /\ decision[act[w]] # NoDecision /\ Sound(act[w])
        BY <2>1, AuthorsAct DEF Authored
    <2>3. /\ pc[w] = "succeed" /\ pc'[w] = "markExecuted"
          /\ decision'[act[w]] = decision[act[w]] /\ applied'[act[w]] = applied[act[w]]
          /\ approval'[act[w]] = approval[act[w]]
          /\ IF attempt[act[w]].status \in InFlight
             THEN attempt'[act[w]].status = "SUCCEEDED"
             ELSE attempt'[act[w]] = attempt[act[w]]
        BY <1>0, <1>4, <2>2, AttemptUpdates
           DEF Succeed, MyAttempt, Open, LedgerStep, SetAttempt, Typed, TypeOK
    <2>4. /\ UNCHANGED <<rescue, sessionRow>> /\ act'[w] = act[w] /\ offer'[w] = offer[w]
          /\ \A b \in Activity : b # act[w] => Kept(b)
        BY <1>4, <2>2 DEF Succeed, MyAttempt, Open, LedgerStep, SetAttempt, Kept, Typed, TypeOK
    <2>7. approval[act[w]] = "NONE" /\ applied[act[w]] # <<>>
        BY <1>0, <2>3
           DEF Stage, Authoring, Queueing, Unsent, Claimed, Ledgering, Recording, Trying,
               Catching, Deciding
    <2>5. Sound(act[w])'
        BY <2>2, <2>3, <2>4, <2>7 DEF Sound, StateOf, InFlight
    <2>6. Stage(w)'
        BY <1>0, <2>2, <2>3, <2>4
           DEF Stage, Authoring, Queueing, Unsent, Claimed, Ledgering, Recording, Trying,
               Catching, Deciding
    <2> QED BY <2>1, <2>2, <2>3, <2>4, <2>5, <2>6 DEF OnOwn
<1>5. ASSUME FailAttempt(w) PROVE OnOwn(w)
    <2>1. pc[w] \in Authoring
        BY <1>5
           DEF FailAttempt, MyAttempt, Open, LedgerStep, SetAttempt, Authoring, Queueing,
               Unsent, Claimed, Ledgering, Recording, Trying, Catching, Deciding
    <2>2. act[w] \in Activity /\ decision[act[w]] \in DecisionRow
          /\ decision[act[w]] # NoDecision /\ Sound(act[w])
        BY <2>1, AuthorsAct DEF Authored
    <2>3. /\ pc[w] = "failAttempt" /\ pc'[w] = "failDecision"
          /\ decision'[act[w]] = decision[act[w]] /\ applied'[act[w]] = applied[act[w]]
          /\ approval'[act[w]] = approval[act[w]]
          /\ IF attempt[act[w]].status \in InFlight
             THEN attempt'[act[w]].status \in {"UNKNOWN_EFFECT", "FAILED"}
             ELSE attempt'[act[w]] = attempt[act[w]]
        BY <1>0, <1>5, <2>2, AttemptUpdates
           DEF FailAttempt, MyAttempt, Open, LedgerStep, SetAttempt, LocalTyped, Catching,
               Typed, TypeOK
    <2>4. /\ UNCHANGED <<rescue, sessionRow>> /\ act'[w] = act[w] /\ offer'[w] = offer[w]
          /\ \A b \in Activity : b # act[w] => Kept(b)
        BY <1>5, <2>2
           DEF FailAttempt, MyAttempt, Open, LedgerStep, SetAttempt, Kept, Typed, TypeOK
    <2>7. approval[act[w]] = "NONE"
        BY <1>0, <2>3
           DEF Stage, Authoring, Queueing, Unsent, Claimed, Ledgering, Recording, Trying,
               Catching, Deciding
    <2>5. Sound(act[w])'
        BY <2>2, <2>3, <2>4, <2>7 DEF Sound, StateOf, InFlight
    <2>6. Stage(w)'
        BY <1>0, <2>2, <2>3, <2>4
           DEF Stage, Authoring, Queueing, Unsent, Claimed, Ledgering, Recording, Trying,
               Catching, Deciding
    <2> QED BY <2>1, <2>2, <2>3, <2>4, <2>5, <2>6 DEF OnOwn
<1> QED BY <1>1, <1>2, <1>3, <1>4, <1>5

\* The end of a decision.
LEMMA SettlingIsOwn ==
    ASSUME Typed, Authored, NEW w \in Worker,
           \/ MarkExecuted(w)
           \/ FailDecision(w)
           \/ Approve(w)
    PROVE  OnOwn(w)
<1> USE DEF Goto, rows, local, jules
<1>0. SharedTyped /\ LocalTyped(w) /\ Stage(w)
    BY AtWorker DEF Authored
<1>1. ASSUME MarkExecuted(w) PROVE OnOwn(w)
    <2>1. pc[w] \in Authoring
        BY <1>1
           DEF MarkExecuted, SetDecision, Authoring, Queueing, Unsent, Claimed, Ledgering,
               Recording, Trying, Catching, Deciding
    <2>2. act[w] \in Activity /\ decision[act[w]] \in DecisionRow
          /\ decision[act[w]] # NoDecision /\ Sound(act[w])
        BY <2>1, AuthorsAct DEF Authored
    <2>3. /\ pc[w] = "markExecuted" /\ pc'[w] = "resume"
          /\ attempt'[act[w]] = attempt[act[w]] /\ applied'[act[w]] = applied[act[w]]
          /\ approval'[act[w]] = approval[act[w]]
          /\ decision'[act[w]] = Settled(decision[act[w]], "EXECUTED")
        BY <1>0, <1>1, <2>2 DEF MarkExecuted, SetDecision, Typed, TypeOK
    <2>4. /\ UNCHANGED <<rescue, sessionRow>> /\ act'[w] = act[w] /\ offer'[w] = offer[w]
          /\ \A b \in Activity : b # act[w] => Kept(b)
        BY <1>1, <2>2 DEF MarkExecuted, SetDecision, Kept, Typed, TypeOK
    <2>5. Sound(act[w])'
        BY <1>0, <2>2, <2>3, <2>4, RecordUpdates, NoDecisionAssumption
           DEF Sound, StateOf, Stage, Authoring, Queueing, Unsent, Claimed, Ledgering,
               Recording, Trying, Catching, Deciding
    <2>6. Stage(w)'
        BY <1>0, <2>2, <2>3, <2>4, RecordUpdates
           DEF Stage, Authoring, Queueing, Unsent, Claimed, Ledgering, Recording, Trying,
               Catching, Deciding
    <2> QED BY <2>1, <2>2, <2>3, <2>4, <2>5, <2>6 DEF OnOwn
<1>2. ASSUME FailDecision(w) PROVE OnOwn(w)
    <2>1. pc[w] \in Authoring
        BY <1>2
           DEF FailDecision, SetDecision, Authoring, Queueing, Unsent, Claimed, Ledgering,
               Recording, Trying, Catching, Deciding
    <2>2. act[w] \in Activity /\ decision[act[w]] \in DecisionRow
          /\ decision[act[w]] # NoDecision /\ Sound(act[w])
        BY <2>1, AuthorsAct DEF Authored
    <2>3. /\ pc[w] = "failDecision" /\ pc'[w] = "release"
          /\ attempt'[act[w]] = attempt[act[w]] /\ applied'[act[w]] = applied[act[w]]
          /\ approval'[act[w]] = approval[act[w]]
          /\ decision'[act[w]] = Settled(decision[act[w]], "EXECUTION_FAILED")
        BY <1>0, <1>2, <2>2 DEF FailDecision, SetDecision, Typed, TypeOK
    <2>4. /\ UNCHANGED <<rescue, sessionRow>> /\ act'[w] = act[w] /\ offer'[w] = offer[w]
          /\ \A b \in Activity : b # act[w] => Kept(b)
        BY <1>2, <2>2 DEF FailDecision, SetDecision, Kept, Typed, TypeOK
    <2>5. Sound(act[w])'
        BY <1>0, <2>2, <2>3, <2>4, RecordUpdates, NoDecisionAssumption
           DEF Sound, StateOf, Stage, Authoring, Queueing, Unsent, Claimed, Ledgering,
               Recording, Trying, Catching, Deciding
    <2>6. Stage(w)'
        BY <1>0, <2>2, <2>3, <2>4, RecordUpdates
           DEF Stage, Authoring, Queueing, Unsent, Claimed, Ledgering, Recording, Trying,
               Catching, Deciding
    <2> QED BY <2>1, <2>2, <2>3, <2>4, <2>5, <2>6 DEF OnOwn
<1>3. ASSUME Approve(w) PROVE OnOwn(w)
    <2>1. pc[w] \in Authoring
        BY <1>3
           DEF Approve, Authoring, Queueing, Unsent, Claimed, Ledgering, Recording, Trying,
               Catching, Deciding
    <2>2. act[w] \in Activity /\ decision[act[w]] \in DecisionRow
          /\ decision[act[w]] # NoDecision /\ Sound(act[w])
        BY <2>1, AuthorsAct DEF Authored
    <2>3. /\ pc[w] = "approve" /\ pc'[w] = "flagSession"
          /\ attempt'[act[w]] = attempt[act[w]] /\ applied'[act[w]] = applied[act[w]]
          /\ decision'[act[w]] = decision[act[w]] /\ approval'[act[w]] = "PENDING"
        BY <1>0, <1>3, <2>2 DEF Approve, Typed, TypeOK
    <2>4. /\ UNCHANGED <<rescue, sessionRow>> /\ act'[w] = act[w] /\ offer'[w] = offer[w]
          /\ \A b \in Activity : b # act[w] => Kept(b)
        BY <1>3, <2>2 DEF Approve, Kept, Typed, TypeOK
    <2>5. Sound(act[w])'
        BY <1>0, <2>2, <2>3, <2>4, NoDecisionAssumption
           DEF Sound, StateOf, Stage, Authoring, Queueing, Unsent, Claimed, Ledgering,
               Recording, Trying, Catching, Deciding
    <2>6. Stage(w)'
        BY <1>0, <2>2, <2>3, <2>4
           DEF Stage, Authoring, Queueing, Unsent, Claimed, Ledgering, Recording, Trying,
               Catching, Deciding
    <2> QED BY <2>1, <2>2, <2>3, <2>4, <2>5, <2>6 DEF OnOwn
<1> QED BY <1>1, <1>2, <1>3

\* The mutation itself.
LEMMA MutateIsOwn ==
    ASSUME Typed, Authored, NEW w \in Worker, Mutate(w)
    PROVE  OnOwn(w)
<1> USE DEF Goto, rows, local, jules
<1> DEFINE sent == [action |-> offer[w].action, text |-> offer[w].text]
<1>1. LocalTyped(w) /\ Stage(w) /\ pc[w] = "mutate" /\ pc[w] \in Authoring
    BY AtWorker DEF Authored, Mutate, Authoring, Trying
<1>2. /\ act[w] \in Activity /\ decision[act[w]] \in DecisionRow
      /\ decision[act[w]] # NoDecision /\ Sound(act[w])
    BY <1>1, AuthorsAct DEF Authored
<1>3. /\ applied[act[w]] = <<>> /\ approval[act[w]] = "NONE"
      /\ decision[act[w]].state = "EXECUTING"
      /\ decision[act[w]].risk \in {"low", "medium"}
      /\ decision[act[w]].action = offer[w].action /\ decision[act[w]].text = offer[w].text
      /\ attempt[act[w]].status \notin {"NONE", "PENDING"}
    BY <1>1 DEF Stage, Authoring, Queueing, Unsent, Claimed, Ledgering, Recording, Trying,
               Catching, Deciding
<1>4. /\ \/ applied'[act[w]] = applied[act[w]] /\ pc'[w] = "failAttempt"
         \/ /\ applied'[act[w]] = Append(applied[act[w]], sent)
            /\ pc'[w] \in {"record", "succeed", "failAttempt"}
      /\ UNCHANGED <<decision, approval, attempt, rescue, sessionRow>>
      /\ act'[w] = act[w] /\ offer'[w] = offer[w]
      /\ \A b \in Activity : b # act[w] => Kept(b)
    BY <1>2 DEF Mutate, Sent, Apply, Proceed, Catch, Kept, Typed, TypeOK
<1>5. Append(<<>>, sent) # <<>> /\ Len(Append(<<>>, sent)) = 1 /\ Append(<<>>, sent)[1] = sent
    OBVIOUS
<1>9. sent = [action |-> decision[act[w]].action, text |-> decision[act[w]].text]
    BY <1>3
<1> HIDE DEF sent
<1>6. \/ applied'[act[w]] = <<>> /\ pc'[w] = "failAttempt"
      \/ /\ applied'[act[w]] # <<>> /\ Len(applied'[act[w]]) = 1 /\ applied'[act[w]][1] = sent
         /\ pc'[w] \in {"record", "succeed", "failAttempt"}
    BY <1>3, <1>4, <1>5
<1>7. Sound(act[w])'
    <2>1. /\ decision'[act'[w]] = decision[act[w]] /\ approval'[act'[w]] = "NONE"
          /\ attempt'[act'[w]] = attempt[act[w]] /\ applied'[act'[w]] = applied'[act[w]]
        BY <1>3, <1>4
    <2>2. CASE applied'[act[w]] = <<>>
        BY <1>2, <1>3, <2>1, <2>2 DEF Sound, StateOf
    <2>3. CASE /\ applied'[act[w]] # <<>> /\ Len(applied'[act[w]]) = 1
               /\ applied'[act[w]][1] = sent
        <3>1. StateOf(act[w])' \in {"EXECUTING", "EXECUTED", "EXECUTION_FAILED"}
            BY <1>2, <1>3, <2>1 DEF StateOf
        <3> QED BY <1>2, <1>3, <1>9, <2>1, <2>3, <3>1 DEF Sound
    <2> QED BY <1>6, <2>2, <2>3
<1>8. Stage(w)'
    BY <1>3, <1>4, <1>6
       DEF Stage, Authoring, Queueing, Unsent, Claimed, Ledgering, Recording, Trying,
               Catching, Deciding
<1> QED BY <1>1, <1>2, <1>4, <1>3, <1>7, <1>8 DEF OnOwn

\* The insert: it makes w the author, or it ends the pass.
LEMMA DecideIsOwnOrPrivate ==
    ASSUME Typed, Authored, NEW w \in Worker, Decide(w)
    PROVE  OnOwn(w) \/ Private(w)
<1> USE DEF Goto, rows, local, jules
<1>1. LocalTyped(w) /\ act[w] \in Activity /\ offer[w] \in Proposed
    BY AtWorker DEF Decide, Locked, Deciding, LocalTyped
<1>2. PICK proposal \in {offer[w], Looped(offer[w])}, assessed \in Assessed,
           config \in Configured, degraded \in Degraded :
        /\ Insert(w, DecisionOf(proposal, assessed, config, degraded))
        /\ offer' = [offer EXCEPT ![w] = proposal]
        /\ verdict' = [verdict EXCEPT ![w] = DecisionOf(proposal, assessed, config, degraded).state]
    BY DEF Decide
<1> DEFINE row == DecisionOf(proposal, assessed, config, degraded)
<1>3. proposal \in Proposed /\ assessed \in Assessment
    BY <1>1, RecordUpdates, PipelineAssumption
<1>4. row \in DecisionRow /\ row # NoDecision
    BY <1>3, DecisionOfTyped, NoDecisionAssumption
<1>5. row.action = proposal.action /\ row.text = proposal.text /\ row.state \in Disposition
    BY DisposeTyped DEF DecisionOf
<1>6. row.state = "EXECUTING" => row.risk \in {"low", "medium"}
    BY ExecutesOnlyWhatIsSafe DEF DecisionOf
<1> HIDE DEF row
<1>7. /\ UNCHANGED <<approval, attempt, applied, rescue, sessionRow>>
      /\ act'[w] = act[w] /\ offer'[w] = proposal /\ verdict'[w] = row.state
    BY <1>2 DEF Decide, Typed, TypeOK, row
<1>8. CASE decision[act[w]] = NoDecision
    <2>1. /\ decision' = [decision EXCEPT ![act[w]] = row] /\ pc'[w] = "audit"
          /\ decision'[act[w]] = row
          /\ \A b \in Activity : b # act[w] => Kept(b)
        BY <1>1, <1>2, <1>7, <1>8 DEF Insert, Kept, Typed, TypeOK, row
    <2>2. Sound(act[w]) /\ NoAttempt.status = "NONE"
        BY <1>1, RecordUpdates DEF Authored
    <2>3. Sound(act[w])'
        BY <1>4, <1>5, <1>7, <1>8, <2>1, <2>2 DEF Sound, StateOf, Disposition
    <2>4. Stage(w)'
        BY <1>5, <1>6, <1>7, <1>8, <2>1, <2>2
           DEF Stage, Sound, Authoring, Queueing, Unsent, Claimed, Ledgering, Recording, Trying,
               Catching, Deciding
    <2> QED BY <1>1, <1>7, <1>8, <2>1, <2>2, <2>3, <2>4 DEF OnOwn, Sound
<1>9. CASE decision[act[w]] # NoDecision
    <2>1. pc'[w] = "release" /\ decision' = decision
        BY <1>2, <1>9 DEF Insert, Typed, TypeOK
    <2> QED BY <1>7, <2>1
               DEF Private, Stage, Authoring, Queueing, Unsent, Claimed, Ledgering, Recording,
                   Trying,
               Catching, Deciding
<1> QED BY <1>8, <1>9

LEMMA AuthoredInitially == Init => Authored
<1> SUFFICES ASSUME Init PROVE Authored
    OBVIOUS
<1>1. NoAttempt.status = "NONE"
    BY RecordUpdates
<1>2. ASSUME NEW w \in Worker PROVE Stage(w) /\ RescueFound(w)
    BY DEF Init, RescueFound, Stage, Authoring, Queueing, Unsent, Claimed, Ledgering, Recording,
           Trying,
               Catching, Deciding
<1>3. ASSUME NEW a \in Activity PROVE Sound(a)
    BY <1>1 DEF Init, Sound, StateOf
<1>4. OneAuthor /\ \A s \in Session : ResumedTruly(s)
    BY DEF Init, OneAuthor, ResumedTruly, Authoring, Queueing, Unsent, Claimed, Ledgering,
           Recording, Trying,
               Catching, Deciding
<1> QED BY <1>2, <1>3, <1>4 DEF Authored

LEMMA OthersAreBackground ==
    ASSUME Typed, Authored,
           \/ (\E a \in Activity : JulesAsks(a))
           \/ (\E s \in Session : JulesGoesOn(s) \/ LapseLock(s))
           \/ (\E state \in SafetyState : SetState(state))
           \/ (\E w \in Worker : Reconcile(w) \/ AbandonRescue(w))
           \/ UNCHANGED vars
    PROVE  Background
<1> USE DEF rows, local, jules
<1>0. \A w \in Worker : RescueFound(w)
    BY DEF Authored
<1>1. ASSUME UNCHANGED <<pc, local, decision, approval, applied, sessionRow, attempt, rescue>>
      PROVE  Background
    BY <1>0, <1>1 DEF Background, RescueFound
<1>2. ASSUME NEW a \in Activity, JulesAsks(a) PROVE Background
    BY <1>1, <1>2 DEF JulesAsks
<1>3. ASSUME NEW s \in Session, JulesGoesOn(s) \/ LapseLock(s) PROVE Background
    BY <1>1, <1>3 DEF JulesGoesOn, LapseLock
<1>4. ASSUME NEW state \in SafetyState, SetState(state) PROVE Background
    BY <1>1, <1>4 DEF SetState
<1>5. ASSUME NEW w \in Worker, NEW a \in Activity, Recover(w, a) PROVE Background
    <2> DEFINE row == [status |-> "CLAIMED", claimOwner |-> w]
    <2>1. /\ UNCHANGED <<pc, local, decision, approval, applied, sessionRow>>
          /\ attempt' = [attempt EXCEPT ![a] = row]
          /\ rescue' = [rescue EXCEPT ![w] = a]
          /\ attempt[a].status # "NONE"
        BY <1>5 DEF Recover, SetAttempt, Stale, InFlight
    <2>2. row.status = "CLAIMED"
        OBVIOUS
    <2> HIDE DEF row
    <2>3. /\ attempt'[a] = row
          /\ \A b \in Activity : b # a => attempt'[b] = attempt[b]
        BY <2>1 DEF Typed, TypeOK
    <2>4. ASSUME NEW v \in Worker, rescue'[v] # NoActivity
          PROVE  rescue'[v] \in Activity /\ attempt'[rescue'[v]].status # "NONE"
        <3>1. CASE v = w
            BY <3>1, <2>1, <2>2, <2>3 DEF Typed, TypeOK
        <3>2. CASE v # w
            BY <3>2, <1>0, <2>1, <2>2, <2>3, <2>4 DEF Typed, TypeOK, RescueFound
        <3> QED BY <3>1, <3>2
    <2> QED BY <2>1, <2>2, <2>3, <2>4 DEF Background, RescueFound
<1>6. ASSUME NEW w \in Worker, Escalate(w) PROVE Background
    <2> DEFINE a == rescue[w]
               row == Marked(attempt[a], "NEEDS_RECONCILIATION")
    <2>1. /\ UNCHANGED <<pc, local, decision, approval, applied, sessionRow>>
          /\ attempt' = [attempt EXCEPT ![a] = row]
          /\ rescue' = [rescue EXCEPT ![w] = NoActivity]
          /\ a \in Activity /\ attempt[a].status # "NONE" /\ attempt[a] \in AttemptRow
        BY <1>0, <1>6 DEF Escalate, SetAttempt, RescueFound, Typed, TypeOK
    <2>2. row.status = "NEEDS_RECONCILIATION"
        BY <2>1, RecordUpdates DEF AttemptTerminal
    <2> HIDE DEF row, a
    <2>3. /\ attempt'[a] = row
          /\ \A b \in Activity : b # a => attempt'[b] = attempt[b]
        BY <2>1 DEF Typed, TypeOK
    <2>4. ASSUME NEW v \in Worker, rescue'[v] # NoActivity
          PROVE  attempt'[rescue'[v]].status # "NONE"
        BY <1>0, <2>1, <2>2, <2>3, <2>4 DEF Typed, TypeOK, RescueFound
    <2> QED BY <2>1, <2>2, <2>3, <2>4 DEF Background, RescueFound
<1>7. ASSUME NEW w \in Worker, AbandonRescue(w) PROVE Background
    BY <1>0, <1>7 DEF AbandonRescue, Background, RescueFound, Typed, TypeOK
<1>8. CASE UNCHANGED vars
    BY <1>1, <1>8 DEF vars
<1> QED BY <1>2, <1>3, <1>4, <1>5, <1>6, <1>7, <1>8 DEF Reconcile

LEMMA StepKeepsAuthored == ASSUME Typed, Authored, [Next]_vars PROVE Authored'
<1>1. ASSUME NEW w \in Worker, Advance(w) PROVE Authored'
    <2>1. Moves(w)
        BY <1>1, DecidingKeepsTyped, DecideKeepsTyped, QueueingKeepsTyped, LedgerKeepsTyped,
           TryingKeepsTyped, SettlingKeepsTyped DEF Advance, Ask
    <2>2. OnOwn(w) \/ Private(w)
        BY <1>1, DecidingIsPrivate, DoingIsPrivate, DecideIsOwnOrPrivate, LedgerIsOwn,
           SettlingIsOwn, MutateIsOwn DEF Advance, Ask
    <2> QED BY <2>1, <2>2, PrivateKeepsAuthored, OnOwnKeepsAuthored
<1>2. ASSUME NEW w \in Worker, Fail(w), ~AbandonRescue(w) PROVE Authored'
    <2>1. Moves(w) /\ Private(w)
        BY <1>2, FailingKeepsTyped, FailingIsPrivate DEF Fail
    <2> QED BY <2>1, PrivateKeepsAuthored
<1>3. CASE \/ \E a \in Activity : JulesAsks(a)
           \/ \E s \in Session : JulesGoesOn(s) \/ LapseLock(s)
           \/ \E state \in SafetyState : SetState(state)
           \/ \E w \in Worker : Reconcile(w) \/ AbandonRescue(w)
           \/ UNCHANGED vars
    BY <1>3, OthersAreBackground, BackgroundKeepsAuthored
<1> QED BY <1>1, <1>2, <1>3 DEF Next

LEMMA AuthoredAlways == Spec => [](Typed /\ Authored)
<1>1. Init => Typed /\ Authored
    BY TypedInitially, AuthoredInitially
<1>2. Typed /\ Authored /\ [Next]_vars => (Typed /\ Authored)'
    BY StepKeepsTyped, StepKeepsAuthored
<1> QED BY <1>1, <1>2, PTL DEF Spec

\* However often an activity is delivered, and although locks may be lost, the
\* insert of its decision lets one worker through, which sends once.
THEOREM MutatedAtMostOnceAlways == Spec => []MutatedAtMostOnce
<1>1. Typed /\ Authored => MutatedAtMostOnce
    BY DEF Authored, Sound, MutatedAtMostOnce
<1> QED BY <1>1, AuthoredAlways, PTL

\* What is sent without a human is what the decision row says, at a risk that
\* the gate lets through, whatever other workers proposed meanwhile.
THEOREM EffectIsTheDecisionAlways == Spec => []EffectIsTheDecision
<1>1. Typed /\ Authored => EffectIsTheDecision
    BY DEF Authored, Sound, EffectIsTheDecision
<1> QED BY <1>1, AuthoredAlways, PTL

\* The ledger row of an effect exists and was claimed before it, so the
\* reconciler finds what a crash leaves behind.
THEOREM EffectsAreLedgeredAlways == Spec => []EffectsAreLedgered
<1>1. Typed /\ Authored => EffectsAreLedgered
    BY DEF Authored, Sound, EffectsAreLedgered
<1> QED BY <1>1, AuthoredAlways, PTL

\* What waits for a human's approval has no attempt and no effect.
THEOREM QueuedIsUntouchedAlways == Spec => []QueuedIsUntouched
<1>1. Typed /\ Authored => QueuedIsUntouched
    BY DEF Authored, Sound, QueuedIsUntouched
<1> QED BY <1>1, AuthoredAlways, PTL

\* SUCCEEDED, EXECUTED and a resumed session are never claimed without an effect.
THEOREM SuccessIsTrueAlways == Spec => []SuccessIsTrue
<1>1. Typed /\ Authored => SuccessIsTrue
    BY DEF Authored, Sound, ResumedTruly, SuccessIsTrue
<1> QED BY <1>1, AuthoredAlways, PTL
-----------------------------------------------------------------------------
(* Budgets and corrections, under the lock.                                *)

\* While renewals succeed, whoever is inside withLock holds the lock.
Holds == ~RenewalMayFail => \A w \in Worker : pc[w] \in Locked => lock[At(w)] = w

\* The budget was read and found sufficient; the calls are not charged yet.
Commits(w) == pc[w] \in {"ask", "charge"} \/ (pc[w] = "readSafety" /\ verdict[w] = "WITHIN")
Committed(s) == {w \in Worker : Commits(w) /\ At(w) = s}

Budgeted ==
    \A s \in Session :
        aiCalls[s] + CallsPerDecision * Cardinality(Committed(s))
            <= MaxAiCalls - 1 + CallsPerDecision * Rivals

\* a is a correction that was carried out.
Corrected(a) == StateOf(a) = "EXECUTED" /\ decision[a].action = "REQUEST_CHANGES"

Correcting(w) == pc[w] \in Trying /\ offer[w].action = "REQUEST_CHANGES"

\* A correction's fingerprint is recorded before the correction is called executed,
\* and a correction under way differs from those that were.
Fingerprinted ==
    ~RenewalMayFail =>
        /\ \A a \in Activity : Corrected(a) => decision[a].text \in fingerprints[SessionOf[a]]
        /\ \A w \in Worker : Correcting(w) =>
              /\ pc[w] \in {"mutate", "record"} => offer[w].text \notin fingerprints[At(w)]
              /\ pc[w] \in {"count", "succeed", "markExecuted"} =>
                    offer[w].text \in fingerprints[At(w)]
              /\ pc[w] \in {"count", "succeed", "markExecuted"} =>
                    \A b \in Activity : b # act[w] /\ SessionOf[b] = At(w) /\ Corrected(b)
                         => decision[b].text # offer[w].text

Excluded == Holds /\ Budgeted /\ Fingerprinted /\ CorrectionsDiffer

LEMMA ScaledMonotone ==
    ASSUME NEW c \in Nat, NEW m \in Nat, NEW n \in Nat, m <= n
    PROVE  c * m \in Nat /\ c * n \in Nat /\ c * m <= c * n
OBVIOUS

LEMMA ScaledStep ==
    ASSUME NEW c \in Nat, NEW n \in Nat, n > 0
    PROVE  n - 1 \in Nat /\ c * (n - 1) = c * n - c
OBVIOUS

LEMMA WorkersCounted ==
    ASSUME NEW S \in SUBSET Worker
    PROVE  /\ IsFiniteSet(S) /\ Cardinality(S) \in Nat
           /\ Cardinality(S) <= Cardinality(Worker)
           /\ Rivals \in Nat
<1>1. IsFiniteSet(Worker) /\ IsFiniteSet(S) /\ Cardinality(S) <= Cardinality(Worker)
    BY PipelineAssumption, FS_Subset
<1>2. Cardinality(S) \in Nat /\ Cardinality(Worker) \in Nat
    BY <1>1, FS_CardinalityType
<1> QED BY <1>1, <1>2 DEF Rivals

\* Where locks are kept, workers that hold the same lock are one.
LEMMA RivalsCounted ==
    ASSUME NEW S \in SUBSET Worker, NEW x, RenewalMayFail \/ S \subseteq {x}
    PROVE  Cardinality(S) <= Rivals
<1>1. CASE RenewalMayFail
    BY <1>1, WorkersCounted DEF Rivals
<1>2. CASE ~RenewalMayFail
    <2>1. IsFiniteSet({x}) /\ Cardinality({x}) = 1 /\ S \in SUBSET {x}
        BY <1>2, FS_Singleton
    <2>2. Cardinality(S) <= 1
        BY <2>1, FS_Subset
    <2> QED BY <1>2, <2>2 DEF Rivals
<1> QED BY <1>1, <1>2

\* In a session with its lock held, one worker is inside.
LEMMA OneInside ==
    ASSUME Typed, Holds, ~RenewalMayFail, NEW v \in Worker, NEW w \in Worker,
           pc[v] \in Locked, pc[w] \in Locked, At(v) = At(w)
    PROVE  v = w
BY DEF Holds

\* What most steps of w leave alone: locks, and who is inside; ...
KeepsLocks(w) ==
    /\ lock' = lock
    /\ pc'[w] \in Locked => pc[w] \in Locked /\ act'[w] = act[w]

\* ... the budget, and who may still charge it; ...
KeepsBudget(w) ==
    /\ aiCalls' = aiCalls
    /\ Commits(w)' => Commits(w) /\ act'[w] = act[w]

\* ... and what is executed and recorded.
SameCorrection(w, steps) ==
    Correcting(w)' /\ pc'[w] \in steps =>
        /\ Correcting(w) /\ pc[w] \in steps
        /\ act'[w] = act[w] /\ offer'[w] = offer[w]

KeepsExecuted ==
    \A a \in Activity : Corrected(a)' => Corrected(a) /\ decision'[a].text = decision[a].text

KeepsCorrections(w) ==
    /\ fingerprints' = fingerprints
    /\ KeepsExecuted
    /\ SameCorrection(w, {"mutate", "record"})
    /\ SameCorrection(w, {"count", "succeed", "markExecuted"})

LEMMA MovesAct ==
    ASSUME Typed, NEW w \in Worker, Moves(w), NEW v \in Worker, v # w
    PROVE  /\ pc'[v] = pc[v] /\ At(v)' = At(v) /\ (Commits(v)' <=> Commits(v))
           /\ (Correcting(v)' <=> Correcting(v)) /\ offer'[v] = offer[v] /\ act'[v] = act[v]
BY OthersStay DEF At, Commits, Correcting

LEMMA LocksStillHeld ==
    ASSUME Typed, Holds, NEW w \in Worker, Moves(w), KeepsLocks(w)
    PROVE  Holds'
<1> SUFFICES ASSUME ~RenewalMayFail, NEW v \in Worker, pc'[v] \in Locked
             PROVE  lock'[At(v)'] = v
    BY DEF Holds, Locked, Deciding, Queueing, Ledgering, Recording, Trying, Catching
<1>1. CASE v = w
    BY <1>1 DEF KeepsLocks, Holds, At
<1>2. CASE v # w
    BY <1>2, MovesAct DEF KeepsLocks, Holds
<1> QED BY <1>1, <1>2

LEMMA BudgetNarrows ==
    ASSUME Budgeted, aiCalls \in [Session -> Nat], aiCalls' = aiCalls,
           \A s \in Session : Committed(s)' \subseteq Committed(s)
    PROVE  Budgeted'
<1> SUFFICES ASSUME NEW s \in Session
             PROVE  aiCalls[s] + CallsPerDecision * Cardinality(Committed(s)')
                        <= MaxAiCalls - 1 + CallsPerDecision * Rivals
    BY DEF Budgeted, Rivals
<1> DEFINE new == Cardinality(Committed(s)')
           old == Cardinality(Committed(s))
<1>1. new \in Nat /\ old \in Nat /\ new <= old /\ Rivals \in Nat
    <2>1. Committed(s) \in SUBSET Worker /\ Committed(s)' \in SUBSET Worker
        BY DEF Committed
    <2> QED BY <2>1, WorkersCounted, FS_Subset
<1>2. aiCalls[s] + CallsPerDecision * old <= MaxAiCalls - 1 + CallsPerDecision * Rivals
    BY DEF Budgeted
<1>3. CallsPerDecision \in Nat /\ MaxAiCalls \in Nat /\ aiCalls[s] \in Nat
    BY PipelineAssumption
<1> HIDE DEF new, old
<1>4. /\ CallsPerDecision * new <= CallsPerDecision * old
      /\ CallsPerDecision * new \in Nat /\ CallsPerDecision * old \in Nat
      /\ CallsPerDecision * Rivals \in Nat
    BY <1>1, <1>3, ScaledMonotone
<1> QED BY <1>2, <1>3, <1>4 DEF new

LEMMA BudgetStillKept ==
    ASSUME Typed, Budgeted, NEW w \in Worker, Moves(w), KeepsBudget(w)
    PROVE  Budgeted'
<1>1. \A s \in Session : Committed(s)' \subseteq Committed(s)
    <2> SUFFICES ASSUME NEW s \in Session, NEW v \in Worker, Commits(v)', At(v)' = s
                 PROVE  Commits(v) /\ At(v) = s
        BY DEF Committed
    <2>1. CASE v = w
        BY <2>1 DEF KeepsBudget, At
    <2>2. CASE v # w
        BY <2>2, MovesAct
    <2> QED BY <2>1, <2>2
<1> QED BY <1>1, BudgetNarrows DEF KeepsBudget, Typed, TypeOK

LEMMA StillDiffer ==
    ASSUME CorrectionsDiffer, KeepsExecuted
    PROVE  CorrectionsDiffer'
BY DEF CorrectionsDiffer, KeepsExecuted, Corrected

LEMMA StillFingerprinted ==
    ASSUME Typed, Fingerprinted, NEW w \in Worker, Moves(w), KeepsCorrections(w)
    PROVE  Fingerprinted'
<1> SUFFICES ASSUME ~RenewalMayFail PROVE Fingerprinted'
    BY DEF Fingerprinted
<1>1. ASSUME NEW a \in Activity, Corrected(a)'
      PROVE  decision'[a].text \in fingerprints'[SessionOf[a]]
    BY <1>1 DEF KeepsCorrections, KeepsExecuted, Fingerprinted
<1>2. ASSUME NEW v \in Worker, Correcting(v)', pc'[v] \in {"mutate", "record"}
      PROVE  offer'[v].text \notin fingerprints'[At(v)']
    <2>1. CASE v = w
        BY <1>2, <2>1 DEF KeepsCorrections, SameCorrection, Fingerprinted, At
    <2>2. CASE v # w
        BY <1>2, <2>2, MovesAct DEF KeepsCorrections, Fingerprinted
    <2> QED BY <2>1, <2>2
<1>3. ASSUME NEW v \in Worker, Correcting(v)', pc'[v] \in {"count", "succeed", "markExecuted"}
      PROVE  /\ offer'[v].text \in fingerprints'[At(v)']
             /\ \A b \in Activity : b # act'[v] /\ SessionOf[b] = At(v)' /\ Corrected(b)'
                  => decision'[b].text # offer'[v].text
    <2>1. /\ Correcting(v) /\ pc[v] \in {"count", "succeed", "markExecuted"}
          /\ act'[v] = act[v] /\ offer'[v] = offer[v] /\ At(v)' = At(v)
        BY <1>3, MovesAct DEF KeepsCorrections, SameCorrection, At
    <2> QED BY <2>1 DEF KeepsCorrections, KeepsExecuted, Fingerprinted
<1> QED BY <1>1, <1>2, <1>3 DEF Fingerprinted

\* The steps that disturb nothing of this layer.
LEMMA QuietSteps ==
    ASSUME Typed, NEW w \in Worker,
           \/ (\E s \in Session : Poll(w, s))
           \/ Lookup(w)
           \/ ReadSafety(w)
           \/ AskAnswered(w)
           \/ (\E n \in 0..CallsPerDecision : AskRefused(w, n))
           \/ AskTimedOut(w)
           \/ Audit(w)
           \/ Approve(w)
           \/ FlagSession(w)
           \/ CreateAttempt(w)
           \/ ClaimAttempt(w)
           \/ ExecuteAttempt(w)
           \/ Recheck(w)
           \/ VerifySession(w)
           \/ Mutate(w)
           \/ Count(w)
           \/ Succeed(w)
           \/ Resume(w)
           \/ FailAttempt(w)
           \/ Throw(w)
           \/ ThrowInside(w)
           \/ SafetyUnread(w)
           \/ ReleaseFails(w)
           \/ Crash(w)
    PROVE  KeepsLocks(w) /\ KeepsBudget(w) /\ KeepsCorrections(w)
<1> USE DEF Goto, rows, local, jules
<1>1. ASSUME (\E s \in Session : Poll(w, s))
      PROVE  KeepsLocks(w) /\ KeepsBudget(w) /\ KeepsCorrections(w)
    BY <1>1
       DEF Poll, KeepsLocks, KeepsBudget, KeepsCorrections, KeepsExecuted, SameCorrection,
           Commits,
       Correcting, Corrected, StateOf, Locked, Deciding, Queueing, Ledgering, Recording, Trying,
       Catching, Typed, TypeOK
<1>2. ASSUME Lookup(w)
      PROVE  KeepsLocks(w) /\ KeepsBudget(w) /\ KeepsCorrections(w)
    BY <1>2
       DEF Lookup, KeepsLocks, KeepsBudget, KeepsCorrections, KeepsExecuted, SameCorrection,
           Commits,
       Correcting, Corrected, StateOf, Locked, Deciding, Queueing, Ledgering, Recording, Trying,
       Catching, Typed, TypeOK
<1>3. ASSUME ReadSafety(w)
      PROVE  KeepsLocks(w) /\ KeepsBudget(w) /\ KeepsCorrections(w)
    BY <1>3
       DEF ReadSafety, KeepsLocks, KeepsBudget, KeepsCorrections, KeepsExecuted, SameCorrection,
           Commits,
       Correcting, Corrected, StateOf, Locked, Deciding, Queueing, Ledgering, Recording, Trying,
       Catching, Typed, TypeOK
<1>4. ASSUME AskAnswered(w)
      PROVE  KeepsLocks(w) /\ KeepsBudget(w) /\ KeepsCorrections(w)
    BY <1>4
       DEF AskAnswered, Asked, KeepsLocks, KeepsBudget, KeepsCorrections, KeepsExecuted,
           SameCorrection, Commits,
       Correcting, Corrected, StateOf, Locked, Deciding, Queueing, Ledgering, Recording, Trying,
       Catching, Typed, TypeOK
<1>5. ASSUME (\E n \in 0..CallsPerDecision : AskRefused(w, n))
      PROVE  KeepsLocks(w) /\ KeepsBudget(w) /\ KeepsCorrections(w)
    BY <1>5
       DEF AskRefused, Asked, KeepsLocks, KeepsBudget, KeepsCorrections, KeepsExecuted,
           SameCorrection, Commits,
       Correcting, Corrected, StateOf, Locked, Deciding, Queueing, Ledgering, Recording, Trying,
       Catching, Typed, TypeOK
<1>6. ASSUME AskTimedOut(w)
      PROVE  KeepsLocks(w) /\ KeepsBudget(w) /\ KeepsCorrections(w)
    BY <1>6
       DEF AskTimedOut, Leave, KeepsLocks, KeepsBudget, KeepsCorrections, KeepsExecuted,
           SameCorrection, Commits,
       Correcting, Corrected, StateOf, Locked, Deciding, Queueing, Ledgering, Recording, Trying,
       Catching, Typed, TypeOK
<1>7. ASSUME Audit(w)
      PROVE  KeepsLocks(w) /\ KeepsBudget(w) /\ KeepsCorrections(w)
    BY <1>7
       DEF Audit, KeepsLocks, KeepsBudget, KeepsCorrections, KeepsExecuted, SameCorrection,
           Commits,
       Correcting, Corrected, StateOf, Locked, Deciding, Queueing, Ledgering, Recording, Trying,
       Catching, Typed, TypeOK
<1>8. ASSUME Approve(w)
      PROVE  KeepsLocks(w) /\ KeepsBudget(w) /\ KeepsCorrections(w)
    BY <1>8
       DEF Approve, KeepsLocks, KeepsBudget, KeepsCorrections, KeepsExecuted, SameCorrection,
           Commits,
       Correcting, Corrected, StateOf, Locked, Deciding, Queueing, Ledgering, Recording, Trying,
       Catching, Typed, TypeOK
<1>9. ASSUME FlagSession(w)
      PROVE  KeepsLocks(w) /\ KeepsBudget(w) /\ KeepsCorrections(w)
    BY <1>9
       DEF FlagSession, SetSessionRow, KeepsLocks, KeepsBudget, KeepsCorrections, KeepsExecuted,
           SameCorrection, Commits,
       Correcting, Corrected, StateOf, Locked, Deciding, Queueing, Ledgering, Recording, Trying,
       Catching, Typed, TypeOK
<1>10. ASSUME CreateAttempt(w)
      PROVE  KeepsLocks(w) /\ KeepsBudget(w) /\ KeepsCorrections(w)
    BY <1>10
       DEF CreateAttempt, LedgerStep, SetAttempt, KeepsLocks, KeepsBudget, KeepsCorrections,
           KeepsExecuted, SameCorrection, Commits,
       Correcting, Corrected, StateOf, Locked, Deciding, Queueing, Ledgering, Recording, Trying,
       Catching, Typed, TypeOK
<1>11. ASSUME ClaimAttempt(w)
      PROVE  KeepsLocks(w) /\ KeepsBudget(w) /\ KeepsCorrections(w)
    BY <1>11
       DEF ClaimAttempt, LedgerStep, SetAttempt, KeepsLocks, KeepsBudget, KeepsCorrections,
           KeepsExecuted, SameCorrection, Commits,
       Correcting, Corrected, StateOf, Locked, Deciding, Queueing, Ledgering, Recording, Trying,
       Catching, Typed, TypeOK
<1>12. ASSUME ExecuteAttempt(w)
      PROVE  KeepsLocks(w) /\ KeepsBudget(w) /\ KeepsCorrections(w)
    BY <1>12
       DEF ExecuteAttempt, LedgerStep, SetAttempt, KeepsLocks, KeepsBudget, KeepsCorrections,
           KeepsExecuted, SameCorrection, Commits,
       Correcting, Corrected, StateOf, Locked, Deciding, Queueing, Ledgering, Recording, Trying,
       Catching, Typed, TypeOK
<1>13. ASSUME Recheck(w)
      PROVE  KeepsLocks(w) /\ KeepsBudget(w) /\ KeepsCorrections(w)
    BY <1>13
       DEF Recheck, Proceed, Catch, KeepsLocks, KeepsBudget, KeepsCorrections, KeepsExecuted,
           SameCorrection, Commits,
       Correcting, Corrected, StateOf, Locked, Deciding, Queueing, Ledgering, Recording, Trying,
       Catching, Typed, TypeOK
<1>14. ASSUME VerifySession(w)
      PROVE  KeepsLocks(w) /\ KeepsBudget(w) /\ KeepsCorrections(w)
    BY <1>14
       DEF VerifySession, Proceed, Catch, KeepsLocks, KeepsBudget, KeepsCorrections,
           KeepsExecuted, SameCorrection, Commits,
       Correcting, Corrected, StateOf, Locked, Deciding, Queueing, Ledgering, Recording, Trying,
       Catching, Typed, TypeOK
<1>15. ASSUME Mutate(w)
      PROVE  KeepsLocks(w) /\ KeepsBudget(w) /\ KeepsCorrections(w)
    BY <1>15
       DEF Mutate, Sent, Proceed, Catch, KeepsLocks, KeepsBudget, KeepsCorrections,
           KeepsExecuted, SameCorrection, Commits,
       Correcting, Corrected, StateOf, Locked, Deciding, Queueing, Ledgering, Recording, Trying,
       Catching, Typed, TypeOK
<1>16. ASSUME Count(w)
      PROVE  KeepsLocks(w) /\ KeepsBudget(w) /\ KeepsCorrections(w)
    BY <1>16
       DEF Count, KeepsLocks, KeepsBudget, KeepsCorrections, KeepsExecuted, SameCorrection,
           Commits,
       Correcting, Corrected, StateOf, Locked, Deciding, Queueing, Ledgering, Recording, Trying,
       Catching, Typed, TypeOK
<1>17. ASSUME Succeed(w)
      PROVE  KeepsLocks(w) /\ KeepsBudget(w) /\ KeepsCorrections(w)
    BY <1>17
       DEF Succeed, LedgerStep, SetAttempt, KeepsLocks, KeepsBudget, KeepsCorrections,
           KeepsExecuted, SameCorrection, Commits,
       Correcting, Corrected, StateOf, Locked, Deciding, Queueing, Ledgering, Recording, Trying,
       Catching, Typed, TypeOK
<1>18. ASSUME Resume(w)
      PROVE  KeepsLocks(w) /\ KeepsBudget(w) /\ KeepsCorrections(w)
    BY <1>18
       DEF Resume, SetSessionRow, KeepsLocks, KeepsBudget, KeepsCorrections, KeepsExecuted,
           SameCorrection, Commits,
       Correcting, Corrected, StateOf, Locked, Deciding, Queueing, Ledgering, Recording, Trying,
       Catching, Typed, TypeOK
<1>19. ASSUME FailAttempt(w)
      PROVE  KeepsLocks(w) /\ KeepsBudget(w) /\ KeepsCorrections(w)
    BY <1>19
       DEF FailAttempt, LedgerStep, SetAttempt, KeepsLocks, KeepsBudget, KeepsCorrections,
           KeepsExecuted, SameCorrection, Commits,
       Correcting, Corrected, StateOf, Locked, Deciding, Queueing, Ledgering, Recording, Trying,
       Catching, Typed, TypeOK
<1>20. ASSUME Throw(w)
      PROVE  KeepsLocks(w) /\ KeepsBudget(w) /\ KeepsCorrections(w)
    BY <1>20
       DEF Throw, Fault, Leave, KeepsLocks, KeepsBudget, KeepsCorrections, KeepsExecuted,
           SameCorrection, Commits,
       Correcting, Corrected, StateOf, Locked, Deciding, Queueing, Ledgering, Recording, Trying,
       Catching, Typed, TypeOK
<1>21. ASSUME ThrowInside(w)
      PROVE  KeepsLocks(w) /\ KeepsBudget(w) /\ KeepsCorrections(w)
    BY <1>21
       DEF ThrowInside, Fault, Catch, KeepsLocks, KeepsBudget, KeepsCorrections, KeepsExecuted,
           SameCorrection, Commits,
       Correcting, Corrected, StateOf, Locked, Deciding, Queueing, Ledgering, Recording, Trying,
       Catching, Typed, TypeOK
<1>22. ASSUME SafetyUnread(w)
      PROVE  KeepsLocks(w) /\ KeepsBudget(w) /\ KeepsCorrections(w)
    BY <1>22
       DEF SafetyUnread, Fault, Catch, KeepsLocks, KeepsBudget, KeepsCorrections, KeepsExecuted,
           SameCorrection, Commits,
       Correcting, Corrected, StateOf, Locked, Deciding, Queueing, Ledgering, Recording, Trying,
       Catching, Typed, TypeOK
<1>23. ASSUME ReleaseFails(w)
      PROVE  KeepsLocks(w) /\ KeepsBudget(w) /\ KeepsCorrections(w)
    BY <1>23
       DEF ReleaseFails, Fault, Forget, KeepsLocks, KeepsBudget, KeepsCorrections,
           KeepsExecuted, SameCorrection, Commits,
       Correcting, Corrected, StateOf, Locked, Deciding, Queueing, Ledgering, Recording, Trying,
       Catching, Typed, TypeOK
<1>24. ASSUME Crash(w)
      PROVE  KeepsLocks(w) /\ KeepsBudget(w) /\ KeepsCorrections(w)
    BY <1>24
       DEF Crash, Fault, Forget, KeepsLocks, KeepsBudget, KeepsCorrections, KeepsExecuted,
           SameCorrection, Commits,
       Correcting, Corrected, StateOf, Locked, Deciding, Queueing, Ledgering, Recording, Trying,
       Catching, Typed, TypeOK
<1> QED BY <1>1, <1>2, <1>3, <1>4, <1>5, <1>6, <1>7, <1>8, <1>9, <1>10, <1>11, <1>12, <1>13,
           <1>14, <1>15, <1>16, <1>17, <1>18, <1>19, <1>20, <1>21, <1>22, <1>23, <1>24

\* Those that take or give back the lock.
LEMMA LockingSteps ==
    ASSUME Typed, NEW w \in Worker,
           \/ (\E a \in Activity : Deliver(w, a))
           \/ Release(w)
    PROVE  KeepsBudget(w) /\ KeepsCorrections(w)
<1> USE DEF Goto, rows, local, jules
<1>1. ASSUME (\E a \in Activity : Deliver(w, a))
      PROVE  KeepsBudget(w) /\ KeepsCorrections(w)
    BY <1>1
       DEF Deliver, KeepsLocks, KeepsBudget, KeepsCorrections, KeepsExecuted, SameCorrection,
           Commits,
       Correcting, Corrected, StateOf, Locked, Deciding, Queueing, Ledgering, Recording, Trying,
       Catching, Typed, TypeOK
<1>2. ASSUME Release(w)
      PROVE  KeepsBudget(w) /\ KeepsCorrections(w)
    BY <1>2
       DEF Release, Forget, KeepsLocks, KeepsBudget, KeepsCorrections, KeepsExecuted,
           SameCorrection, Commits,
       Correcting, Corrected, StateOf, Locked, Deciding, Queueing, Ledgering, Recording, Trying,
       Catching, Typed, TypeOK
<1> QED BY <1>1, <1>2

\* Those that read or charge the budget.
LEMMA SpendingSteps ==
    ASSUME Typed, NEW w \in Worker,
           \/ ReadBudget(w)
           \/ Charge(w)
    PROVE  KeepsLocks(w) /\ KeepsCorrections(w)
<1> USE DEF Goto, rows, local, jules
<1>1. ASSUME ReadBudget(w)
      PROVE  KeepsLocks(w) /\ KeepsCorrections(w)
    BY <1>1
       DEF ReadBudget, KeepsLocks, KeepsBudget, KeepsCorrections, KeepsExecuted, SameCorrection,
           Commits,
       Correcting, Corrected, StateOf, Locked, Deciding, Queueing, Ledgering, Recording, Trying,
       Catching, Typed, TypeOK
<1>2. ASSUME Charge(w)
      PROVE  KeepsLocks(w) /\ KeepsCorrections(w)
    BY <1>2
       DEF Charge, Leave, KeepsLocks, KeepsBudget, KeepsCorrections, KeepsExecuted,
           SameCorrection, Commits,
       Correcting, Corrected, StateOf, Locked, Deciding, Queueing, Ledgering, Recording, Trying,
       Catching, Typed, TypeOK
<1> QED BY <1>1, <1>2

\* Those that check or record a correction.
LEMMA RecordingSteps ==
    ASSUME Typed, NEW w \in Worker,
           \/ Decide(w)
           \/ CheckCorrection(w)
           \/ Record(w)
           \/ MarkExecuted(w)
           \/ FailDecision(w)
    PROVE  KeepsLocks(w) /\ KeepsBudget(w)
<1> USE DEF Goto, rows, local, jules
<1>1. ASSUME Decide(w)
      PROVE  KeepsLocks(w) /\ KeepsBudget(w)
    BY <1>1
       DEF Decide, Insert, KeepsLocks, KeepsBudget, KeepsCorrections, KeepsExecuted,
           SameCorrection, Commits,
       Correcting, Corrected, StateOf, Locked, Deciding, Queueing, Ledgering, Recording, Trying,
       Catching, Typed, TypeOK
<1>2. ASSUME CheckCorrection(w)
      PROVE  KeepsLocks(w) /\ KeepsBudget(w)
    BY <1>2
       DEF CheckCorrection, Proceed, Catch, KeepsLocks, KeepsBudget, KeepsCorrections,
           KeepsExecuted, SameCorrection, Commits,
       Correcting, Corrected, StateOf, Locked, Deciding, Queueing, Ledgering, Recording, Trying,
       Catching, Typed, TypeOK
<1>3. ASSUME Record(w)
      PROVE  KeepsLocks(w) /\ KeepsBudget(w)
    BY <1>3
       DEF Record, KeepsLocks, KeepsBudget, KeepsCorrections, KeepsExecuted, SameCorrection,
           Commits,
       Correcting, Corrected, StateOf, Locked, Deciding, Queueing, Ledgering, Recording, Trying,
       Catching, Typed, TypeOK
<1>4. ASSUME MarkExecuted(w)
      PROVE  KeepsLocks(w) /\ KeepsBudget(w)
    BY <1>4
       DEF MarkExecuted, SetDecision, KeepsLocks, KeepsBudget, KeepsCorrections, KeepsExecuted,
           SameCorrection, Commits,
       Correcting, Corrected, StateOf, Locked, Deciding, Queueing, Ledgering, Recording, Trying,
       Catching, Typed, TypeOK
<1>5. ASSUME FailDecision(w)
      PROVE  KeepsLocks(w) /\ KeepsBudget(w)
    BY <1>5
       DEF FailDecision, SetDecision, KeepsLocks, KeepsBudget, KeepsCorrections, KeepsExecuted,
           SameCorrection, Commits,
       Correcting, Corrected, StateOf, Locked, Deciding, Queueing, Ledgering, Recording, Trying,
       Catching, Typed, TypeOK
<1> QED BY <1>1, <1>2, <1>3, <1>4, <1>5

\* The lock is taken from nobody, and given back only by its holder.
LEMMA LockingKeepsHolds ==
    ASSUME Typed, Holds, NEW w \in Worker, Moves(w),
           \/ (\E a \in Activity : Deliver(w, a))
           \/ Release(w)
    PROVE  Holds'
<1> USE DEF Goto
<1> SUFFICES ASSUME ~RenewalMayFail, NEW v \in Worker, pc'[v] \in Locked
             PROVE  lock'[At(v)'] = v
    BY DEF Holds, Locked, Deciding, Queueing, Ledgering, Recording, Trying, Catching
<1>1. ASSUME NEW a \in Activity, Deliver(w, a) PROVE lock'[At(v)'] = v
    <2>1. CASE lock[SessionOf[a]] = NoWorker
        <3>1. CASE v = w
            BY <1>1, <2>1, <3>1, PipelineAssumption DEF Deliver, At, Typed, TypeOK
        <3>2. CASE v # w
            <4>1. pc[v] \in Locked /\ At(v)' = At(v) /\ lock[At(v)] = v
                BY <3>2, MovesAct DEF Holds
            <4>2. At(v) # SessionOf[a]
                BY <2>1, <4>1, PipelineAssumption
            <4>3. At(v) \in Session
                BY <4>1, AtWorker
            <4>4. lock' = [lock EXCEPT ![SessionOf[a]] = w]
                BY <1>1, <2>1 DEF Deliver
            <4>5. lock'[At(v)] = lock[At(v)]
                BY <4>2, <4>3, <4>4 DEF Typed, TypeOK
            <4> QED BY <4>1, <4>5
        <3> QED BY <3>1, <3>2
    <2>2. CASE lock[SessionOf[a]] # NoWorker
        <3>1. lock' = lock /\ pc'[w] = "idle"
            BY <1>1, <2>2 DEF Deliver, Typed, TypeOK
        <3>2. v # w
            BY <3>1 DEF Locked, Deciding, Queueing, Ledgering, Recording, Trying, Catching
        <3> QED BY <3>1, <3>2, MovesAct DEF Holds
    <2> QED BY <2>1, <2>2
<1>2. ASSUME Release(w) PROVE lock'[At(v)'] = v
    <2>1. pc'[w] \in {"idle", "next"} /\ pc[w] \in Locked
        BY <1>2 DEF Release, Typed, TypeOK, Locked
    <2>2. v # w
        BY <2>1 DEF Locked, Deciding, Queueing, Ledgering, Recording, Trying, Catching
    <2>3. pc[v] \in Locked /\ At(v)' = At(v) /\ lock[At(v)] = v
        BY <2>2, MovesAct DEF Holds
    <2>4. At(v) # At(w)
        BY <2>1, <2>2, <2>3, OneInside
    <2> QED BY <1>2, <2>3, <2>4 DEF Release, Typed, TypeOK
<1> QED BY <1>1, <1>2

\* Reading the budget commits w to at most one decision's calls ...
LEMMA ReadingKeepsBudgeted ==
    ASSUME Typed, Holds', Typed', Budgeted, NEW w \in Worker, Moves(w), ReadBudget(w)
    PROVE  Budgeted'
<1> USE DEF Goto
<1> SUFFICES ASSUME NEW s \in Session
             PROVE  aiCalls'[s] + CallsPerDecision * Cardinality(Committed(s)')
                        <= MaxAiCalls - 1 + CallsPerDecision * Rivals
    BY DEF Budgeted, Rivals
<1> DEFINE new == Cardinality(Committed(s)')
           old == Cardinality(Committed(s))
<1>0. Committed(s) \in SUBSET Worker /\ Committed(s)' \in SUBSET Worker
    BY DEF Committed
<1>1. /\ aiCalls' = aiCalls /\ aiCalls[s] \in Nat /\ CallsPerDecision \in Nat /\ MaxAiCalls \in Nat
      /\ new \in Nat /\ old \in Nat /\ Rivals \in Nat
    BY <1>0, WorkersCounted, PipelineAssumption DEF ReadBudget, rows, Typed, TypeOK
<1>2. new <= Rivals
    <2>1. RenewalMayFail \/ Committed(s)' \subseteq {lock'[s]}
        BY DEF Committed, Commits, Holds, Locked, Deciding
    <2> QED BY <1>0, <2>1, RivalsCounted
<1>3. CASE aiCalls[s] < MaxAiCalls
    <2> HIDE DEF new, old
    <2>1. /\ CallsPerDecision * new <= CallsPerDecision * Rivals
          /\ CallsPerDecision * new \in Nat /\ CallsPerDecision * Rivals \in Nat
        BY <1>1, <1>2, ScaledMonotone
    <2> QED BY <1>1, <1>3, <2>1 DEF new
<1>4. CASE ~(aiCalls[s] < MaxAiCalls)
    <2>1. Committed(s)' \subseteq Committed(s)
        <3> SUFFICES ASSUME NEW v \in Worker, Commits(v)', At(v)' = s
                     PROVE  Commits(v) /\ At(v) = s
            BY DEF Committed
        <3>1. CASE v = w
            <4>1. pc'[w] = "readSafety" /\ verdict'[w] = "WITHIN" /\ At(w) = s
                BY <3>1 DEF ReadBudget, Commits, At, Typed, TypeOK
            <4>2. aiCalls[s] < MaxAiCalls
                BY <1>1, <4>1 DEF ReadBudget, Exhausted, Typed, TypeOK
            <4> QED BY <1>4, <4>2
        <3>2. CASE v # w
            BY <3>2, MovesAct
        <3> QED BY <3>1, <3>2
    <2>2. new <= old
        BY <1>0, <2>1, WorkersCounted, FS_Subset
    <2>3. aiCalls[s] + CallsPerDecision * old <= MaxAiCalls - 1 + CallsPerDecision * Rivals
        BY DEF Budgeted
    <2> HIDE DEF new, old
    <2>4. /\ CallsPerDecision * new <= CallsPerDecision * old
          /\ CallsPerDecision * new \in Nat /\ CallsPerDecision * old \in Nat
          /\ CallsPerDecision * Rivals \in Nat
        BY <1>1, <2>2, ScaledMonotone
    <2> QED BY <1>1, <2>3, <2>4 DEF new
<1> QED BY <1>3, <1>4

\* ... and charging them ends that.
LEMMA ChargingKeepsBudgeted ==
    ASSUME Typed, Budgeted, NEW w \in Worker, Moves(w), Charge(w)
    PROVE  Budgeted'
<1> USE DEF Goto
<1> SUFFICES ASSUME NEW s \in Session
             PROVE  aiCalls'[s] + CallsPerDecision * Cardinality(Committed(s)')
                        <= MaxAiCalls - 1 + CallsPerDecision * Rivals
    BY DEF Budgeted, Rivals
<1> DEFINE new == Cardinality(Committed(s)')
           old == Cardinality(Committed(s))
<1>0. Committed(s) \in SUBSET Worker /\ Committed(s)' \in SUBSET Worker
    BY DEF Committed
<1>1. /\ aiCalls[s] \in Nat /\ CallsPerDecision \in Nat /\ MaxAiCalls \in Nat
      /\ new \in Nat /\ old \in Nat /\ Rivals \in Nat
      /\ aiCalls[s] + CallsPerDecision * old <= MaxAiCalls - 1 + CallsPerDecision * Rivals
    BY <1>0, WorkersCounted, PipelineAssumption DEF Budgeted, Typed, TypeOK
<1>2. /\ pc[w] = "charge" /\ pc'[w] \in {"decide", "release"}
      /\ calls[w] \in Nat /\ calls[w] <= CallsPerDecision
      /\ aiCalls' = [aiCalls EXCEPT ![At(w)] = aiCalls[At(w)] + calls[w]]
    BY <1>1, PipelineAssumption DEF Charge, Charged, Leave, Typed, TypeOK
<1>3. ~Commits(w)' /\ Commits(w)
    BY <1>2 DEF Commits
<1>4. CASE At(w) = s
    <2>1. Committed(s)' = Committed(s) \ {w} /\ w \in Committed(s)
        BY <1>3, <1>4, MovesAct DEF Committed
    <2>2. new = old - 1 /\ old > 0
        BY <1>0, <1>1, <2>1, WorkersCounted, FS_RemoveElement, FS_EmptySet
    <2>3. aiCalls'[s] = aiCalls[s] + calls[w]
        BY <1>2, <1>4 DEF Typed, TypeOK
    <2> HIDE DEF new, old
    <2>4. /\ CallsPerDecision * new = CallsPerDecision * old - CallsPerDecision
          /\ CallsPerDecision * old \in Nat /\ CallsPerDecision * Rivals \in Nat
        BY <1>1, <2>2, ScaledStep, ScaledMonotone
    <2> QED BY <1>1, <1>2, <2>3, <2>4 DEF new
<1>5. CASE At(w) # s
    <2>1. Committed(s)' = Committed(s)
        BY <1>3, <1>5, MovesAct DEF Committed
    <2>2. aiCalls'[s] = aiCalls[s]
        BY <1>2, <1>5 DEF Typed, TypeOK
    <2> QED BY <1>1, <2>1, <2>2
<1> QED BY <1>4, <1>5

\* A correction passes the check only if its session has no such fingerprint, ...
LEMMA CheckingKeepsFingerprinted ==
    ASSUME Typed, Authored, Holds, Fingerprinted, CorrectionsDiffer, NEW w \in Worker, Moves(w),
           CheckCorrection(w)
    PROVE  Fingerprinted' /\ CorrectionsDiffer'
<1> USE DEF Goto, rows
<1>1. /\ UNCHANGED <<fingerprints, decision>> /\ pc[w] = "checkCorrection"
      /\ act'[w] = act[w] /\ offer'[w] = offer[w] /\ pc'[w] \in {"mutate", "failAttempt"}
      /\ pc'[w] = "mutate" => offer[w].text \notin fingerprints[At(w)]
    BY DEF CheckCorrection, CanSubmitCorrection, Proceed, Catch, Typed, TypeOK
<1>2. KeepsExecuted /\ \A a \in Activity : Corrected(a)' <=> Corrected(a)
    BY <1>1 DEF KeepsExecuted, Corrected, StateOf
<1>3. Fingerprinted'
    <2> SUFFICES ASSUME ~RenewalMayFail PROVE Fingerprinted'
        BY DEF Fingerprinted
    <2>1. ASSUME NEW v \in Worker, Correcting(v)', pc'[v] \in {"mutate", "record"}
          PROVE  offer'[v].text \notin fingerprints'[At(v)']
        <3>1. CASE v = w
            BY <1>1, <2>1, <3>1 DEF At
        <3>2. CASE v # w
            BY <1>1, <2>1, <3>2, MovesAct DEF Fingerprinted
        <3> QED BY <3>1, <3>2
    <2>2. ASSUME NEW v \in Worker, Correcting(v)', pc'[v] \in {"count", "succeed", "markExecuted"}
          PROVE  /\ offer'[v].text \in fingerprints'[At(v)']
                 /\ \A b \in Activity : b # act'[v] /\ SessionOf[b] = At(v)' /\ Corrected(b)'
                      => decision'[b].text # offer'[v].text
        <3>1. v # w
            BY <1>1, <2>2
        <3> QED BY <1>1, <1>2, <2>2, <3>1, MovesAct DEF Fingerprinted
    <2> QED BY <1>1, <1>2, <2>1, <2>2 DEF Fingerprinted
<1> QED BY <1>2, <1>3, StillDiffer

\* ... records it before anybody else can check, ...
LEMMA RecordKeepsFingerprinted ==
    ASSUME Typed, Authored, Holds, Fingerprinted, CorrectionsDiffer, NEW w \in Worker, Moves(w),
           Record(w)
    PROVE  Fingerprinted' /\ CorrectionsDiffer'
<1> USE DEF Goto, local
<1>1. /\ decision' = decision /\ pc[w] = "record" /\ pc'[w] = "count" /\ pc[w] \in Locked
      /\ act'[w] = act[w] /\ offer'[w] = offer[w]
      /\ fingerprints' = [fingerprints EXCEPT ![At(w)] = fingerprints[At(w)] \cup {offer[w].text}]
    BY DEF Record, Typed, TypeOK, Locked, Trying, Recording
<1>2. At(w) \in Session
    BY <1>1, AtWorker
<1>3. /\ fingerprints'[At(w)] = fingerprints[At(w)] \cup {offer[w].text}
      /\ \A s \in Session : fingerprints[s] \subseteq fingerprints'[s]
      /\ \A s \in Session : s # At(w) => fingerprints'[s] = fingerprints[s]
    BY <1>1, <1>2 DEF Typed, TypeOK
<1>4. KeepsExecuted /\ \A a \in Activity : Corrected(a)' <=> Corrected(a)
    BY <1>1 DEF KeepsExecuted, Corrected, StateOf
<1>5. Fingerprinted'
    <2> SUFFICES ASSUME ~RenewalMayFail PROVE Fingerprinted'
        BY DEF Fingerprinted
    <2>1. ASSUME NEW v \in Worker, Correcting(v)', v # w
          PROVE  Correcting(v) /\ At(v) # At(w) /\ At(v) \in Session /\ pc'[v] = pc[v]
                    /\ At(v)' = At(v) /\ offer'[v] = offer[v] /\ act'[v] = act[v]
        <3>1. Correcting(v) /\ pc[v] \in Locked
            BY <2>1, MovesAct DEF Correcting, Locked
        <3> QED BY <1>1, <2>1, <3>1, MovesAct, OneInside, AtWorker
    <2>2. ASSUME NEW v \in Worker, Correcting(v)', pc'[v] \in {"mutate", "record"}
          PROVE  offer'[v].text \notin fingerprints'[At(v)']
        <3>1. v # w
            BY <1>1, <2>2
        <3> QED BY <1>3, <2>1, <2>2, <3>1 DEF Fingerprinted
    <2>3. ASSUME NEW v \in Worker, Correcting(v)', pc'[v] \in {"count", "succeed", "markExecuted"}
          PROVE  /\ offer'[v].text \in fingerprints'[At(v)']
                 /\ \A b \in Activity : b # act'[v] /\ SessionOf[b] = At(v)' /\ Corrected(b)'
                      => decision'[b].text # offer'[v].text
        <3>1. CASE v = w
            <4>1. Correcting(w) /\ At(w)' = At(w)
                BY <1>1, <2>3, <3>1 DEF Correcting, At, Trying, Recording
            <4>2. offer[w].text \notin fingerprints[At(w)]
                BY <1>1, <4>1 DEF Fingerprinted
            <4> QED BY <1>1, <1>3, <1>4, <3>1, <4>1, <4>2 DEF Fingerprinted
        <3>2. CASE v # w
            BY <1>1, <1>3, <1>4, <2>1, <2>3, <3>2 DEF Fingerprinted
        <3> QED BY <3>1, <3>2
    <2>4. ASSUME NEW a \in Activity, Corrected(a)'
          PROVE  decision'[a].text \in fingerprints'[SessionOf[a]]
        <3>1. SessionOf[a] \in Session
            BY PipelineAssumption
        <3> QED BY <1>1, <1>3, <1>4, <2>4, <3>1 DEF Fingerprinted
    <2> QED BY <2>2, <2>3, <2>4 DEF Fingerprinted
<1> QED BY <1>4, <1>5, StillDiffer

\* ... and is called executed only then.
LEMMA MarkingKeepsFingerprinted ==
    ASSUME Typed, Authored, Holds, Fingerprinted, CorrectionsDiffer, NEW w \in Worker, Moves(w),
           MarkExecuted(w)
    PROVE  Fingerprinted' /\ CorrectionsDiffer'
<1> USE DEF Goto
<1>1. /\ fingerprints' = fingerprints /\ pc[w] = "markExecuted" /\ pc'[w] = "resume"
      /\ pc[w] \in Locked /\ pc[w] \in Authoring /\ pc[w] \in Trying
      /\ act'[w] = act[w] /\ offer'[w] = offer[w]
      /\ decision' = [decision EXCEPT ![act[w]] = Settled(decision[act[w]], "EXECUTED")]
    BY DEF MarkExecuted, SetDecision, Typed, TypeOK, Locked, Authoring, Trying, Recording
<1>2. /\ act[w] \in Activity /\ decision[act[w]] \in DecisionRow
      /\ decision[act[w]].action = offer[w].action /\ decision[act[w]].text = offer[w].text
    BY <1>1, AuthorsAct DEF Authored, Stage
<1>3. /\ decision'[act[w]].action = offer[w].action /\ decision'[act[w]].text = offer[w].text
      /\ \A b \in Activity : b # act[w] => decision'[b] = decision[b]
    BY <1>1, <1>2, RecordUpdates DEF Typed, TypeOK
<1>4. \A b \in Activity : b # act[w] => (Corrected(b)' <=> Corrected(b))
    BY <1>3 DEF Corrected, StateOf
<1> SUFFICES ASSUME ~RenewalMayFail PROVE Fingerprinted' /\ CorrectionsDiffer'
    BY DEF Fingerprinted, CorrectionsDiffer
<1>5. Corrected(act[w])' =>
          /\ offer[w].text \in fingerprints[At(w)]
          /\ \A b \in Activity : b # act[w] /\ SessionOf[b] = At(w) /\ Corrected(b)
                => decision[b].text # offer[w].text
    <2> SUFFICES ASSUME Corrected(act[w])' PROVE Correcting(w)
        BY <1>1 DEF Fingerprinted
    <2> QED BY <1>1, <1>3 DEF Corrected, Correcting
<1>6. \A a \in Activity : Corrected(a)' => decision'[a].text \in fingerprints'[SessionOf[a]]
    <2> SUFFICES ASSUME NEW a \in Activity, Corrected(a)'
                 PROVE  decision'[a].text \in fingerprints'[SessionOf[a]]
        OBVIOUS
    <2>1. CASE a = act[w]
        BY <1>1, <1>3, <1>5, <2>1 DEF At
    <2>2. CASE a # act[w]
        BY <1>1, <1>3, <1>4, <2>2 DEF Fingerprinted
    <2> QED BY <2>1, <2>2
<1>7. Fingerprinted'
    <2>1. ASSUME NEW v \in Worker, Correcting(v)',
                 pc'[v] \in {"mutate", "record", "count", "succeed", "markExecuted"}
          PROVE  /\ Correcting(v) /\ At(v) # At(w) /\ pc'[v] = pc[v]
                 /\ At(v)' = At(v) /\ offer'[v] = offer[v] /\ act'[v] = act[v]
        <3>1. v # w
            BY <1>1, <2>1
        <3>2. Correcting(v) /\ pc[v] \in Locked
            BY <2>1, <3>1, MovesAct DEF Correcting, Locked
        <3> QED BY <1>1, <3>1, <3>2, MovesAct, OneInside
    <2>2. \A v \in Worker : Correcting(v)' /\ pc'[v] \in {"mutate", "record"} =>
              offer'[v].text \notin fingerprints'[At(v)']
        BY <1>1, <2>1 DEF Fingerprinted
    <2>3. ASSUME NEW v \in Worker, Correcting(v)', pc'[v] \in {"count", "succeed", "markExecuted"}
          PROVE  /\ offer'[v].text \in fingerprints'[At(v)']
                 /\ \A b \in Activity : b # act'[v] /\ SessionOf[b] = At(v)' /\ Corrected(b)'
                      => decision'[b].text # offer'[v].text
        <3>1. \A b \in Activity : SessionOf[b] = At(v) => b # act[w]
            BY <2>1, <2>3 DEF At
        <3> QED BY <1>1, <1>3, <1>4, <2>1, <2>3, <3>1 DEF Fingerprinted
    <2> QED BY <1>6, <2>2, <2>3 DEF Fingerprinted
<1>8. CorrectionsDiffer'
    <2> SUFFICES ASSUME NEW a \in Activity, NEW b \in Activity, a # b, SessionOf[a] = SessionOf[b],
                        Corrected(a)', Corrected(b)'
                 PROVE  decision'[a].text # decision'[b].text
        BY DEF CorrectionsDiffer, Corrected
    <2>1. CASE a = act[w]
        BY <1>1, <1>3, <1>4, <1>5, <2>1 DEF At
    <2>2. CASE b = act[w]
        BY <1>1, <1>3, <1>4, <1>5, <2>2 DEF At
    <2>3. CASE a # act[w] /\ b # act[w]
        BY <1>3, <1>4, <2>3 DEF CorrectionsDiffer, Corrected
    <2> QED BY <2>1, <2>2, <2>3
<1> QED BY <1>7, <1>8

\* The other writes of the decision row execute nothing.
LEMMA SettingKeepsCorrections ==
    ASSUME Typed, NEW w \in Worker, Moves(w), Decide(w) \/ FailDecision(w)
    PROVE  KeepsCorrections(w)
<1> USE DEF Goto
<1>1. KeepsExecuted
    <2>1. CASE Decide(w)
        <3>1. PICK row : /\ Insert(w, row)
                         /\ row.state \in Disposition
            BY <2>1, DisposeTyped DEF Decide, DecisionOf
        <3>2. act[w] \in Activity
            BY <2>1, AtWorker DEF Decide, Locked, Deciding
        <3> QED BY <3>1, <3>2
                   DEF Insert, KeepsExecuted, Corrected, StateOf, Disposition, Typed, TypeOK
    <2>2. CASE FailDecision(w)
        <3>1. pc[w] \in Authoring
            BY <2>2 DEF FailDecision, SetDecision, Authoring, Catching
        <3>2. act[w] \in Activity /\ decision[act[w]] \in DecisionRow
            BY <3>1, AuthorsAct
        <3>3. Settled(decision[act[w]], "EXECUTION_FAILED").state = "EXECUTION_FAILED"
            BY <3>2, RecordUpdates
        <3>4. /\ decision'[act[w]] = Settled(decision[act[w]], "EXECUTION_FAILED")
              /\ \A b \in Activity : b # act[w] => decision'[b] = decision[b]
            BY <2>2, <3>2 DEF FailDecision, SetDecision, Typed, TypeOK
        <3> QED BY <3>3, <3>4 DEF KeepsExecuted, Corrected, StateOf
    <2> QED BY <2>1, <2>2
<1>2. fingerprints' = fingerprints
    BY DEF Decide, FailDecision, SetDecision
<1>3. pc'[w] \in {"audit", "release"}
    BY DEF Decide, Insert, FailDecision, SetDecision, Typed, TypeOK
<1> QED BY <1>1, <1>2, <1>3 DEF KeepsCorrections, SameCorrection

\* Nobody's poll moves, and nothing is charged, recorded or decided.
LEMMA BackgroundKeepsExcluded ==
    ASSUME Typed, Excluded,
           \/ (\E a \in Activity : JulesAsks(a))
           \/ (\E s \in Session : JulesGoesOn(s) \/ LapseLock(s))
           \/ (\E state \in SafetyState : SetState(state))
           \/ (\E w \in Worker : Reconcile(w) \/ AbandonRescue(w))
           \/ UNCHANGED vars
    PROVE  Excluded'
<1> USE DEF rows, local, jules
<1>1. UNCHANGED <<pc, local, decision, aiCalls, fingerprints>>
    <2>1. ASSUME NEW a \in Activity, JulesAsks(a)
          PROVE  UNCHANGED <<pc, local, decision, aiCalls, fingerprints>>
        BY <2>1 DEF JulesAsks
    <2>2. ASSUME NEW s \in Session, JulesGoesOn(s) \/ LapseLock(s)
          PROVE  UNCHANGED <<pc, local, decision, aiCalls, fingerprints>>
        BY <2>2 DEF JulesGoesOn, LapseLock
    <2>3. ASSUME NEW w \in Worker, Reconcile(w) \/ AbandonRescue(w)
          PROVE  UNCHANGED <<pc, local, decision, aiCalls, fingerprints>>
        BY <2>3 DEF Reconcile, Recover, Escalate, AbandonRescue
    <2> QED BY <2>1, <2>2, <2>3 DEF SetState, vars
<1>2. lock' = lock \/ \E s \in Session : LapseLock(s)
    <2>1. ASSUME NEW a \in Activity, JulesAsks(a) PROVE lock' = lock
        BY <2>1 DEF JulesAsks
    <2>2. ASSUME NEW s \in Session, JulesGoesOn(s) PROVE lock' = lock
        BY <2>2 DEF JulesGoesOn
    <2>3. ASSUME NEW w \in Worker, Reconcile(w) \/ AbandonRescue(w) PROVE lock' = lock
        BY <2>3 DEF Reconcile, Recover, Escalate, AbandonRescue
    <2> QED BY <2>1, <2>2, <2>3 DEF SetState, vars
<1>3. Holds'
    <2> SUFFICES ASSUME ~RenewalMayFail, NEW v \in Worker, pc[v] \in Locked
                 PROVE  lock'[At(v)] = v
        BY <1>1 DEF Holds, At
    <2>1. lock[At(v)] = v /\ At(v) \in Session
        BY AtWorker DEF Excluded, Holds
    <2>2. ASSUME NEW s \in Session, LapseLock(s) PROVE lock'[At(v)] = v
        BY <2>1, <2>2 DEF LapseLock, Inside, Typed, TypeOK
    <2> QED BY <1>2, <2>1, <2>2
<1>4. Budgeted'
    <2>1. \A s \in Session : Committed(s)' = Committed(s)
        BY <1>1 DEF Committed, Commits, At
    <2> QED BY <1>1, <2>1, BudgetNarrows DEF Excluded, Typed, TypeOK
<1>5. Fingerprinted' /\ CorrectionsDiffer'
    BY <1>1 DEF Excluded, Fingerprinted, CorrectionsDiffer, Corrected, StateOf, Correcting, At
<1> QED BY <1>3, <1>4, <1>5 DEF Excluded

LEMMA StepKeepsExcluded == ASSUME Typed, Authored, Excluded, [Next]_vars PROVE Excluded'
<1>0. Typed' /\ Holds /\ Budgeted /\ Fingerprinted /\ CorrectionsDiffer
    BY StepKeepsTyped DEF Excluded
<1>1. ASSUME NEW w \in Worker, Advance(w) \/ (Fail(w) /\ ~AbandonRescue(w)) PROVE Excluded'
    <2>1. Moves(w)
        BY <1>1, DecidingKeepsTyped, DecideKeepsTyped, QueueingKeepsTyped, LedgerKeepsTyped,
           TryingKeepsTyped, SettlingKeepsTyped, FailingKeepsTyped DEF Advance, Ask, Fail
    <2>2. KeepsLocks(w) \/ Release(w) \/ (\E a \in Activity : Deliver(w, a))
        BY <1>1, QuietSteps, SpendingSteps, RecordingSteps DEF Advance, Ask, Fail
    <2>3. KeepsBudget(w) \/ ReadBudget(w) \/ Charge(w)
        BY <1>1, QuietSteps, LockingSteps, RecordingSteps DEF Advance, Ask, Fail
    <2>4. KeepsCorrections(w) \/ CheckCorrection(w) \/ Record(w) \/ MarkExecuted(w)
        BY <1>1, <2>1, QuietSteps, LockingSteps, SpendingSteps, SettingKeepsCorrections
           DEF Advance, Ask, Fail
    <2>5. Holds'
        BY <1>0, <2>1, <2>2, LocksStillHeld, LockingKeepsHolds
    <2>6. Budgeted'
        BY <1>0, <2>1, <2>3, <2>5, BudgetStillKept, ReadingKeepsBudgeted, ChargingKeepsBudgeted
    <2>7. Fingerprinted' /\ CorrectionsDiffer'
        <3>1. CASE KeepsCorrections(w)
            BY <1>0, <2>1, <3>1, StillFingerprinted, StillDiffer DEF KeepsCorrections
        <3> QED BY <1>0, <2>1, <2>4, <3>1, CheckingKeepsFingerprinted, RecordKeepsFingerprinted,
                   MarkingKeepsFingerprinted
    <2> QED BY <2>5, <2>6, <2>7 DEF Excluded
<1>2. CASE \/ \E a \in Activity : JulesAsks(a)
           \/ \E s \in Session : JulesGoesOn(s) \/ LapseLock(s)
           \/ \E state \in SafetyState : SetState(state)
           \/ \E w \in Worker : Reconcile(w) \/ AbandonRescue(w)
           \/ UNCHANGED vars
    BY <1>2, BackgroundKeepsExcluded
<1> QED BY <1>1, <1>2 DEF Next

LEMMA ExcludedInitially == Init => Excluded
<1> SUFFICES ASSUME Init PROVE Excluded
    OBVIOUS
<1>1. Holds
    BY DEF Init, Holds, Locked, Deciding, Queueing, Ledgering, Recording, Trying, Catching
<1>2. Budgeted
    <2> SUFFICES ASSUME NEW s \in Session
                 PROVE  aiCalls[s] + CallsPerDecision * Cardinality(Committed(s))
                            <= MaxAiCalls - 1 + CallsPerDecision * Rivals
        BY DEF Budgeted
    <2>1. Committed(s) = {} /\ aiCalls[s] = 0
        BY DEF Init, Committed, Commits
    <2>2. Cardinality(Committed(s)) = 0 /\ Rivals \in Nat /\ CallsPerDecision \in Nat
        BY <2>1, FS_EmptySet, WorkersCounted, PipelineAssumption
    <2>3. CallsPerDecision * 0 = 0 /\ CallsPerDecision * Rivals \in Nat
        BY <2>2, ScaledMonotone
    <2> QED BY <2>1, <2>2, <2>3, PipelineAssumption
<1>3. Fingerprinted /\ CorrectionsDiffer
    BY DEF Init, Fingerprinted, CorrectionsDiffer, Corrected, StateOf, Correcting, Ledgering,
           Recording, Trying
<1> QED BY <1>1, <1>2, <1>3 DEF Excluded

LEMMA ExcludedAlways == Spec => [](Typed /\ Authored /\ Excluded)
<1>1. Init => Typed /\ Authored /\ Excluded
    BY TypedInitially, AuthoredInitially, ExcludedInitially
<1>2. Typed /\ Authored /\ Excluded /\ [Next]_vars => (Typed /\ Authored /\ Excluded)'
    BY StepKeepsTyped, StepKeepsAuthored, StepKeepsExcluded
<1> QED BY <1>1, <1>2, PTL DEF Spec

\* The counter of AI calls overshoots its ceiling by less than one decision's
\* calls for every worker that may be inside the session at once: by one
\* worker's while locks hold, by everybody's when renewals may fail.
THEOREM AiBudgetHoldsAlways == Spec => []AiBudgetHolds
<1>1. Typed /\ Excluded => AiBudgetHolds
    <2> SUFFICES ASSUME Typed, Excluded, NEW s \in Session
                 PROVE  aiCalls[s] <= MaxAiCalls - 1 + CallsPerDecision * Rivals
        BY DEF AiBudgetHolds
    <2>1. aiCalls[s] + CallsPerDecision * Cardinality(Committed(s))
              <= MaxAiCalls - 1 + CallsPerDecision * Rivals
        BY DEF Excluded, Budgeted
    <2>2. /\ aiCalls[s] \in Nat /\ CallsPerDecision \in Nat /\ MaxAiCalls \in Nat
          /\ Cardinality(Committed(s)) \in Nat /\ Rivals \in Nat
        BY WorkersCounted, PipelineAssumption DEF Committed, Typed, TypeOK
    <2>3. CallsPerDecision * Cardinality(Committed(s)) \in Nat /\ CallsPerDecision * Rivals \in Nat
        BY <2>2, ScaledMonotone
    <2> QED BY <2>1, <2>2, <2>3
<1> QED BY <1>1, ExcludedAlways, PTL

\* While live workers keep their locks, the fingerprint check and its record,
\* two steps with a call to Jules between them, act as one.
THEOREM CorrectionsDifferAlways == Spec => []CorrectionsDiffer
<1>1. Typed /\ Excluded => CorrectionsDiffer
    BY DEF Excluded
<1> QED BY <1>1, ExcludedAlways, PTL
-----------------------------------------------------------------------------
(* The pipeline keeps the promises of SupervisedQuestion.                  *)

\* A step that writes no decision, approval, attempt or effect shows nothing.
LEMMA NothingShown ==
    ASSUME UNCHANGED <<decision, approval, attempt, applied>>
    PROVE  UNCHANGED Promise!vars
BY DEF Promise!vars, RulingOf, ReportOf, StateOf

\* The course of a ruling is how its decision row stands.
LEMMA CourseShown ==
    ASSUME NEW a \in Activity
    PROVE  /\ decision[a] = NoDecision => Promise!Course(a, "none")
           /\ StateOf(a) \in Acting => Promise!Course(a, "act")
           /\ StateOf(a) = "AWAITING_APPROVAL" => Promise!Course(a, "ask")
BY DEF Promise!Course, RulingOf, CourseOf, StateOf

\* The insert is the ruling.
LEMMA RuleShown ==
    ASSUME NEW a \in Activity, NEW row \in DecisionRow, Typed,
           decision[a] = NoDecision,
           decision' = [decision EXCEPT ![a] = row],
           row.state \in Disposition,
           row.state = "EXECUTING" => row.risk \in {"low", "medium"},
           UNCHANGED <<approval, attempt, applied>>
    PROVE  Promise!Next
<1> DEFINE r == [course |-> CourseOf(row), risk |-> row.risk, intent |-> IntentOf(row)]
<1>1. /\ row # NoDecision /\ decision'[a] = row
      /\ \A b \in Activity : b # a => decision'[b] = decision[b]
    BY NoDecisionAssumption DEF Typed, TypeOK
<1>2. /\ RulingOf(a)' = r /\ ReportOf(a)' = ReportOf(a)
      /\ \A b \in Activity : b # a => RulingOf(b)' = RulingOf(b) /\ ReportOf(b)' = ReportOf(b)
    BY <1>1 DEF RulingOf, ReportOf, StateOf, Disposition
<1>3. r \in Promise!Ruling /\ (r.course = "act" => r.risk \in {"low", "medium"})
    BY DEF Promise!Ruling, CourseOf, IntentOf, DecisionRow, Disposition
<1> HIDE DEF r
<1>4. [b \in Activity |-> RulingOf(b)]' = [[b \in Activity |-> RulingOf(b)] EXCEPT ![a] = r]
    BY <1>2
<1>5. [b \in Activity |-> ReportOf(b)]' = [b \in Activity |-> ReportOf(b)]
    BY <1>2
<1>6. Promise!Rule(a)
    BY <1>3, <1>4, <1>5 DEF Promise!Rule
<1> QED BY <1>6, CourseShown DEF Promise!Next

\* An approval row puts a question to a human.
LEMMA QueueShown ==
    ASSUME NEW a \in Activity, Typed, StateOf(a) = "AWAITING_APPROVAL",
           approval' = [approval EXCEPT ![a] = "PENDING"],
           UNCHANGED <<decision, attempt, applied>>
    PROVE  [Promise!Next]_(Promise!vars)
<1> DEFINE asked == {b \in Activity : approval[b] = "PENDING"}
<1>1. approval'[a] = "PENDING" /\ \A b \in Activity : b # a => approval'[b] = approval[b]
    BY DEF Typed, TypeOK
<1>2. asked' = asked \cup {a}
    BY <1>1
<1>3. CASE a \in asked
    <2>1. asked' = asked
        BY <1>2, <1>3
    <2> QED BY <2>1 DEF Promise!vars, RulingOf, ReportOf, StateOf
<1>4. CASE a \notin asked
    <2>1. Promise!PutToHuman(a)
        BY <1>2, <1>4 DEF Promise!PutToHuman, RulingOf, ReportOf, StateOf
    <2> QED BY <2>1, CourseShown DEF Promise!Next
<1> QED BY <1>3, <1>4

\* A ledger row that is claimed is the trace; what happens to it later does not show.
LEMMA TraceShown ==
    ASSUME NEW a \in Activity, NEW row, Typed, StateOf(a) \in Acting,
           attempt' = [attempt EXCEPT ![a] = row],
           attempt[a].status \notin {"NONE", "PENDING"} => row.status \notin {"NONE", "PENDING"},
           UNCHANGED <<decision, approval, applied>>
    PROVE  [Promise!Next]_(Promise!vars)
<1> DEFINE trace == {b \in Activity : attempt[b].status \notin {"NONE", "PENDING"}}
<1>1. attempt'[a] = row /\ \A b \in Activity : b # a => attempt'[b] = attempt[b]
    BY DEF Typed, TypeOK
<1>2. trace' = trace \/ (a \notin trace /\ trace' = trace \cup {a})
    BY <1>1
<1>3. CASE trace' = trace
    BY <1>3 DEF Promise!vars, RulingOf, ReportOf, StateOf
<1>4. CASE a \notin trace /\ trace' = trace \cup {a}
    <2>1. Promise!Trace(a)
        BY <1>4 DEF Promise!Trace, RulingOf, ReportOf, StateOf
    <2> QED BY <2>1, CourseShown DEF Promise!Next
<1> QED BY <1>2, <1>3, <1>4

\* The mutation takes effect as it was decided, once, after the trace.
LEMMA EffectShown ==
    ASSUME NEW w \in Worker, Typed, Authored, Mutate(w)
    PROVE  [Promise!Next]_(Promise!vars)
<1> DEFINE a == act[w]
           sent == [action |-> offer[w].action, text |-> offer[w].text]
<1>1. /\ a \in Activity /\ decision[a] # NoDecision /\ Stage(w)
      /\ pc[w] = "mutate" /\ pc[w] \in Authoring
    BY AuthorsAct DEF Authored, Mutate, Authoring, Trying
<1>2. /\ applied[a] = <<>> /\ decision[a].state = "EXECUTING"
      /\ sent = IntentOf(decision[a])
      /\ attempt[a].status \notin {"NONE", "PENDING"}
    BY <1>1 DEF Stage, Unsent, Claimed, Ledgering, Trying, Recording, IntentOf
<1>3. /\ UNCHANGED <<decision, approval, attempt>>
      /\ UNCHANGED applied \/ applied' = [applied EXCEPT ![a] = Append(@, sent)]
    BY DEF Mutate, Sent, Apply, rows
<1>4. CASE UNCHANGED applied
    BY <1>3, <1>4, NothingShown
<1>5. CASE applied' = [applied EXCEPT ![a] = Append(@, sent)]
    <2>0. \A x : Append(<<>>, x) = <<x>>
        OBVIOUS
    <2>1. applied' = [applied EXCEPT ![a] = <<IntentOf(decision[a])>>]
        BY <1>2, <1>5, <2>0
    <2>2. RulingOf(a).intent = IntentOf(decision[a]) /\ ReportOf(a) = "none"
        BY <1>1, <1>2 DEF RulingOf, ReportOf, StateOf
    <2>3. Promise!TakeEffect(a)
        BY <1>1, <1>2, <1>3, <2>1, <2>2 DEF Promise!TakeEffect, RulingOf, ReportOf, StateOf
    <2>4. StateOf(a) \in Acting
        BY <1>1, <1>2 DEF StateOf
    <2> QED BY <1>1, <2>3, <2>4, CourseShown DEF Promise!Next
<1> QED BY <1>3, <1>4, <1>5

\* A decision that is settled is the report.
LEMMA ReportShown ==
    ASSUME NEW a \in Activity, Typed, decision[a] \in DecisionRow, decision[a] # NoDecision,
           NEW st, NEW r,
           \/ /\ st = "EXECUTED" /\ r = "done"
              /\ decision[a].state = "EXECUTING" /\ applied[a] # <<>>
           \/ st = "EXECUTION_FAILED" /\ r = "failed" /\ decision[a].state \in Acting,
           decision' = [decision EXCEPT ![a] = Settled(@, st)],
           UNCHANGED <<approval, attempt, applied>>
    PROVE  [Promise!Next]_(Promise!vars)
<1> DEFINE row == Settled(decision[a], st)
<1>1. /\ row \in DecisionRow /\ row # NoDecision /\ row.state = st
      /\ CourseOf(row) = CourseOf(decision[a]) /\ row.risk = decision[a].risk
      /\ IntentOf(row) = IntentOf(decision[a])
    BY RecordUpdates, NoDecisionAssumption DEF CourseOf, IntentOf
<1>2. decision' = [decision EXCEPT ![a] = row]
    OBVIOUS
<1> HIDE DEF row
<1>3. decision'[a] = row /\ \A b \in Activity : b # a => decision'[b] = decision[b]
    BY <1>2 DEF Typed, TypeOK
<1>4. /\ RulingOf(a)' = RulingOf(a) /\ ReportOf(a)' = r
      /\ \A b \in Activity : b # a => RulingOf(b)' = RulingOf(b) /\ ReportOf(b)' = ReportOf(b)
    BY <1>1, <1>3 DEF RulingOf, ReportOf, StateOf
<1>5. [b \in Activity |-> RulingOf(b)]' = [b \in Activity |-> RulingOf(b)]
    BY <1>4
<1>6. [b \in Activity |-> ReportOf(b)]' = [[b \in Activity |-> ReportOf(b)] EXCEPT ![a] = r]
    BY <1>4
<1>7. StateOf(a) \in Acting /\ ReportOf(a) \in {"none", "done", "failed"}
    BY DEF StateOf, ReportOf
<1>8. CASE ReportOf(a) = r
    <2>1. [b \in Activity |-> ReportOf(b)]' = [b \in Activity |-> ReportOf(b)]
        BY <1>4, <1>8
    <2> QED BY <1>5, <2>1 DEF Promise!vars
<1>9. CASE ReportOf(a) # r
    <2>1. /\ r \in {"done", "failed"}
          /\ r = "done" => ReportOf(a) = "none" /\ applied[a] # <<>>
          /\ r = "failed" => ReportOf(a) \in {"none", "done"}
        BY <1>7, <1>9 DEF ReportOf, StateOf
    <2>2. Promise!Report(a, r)
        BY <1>5, <1>6, <2>1 DEF Promise!Report
    <2> QED BY <1>7, <2>1, <2>2, CourseShown DEF Promise!Next
<1> QED BY <1>8, <1>9

\* Which of the promise's steps a ledger write is.
LEMMA LedgerShown ==
    ASSUME NEW w \in Worker, Typed, Authored,
           CreateAttempt(w) \/ ClaimAttempt(w) \/ ExecuteAttempt(w) \/ Succeed(w) \/ FailAttempt(w)
    PROVE  [Promise!Next]_(Promise!vars)
<1> USE DEF rows
<1>1. /\ pc[w] \in Trying \cup Catching /\ pc[w] \in Authoring
      /\ LocalTyped(w) /\ Stage(w)
    BY AtWorker DEF Authored, CreateAttempt, ClaimAttempt, ExecuteAttempt, Succeed, FailAttempt,
        LedgerStep, Authoring, Trying, Ledgering, Recording, Catching
<1>2. /\ act[w] \in Activity /\ attempt[act[w]] \in AttemptRow /\ StateOf(act[w]) \in Acting
    BY <1>1, AuthorsAct DEF Stage, StateOf, Typed, TypeOK
<1>3. \/ UNCHANGED <<decision, approval, attempt, applied>>
      \/ \E row : /\ attempt' = [attempt EXCEPT ![act[w]] = row]
                  /\ \/ row.status \notin {"NONE", "PENDING"}
                     \/ attempt[act[w]].status = "NONE"
                  /\ UNCHANGED <<decision, approval, applied>>
    <2> USE DEF LedgerStep, SetAttempt, MyAttempt, jules
    <2>1. CASE CreateAttempt(w)
        <3>1. attempt[act[w]].status = "NONE"
            BY <1>1, <2>1, AttemptUpdates, <1>2 DEF CreateAttempt, Stage
        <3> QED BY <2>1, <3>1 DEF CreateAttempt
    <2>2. CASE ClaimAttempt(w)
        <3>1. [status |-> "CLAIMED", claimOwner |-> w].status = "CLAIMED"
            OBVIOUS
        <3> QED BY <2>2, <3>1 DEF ClaimAttempt
    <2>3. CASE ExecuteAttempt(w)
        BY <1>2, <2>3, AttemptUpdates DEF ExecuteAttempt
    <2>4. CASE Succeed(w)
        BY <1>2, <2>4, AttemptUpdates DEF Succeed
    <2>5. CASE FailAttempt(w)
        <3>1. verdict[w] \in Category
            BY <1>1, <2>5 DEF FailAttempt, LocalTyped, Catching
        <3> QED BY <1>2, <2>5, <3>1, AttemptUpdates DEF FailAttempt
    <2> QED BY <2>1, <2>2, <2>3, <2>4, <2>5
<1> QED BY <1>2, <1>3, NothingShown, TraceShown

\* The reconciler traces what it re-claims, or shows nothing.
LEMMA ReconcilerShown ==
    ASSUME NEW w \in Worker, Typed, Authored, Reconcile(w)
    PROVE  [Promise!Next]_(Promise!vars)
<1> USE DEF rows, jules
<1>1. ASSUME NEW a \in Activity, Recover(w, a) PROVE [Promise!Next]_(Promise!vars)
    <2> DEFINE row == [status |-> "CLAIMED", claimOwner |-> w]
    <2>1. row.status = "CLAIMED"
        OBVIOUS
    <2>2. /\ attempt' = [attempt EXCEPT ![a] = row] /\ attempt[a].status # "NONE"
          /\ UNCHANGED <<decision, approval, applied>>
        BY <1>1 DEF Recover, SetAttempt, Stale, InFlight
    <2>3. StateOf(a) \in Acting
        BY <2>2 DEF Authored, Sound
    <2> HIDE DEF row
    <2> QED BY <2>1, <2>2, <2>3, TraceShown
<1>2. ASSUME Escalate(w) PROVE [Promise!Next]_(Promise!vars)
    <2> DEFINE a == rescue[w]
               row == Marked(attempt[a], "NEEDS_RECONCILIATION")
    <2>1. a \in Activity /\ attempt[a] \in AttemptRow /\ attempt[a].status # "NONE"
        BY <1>2 DEF Escalate, Typed, TypeOK, Authored, RescueFound
    <2>2. row.status = "NEEDS_RECONCILIATION"
        BY <2>1, RecordUpdates DEF AttemptTerminal
    <2>3. attempt' = [attempt EXCEPT ![a] = row] /\ UNCHANGED <<decision, approval, applied>>
        BY <1>2 DEF Escalate, SetAttempt
    <2>4. StateOf(a) \in Acting
        BY <2>1 DEF Authored, Sound
    <2> HIDE DEF row, a
    <2> QED BY <2>1, <2>2, <2>3, <2>4, TraceShown
<1> QED BY <1>1, <1>2 DEF Reconcile

\* The insert is a ruling, or finds another's.
LEMMA DecideShown ==
    ASSUME NEW w \in Worker, Typed, Decide(w)
    PROVE  [Promise!Next]_(Promise!vars)
<1> USE DEF rows, jules
<1>1. act[w] \in Activity /\ offer[w] \in Proposed
    BY AtWorker DEF Decide, Locked, Deciding, LocalTyped
<1>2. PICK proposal \in {offer[w], Looped(offer[w])}, assessed \in Assessed,
           config \in Configured, degraded \in Degraded :
           Insert(w, DecisionOf(proposal, assessed, config, degraded))
    BY DEF Decide
<1> DEFINE row == DecisionOf(proposal, assessed, config, degraded)
<1>3. proposal \in Proposed /\ assessed \in Assessment
    BY <1>1, RecordUpdates, PipelineAssumption
<1>4. row \in DecisionRow /\ row.state \in Disposition
    BY <1>3, DecisionOfTyped, DisposeTyped DEF DecisionOf
<1>5. row.state = "EXECUTING" => row.risk \in {"low", "medium"}
    BY ExecutesOnlyWhatIsSafe DEF DecisionOf
<1>6. UNCHANGED <<approval, attempt, applied>>
    BY DEF Decide
<1> HIDE DEF row
<1>7. CASE decision[act[w]] = NoDecision
    BY <1>1, <1>2, <1>4, <1>5, <1>6, <1>7, RuleShown DEF Insert, row
<1>8. CASE decision[act[w]] # NoDecision
    BY <1>2, <1>6, <1>8, NothingShown DEF Insert
<1> QED BY <1>7, <1>8

\* Settling a decision reports what came of it.
LEMMA SettleShown ==
    ASSUME NEW w \in Worker, Typed, Authored, MarkExecuted(w) \/ FailDecision(w)
    PROVE  [Promise!Next]_(Promise!vars)
<1>1. /\ pc[w] \in Trying \cup Catching /\ pc[w] \in Authoring /\ Stage(w)
      /\ MarkExecuted(w) => pc[w] = "markExecuted"
    BY DEF Authored, MarkExecuted, FailDecision, SetDecision, Authoring, Trying, Recording, Catching
<1>2. /\ act[w] \in Activity /\ decision[act[w]] \in DecisionRow /\ decision[act[w]] # NoDecision
      /\ decision[act[w]].state \in Acting
      /\ MarkExecuted(w) => decision[act[w]].state = "EXECUTING" /\ applied[act[w]] # <<>>
    BY <1>1, AuthorsAct DEF Stage, Trying, Recording
<1>3. UNCHANGED <<approval, attempt, applied>>
    BY DEF MarkExecuted, FailDecision, SetDecision, jules
<1>4. CASE MarkExecuted(w)
    BY <1>2, <1>3, <1>4, ReportShown DEF MarkExecuted, SetDecision
<1>5. CASE FailDecision(w)
    BY <1>2, <1>3, <1>5, ReportShown DEF FailDecision, SetDecision
<1> QED BY <1>4, <1>5

LEMMA PromiseInitially == Init => Promise!Init
<1> SUFFICES ASSUME Init PROVE Promise!Init
    OBVIOUS
<1>1. \A a \in Activity : RulingOf(a) = [course |-> "none"] /\ ReportOf(a) = "none"
    BY DEF Init, RulingOf, ReportOf, StateOf
<1>2. /\ {a \in Activity : approval[a] = "PENDING"} = {}
      /\ {a \in Activity : attempt[a].status \notin {"NONE", "PENDING"}} = {}
    BY RecordUpdates DEF Init
<1> QED BY <1>1, <1>2 DEF Init, Promise!Init, Promise!Unruled

LEMMA PromiseStep ==
    ASSUME Typed, Authored, [Next]_vars
    PROVE  [Promise!Next]_(Promise!vars)
<1> USE DEF rows, jules
<1>1. ASSUME NEW w \in Worker, Advance(w) PROVE [Promise!Next]_(Promise!vars)
    <2>1. CASE Decide(w)
        BY <2>1, DecideShown
    <2>2. CASE Approve(w)
        <3>1. pc[w] = "approve" /\ pc[w] \in Authoring /\ Stage(w)
            BY <2>2 DEF Approve, Authored, Authoring, Queueing
        <3>2. act[w] \in Activity /\ StateOf(act[w]) = "AWAITING_APPROVAL"
            BY <3>1, AuthorsAct DEF Stage, StateOf
        <3> QED BY <2>2, <3>2, QueueShown DEF Approve
    <2>3. CASE CreateAttempt(w) \/ ClaimAttempt(w) \/ ExecuteAttempt(w) \/ Succeed(w) \/ FailAttempt(w)
        BY <2>3, LedgerShown
    <2>4. CASE Mutate(w)
        BY <2>4, EffectShown
    <2>5. CASE MarkExecuted(w) \/ FailDecision(w)
        BY <2>5, SettleShown
    <2>6. CASE \/ \E s \in Session : Poll(w, s)
               \/ \E a \in Activity : Deliver(w, a)
               \/ Lookup(w) \/ ReadBudget(w) \/ ReadSafety(w) \/ Ask(w) \/ Charge(w)
               \/ Audit(w) \/ FlagSession(w) \/ Recheck(w) \/ VerifySession(w)
               \/ CheckCorrection(w) \/ Record(w) \/ Count(w) \/ Resume(w) \/ Release(w)
        <3>1. Private(w)
            BY <2>6, DecidingIsPrivate, DoingIsPrivate DEF Ask
        <3> QED BY <3>1, NothingShown DEF Private
    <2> QED BY <1>1, <2>1, <2>2, <2>3, <2>4, <2>5, <2>6 DEF Advance
<1>2. ASSUME NEW w \in Worker, Fail(w) PROVE [Promise!Next]_(Promise!vars)
    <2>1. UNCHANGED <<decision, approval, attempt, applied>>
        BY <1>2 DEF Fail, Throw, ThrowInside, SafetyUnread, ReleaseFails, AbandonRescue, Crash
    <2> QED BY <2>1, NothingShown
<1>3. CASE \/ \E a \in Activity : JulesAsks(a)
           \/ \E s \in Session : JulesGoesOn(s) \/ LapseLock(s)
           \/ \E state \in SafetyState : SetState(state)
           \/ UNCHANGED vars
    <2>1. UNCHANGED <<decision, approval, attempt, applied>>
        BY <1>3 DEF JulesAsks, JulesGoesOn, LapseLock, SetState, vars
    <2> QED BY <2>1, NothingShown
<1>4. ASSUME NEW w \in Worker, Reconcile(w) PROVE [Promise!Next]_(Promise!vars)
    BY <1>4, ReconcilerShown
<1> QED BY <1>1, <1>2, <1>3, <1>4 DEF Next

\* Polls, lost locks, reconcilers, failed calls and crashes together show
\* operators, auditors and Jules only what SupervisedQuestion allows: one
\* ruling, never revised, and at most one effect, as it was ruled and traced.
THEOREM RulesOnceAlways == Spec => RulesOnce
BY PromiseInitially, PromiseStep, AuthoredAlways, PTL DEF Spec, RulesOnce, Promise!Spec
=============================================================================
