---------------------------- MODULE ProviderRouter ----------------------------
(***************************************************************************)
(* One worker's provider router: the AI providers in their order of        *)
(* preference, a circuit breaker for each, retries at the same provider,   *)
(* fallback to the next, and the deadline over the whole routing.  The     *)
(* poller processes one activity at a time, so one routing is in flight.   *)
(*                                                                         *)
(* A settings reload builds a new router; a routing in flight ends on the  *)
(* old one, whose state nobody reads afterwards.                           *)
(*                                                                         *)
(* Clock values are kept as ages, which stop counting once nothing can     *)
(* tell them apart.  X_Y before X is a variant of X with one defect.       *)
(***************************************************************************)
EXTENDS Integers

CONSTANTS
    N,                \* providers, 1 being the primary
    Eligible,         \* those whose capabilities satisfy the request
    Remote,           \* those whose host is looked up in the DNS first
    MaxRetries,       \* MAX_AI_RETRIES
    Threshold, Window, Cooldown

Provider == 1..N

ASSUME RouterAssumption ==
    /\ N \in Nat \ {0}
    /\ Eligible \subseteq Provider
    /\ Remote \subseteq Provider
    /\ MaxRetries \in Nat
    /\ Threshold \in Nat \ {0}
    /\ Window \in Nat \ {0}
    /\ Cooldown \in Nat \ {0}

VARIABLES
    breaker, health, dns,  \* of each entry of the router
    routing,               \* decideWithAttempts in flight
    reloaded,              \* has a new router been handed over meanwhile?
    answering,             \* the providers that answer, in time
    resolving,             \* the hosts that resolve, to a public address
    \* history: attempts begun at an open breaker since it opened, and failed
    \* attempts since the last success, up to Threshold
    hits, failedRun

router == <<breaker, health, dns>>
world == <<answering, resolving>>
history == <<hits, failedRun>>
vars == <<router, routing, reloaded, world, history>>
-----------------------------------------------------------------------------
\* or AUTH_FAILURE, by the words of the message; both persist
Permanent == {"MISCONFIGURED"}
Health == {"HEALTHY", "DEGRADED", "CIRCUIT_OPEN"} \cup Permanent

\* The ages of the newest Threshold failures, the newest first, Window standing
\* for all that is outside the window; and the time since openedAt.  Failures
\* do not matter while the breaker is not CLOSED: it closes by a success, which
\* forgets them.
Recent == 1..Threshold
Ages == [Recent -> 0..Window]
NoFailures == [n \in Recent |-> Window]
Breaker == [state : {"CLOSED", "OPEN", "HALF_OPEN"}, failures : Ages, age : 0..Cooldown]

Routing == [pc : {"idle", "lookup", "call", "done"},
            at : 0..N, attempt : 1..(1 + MaxRetries),
            failed : [Provider -> 0..(1 + MaxRetries)],  \* FAILED records
            skipped : SUBSET Provider,                   \* SKIPPED_CIRCUIT records
            begun : Nat,                                 \* provider.decide calls
            outcome : {"none", "decided", "exhausted", "aborted"}]

TypeOK ==
    /\ breaker \in [Provider -> Breaker]
    /\ health \in [Provider -> Health]
    /\ dns \in [Provider -> {"unresolved", "validated", "rejected"}]
    /\ routing \in Routing
    /\ reloaded \in BOOLEAN
    /\ answering \subseteq Provider
    /\ resolving \subseteq Provider
    /\ hits \in [Provider -> Nat]
    /\ failedRun \in [Provider -> 0..Threshold]

Closed == [state |-> "CLOSED", failures |-> NoFailures, age |-> 0]
NoRouting == [pc |-> "idle", at |-> 0, attempt |-> 1, failed |-> [i \in Provider |-> 0],
              skipped |-> {}, begun |-> 0, outcome |-> "none"]

\* createAiProvider.
Fresh(b, h, d) ==
    /\ b = [i \in Provider |-> Closed]
    /\ h = [i \in Provider |-> "HEALTHY"]
    /\ d = [i \in Provider |-> "unresolved"]

Init ==
    /\ Fresh(breaker, health, dns)
    /\ routing = NoRouting
    /\ reloaded = FALSE
    /\ answering = Provider
    /\ resolving = Provider
    /\ hits = [i \in Provider |-> 0]
    /\ failedRun = [i \in Provider |-> 0]
-----------------------------------------------------------------------------
(* CircuitBreaker.                                                         *)

AtMost(m, n) == IF m > n THEN n ELSE m

Refresh_Never(b) == b

Refresh(b) ==
    IF b.state = "OPEN" /\ b.age >= Cooldown THEN [b EXCEPT !.state = "HALF_OPEN"] ELSE b

IsAllowed_Always(b) == TRUE

IsAllowed(b) == Refresh(b).state # "OPEN"

OnSuccess(b) == Closed

\* push(now); the failures inside the window are as many as the threshold.
Push(failures) == [n \in Recent |-> IF n = 1 THEN 0 ELSE failures[n - 1]]
Enough(failures) == failures[Threshold] < Window

OnFailure(b) ==
    LET r == Refresh(b)
        failures == Push(r.failures)
        trips == r.state = "HALF_OPEN" \/ (r.state = "CLOSED" /\ Enough(failures))
    IN IF trips THEN [state |-> "OPEN", failures |-> NoFailures, age |-> 0]
       ELSE IF r.state = "OPEN" THEN r
       ELSE [r EXCEPT !.failures = failures]

\* What the filter drops and what refreshState compares, as time passes.
Older(b) ==
    [b EXCEPT !.failures = [n \in Recent |-> AtMost(@[n] + 1, Window)],
              !.age = IF b.state = "CLOSED" THEN 0 ELSE AtMost(@ + 1, Cooldown)]

Tick ==
    /\ breaker' = [i \in Provider |-> Older(breaker[i])]
    /\ UNCHANGED <<health, dns, routing, reloaded, world, history>>
-----------------------------------------------------------------------------
(* DefaultProviderRouter.routeWithSignal: what happens between two awaits. *)

\* provider.decide: the host is looked up before the first request.
Await(i) == IF i \in Remote /\ dns[i] # "validated" THEN "lookup" ELSE "call"

\* canSatisfy: a provider that cannot is passed over in silence.
CanSatisfy(i) == i \in Eligible

\* The loop goes on at provider j: those with an open breaker are skipped.
GoOn(j, b, h, n, r) ==
    LET waiting == {i \in Provider : i >= j /\ CanSatisfy(i)}
        free == {i \in waiting : IsAllowed(b[i])}
        next == CHOOSE i \in free : \A k \in free : i <= k
        passed == {i \in waiting : free = {} \/ i < next}
        s == [r EXCEPT !.skipped = @ \cup passed]
    IN /\ health' = [i \in Provider |-> IF i \in passed THEN "CIRCUIT_OPEN" ELSE h[i]]
       /\ IF free = {}
          THEN /\ routing' = [s EXCEPT !.pc = "done", !.outcome = "exhausted"]
               /\ breaker' = b
               /\ hits' = n
          ELSE /\ routing' = [s EXCEPT !.pc = Await(next), !.at = next, !.attempt = 1,
                                       !.begun = @ + 1]
               /\ breaker' = [b EXCEPT ![next] = Refresh(@)]
               /\ hits' = [n EXCEPT ![next] = IF Refresh(b[next]).state = "OPEN" THEN @ + 1 ELSE @]

TryAgain(i, b, h, n, r) ==
    /\ routing' = [r EXCEPT !.pc = Await(i), !.attempt = @ + 1, !.begun = @ + 1]
    /\ breaker' = b
    /\ health' = h
    /\ hits' = [n EXCEPT ![i] = IF b[i].state = "OPEN" THEN @ + 1 ELSE @]

\* What entry.health becomes after a failure of a class.
Blamed(h, class) ==
    IF h \in Permanent THEN h ELSE IF class \in Permanent THEN class ELSE "DEGRADED"

\* What a failure leaves of provider i before the loop goes on.
Trips(i) == Refresh(breaker[i]).state # "OPEN" /\ OnFailure(breaker[i]).state = "OPEN"
BreakersAfter(i) == [breaker EXCEPT ![i] = OnFailure(@)]
HealthAfter(i, class) == [health EXCEPT ![i] = Blamed(@, class)]
HitsAfter(i) == [hits EXCEPT ![i] = IF Trips(i) THEN 0 ELSE @]
Recorded(i) == [routing EXCEPT !.failed[i] = @ + 1]

MayTryAgain_OnceMore(class) == class = "RETRYABLE" /\ routing.attempt <= MaxRetries + 1

\* Only a transient failure is tried again in place.
MayTryAgain(class) == class = "RETRYABLE" /\ routing.attempt <= MaxRetries

PenaliseAndGoOn_NoFallback(class) ==
    LET i == routing.at IN
    /\ failedRun' = [failedRun EXCEPT ![i] = AtMost(@ + 1, Threshold)]
    /\ IF MayTryAgain(class)
       THEN TryAgain(i, BreakersAfter(i), HealthAfter(i, class), HitsAfter(i), Recorded(i))
       ELSE IF class \in Permanent
       THEN GoOn(N + 1, BreakersAfter(i), HealthAfter(i, class), HitsAfter(i), Recorded(i))
       ELSE GoOn(i + 1, BreakersAfter(i), HealthAfter(i, class), HitsAfter(i), Recorded(i))

\* The catch block.
PenaliseAndGoOn(class) ==
    LET i == routing.at IN
    /\ failedRun' = [failedRun EXCEPT ![i] = AtMost(@ + 1, Threshold)]
    /\ IF MayTryAgain(class)
       THEN TryAgain(i, BreakersAfter(i), HealthAfter(i, class), HitsAfter(i), Recorded(i))
       ELSE GoOn(i + 1, BreakersAfter(i), HealthAfter(i, class), HitsAfter(i), Recorded(i))

\* decideWithAttempts.
Start ==
    /\ routing.pc = "idle"
    /\ GoOn(1, breaker, health, hits, NoRouting)
    /\ UNCHANGED <<dns, reloaded, world, failedRun>>

\* validateProviderUrlWithDns: a host that does not resolve, or to an address
\* of the deployment's own network, is refused.
Resolves(i) == i \in resolving

\* The guarded fetch validates the host once more for every request.
Answers(i) == i \in answering /\ Resolves(i)

\* validateSsrSafe.  The promise is kept, whatever became of it.
Lookup ==
    LET i == routing.at IN
    /\ routing.pc = "lookup"
    /\ IF dns[i] = "unresolved" /\ Resolves(i)
       THEN /\ dns' = [dns EXCEPT ![i] = "validated"]
            /\ routing' = [routing EXCEPT !.pc = "call"]
            /\ UNCHANGED <<breaker, health, history>>
       ELSE /\ dns' = [dns EXCEPT ![i] = "rejected"]
            /\ PenaliseAndGoOn("RETRYABLE")
    /\ UNCHANGED <<reloaded, world>>

\* A decision that satisfies the schema.
Decided ==
    LET i == routing.at IN
    /\ routing.pc = "call"
    /\ Answers(i)
    /\ breaker' = [breaker EXCEPT ![i] = OnSuccess(@)]
    /\ health' = [health EXCEPT ![i] = "HEALTHY"]
    /\ routing' = [routing EXCEPT !.pc = "done", !.outcome = "decided"]
    /\ hits' = [hits EXCEPT ![i] = 0]
    /\ failedRun' = [failedRun EXCEPT ![i] = 0]
    /\ UNCHANGED <<dns, reloaded, world>>

\* classifyProviderFailure: a host that is refused counts as transient; an
\* output that does not parse is not tried again.
Failed ==
    /\ routing.pc = "call"
    /\ \/ ~Resolves(routing.at) /\ PenaliseAndGoOn("RETRYABLE")
       \/ /\ routing.at \notin answering
          /\ \E class \in {"RETRYABLE", "OUTPUT"} \cup Permanent : PenaliseAndGoOn(class)
    /\ UNCHANGED <<dns, reloaded, world>>

\* May the deadline pass now?  Not before the first attempt of a provider that
\* answers is through, nor while nothing but a settled promise is awaited.
Late ==
    /\ routing.pc \in {"lookup", "call"}
    /\ routing.begun > 1 \/ ~Answers(routing.at)
    /\ routing.pc = "lookup" => dns[routing.at] # "rejected"

Aborted_Counted ==
    LET i == routing.at IN
    /\ Late
    /\ routing' = [routing EXCEPT !.pc = "done", !.outcome = "aborted"]
    /\ breaker' = BreakersAfter(i)
    /\ health' = HealthAfter(i, "RETRYABLE")
    /\ UNCHANGED <<dns, reloaded, world, history>>

\* The total deadline passes during a call, whose rejection, or result, is
\* dropped.
Aborted ==
    /\ Late
    /\ routing' = [routing EXCEPT !.pc = "done", !.outcome = "aborted"]
    /\ UNCHANGED <<router, reloaded, world, history>>

\* The pipeline resumes; from now on it uses the newest router.
Return ==
    /\ routing.pc = "done"
    /\ routing' = NoRouting
    /\ reloaded' = FALSE
    /\ IF reloaded
       THEN /\ Fresh(breaker', health', dns')
            /\ hits' = [i \in Provider |-> 0]
            /\ failedRun' = [i \in Provider |-> 0]
       ELSE UNCHANGED <<router, history>>
    /\ UNCHANGED world

\* pipeline.updateConfig with a new provider.
Reload ==
    /\ IF routing.pc = "idle"
       THEN /\ Fresh(breaker', health', dns')
            /\ hits' = [i \in Provider |-> 0]
            /\ failedRun' = [i \in Provider |-> 0]
            /\ UNCHANGED reloaded
       ELSE /\ reloaded' = TRUE
            /\ UNCHANGED <<router, history>>
    /\ UNCHANGED <<routing, world>>

\* Providers and name servers come and go.
Outage ==
    /\ \E i \in Provider :
          \/ /\ answering' = IF i \in answering THEN answering \ {i} ELSE answering \cup {i}
             /\ UNCHANGED resolving
          \/ /\ i \in Remote
             /\ resolving' = IF i \in resolving THEN resolving \ {i} ELSE resolving \cup {i}
             /\ UNCHANGED answering
    /\ UNCHANGED <<router, routing, reloaded, history>>
-----------------------------------------------------------------------------
Answer == Lookup \/ Decided \/ Failed \/ Aborted
Next == Start \/ Answer \/ Return \/ Reload \/ Tick \/ Outage

Spec == Init /\ [][Next]_vars

\* A call is bounded by its timeout and the deadline, the poller resumes, and
\* time passes.  Nothing is assumed of the providers, or that work arrives.
FairSpec == Spec /\ WF_vars(Answer) /\ WF_vars(Return) /\ WF_vars(Tick)
-----------------------------------------------------------------------------
(* Properties.                                                             *)

\* An open breaker lets through what is left of the routing that opened it, and
\* nothing of any later one until its cooldown is over (circuit-breaker.ts:8).
HammeringBounded == \A i \in Provider : hits[i] <= MaxRetries

\* A provider is shut out only after Threshold failures of its own since it
\* last succeeded: neither a cancelled call, nor another provider's failures,
\* nor failures before a success count (provider-router.ts:224-226).
TrippedByOwnFailures ==
    \A i \in Provider : breaker[i].state # "CLOSED" => failedRun[i] >= Threshold

\* A routing that gives up has come to every eligible provider, and one that
\* decides to every one before: each was tried or is skipped on record.
EveryProviderConsidered ==
    routing.pc = "done" =>
        \A i \in Eligible :
            \/ routing.failed[i] > 0
            \/ i \in routing.skipped
            \/ routing.outcome # "exhausted" /\ i >= routing.at

\* The primary is used again, and found healthy, once it answers for good, while
\* there is work, unless its host once failed to resolve: however it was skipped
\* or blamed before.
First == CHOOSE i \in Eligible : \A k \in Eligible : i <= k
PrimaryComesBack ==
    <>[](First \in answering \cap resolving /\ dns[First] # "rejected") /\ []<>(routing.pc = "done")
        => <>[](health[First] = "HEALTHY")

\* endpoint-provider.ts:74-75: the lookup "is cached after the first successful
\* validation"; so a host that resolves again is used again.
LookupHeals ==
    <>[](First \in answering \cap resolving) /\ []<>(routing.pc = "done")
        => <>[](health[First] = "HEALTHY")
=============================================================================
