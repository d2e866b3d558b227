----------------------------- MODULE RouterProofs -----------------------------
(***************************************************************************)
(* Proofs about the provider router: its state keeps its shape, an open    *)
(* breaker is hit by one routing only, a breaker opens for failures of its *)
(* own, and no routing leaves a provider out, for any number of providers, *)
(* any subset of them that is eligible or remote, and any limits.          *)
(***************************************************************************)
EXTENDS ProviderRouter, WellFoundedInduction, TLAPS

InFlight == routing.pc \in {"lookup", "call"}

\* The failures on record say how often the provider in turn was tried; those
\* after it were not.
Underway ==
    /\ routing.pc = "idle" => routing = NoRouting
    /\ InFlight =>
         /\ routing.at \in Eligible
         /\ routing.failed[routing.at] = routing.attempt - 1
         /\ \A j \in Provider : j > routing.at => routing.failed[j] = 0

\* Attempts at an open breaker are retries of the routing in flight.
Hammering ==
    InFlight /\ breaker[routing.at].state = "OPEN" => hits[routing.at] <= routing.attempt - 1

\* A failure that stands in the window of a closed breaker is one of the run.
InRow(b, run) ==
    \A i \in Provider :
        IF b[i].state = "CLOSED"
        THEN \A n \in Recent : b[i].failures[n] < Window => run[i] >= n
        ELSE run[i] >= Threshold

\* What lies before provider j has been considered.
Behind(j, r) == \A i \in Eligible : i < j => r.failed[i] > 0 \/ i \in r.skipped
CameTo == InFlight => Behind(routing.at, routing)

IInv ==
    /\ TypeOK
    /\ Underway
    /\ Hammering
    /\ HammeringBounded
    /\ InRow(breaker, failedRun)
    /\ CameTo
    /\ EveryProviderConsidered
-----------------------------------------------------------------------------
(* Least elements, and the breaker.                                        *)

\* A set of naturals that is not empty has a least element.
LEMMA LeastElement ==
    ASSUME NEW S, S \subseteq Nat, S # {}
    PROVE  \E i \in S : \A k \in S : i <= k
<1> DEFINE Smaller == {ss \in Nat \X Nat : ss[1] < ss[2]}
<1>1. IsWellFoundedOn(Smaller, Nat)
      BY NatLessThanWellFounded DEF OpToRel
<1> HIDE DEF Smaller
<1>2. PICK i \in S : \A k \in S : ~(<<k, i>> \in Smaller)
      BY <1>1, WFMin
<1>3. \A k \in S : ~(k < i)
      BY <1>2 DEF Smaller
<1>. QED BY <1>3

\* The provider the loop stops at is the least of those it may stop at.
LEMMA LeastProvider ==
    ASSUME NEW S, S \subseteq Provider, S # {}
    PROVE  LET next == CHOOSE i \in S : \A k \in S : i <= k
           IN  next \in S /\ \A k \in S : next <= k
<1>1. S \subseteq Nat
      BY RouterAssumption DEF Provider
<1>2. \E i \in S : \A k \in S : i <= k
      BY <1>1, LeastElement
<1>. QED BY <1>2

\* A breaker that is looked at, and one that counts a failure, stays one.
LEMMA BreakerTypes ==
    ASSUME NEW b \in Breaker
    PROVE  /\ Refresh(b) \in Breaker
           /\ Refresh(b).state = "CLOSED" <=> b.state = "CLOSED"
           /\ Refresh(b).failures = b.failures
           /\ OnFailure(b) \in Breaker
           /\ Closed \in Breaker
           /\ Older(b) \in Breaker
<1>1. Refresh(b) \in Breaker
      BY DEF Refresh, Breaker
<1>2. /\ Refresh(b).state = "CLOSED" <=> b.state = "CLOSED"
      /\ Refresh(b).failures = b.failures
      BY DEF Refresh, Breaker
<1>3. \A f \in Ages : Push(f) \in Ages
      BY RouterAssumption DEF Push, Ages, Recent
<1>4. NoFailures \in Ages
      BY RouterAssumption DEF NoFailures, Ages
<1>5. Closed \in Breaker
      BY <1>4, RouterAssumption DEF Closed, Breaker
<1>6. OnFailure(b) \in Breaker
      <2>1. Push(Refresh(b).failures) \in Ages
            BY <1>1, <1>3 DEF Breaker
      <2>2. [state |-> "OPEN", failures |-> NoFailures, age |-> 0] \in Breaker
            BY <1>4, RouterAssumption DEF Breaker
      <2>3. [Refresh(b) EXCEPT !.failures = Push(Refresh(b).failures)] \in Breaker
            BY <1>1, <2>1 DEF Breaker
      <2>. QED BY <1>1, <2>2, <2>3 DEF OnFailure
<1>7. Older(b) \in Breaker
      <2>1. [n \in Recent |-> AtMost(b.failures[n] + 1, Window)] \in Ages
            BY RouterAssumption DEF Breaker, Ages, AtMost
      <2>2. (IF b.state = "CLOSED" THEN 0 ELSE AtMost(b.age + 1, Cooldown)) \in 0..Cooldown
            BY RouterAssumption DEF Breaker, AtMost
      <2>. QED BY <2>1, <2>2 DEF Older, Breaker
<1>. QED BY <1>1, <1>2, <1>5, <1>6, <1>7

\* A failure either opens the breaker, or leaves an open one as it is, or
\* leaves a closed one closed with the failure in front.
LEMMA FailureCases ==
    ASSUME NEW b \in Breaker
    PROVE  \/ OnFailure(b).state = "OPEN" /\ Refresh(b).state = "HALF_OPEN"
           \/ /\ OnFailure(b).state = "OPEN" /\ b.state = "CLOSED"
              /\ Enough(Push(b.failures))
           \/ OnFailure(b) = b /\ b.state = "OPEN"
           \/ /\ OnFailure(b).state = "CLOSED" /\ b.state = "CLOSED"
              /\ OnFailure(b).failures = Push(b.failures)
BY DEF OnFailure, Refresh, Breaker

\* One provider fails: the failures in its window remain of its own run.
LEMMA FailureInRow ==
    ASSUME NEW b \in [Provider -> Breaker], NEW run \in [Provider -> 0..Threshold],
           NEW i \in Provider, InRow(b, run)
    PROVE  InRow([b EXCEPT ![i] = OnFailure(@)],
                 [run EXCEPT ![i] = AtMost(@ + 1, Threshold)])
<1> DEFINE c == [b EXCEPT ![i] = OnFailure(@)]
           longer == [run EXCEPT ![i] = AtMost(@ + 1, Threshold)]
<1> SUFFICES ASSUME NEW k \in Provider
             PROVE  IF c[k].state = "CLOSED"
                    THEN \A n \in Recent : c[k].failures[n] < Window => longer[k] >= n
                    ELSE longer[k] >= Threshold
    BY DEF InRow
<1>1. CASE k # i
      BY <1>1 DEF InRow
<1>2. CASE k = i
      <2>1. c[i] = OnFailure(b[i]) /\ longer[i] = AtMost(run[i] + 1, Threshold)
            OBVIOUS
      <2>2. /\ b[i] \in Breaker
            /\ b[i].failures \in Ages
            /\ run[i] \in 0..Threshold
            BY DEF Breaker
      <2>3. \A n \in Recent :
               b[i].state = "CLOSED" /\ Push(b[i].failures)[n] < Window => longer[i] >= n
            <3> SUFFICES ASSUME NEW n \in Recent, b[i].state = "CLOSED",
                                Push(b[i].failures)[n] < Window
                         PROVE  longer[i] >= n
                OBVIOUS
            <3>1. CASE n = 1
                  BY <2>1, <2>2, <3>1, RouterAssumption DEF AtMost
            <3>2. CASE n # 1
                  <4>1. n - 1 \in Recent /\ b[i].failures[n - 1] < Window
                        BY <3>2, RouterAssumption DEF Push, Recent
                  <4>2. run[i] >= n - 1
                        BY <4>1 DEF InRow
                  <4>. QED BY <2>1, <2>2, <4>2, RouterAssumption DEF AtMost, Recent
            <3>. QED BY <3>1, <3>2
      <2>4. CASE Refresh(b[i]).state = "HALF_OPEN" \/ b[i].state = "OPEN"
            <3>1. b[i].state # "CLOSED"
                  BY <2>2, <2>4, BreakerTypes
            <3>2. OnFailure(b[i]).state # "CLOSED"
                  BY <2>2, <2>4, <3>1, FailureCases
            <3>3. run[i] >= Threshold
                  BY <3>1 DEF InRow
            <3>. QED BY <1>2, <2>1, <2>2, <3>2, <3>3, RouterAssumption DEF AtMost
      <2>5. CASE OnFailure(b[i]).state = "OPEN" /\ b[i].state = "CLOSED" /\ Enough(Push(b[i].failures))
            <3>1. Threshold \in Recent /\ Push(b[i].failures)[Threshold] < Window
                  BY <2>5, RouterAssumption DEF Enough, Recent
            <3>. QED BY <1>2, <2>1, <2>3, <2>5, <3>1
      <2>6. CASE /\ OnFailure(b[i]).state = "CLOSED" /\ b[i].state = "CLOSED"
                 /\ OnFailure(b[i]).failures = Push(b[i].failures)
            BY <1>2, <2>1, <2>3, <2>6
      <2>. QED BY <2>2, <2>4, <2>5, <2>6, FailureCases
<1>. QED BY <1>1, <1>2

\* Looking at a breaker, and time, add no failure to the window.
LEMMA RefreshInRow ==
    ASSUME NEW b \in [Provider -> Breaker], NEW run, NEW i \in Provider, InRow(b, run)
    PROVE  InRow([b EXCEPT ![i] = Refresh(@)], run)
BY BreakerTypes DEF InRow

LEMMA OlderInRow ==
    ASSUME NEW b \in [Provider -> Breaker], NEW run, InRow(b, run)
    PROVE  InRow([i \in Provider |-> Older(b[i])], run)
<1>1. \A i \in Provider :
         /\ Older(b[i]).state = b[i].state
         /\ \A n \in Recent : Older(b[i]).failures[n] < Window => b[i].failures[n] < Window
      <2> SUFFICES ASSUME NEW i \in Provider
                   PROVE  /\ Older(b[i]).state = b[i].state
                          /\ \A n \in Recent :
                                Older(b[i]).failures[n] < Window => b[i].failures[n] < Window
          OBVIOUS
      <2>1. b[i] \in Breaker
            OBVIOUS
      <2>2. /\ Older(b[i]).state = b[i].state
            /\ Older(b[i]).failures = [n \in Recent |-> AtMost(b[i].failures[n] + 1, Window)]
            BY <2>1 DEF Older, Breaker
      <2>3. \A n \in Recent : b[i].failures[n] \in 0..Window
            BY <2>1 DEF Breaker, Ages
      <2>. QED BY <2>2, <2>3, RouterAssumption DEF AtMost
<1>. QED BY <1>1 DEF InRow
-----------------------------------------------------------------------------
(* The loop.                                                               *)

\* What the loop needs when it goes on at provider j with record r.
Ready(j, n, r) ==
    /\ r \in Routing
    /\ \A k \in Provider : k >= j => r.failed[k] = 0
    /\ Behind(j, r)
    /\ \A k \in Provider : n[k] <= MaxRetries

\* The loop goes on and stops at a provider, or gives up: nobody was left out,
\* and the breaker of the provider it stops at is not open.
LEMMA GoesOn ==
    ASSUME NEW j \in 1..(N + 1), NEW b \in [Provider -> Breaker],
           NEW h \in [Provider -> Health], NEW n \in [Provider -> Nat], NEW r,
           NEW run, InRow(b, run),
           Ready(j, n, r), GoOn(j, b, h, n, r)
    PROVE  /\ breaker' \in [Provider -> Breaker]
           /\ health' \in [Provider -> Health]
           /\ hits' \in [Provider -> Nat]
           /\ routing' \in Routing
           /\ Underway' /\ Hammering' /\ HammeringBounded'
           /\ InRow(breaker', run)
           /\ CameTo' /\ EveryProviderConsidered'
<1> DEFINE waiting == {i \in Provider : i >= j /\ CanSatisfy(i)}
           free == {i \in waiting : IsAllowed(b[i])}
           next == CHOOSE i \in free : \A k \in free : i <= k
           passed == {i \in waiting : free = {} \/ i < next}
           s == [r EXCEPT !.skipped = @ \cup passed]
<1>1. /\ waiting \subseteq Eligible /\ free \subseteq waiting
      /\ \A i \in Eligible : i >= j => i \in waiting
      BY RouterAssumption DEF CanSatisfy
<1>2. passed \subseteq Provider
      OBVIOUS
<1>3. health' \in [Provider -> Health]
      BY DEF GoOn, Health
<1>4. /\ s \in Routing
      /\ \A k \in Provider : s.failed[k] = r.failed[k]
      /\ s.skipped = r.skipped \cup passed
      BY <1>2 DEF Ready, Routing
<1>5. CASE free = {}
      <2>1. /\ routing' = [s EXCEPT !.pc = "done", !.outcome = "exhausted"]
            /\ breaker' = b
            /\ hits' = n
            BY <1>5 DEF GoOn
      <2>2. /\ routing' \in Routing /\ routing'.pc = "done"
            /\ \A k \in Provider : routing'.failed[k] = r.failed[k]
            /\ routing'.skipped = r.skipped \cup passed
            BY <1>4, <2>1 DEF Routing
      <2>3. \A i \in Eligible : i >= j => i \in passed
            BY <1>1, <1>5
      <2>4. ASSUME NEW i \in Eligible
            PROVE  routing'.failed[i] > 0 \/ i \in routing'.skipped
            <3>1. i \in Provider /\ (i < j \/ i >= j)
                  BY RouterAssumption DEF Provider
            <3>2. CASE i < j
                  BY <2>2, <3>1, <3>2 DEF Ready, Behind
            <3>3. CASE i >= j
                  BY <2>2, <2>3, <3>3
            <3>. QED BY <3>1, <3>2, <3>3
      <2>. QED BY <1>3, <2>1, <2>2, <2>4
               DEF Underway, InFlight, Hammering, HammeringBounded, CameTo,
                   EveryProviderConsidered, Ready
<1>6. CASE free # {}
      <2>1. /\ routing' = [s EXCEPT !.pc = Await(next), !.at = next, !.attempt = 1,
                                    !.begun = @ + 1]
            /\ breaker' = [b EXCEPT ![next] = Refresh(@)]
            /\ hits' = [n EXCEPT ![next] = IF Refresh(b[next]).state = "OPEN" THEN @ + 1 ELSE @]
            BY <1>6 DEF GoOn
      <2>2. next \in free /\ \A k \in free : next <= k
            <3> HIDE DEF next
            <3>1. free \subseteq Provider
                  OBVIOUS
            <3> HIDE DEF free
            <3>. QED BY <1>6, <3>1, LeastProvider DEF next
      <2> HIDE DEF next
      <2>3. next \in Provider /\ next \in Eligible /\ next >= j /\ Refresh(b[next]).state # "OPEN"
            BY <1>1, <2>2 DEF IsAllowed
      <2>4. hits' = n
            BY <2>1, <2>3
      <2>5. breaker' \in [Provider -> Breaker] /\ breaker'[next].state # "OPEN"
            BY <2>1, <2>3, BreakerTypes
      <2>6. /\ routing' \in Routing
            /\ routing'.pc \in {"lookup", "call"}
            /\ routing'.at = next /\ routing'.attempt = 1
            /\ routing'.failed = r.failed
            /\ routing'.skipped = r.skipped \cup passed
            <3> HIDE DEF passed
            <3>1. Await(next) \in {"lookup", "call"}
                  BY DEF Await
            <3>2. next \in 0..N /\ 1 \in 1..(1 + MaxRetries)
                  BY <2>3, RouterAssumption DEF Provider
            <3>3. routing' = [pc |-> Await(next), at |-> next, attempt |-> 1,
                              failed |-> r.failed, skipped |-> r.skipped \cup passed,
                              begun |-> r.begun + 1, outcome |-> r.outcome]
                  BY <1>4, <2>1 DEF Ready, Routing
            <3>. QED BY <1>2, <1>4, <3>1, <3>2, <3>3 DEF Ready, Routing
      <2>7. Underway'
            <3>1. r.failed[next] = 0 /\ \A k \in Provider : k > next => r.failed[k] = 0
                  BY <2>3, RouterAssumption DEF Ready, Provider
            <3>. QED BY <2>3, <2>6, <3>1 DEF Underway, InFlight
      <2>8. Behind(next, routing')
            <3> SUFFICES ASSUME NEW i \in Eligible, i < next
                         PROVE  routing'.failed[i] > 0 \/ i \in routing'.skipped
                BY DEF Behind
            <3>1. CASE i < j
                  BY <2>6, <3>1 DEF Ready, Behind
            <3>2. CASE i >= j
                  BY <1>1, <2>6, <3>2
            <3>. QED BY <3>1, <3>2, RouterAssumption DEF Provider
      <2>9. CameTo' /\ EveryProviderConsidered'
            BY <2>6, <2>8 DEF CameTo, EveryProviderConsidered, Behind
      <2>10. Hammering' /\ HammeringBounded'
            BY <2>4, <2>5, <2>6 DEF Hammering, InFlight, HammeringBounded, Ready
      <2>11. InRow(breaker', run)
            BY <2>1, <2>3, RefreshInRow
      <2>. QED BY <1>3, <2>4, <2>5, <2>6, <2>7, <2>9, <2>10, <2>11
<1>. QED BY <1>5, <1>6

\* An attempt fails: what it leaves of the breaker, the health and the hits.
LEMMA Penalised ==
    ASSUME IInv, InFlight, NEW class
    PROVE  LET i == routing.at IN
           /\ i \in Eligible /\ i \in Provider
           /\ BreakersAfter(i) \in [Provider -> Breaker]
           /\ HealthAfter(i, class) \in [Provider -> Health]
           /\ HitsAfter(i) \in [Provider -> Nat]
           /\ \A k \in Provider : HitsAfter(i)[k] <= MaxRetries
           /\ BreakersAfter(i)[i].state = "OPEN" => HitsAfter(i)[i] <= routing.attempt - 1
           /\ Recorded(i) = [routing EXCEPT !.failed = [@ EXCEPT ![i] = routing.attempt]]
           /\ Recorded(i) \in Routing
           /\ Ready(i + 1, HitsAfter(i), Recorded(i))
<1> DEFINE i == routing.at
<1>1. i \in Eligible /\ i \in Provider
      BY RouterAssumption DEF IInv, Underway
<1>2. breaker[i] \in Breaker
      BY <1>1 DEF IInv, TypeOK
<1>3. BreakersAfter(i) \in [Provider -> Breaker]
      BY <1>1, <1>2, BreakerTypes DEF IInv, TypeOK, BreakersAfter
<1>4. HealthAfter(i, class) \in [Provider -> Health]
      BY <1>1 DEF IInv, TypeOK, HealthAfter, Blamed, Health
<1>5. /\ HitsAfter(i) \in [Provider -> Nat]
      /\ \A k \in Provider : HitsAfter(i)[k] <= MaxRetries
      <2>1. hits \in [Provider -> Nat] /\ \A k \in Provider : hits[k] <= MaxRetries
            BY DEF IInv, TypeOK, HammeringBounded
      <2>2. \A k \in Provider : HitsAfter(i)[k] = 0 \/ HitsAfter(i)[k] = hits[k]
            BY <1>1, <2>1 DEF HitsAfter
      <2>3. HitsAfter(i) \in [Provider -> Nat]
            BY <1>1, <2>1 DEF HitsAfter
      <2>. QED BY <2>1, <2>2, <2>3, RouterAssumption
<1>6. BreakersAfter(i)[i].state = "OPEN" => HitsAfter(i)[i] <= routing.attempt - 1
      <2>1. CASE Trips(i)
            BY <1>1, <2>1, RouterAssumption DEF IInv, TypeOK, Routing, HitsAfter
      <2>2. CASE ~Trips(i)
            <3> SUFFICES ASSUME OnFailure(breaker[i]).state = "OPEN"
                         PROVE  HitsAfter(i)[i] <= routing.attempt - 1
                BY <1>1 DEF BreakersAfter, IInv, TypeOK
            <3>1. breaker[i].state = "OPEN"
                  BY <1>2, <2>2 DEF Trips, Refresh, Breaker
            <3>. QED BY <1>1, <2>2, <3>1 DEF IInv, TypeOK, Hammering, HitsAfter
      <2>. QED BY <2>1, <2>2
<1>7. routing \in Routing /\ routing.failed[i] = routing.attempt - 1
      BY DEF IInv, TypeOK, Underway
<1>8. /\ Recorded(i) = [routing EXCEPT !.failed = [@ EXCEPT ![i] = routing.attempt]]
      /\ Recorded(i) \in Routing
      <2>1. routing.failed[i] + 1 = routing.attempt
            BY <1>7 DEF Routing
      <2>2. routing.attempt \in 0..(1 + MaxRetries)
            BY <1>7, RouterAssumption DEF Routing
      <2>. QED BY <1>1, <1>7, <2>1, <2>2 DEF Recorded, Routing
<1>9. Ready(i + 1, HitsAfter(i), Recorded(i))
      <2>1. /\ \A k \in Provider : Recorded(i).failed[k] =
                                     IF k = i THEN routing.attempt ELSE routing.failed[k]
            /\ Recorded(i).skipped = routing.skipped
            BY <1>1, <1>7, <1>8 DEF Routing
      <2>2. \A k \in Provider : k >= i + 1 => Recorded(i).failed[k] = 0
            BY <1>1, <2>1, RouterAssumption DEF IInv, Underway, Provider
      <2>3. Behind(i + 1, Recorded(i))
            <3> SUFFICES ASSUME NEW k \in Eligible, k < i + 1
                         PROVE  Recorded(i).failed[k] > 0 \/ k \in Recorded(i).skipped
                BY DEF Behind
            <3>1. CASE k = i
                  BY <1>1, <1>7, <2>1, <3>1 DEF Routing
            <3>2. CASE k # i
                  <4>1. k \in Provider /\ k < i
                        BY <1>1, <3>2, RouterAssumption DEF Provider
                  <4>. QED BY <2>1, <3>2, <4>1 DEF IInv, CameTo, Behind
            <3>. QED BY <3>1, <3>2
      <2>. QED BY <1>5, <1>8, <2>2, <2>3 DEF Ready
<1>. QED BY <1>1, <1>3, <1>4, <1>5, <1>6, <1>8, <1>9

\* It is tried again in place, or the loop goes on.
LEMMA Penalising ==
    ASSUME IInv, InFlight, NEW class, PenaliseAndGoOn(class),
           dns' \in [Provider -> {"unresolved", "validated", "rejected"}],
           UNCHANGED <<reloaded, world>>
    PROVE  IInv'
<1> DEFINE i == routing.at
           b == BreakersAfter(i)
           h == HealthAfter(i, class)
           n == HitsAfter(i)
           r == Recorded(i)
<1>1. /\ i \in Eligible /\ i \in Provider
      /\ b \in [Provider -> Breaker]
      /\ h \in [Provider -> Health]
      /\ n \in [Provider -> Nat]
      /\ \A k \in Provider : n[k] <= MaxRetries
      /\ b[i].state = "OPEN" => n[i] <= routing.attempt - 1
      /\ r = [routing EXCEPT !.failed = [@ EXCEPT ![i] = routing.attempt]]
      /\ r \in Routing
      /\ Ready(i + 1, n, r)
      BY Penalised
<1>2. /\ failedRun' = [failedRun EXCEPT ![i] = AtMost(@ + 1, Threshold)]
      /\ IF MayTryAgain(class) THEN TryAgain(i, b, h, n, r) ELSE GoOn(i + 1, b, h, n, r)
      BY DEF PenaliseAndGoOn
<1>3. failedRun' \in [Provider -> 0..Threshold]
      BY <1>1, <1>2, RouterAssumption DEF IInv, TypeOK, AtMost
<1>4. InRow(b, failedRun')
      BY <1>1, <1>2, FailureInRow DEF IInv, TypeOK, BreakersAfter
<1>5. /\ reloaded' \in BOOLEAN
      /\ answering' \subseteq Provider
      /\ resolving' \subseteq Provider
      BY DEF IInv, TypeOK, world
<1> HIDE DEF i, b, h, n, r
<1>6. CASE ~MayTryAgain(class)
      <2>1. GoOn(i + 1, b, h, n, r)
            BY <1>2, <1>6
      <2>2. i + 1 \in 1..(N + 1)
            BY <1>1, RouterAssumption DEF Provider
      <2>3. /\ breaker' \in [Provider -> Breaker]
            /\ health' \in [Provider -> Health]
            /\ hits' \in [Provider -> Nat]
            /\ routing' \in Routing
            /\ Underway' /\ Hammering' /\ HammeringBounded'
            /\ InRow(breaker', failedRun')
            /\ CameTo' /\ EveryProviderConsidered'
            BY <1>1, <1>4, <2>1, <2>2, GoesOn
      <2>. QED BY <1>3, <1>5, <2>3 DEF IInv, TypeOK
<1>7. CASE MayTryAgain(class)
      <2>1. /\ routing' = [r EXCEPT !.pc = Await(i), !.attempt = @ + 1, !.begun = @ + 1]
            /\ breaker' = b
            /\ health' = h
            /\ hits' = [n EXCEPT ![i] = IF b[i].state = "OPEN" THEN @ + 1 ELSE @]
            BY <1>2, <1>7 DEF TryAgain
      <2>2. /\ routing.attempt \in 1..MaxRetries
            /\ routing.attempt + 1 \in 1..(1 + MaxRetries)
            BY <1>7, RouterAssumption DEF MayTryAgain, IInv, TypeOK, Routing
      <2>3. Await(i) \in {"lookup", "call"}
            BY DEF Await
      <2>4. /\ r.attempt = routing.attempt /\ r.at = i
            /\ r.failed = [routing.failed EXCEPT ![i] = routing.attempt]
            /\ r.skipped = routing.skipped
            BY <1>1 DEF IInv, TypeOK, Routing, i
      <2>5. routing' = [pc |-> Await(i), at |-> i, attempt |-> routing.attempt + 1,
                        failed |-> r.failed, skipped |-> r.skipped,
                        begun |-> r.begun + 1, outcome |-> r.outcome]
            BY <1>1, <2>1, <2>4 DEF Routing
      <2>6. routing' \in Routing
            <3>1. /\ i \in 0..N /\ r.begun + 1 \in Nat
                  /\ r.failed \in [Provider -> 0..(1 + MaxRetries)]
                  /\ r.skipped \in SUBSET Provider
                  /\ r.outcome \in {"none", "decided", "exhausted", "aborted"}
                  <4>1. r \in Routing /\ i \in Provider
                        BY <1>1
                  <4>2. i \in 0..N
                        BY <4>1, RouterAssumption DEF Provider
                  <4>3. r.begun \in Nat
                        BY <4>1 DEF Routing
                  <4>. QED BY <4>1, <4>2, <4>3 DEF Routing
            <3>. QED BY <2>2, <2>3, <2>5, <3>1 DEF Routing
      <2>7. Underway'
            <3>1. routing'.failed[i] = routing.attempt
                  BY <1>1, <2>4, <2>5 DEF IInv, TypeOK, Routing
            <3>2. \A k \in Provider : k > i => routing'.failed[k] = 0
                  BY <1>1, <2>5, RouterAssumption DEF Ready, Provider
            <3>. QED BY <1>1, <2>2, <2>3, <2>5, <3>1, <3>2 DEF Underway, InFlight
      <2>8. /\ hits' \in [Provider -> Nat]
            /\ Hammering' /\ HammeringBounded'
            <3>1. /\ n \in [Provider -> Nat] /\ n[i] \in Nat
                  /\ \A k \in Provider : n[k] <= MaxRetries
                  BY <1>1
            <3>2. /\ routing'.at = i /\ routing'.attempt = routing.attempt + 1
                  /\ breaker'[routing'.at].state = b[i].state
                  <4>1. routing'.at = i /\ routing'.attempt = routing.attempt + 1
                        BY <2>5
                  <4>2. breaker' = b
                        BY <2>1
                  <4>. QED BY <4>1, <4>2
            <3>3. CASE b[i].state = "OPEN"
                  <4>1. hits' = [n EXCEPT ![i] = n[i] + 1]
                        BY <2>1, <3>3
                  <4>2. n[i] + 1 <= routing.attempt /\ n[i] + 1 <= MaxRetries
                        BY <1>1, <2>2, <3>1, <3>3, RouterAssumption
                  <4>3. hits'[i] = n[i] + 1 /\ \A k \in Provider \ {i} : hits'[k] = n[k]
                        BY <1>1, <3>1, <4>1
                  <4>4. hits' \in [Provider -> Nat] /\ HammeringBounded'
                        BY <1>1, <3>1, <4>1, <4>2, <4>3 DEF HammeringBounded
                  <4>. QED BY <2>2, <3>1, <3>2, <4>2, <4>3, <4>4 DEF Hammering
            <3>4. CASE b[i].state # "OPEN"
                  <4>1. hits' = n
                        BY <2>1, <3>1, <3>4
                  <4>. QED BY <3>1, <3>2, <3>4, <4>1 DEF Hammering, HammeringBounded
            <3>. QED BY <3>3, <3>4
      <2>9. CameTo' /\ EveryProviderConsidered'
            <3>1. Behind(i, routing')
                  <4>1. \A k \in Eligible : k < i => k < i + 1
                        BY <1>1, RouterAssumption DEF Provider
                  <4>. QED BY <1>1, <2>5, <4>1 DEF Behind, Ready
            <3>. QED BY <2>3, <2>5, <3>1 DEF CameTo, Behind, EveryProviderConsidered
      <2>. QED BY <1>1, <1>3, <1>4, <1>5, <2>1, <2>6, <2>7, <2>8, <2>9 DEF IInv, TypeOK
<1>. QED BY <1>6, <1>7
-----------------------------------------------------------------------------
(* The steps.                                                              *)

\* A new router.
LEMMA FreshRouter ==
    /\ [i \in Provider |-> Closed] \in [Provider -> Breaker]
    /\ \A run \in [Provider -> 0..Threshold] : InRow([i \in Provider |-> Closed], run)
<1>1. Closed \in Breaker
      BY RouterAssumption DEF Closed, Breaker, NoFailures, Ages
<1>2. Closed.state = "CLOSED" /\ \A n \in Recent : ~(Closed.failures[n] < Window)
      BY RouterAssumption DEF Closed, NoFailures
<1>. QED BY <1>1, <1>2 DEF InRow

LEMMA NoRoutingType == NoRouting \in Routing /\ NoRouting.pc = "idle"
BY RouterAssumption DEF NoRouting, Routing

LEMMA InitIInv == Init => IInv
<1> SUFFICES ASSUME Init PROVE IInv
    OBVIOUS
<1>1. TypeOK
      <2>1. /\ breaker = [i \in Provider |-> Closed]
            /\ health = [i \in Provider |-> "HEALTHY"]
            /\ dns = [i \in Provider |-> "unresolved"]
            BY DEF Init, Fresh
      <2>2. 0 \in 0..Threshold
            BY RouterAssumption
      <2>. QED BY <2>1, <2>2, FreshRouter, NoRoutingType DEF Init, TypeOK, Health
<1>2. InRow(breaker, failedRun)
      <2>1. breaker = [i \in Provider |-> Closed]
            BY DEF Init, Fresh
      <2>. QED BY <1>1, <2>1, FreshRouter DEF TypeOK
<1>. QED BY <1>1, <1>2, NoRoutingType, RouterAssumption
         DEF IInv, Init, Underway, InFlight, Hammering, HammeringBounded, CameTo,
             EveryProviderConsidered

LEMMA StartStep == IInv /\ Start => IInv'
<1> SUFFICES ASSUME IInv, Start PROVE IInv'
    OBVIOUS
<1>1. Ready(1, hits, NoRouting)
      BY NoRoutingType, RouterAssumption
      DEF Ready, Behind, IInv, HammeringBounded, NoRouting, Provider
<1>2. 1 \in 1..(N + 1) /\ GoOn(1, breaker, health, hits, NoRouting)
      BY RouterAssumption DEF Start
<1>3. /\ breaker' \in [Provider -> Breaker]
      /\ health' \in [Provider -> Health]
      /\ hits' \in [Provider -> Nat]
      /\ routing' \in Routing
      /\ Underway' /\ Hammering' /\ HammeringBounded'
      /\ InRow(breaker', failedRun)
      /\ CameTo' /\ EveryProviderConsidered'
      BY <1>1, <1>2, GoesOn DEF IInv, TypeOK
<1>. QED BY <1>3 DEF IInv, TypeOK, Start, world

LEMMA LookupStep == IInv /\ Lookup => IInv'
<1> SUFFICES ASSUME IInv, Lookup PROVE IInv'
    OBVIOUS
<1> DEFINE i == routing.at
<1>1. InFlight /\ routing.pc = "lookup"
      BY DEF Lookup, InFlight
<1>2. CASE dns[i] = "unresolved" /\ Resolves(i)
      <2>1. /\ dns' = [dns EXCEPT ![i] = "validated"]
            /\ routing' = [routing EXCEPT !.pc = "call"]
            /\ UNCHANGED <<breaker, health, hits, failedRun, reloaded, answering, resolving>>
            BY <1>2 DEF Lookup, history, world
      <2>2. /\ routing' \in Routing /\ routing'.pc = "call"
            /\ routing'.at = routing.at /\ routing'.attempt = routing.attempt
            /\ routing'.failed = routing.failed /\ routing'.skipped = routing.skipped
            BY <2>1 DEF IInv, TypeOK, Routing
      <2>3. TypeOK'
            BY <2>1, <2>2 DEF IInv, TypeOK
      <2>4. Underway' /\ Hammering' /\ CameTo' /\ EveryProviderConsidered'
            BY <1>1, <2>1, <2>2 DEF IInv, Underway, Hammering, CameTo, Behind, InFlight,
                                    EveryProviderConsidered
      <2>. QED BY <2>1, <2>3, <2>4 DEF IInv, HammeringBounded, InRow
<1>3. CASE ~(dns[i] = "unresolved" /\ Resolves(i))
      <2>1. /\ dns' = [dns EXCEPT ![i] = "rejected"]
            /\ PenaliseAndGoOn("RETRYABLE")
            /\ UNCHANGED <<reloaded, world>>
            BY <1>3 DEF Lookup
      <2>2. dns' \in [Provider -> {"unresolved", "validated", "rejected"}]
            BY <2>1 DEF IInv, TypeOK
      <2>. QED BY <1>1, <2>1, <2>2, Penalising
<1>. QED BY <1>2, <1>3

LEMMA FailedStep == IInv /\ Failed => IInv'
<1> SUFFICES ASSUME IInv, Failed PROVE IInv'
    OBVIOUS
<1>1. InFlight /\ UNCHANGED <<reloaded, world>>
      BY DEF Failed, InFlight
<1>2. dns' \in [Provider -> {"unresolved", "validated", "rejected"}]
      BY DEF Failed, IInv, TypeOK
<1>3. PICK class : PenaliseAndGoOn(class)
      BY DEF Failed
<1>. QED BY <1>1, <1>2, <1>3, Penalising

LEMMA DecidedStep == IInv /\ Decided => IInv'
<1> SUFFICES ASSUME IInv, Decided PROVE IInv'
    OBVIOUS
<1> DEFINE i == routing.at
<1>1. InFlight /\ i \in Eligible /\ i \in Provider
      BY RouterAssumption DEF Decided, InFlight, IInv, Underway
<1>2. /\ breaker' = [breaker EXCEPT ![i] = Closed]
      /\ health' = [health EXCEPT ![i] = "HEALTHY"]
      /\ routing' = [routing EXCEPT !.pc = "done", !.outcome = "decided"]
      /\ hits' = [hits EXCEPT ![i] = 0]
      /\ failedRun' = [failedRun EXCEPT ![i] = 0]
      /\ UNCHANGED <<dns, reloaded, answering, resolving>>
      BY DEF Decided, world, OnSuccess
<1>3. /\ routing' \in Routing /\ routing'.pc = "done"
      /\ routing'.at = i /\ routing'.failed = routing.failed
      /\ routing'.skipped = routing.skipped /\ routing'.outcome = "decided"
      BY <1>2 DEF IInv, TypeOK, Routing
<1>4. breaker' \in [Provider -> Breaker]
      BY <1>2, FreshRouter, <1>1 DEF IInv, TypeOK
<1>5. TypeOK'
      BY <1>1, <1>2, <1>3, <1>4, RouterAssumption DEF IInv, TypeOK, Health
<1>6. InRow(breaker', failedRun')
      <2> SUFFICES ASSUME NEW k \in Provider
                   PROVE  IF breaker'[k].state = "CLOSED"
                          THEN \A n \in Recent :
                                 breaker'[k].failures[n] < Window => failedRun'[k] >= n
                          ELSE failedRun'[k] >= Threshold
          BY DEF InRow
      <2>1. CASE k = i
            <3>1. breaker'[k] = Closed
                  BY <1>1, <1>2, <2>1 DEF IInv, TypeOK
            <3>2. Closed.state = "CLOSED" /\ \A n \in Recent : ~(Closed.failures[n] < Window)
                  BY RouterAssumption DEF Closed, NoFailures
            <3>. QED BY <3>1, <3>2
      <2>2. CASE k # i
            <3>1. breaker'[k] = breaker[k] /\ failedRun'[k] = failedRun[k]
                  BY <1>2, <2>2 DEF IInv, TypeOK
            <3>. QED BY <3>1 DEF IInv, InRow
      <2>. QED BY <2>1, <2>2
<1>7. HammeringBounded'
      BY <1>1, <1>2, RouterAssumption DEF IInv, TypeOK, HammeringBounded
<1>8. EveryProviderConsidered'
      <2> SUFFICES ASSUME NEW k \in Eligible
                   PROVE  \/ routing'.failed[k] > 0
                          \/ k \in routing'.skipped
                          \/ k >= i
          BY <1>3 DEF EveryProviderConsidered
      <2>1. k < i \/ k >= i
            BY <1>1, RouterAssumption DEF Provider
      <2>. QED BY <1>1, <1>3, <2>1 DEF IInv, CameTo, Behind
<1>. QED BY <1>3, <1>5, <1>6, <1>7, <1>8
         DEF IInv, Underway, Hammering, CameTo, InFlight

LEMMA AbortedStep == IInv /\ Aborted => IInv'
<1> SUFFICES ASSUME IInv, Aborted PROVE IInv'
    OBVIOUS
<1> DEFINE i == routing.at
<1>1. InFlight /\ i \in Eligible /\ i \in Provider
      BY RouterAssumption DEF Aborted, Late, InFlight, IInv, Underway
<1>2. /\ routing' = [routing EXCEPT !.pc = "done", !.outcome = "aborted"]
      /\ UNCHANGED <<breaker, health, dns, reloaded, answering, resolving, hits, failedRun>>
      BY DEF Aborted, router, world, history
<1>3. /\ routing' \in Routing /\ routing'.pc = "done"
      /\ routing'.at = i /\ routing'.failed = routing.failed
      /\ routing'.skipped = routing.skipped /\ routing'.outcome = "aborted"
      BY <1>2 DEF IInv, TypeOK, Routing
<1>4. EveryProviderConsidered'
      <2> SUFFICES ASSUME NEW k \in Eligible
                   PROVE  \/ routing'.failed[k] > 0
                          \/ k \in routing'.skipped
                          \/ k >= i
          BY <1>3 DEF EveryProviderConsidered
      <2>1. k < i \/ k >= i
            BY <1>1, RouterAssumption DEF Provider
      <2>. QED BY <1>1, <1>3, <2>1 DEF IInv, CameTo, Behind
<1>. QED BY <1>2, <1>3, <1>4
         DEF IInv, TypeOK, Underway, Hammering, HammeringBounded, InRow, CameTo, InFlight

\* A new router is handed over, or a routing ends.
LEMMA Renewed ==
    ASSUME IInv, Fresh(breaker', health', dns'),
           hits' = [i \in Provider |-> 0], failedRun' = [i \in Provider |-> 0],
           routing' = NoRouting, reloaded' \in BOOLEAN, UNCHANGED world
    PROVE  IInv'
<1>1. /\ breaker' = [i \in Provider |-> Closed]
      /\ health' = [i \in Provider |-> "HEALTHY"]
      /\ dns' = [i \in Provider |-> "unresolved"]
      BY DEF Fresh
<1>2. TypeOK'
      <2>1. 0 \in 0..Threshold
            BY RouterAssumption
      <2>. QED BY <1>1, <2>1, FreshRouter, NoRoutingType DEF IInv, TypeOK, Health, world
<1>3. InRow(breaker', failedRun')
      BY <1>1, <1>2, FreshRouter DEF TypeOK
<1>4. HammeringBounded'
      BY RouterAssumption DEF HammeringBounded
<1>. QED BY <1>2, <1>3, <1>4, NoRoutingType
         DEF IInv, Underway, InFlight, Hammering, CameTo, EveryProviderConsidered

LEMMA ReturnStep == IInv /\ Return => IInv'
<1> SUFFICES ASSUME IInv, Return PROVE IInv'
    OBVIOUS
<1>1. CASE reloaded
      BY <1>1, Renewed DEF Return
<1>2. CASE ~reloaded
      <2>1. /\ routing' = NoRouting /\ reloaded' = FALSE
            /\ UNCHANGED <<breaker, health, dns, hits, failedRun, answering, resolving>>
            BY <1>2 DEF Return, router, history, world
      <2>. QED BY <2>1, NoRoutingType
               DEF IInv, TypeOK, Underway, Hammering, HammeringBounded, InRow, CameTo, InFlight,
                   EveryProviderConsidered
<1>. QED BY <1>1, <1>2

LEMMA ReloadStep == IInv /\ Reload => IInv'
<1> SUFFICES ASSUME IInv, Reload PROVE IInv'
    OBVIOUS
<1>1. CASE routing.pc = "idle"
      BY <1>1, Renewed DEF Reload, IInv, Underway, TypeOK
<1>2. CASE routing.pc # "idle"
      <2>1. /\ reloaded' = TRUE
            /\ UNCHANGED <<breaker, health, dns, routing, hits, failedRun, answering, resolving>>
            BY <1>2 DEF Reload, router, history, world
      <2>. QED BY <2>1
               DEF IInv, TypeOK, Underway, Hammering, HammeringBounded, InRow, CameTo, InFlight,
                   Behind, EveryProviderConsidered
<1>. QED BY <1>1, <1>2

LEMMA TickStep == IInv /\ Tick => IInv'
<1> SUFFICES ASSUME IInv, Tick PROVE IInv'
    OBVIOUS
<1>1. /\ breaker' = [i \in Provider |-> Older(breaker[i])]
      /\ UNCHANGED <<health, dns, routing, reloaded, answering, resolving, hits, failedRun>>
      BY DEF Tick, world, history
<1>2. TypeOK'
      BY <1>1, BreakerTypes DEF IInv, TypeOK
<1>3. InRow(breaker', failedRun')
      BY <1>1, OlderInRow DEF IInv, TypeOK
<1>4. Hammering'
      <2>1. \A i \in Provider : breaker'[i].state = breaker[i].state
            BY <1>1 DEF IInv, TypeOK, Older, Breaker
      <2>. QED BY <1>1, <2>1, RouterAssumption DEF IInv, Underway, Hammering, InFlight
<1>. QED BY <1>1, <1>2, <1>3, <1>4
         DEF IInv, Underway, HammeringBounded, CameTo, InFlight, Behind, EveryProviderConsidered

LEMMA OutageStep == IInv /\ Outage => IInv'
<1> SUFFICES ASSUME IInv, Outage PROVE IInv'
    OBVIOUS
<1>1. /\ answering' \subseteq Provider /\ resolving' \subseteq Provider
      /\ UNCHANGED <<breaker, health, dns, routing, reloaded, hits, failedRun>>
      BY DEF Outage, router, history, IInv, TypeOK
<1>. QED BY <1>1
         DEF IInv, TypeOK, Underway, Hammering, HammeringBounded, InRow, CameTo, InFlight,
             Behind, EveryProviderConsidered

LEMMA NextIInv == IInv /\ [Next]_vars => IInv'
<1>1. IInv /\ UNCHANGED vars => IInv'
      BY DEF vars, router, world, history, IInv, TypeOK, Underway, Hammering, HammeringBounded,
             InRow, CameTo, InFlight, Behind, EveryProviderConsidered
<1>. QED BY <1>1, StartStep, LookupStep, DecidedStep, FailedStep, AbortedStep, ReturnStep,
            ReloadStep, TickStep, OutageStep DEF Next, Answer
-----------------------------------------------------------------------------
(* Theorems.                                                               *)

\* The inductive invariant of the routing loop holds in every reachable state.
THEOREM InductiveInvariant == Spec => []IInv
BY InitIInv, NextIInv, PTL DEF Spec

\* The router keeps its shape; in particular no provider is tried more often
\* in one routing than its retries allow (provider-router.ts:251).
THEOREM TypeCorrect == Spec => []TypeOK
<1>1. IInv => TypeOK
      BY DEF IInv
<1>. QED BY <1>1, InductiveInvariant, PTL

\* Only the routing that opened a breaker goes on hitting its provider before
\* the cooldown is over, and no more often than it has retries left.
THEOREM HammeringIsBounded == Spec => []HammeringBounded
<1>1. IInv => HammeringBounded
      BY DEF IInv
<1>. QED BY <1>1, InductiveInvariant, PTL

\* A provider whose breaker is not closed has failed Threshold times in a row:
\* what was aborted, and what other providers did, never counts against it.
THEOREM OnlyOwnFailuresTrip == Spec => []TrippedByOwnFailures
<1>1. IInv => TrippedByOwnFailures
      BY DEF IInv, InRow, TrippedByOwnFailures
<1>. QED BY <1>1, InductiveInvariant, PTL

\* When a routing is over, each eligible provider it passed was tried, or is
\* skipped on record; and a routing that gives up passed them all.
THEOREM NobodyLeftOut == Spec => []EveryProviderConsidered
<1>1. IInv => EveryProviderConsidered
      BY DEF IInv
<1>. QED BY <1>1, InductiveInvariant, PTL
===============================================================================
