-------------------------- MODULE MCOutboxDispatch --------------------------
(* Instances of OutboxDispatch for TLC.                                    *)
EXTENDS OutboxClaims, TLC

CONSTANTS i1, i2, s1, s2, w1, w2, p1, p2, r1

\* One session for all items, so that they compete for one lock.
OneSession == [i \in Item |-> s1]

\* Two overlapping passes of one worker; the reconciler runs on it too.
OneWorker == [x \in Pass \cup Reconciler |-> w1]

\* A pass on each worker; the reconciler runs on the first.
TwoWorkers == [x \in Pass \cup Reconciler |-> IF x = p2 THEN w2 ELSE w1]

PassSymmetry == Permutations(Pass)
=============================================================================
