-------------------------- MODULE MCSessionPolling --------------------------
(* Instances of SessionPolling for TLC.                                    *)
EXTENDS SessionPolling

CONSTANTS s1, s2, bad, news, late, ask, anon, w1, w2

Owner == [a \in Activity |-> IF a \in {ask, anon} THEN s2 ELSE s1]

\* A question that only its name identifies; a patch, which is no question
\* although the message with it may be one; questions; one without an identity.
Variety ==
    [a \in Activity |->
        [id |-> a \notin {bad, anon}, name |-> a = bad,
         event |-> "agentMessaged", patch |-> a = news]]

\* The session with the activity that cannot be stored is listed first, and the
\* activity is on its last page; one that arrives there is beyond the ceiling, or
\* moves another beyond it.
BothWait ==
    [listing |-> <<s1, s2>>,
     state |-> [s \in Session |-> "AWAITING_USER_INPUT"],
     feed |-> [s \in Session |-> IF s = s1 THEN <<news, bad>> ELSE <<anon>>]]
=============================================================================
