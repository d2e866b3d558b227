------------------------- MODULE MCMemoryLifecycle -------------------------
(***************************************************************************)
(* Instances of MemoryLifecycle.  A success, which expires; the same words *)
(* in another repository; a failure, which does not expire; and an         *)
(* execution too long-winded to be remembered.                             *)
(***************************************************************************)
EXTENDS MemoryLifecycle

CONSTANTS Won, Lost, Elsewhere, Lengthy, Overlong, Here, There, Outcome, Failure, Activity

MCRepositoryOf == [l \in Lesson |-> IF l = Elsewhere THEN There ELSE Here]
MCTypeOf == [l \in Lesson |-> IF l = Lost THEN Failure ELSE Outcome]
MCNear == {<<l, k>> \in Lesson \X Lesson : l = k \/ {l, k} \subseteq {Won, Elsewhere}}
MCReports == {<<Won>>, <<Elsewhere>>, <<Lost, Won>>, <<Lengthy, Overlong>>}
MCRepositoryFor == [e \in Execution |-> Here]
MCScore == [l \in Lesson |-> IF l = Lost THEN 2 ELSE 3]
MCTypeCap == [t \in MemoryType |-> IF t = Failure THEN 1 ELSE 2]
=============================================================================
