-------------------------- MODULE MCProviderRouter --------------------------
(***************************************************************************)
(* Instances of ProviderRouter.  Three failures within two ticks open a    *)
(* breaker, whose cooldown is one: the code has 5, 60 s and 30 s.  Three   *)
(* is above the two attempts of one routing, as 5 is above its default 4.  *)
(***************************************************************************)
EXTENDS ProviderRouter
=============================================================================
