------------------------------- MODULE MCAlone -------------------------------
(* Subscriptions with one request at a time, and HealthCheck, on small        *)
(* instances.  They share nothing, so a behaviour is one of either.           *)
EXTENDS MCSubscriptions, HealthCheck

VARIABLE side

BothInit ==
  /\ Init
  /\ \/ side = "subscriptions" /\ HealthInit /\ conf = Empty
     \/ side = "health" /\ HealthInit

BothNext ==
  \/ side = "subscriptions" /\ Next /\ UNCHANGED healthVars
  \/ side = "health" /\ HealthNext /\ UNCHANGED vars

BothSpec == BothInit /\ [][BothNext /\ UNCHANGED side]_<<vars, healthVars, side>>
==============================================================================
