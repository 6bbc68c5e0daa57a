-------------------------- MODULE MCSubscriptionClient --------------------------
(* Model checking SubscriptionClient: three symbols in batches of two.        *)
EXTENDS SubscriptionClient
===============================================================================
