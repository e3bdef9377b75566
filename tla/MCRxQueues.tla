----------------------------- MODULE MCRxQueues -----------------------------
EXTENDS RxQueues
TwoFlows == (1 :> 1) @@ (2 :> 2)
=============================================================================
