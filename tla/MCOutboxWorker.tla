--------------------------- MODULE MCOutboxWorker ---------------------------
EXTENDS OutboxWorker, TLC

CONSTANTS w1, w2

\* Events 1 and 3 belong to the older account.
ThreeEvents == 1 :> 1 @@ 2 :> 2 @@ 3 :> 1
=============================================================================
