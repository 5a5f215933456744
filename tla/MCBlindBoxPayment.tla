-------------------------- MODULE MCBlindBoxPayment --------------------------
\* The blind-box page, its orders and the gateway, for TLC.
EXTENDS BlindBoxPayment, TLC

OrderSymmetry == Permutations(Orders)

\* What the page shows feeds nothing else, so states that differ only in the
\* boxes it has read are explored once.
PageView == <<orderVars, payment, paying, awaited, retry, polls, statusGet,
              selfGet.at, loading, loadError, told, charged>>
=============================================================================
