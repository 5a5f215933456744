-------------------------- MODULE MCBillingSession --------------------------
EXTENDS BillingSession, TLC

CONSTANTS s1, s2, r1, r2, i1

\* Two requests of one user, on one server.
OwnRequests == s1 :> r1 @@ s2 :> r2
OneServer == s1 :> i1 @@ s2 :> i1
=============================================================================
