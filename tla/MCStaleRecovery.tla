-------------------------- MODULE MCStaleRecovery --------------------------
EXTENDS StaleRecovery, TLC

CONSTANTS s1, s2, r1, r2, i1, i2

\* Two requests of one user on two servers, one of which may crash.
OwnRequests == s1 :> r1 @@ s2 :> r2
TwoServers == s1 :> i1 @@ s2 :> i2

\* Two runs of one background job.
SameRequest == s1 :> r1 @@ s2 :> r1
=============================================================================
