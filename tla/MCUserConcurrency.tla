-------------------------- MODULE MCUserConcurrency --------------------------
\* The gate on a user's concurrent requests, for TLC.
EXTENDS UserConcurrency

=============================================================================
