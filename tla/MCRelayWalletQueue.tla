------------------------- MODULE MCRelayWalletQueue -------------------------
EXTENDS RelayWalletQueue

CONSTANTS u1, u2, pre1, more1, settle1, pre2

\* Three operations of one user, one of them a detached settlement, and one
\* operation of another user.
MCOperations == {pre1, more1, settle1, pre2}
MCUserOf == [r \in MCOperations |-> IF r = pre2 THEN u2 ELSE u1]
MCDetached == {settle1}
=============================================================================
