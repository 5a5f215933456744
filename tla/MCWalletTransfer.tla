-------------------------- MODULE MCWalletTransfer --------------------------
EXTENDS WalletTransfer

CONSTANTS n1, n2
=============================================================================
