----------------------------- MODULE MCLedgerTx -----------------------------
EXTENDS LedgerTx, TLC

Symmetry == Permutations(Keys) \cup Permutations(Procs)
=============================================================================
