------------------------------ MODULE MCLedger ------------------------------
EXTENDS Ledger, TLC

KeySymmetry == Permutations(Keys)
=============================================================================
