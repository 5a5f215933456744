--------------------------- MODULE MCPlaygroundChat --------------------------
EXTENDS PlaygroundChat

CONSTANTS a, b

SessionSymmetry == Permutations({a, b})
=============================================================================
