-------------------------------- MODULE MCChan --------------------------------
EXTENDS Chan, TLC

\* Callers are interchangeable.
Symmetry == Permutations(Callers)
=============================================================================
