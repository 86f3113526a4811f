----------------------------- MODULE MCService -----------------------------
\* The message service, for TLC.  The callers are interchangeable.
EXTENDS Service, TLC

Symmetry == Permutations(Callers)
=============================================================================
