------------------------- MODULE MCSubscribeManager -------------------------
\* The subscription manager, for TLC.  Packages, names and handlers are
\* interchangeable.
EXTENDS SubscribeManager, TLC

Symmetry == Permutations(Packages) \cup Permutations(StructNames) \cup Permutations(Handlers)
=============================================================================
