---------------------------- MODULE MCSocketCan ----------------------------
\* The SocketCAN endpoint, for TLC.  Frames of one priority are interchangeable.
EXTENDS SocketCan, TLC

Symmetry == Permutations(HighFrames) \cup Permutations(LowFrames)
=============================================================================
