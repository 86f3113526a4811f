--------------------------- MODULE MCDeviceChanges ---------------------------
EXTENDS DeviceChanges, TLC

\* Followers are interchangeable.
Symmetry == Permutations(Followers)
=============================================================================
