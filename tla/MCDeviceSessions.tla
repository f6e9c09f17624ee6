-------------------------- MODULE MCDeviceSessions --------------------------
EXTENDS DeviceSessions, TLC

Symmetry == Permutations(Requests) \cup Permutations(Identities)
=============================================================================
