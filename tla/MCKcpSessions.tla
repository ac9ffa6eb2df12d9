--------------------------- MODULE MCKcpSessions ----------------------------
EXTENDS KcpSessions, TLC

KcpSymmetry == Permutations(Clients)
=============================================================================
