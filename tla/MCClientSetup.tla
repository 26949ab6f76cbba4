--------------------------- MODULE MCClientSetup ---------------------------
EXTENDS ClientSetup, TLC

\* The push clients and the monitors are alike, and no property is temporal.
Symmetry == Permutations(Clients) \cup Permutations(Monitors)
=============================================================================
