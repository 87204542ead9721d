--------------------------- MODULE MCEventOutbox ---------------------------
EXTENDS EventOutbox, TLC

\* The order of handlers, producers and dispatchers does not matter.
Symmetry ==
  Permutations(Handlers) \cup Permutations(Producers) \cup Permutations(Dispatchers)
=============================================================================
