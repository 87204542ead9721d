----------------------------- MODULE MCBilling -----------------------------
EXTENDS Billing, TLC

\* Requests are interchangeable, and so are dunning runs.
Symmetry == Permutations(Clients) \cup Permutations(Dunners)
=============================================================================
