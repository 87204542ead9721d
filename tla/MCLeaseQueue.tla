---------------------------- MODULE MCLeaseQueue ----------------------------
EXTENDS LeaseQueue, TLC

\* Workers and tokens are interchangeable; jobs are not, one has no handler.
\* HolderOf is a CHOOSE among workers, but never among two of them.
Symmetry == Permutations(Workers) \cup Permutations(Tokens)
=============================================================================
