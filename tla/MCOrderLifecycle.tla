-------------------------- MODULE MCOrderLifecycle --------------------------
EXTENDS OrderEscrow, TLC

\* Orders and requests are interchangeable; only the safety runs make use of it.
Symmetry == Permutations(Requests) \cup Permutations(Orders)

=============================================================================
