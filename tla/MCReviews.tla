----------------------------- MODULE MCReviews -----------------------------
EXTENDS Reviews, TLC

Symmetry == Permutations(Requests)

CONSTANTS o1, o2, u1, u2

\* Both orders are between the same two users.
MCTraveler == [o \in Orders |-> u1]
MCRequester == [o \in Orders |-> u2]

=============================================================================
