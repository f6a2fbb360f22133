--------------------------- MODULE MCMarketplace ---------------------------
EXTENDS MarketInvariants, TLC

Symmetry == Permutations(Requests) \cup Permutations(Offers)

=============================================================================
