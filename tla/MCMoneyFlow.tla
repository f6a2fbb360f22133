---------------------------- MODULE MCMoneyFlow -----------------------------
EXTENDS MoneyFlow

CONSTANTS o1, u1, u2

\* u1 travels for u2: 30 for the goods, 1 for each of two items, 5 % of 30 rounded up.
MCTraveler == [o \in Orders |-> u1]
MCRequester == [o \in Orders |-> u2]
MCTerms == [o \in Orders |-> [price |-> 30, quantity |-> 2, onTrip |-> TRUE, feePerItem |-> 1]]

MCJobs == OrderJobs
MCOwner == [j \in Jobs |-> Beneficiary(j.order, j.kind)]
MCAmount == [j \in Jobs |-> JobAmount(j.order, j.kind)]

=============================================================================
