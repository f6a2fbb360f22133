\* One order, the wallets of its two parties, one request beside the worker.
SPECIFICATION FairMoneySpec
CONSTANTS
  o1 = o1
  u1 = u1
  u2 = u2
  Orders = {o1}
  Users = {u1, u2}
  Traveler <- MCTraveler
  Requester <- MCRequester
  Terms <- MCTerms
  FeePercent = 5
  MaxCopies = 1
  Jobs <- MCJobs
  Owner <- MCOwner
  Amount <- MCAmount
  Clients = {c1}
  Worker = w
  None = None
  Withdrawals = {32}
  MaxAttempts = 2
  MaxStalls = 1
  MaxFailures = 2
INVARIANTS
  TypeOK
  BalanceBounded
  Reconciled
  AtLeastOnce
  DepositHandedOn
PROPERTIES
  MoneyArrives
CHECK_DEADLOCK FALSE
