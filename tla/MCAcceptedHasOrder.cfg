\* A disagreement between the acceptance of offers and its documentation.
SPECIFICATION Spec
CONSTANTS
  Trips = {t1}
  ItemRequests = {}
  Offers = {o1, o2}
  Requests = {r1, r2}
  Jobs = {}
  Prices = {1}
  None = None
  MaxStale = 1
  MaxFailures = 0

INVARIANTS
  AcceptedHasOrder
CHECK_DEADLOCK FALSE
