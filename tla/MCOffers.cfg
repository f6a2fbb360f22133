\* Two requests race for a trip and for two offers.
SPECIFICATION Spec
CONSTANTS
  Trips = {t1}
  ItemRequests = {}
  Offers = {o1, o2}
  Requests = {r1, r2}
  Jobs = {}
  Prices = {1}
  None = None
  MaxStale = 1
  MaxFailures = 0
SYMMETRY Symmetry
INVARIANTS
  TypeOK
  OneOrderPerOffer
  Numbering
  FirstAcceptanceOrders
PROPERTIES
  RemovedForGood
CHECK_DEADLOCK FALSE
