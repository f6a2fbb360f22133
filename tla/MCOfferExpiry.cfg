\* Offers and item requests expire while a request works on them.
SPECIFICATION FairSpec
CONSTANTS
  Trips = {}
  ItemRequests = {q1}
  Offers = {o1}
  Requests = {r1}
  Jobs = {"expireOffers", "expireRequests"}
  Prices = {1, 2}
  None = None
  MaxStale = 1
  MaxFailures = 1
INVARIANTS
  TermsAgreed
  DecisionsAnnounced
PROPERTIES
  OffersAreDecided
CHECK_DEADLOCK FALSE
