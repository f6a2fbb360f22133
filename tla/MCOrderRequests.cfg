\* Two requests and the expiry of unpaid orders race for one order.
SPECIFICATION Spec
CONSTANTS
  Orders = {o1}
  Requests = {r1, r2}
  Jobs = {"expire"}
  NoOrder = NoOrder
  MaxJobs = 1
  MaxStale = 1
  MaxFailures = 0
SYMMETRY Symmetry
INVARIANTS
  TypeOK
  Custody
  TimelineAgrees
  DisputeFreezes
PROPERTIES
  ForwardOnly
CHECK_DEADLOCK FALSE
