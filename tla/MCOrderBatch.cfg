\* A job works through a batch of two orders, and a run of it may die in between.
SPECIFICATION Spec
CONSTANTS
  Orders = {o1, o2}
  Requests = {r1}
  Jobs = {"complete"}
  NoOrder = NoOrder
  MaxJobs = 1
  MaxStale = 1
  MaxFailures = 1
SYMMETRY Symmetry
INVARIANTS
  NothingForgotten
CHECK_DEADLOCK FALSE
