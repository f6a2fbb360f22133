\* A disagreement between the scheduled jobs and their documentation.
SPECIFICATION Spec
CONSTANTS
  Orders = {o1}
  Requests = {r1}
  Jobs = {"expire", "complete"}
  NoOrder = NoOrder
  MaxJobs = 1
  MaxStale = 1
  MaxFailures = 1
PROPERTIES
  ExpiresOnlyUnpaid
CHECK_DEADLOCK FALSE
