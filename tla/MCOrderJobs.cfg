\* The jobs that confirm and complete deliveries race with a request, or the one
\* that expires orders does.
SPECIFICATION FairScheduleSpec
CONSTANTS
  Orders = {o1}
  Requests = {r1}
  Jobs = {"confirm", "complete", "expire"}
  Schedules = {{"confirm", "complete"}, {"expire"}}
  NoOrder = NoOrder
  MaxJobs = 1
  MaxStale = 1
  MaxFailures = 1
INVARIANTS
  SettledOnce
  EveryChangeAnnounced
PROPERTIES
  DeadlinesAreKept
  ImplementsEscrow
  SettlesEscrow
CHECK_DEADLOCK FALSE
