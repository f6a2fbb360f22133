---------------------------- MODULE MCOrderJobs -----------------------------
(***************************************************************************)
(* All three jobs at once are too much for TLC.  A behaviour is given some *)
(* of them, and the promise of DeadlinesAreKept is that of those it has.   *)
(***************************************************************************)
EXTENDS MCOrderLifecycle

CONSTANT Schedules   \* bound: the sets of jobs that run in the same behaviour

ASSUME SchedulesAssumption == Schedules \subseteq SUBSET Jobs

VARIABLE scheduled   \* the jobs that run in this behaviour

scheduleVars == <<vars, scheduled>>

ScheduleInit == Init /\ scheduled \in Schedules

ScheduleNext ==
  /\ Next
  /\ \A job \in Jobs \ scheduled : handler'[job] = handler[job]
  /\ UNCHANGED scheduled

ScheduleSpec == ScheduleInit /\ [][ScheduleNext]_scheduleVars

ScheduleFairness ==
  /\ \A h \in Handlers : WF_vars(HandlerStep(h))
  /\ WF_vars("confirm" \in scheduled /\ AutoConfirmDelivery)
  /\ WF_vars("complete" \in scheduled /\ AutoCompleteOrders)
  /\ WF_vars("expire" \in scheduled /\ ExpirePendingOrders)

FairScheduleSpec == ScheduleSpec /\ ScheduleFairness

\* The scheduler keeps its promises: an order that waits for a payment, for the
\* confirmation of its delivery or for its completion does not wait for ever,
\* even when runs of the job die half way, unless a stale save hits the order.
DeadlinesAreKept ==
  \A o \in Orders, job \in Jobs :
    (job \in scheduled /\ WaitsFor(job, o)) ~> ~WaitsFor(job, o)

=============================================================================
