--------------------------- MODULE Notifications ----------------------------
(***************************************************************************)
(* The notifications of a user: QueueService.createNotification puts a job *)
(* on the notification queue, NotificationProcessor.process inserts a row  *)
(* for it, and NotificationService marks rows as read.                     *)
(*                                                                         *)
(* The queue is BullMQ's: it repeats a job whose processing threw up to    *)
(* MaxAttempts times, and hands a job whose worker vanished (it stalled)   *)
(* to another one MaxStalls times.  The processor has one worker.          *)
(*                                                                         *)
(* markRead finds the row, sets is_read and saves it; since nothing else   *)
(* ever changes a row, only the UPDATE is a step.                          *)
(***************************************************************************)
EXTENDS Integers, FiniteSets, People

CONSTANTS
  Notices,         \* the notification jobs that services may create
  Addressee,       \* the user each of them is for
  MaxAttempts,     \* the attempts option of the jobs
  MaxStalls        \* the queue's maxStalledCount

ASSUME NoticesAssumption == Addressee \in [Notices -> Users] /\ None \notin Notices
ASSUME AttemptsAssumption == MaxAttempts \in Nat \ {0} /\ MaxStalls \in Nat

VARIABLES
  notice,          \* where a job stands in the queue
  throws,          \* how many of its attempts threw
  stalls,          \* how often its worker vanished
  worker,          \* what the worker is doing
  rows,            \* the rows of the notifications table, per job
  unread           \* those of them that are not read

notificationVars == <<notice, throws, stalls, worker, rows, unread>>

NoticeState == {"unqueued", "waiting", "active", "done", "failed"}

\* creating   the row is to be inserted    created   it is, the queue does not know
WorkerState == [phase: {"idle", "creating", "created"}, notice: Notices \cup {None}]

Free == [phase |-> "idle", notice |-> None]

NotificationsTypeOK ==
  /\ notice \in [Notices -> NoticeState]
  /\ throws \in [Notices -> Nat]
  /\ stalls \in [Notices -> Nat]
  /\ worker \in WorkerState
  /\ worker # Free => /\ worker.phase # "idle" /\ worker.notice \in Notices
                      /\ notice[worker.notice] = "active"
  /\ rows \in [Notices -> Nat]
  /\ unread \in [Notices -> Nat]
  /\ \A n \in Notices : unread[n] <= rows[n]

NotificationsInit ==
  /\ notice = [n \in Notices |-> "unqueued"]
  /\ throws = [n \in Notices |-> 0]
  /\ stalls = [n \in Notices |-> 0]
  /\ worker = Free
  /\ rows = [n \in Notices |-> 0]
  /\ unread = [n \in Notices |-> 0]

-----------------------------------------------------------------------------
\* createNotification, with the options of the job.
CreateNotification(n) ==
  /\ notice[n] = "unqueued"
  /\ notice' = [notice EXCEPT ![n] = "waiting"]
  /\ UNCHANGED <<throws, stalls, worker, rows, unread>>

\* The worker starts an attempt.
Start(n) ==
  /\ worker = Free /\ notice[n] = "waiting"
  /\ notice' = [notice EXCEPT ![n] = "active"]
  /\ worker' = [phase |-> "creating", notice |-> n]
  /\ UNCHANGED <<throws, stalls, rows, unread>>

\* Defective variant: the job is saved without waiting for the insert.
ProcessUnawaited ==
  /\ worker.phase = "creating"
  /\ rows' \in {rows, [rows EXCEPT ![worker.notice] = @ + 1]}
  /\ unread' = IF rows' = rows THEN unread ELSE [unread EXCEPT ![worker.notice] = @ + 1]
  /\ worker' = [worker EXCEPT !.phase = "created"]
  /\ UNCHANGED <<notice, throws, stalls>>

\* The insert of process.
Process ==
  /\ worker.phase = "creating"
  /\ rows' = [rows EXCEPT ![worker.notice] = @ + 1]
  /\ unread' = [unread EXCEPT ![worker.notice] = @ + 1]
  /\ worker' = [worker EXCEPT !.phase = "created"]
  /\ UNCHANGED <<notice, throws, stalls>>

\* process returns and the queue removes the job.
Complete ==
  /\ worker.phase = "created"
  /\ notice' = [notice EXCEPT ![worker.notice] = "done"]
  /\ worker' = Free
  /\ UNCHANGED <<throws, stalls, rows, unread>>

\* Defective variants: the worker keeps a job that it gives back; a job
\* that threw is not tried again.
ThrowAndKeep ==
  /\ worker # Free
  /\ throws' = [throws EXCEPT ![worker.notice] = @ + 1]
  /\ notice' = [notice EXCEPT ![worker.notice] = "waiting"]
  /\ UNCHANGED <<worker, stalls, rows, unread>>
ThrowAndGiveUp ==
  /\ worker # Free
  /\ throws' = [throws EXCEPT ![worker.notice] = @ + 1]
  /\ notice' = [notice EXCEPT ![worker.notice] = "failed"]
  /\ worker' = Free
  /\ UNCHANGED <<stalls, rows, unread>>

\* The insert throws, or its answer is lost; the last attempt fails the job.
Throw ==
  /\ worker # Free
  /\ throws' = [throws EXCEPT ![worker.notice] = @ + 1]
  /\ notice' = [notice EXCEPT ![worker.notice] =
                  IF throws'[worker.notice] < MaxAttempts THEN "waiting" ELSE "failed"]
  /\ worker' = Free
  /\ UNCHANGED <<stalls, rows, unread>>

\* The process stops.  The queue, which lives in Redis, finds the job stalled.
WorkerStops ==
  /\ worker' = Free
  /\ IF worker = Free THEN UNCHANGED <<notice, stalls>>
     ELSE /\ stalls' = [stalls EXCEPT ![worker.notice] = @ + 1]
          /\ notice' = [notice EXCEPT ![worker.notice] =
                          IF stalls[worker.notice] < MaxStalls THEN "waiting" ELSE "failed"]
  /\ UNCHANGED <<throws, rows, unread>>

\* markRead, for one row of a user.
MarkOne(u) ==
  \E n \in Notices :
    /\ Addressee[n] = u /\ unread[n] > 0
    /\ unread' = [unread EXCEPT ![n] = @ - 1]
    /\ UNCHANGED <<notice, throws, stalls, worker, rows>>

\* markAllRead, for the rows that exist by now.
MarkAllRead(u) ==
  /\ unread' = [n \in Notices |-> IF Addressee[n] = u THEN 0 ELSE unread[n]]
  /\ UNCHANGED <<notice, throws, stalls, worker, rows>>

WorkerStep == Process \/ Complete

-----------------------------------------------------------------------------
(***************************************************************************)
(* Properties.                                                             *)
(***************************************************************************)

\* A notification is repeated only if something went wrong: a job that is done
\* has a row, there is at most one more row than attempts that threw or
\* stalled, and a job is given up only after its last attempt or stall.
RowsPerAttempt ==
  \A n \in Notices :
    /\ notice[n] = "done" => rows[n] >= 1
    /\ rows[n] <= throws[n] + stalls[n] + (IF notice[n] \in {"active", "done"} THEN 1 ELSE 0)
    /\ notice[n] = "failed" => throws[n] = MaxAttempts \/ stalls[n] > MaxStalls

\* A notification that was queued is inserted, unless the queue gave it up.
NoticesArrive ==
  \A n \in Notices :
    notice[n] = "waiting" ~> rows[n] > 0 \/ throws[n] = MaxAttempts \/ stalls[n] > MaxStalls

=============================================================================
