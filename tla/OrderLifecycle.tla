--------------------------- MODULE OrderLifecycle ---------------------------
(***************************************************************************)
(* The life of an order: OrderService.updateStatus and initiatePayment,    *)
(* DisputeService.create, and the three hourly jobs of                     *)
(* ScheduledTasksService that move orders on.  Every await is a step, so   *)
(* handlers interleave between loading an order and saving it, between the *)
(* two statements of the save, and between the save and the messages and   *)
(* wallet jobs that follow it.                                             *)
(*                                                                         *)
(* A handler is a batch: an HTTP request is a batch of one order, a job    *)
(* loads all the orders that are due and then works through them with the  *)
(* entities it loaded at the start.                                        *)
(***************************************************************************)
EXTENDS Naturals, Persistence

CONSTANTS
  Orders,        \* the orders, each created by an accepted offer
  Requests,      \* the slots in which HTTP requests are served
  Jobs,          \* the scheduled jobs for which enough time passes to find work
  NoOrder,       \* a handler that works on no order at the moment
  MaxJobs,       \* bound: no handler starts on an order with that many wallet jobs
  MaxStale,      \* bound: nor on one that suffered that many stale saves
  MaxFailures    \* bound: how often a handler may die half way

ScheduledJobs == {"confirm", "complete", "expire"}

ASSUME OrdersAssumption == NoOrder \notin Orders
ASSUME JobsAssumption == Jobs \subseteq ScheduledJobs /\ Requests \cap ScheduledJobs = {}
ASSUME BoundsAssumption == MaxJobs \in Nat /\ MaxStale \in Nat /\ MaxFailures \in Nat

VARIABLES
  row,           \* the orders table
  handler,       \* what each request slot and each scheduled job is doing
  credits,       \* 'credit' jobs put on the wallet queue, per order
  refunds,       \* 'refund' jobs put on the wallet queue, per order
  told,          \* notifications put on the notification queue, per order
  disputes,      \* OPEN rows of the disputes table, per order
  failures,      \* how many handlers died so far
  history,       \* ghost: who wrote which status, per order
  stale,         \* ghost: per order, saves that landed after the row had changed
  cut            \* ghost: orders whose handler died after its save

vars == <<row, handler, credits, refunds, told, disputes, failures,
          history, stale, cut>>

-----------------------------------------------------------------------------
\* The statuses that something in the code writes.  Nothing writes 'refunded'.
Status == {"pending", "paid", "purchased", "shipped", "delivered",
           "completed", "cancelled", "disputed"}

\* The nullable columns; 'purchased' stands for purchased_at and the proof
\* images, 'shipped' for shipped_at, auto_confirm_at and the courier's data.
Stamp == {"method", "paid", "purchased", "shipped", "delivered",
          "completed", "cancelled"}

Party == {"traveler", "requester"}
Handlers == Requests \cup Jobs

OrderRow == Row(Status, Stamp)
NewOrder == [status |-> "pending", stamps |-> {}]

Other(party) == IF party = "traveler" THEN "requester" ELSE "traveler"

\* validateStatusTransition: <<from, to, who>>; "system" is a label that no
\* check enforces.
Transitions ==
  {<<"pending", "paid", "system">>,        <<"pending", "cancelled", "any">>,
   <<"paid", "purchased", "traveler">>,    <<"paid", "cancelled", "any">>,
   <<"purchased", "shipped", "traveler">>, <<"purchased", "disputed", "any">>,
   <<"shipped", "delivered", "requester">>, <<"shipped", "disputed", "any">>,
   <<"delivered", "completed", "any">>}

\* Defective variants, for the mutants: the role is not checked, a disputed order
\* may be completed, a purchased order may be cancelled.
MayMoveAnyone(party, from, to) == \E t \in Transitions : t[1] = from /\ t[2] = to
MayMoveDisputed(party, from, to) ==
  \/ from = "disputed" /\ to = "completed"
  \/ \E t \in Transitions : t[1] = from /\ t[2] = to /\ (t[3] \in Party => t[3] = party)
MayMoveBack(party, from, to) ==
  \/ from = "purchased" /\ to = "cancelled"
  \/ \E t \in Transitions : t[1] = from /\ t[2] = to /\ (t[3] \in Party => t[3] = party)

MayMove(party, from, to) ==
  \E t \in Transitions :
    /\ t[1] = from /\ t[2] = to
    /\ t[3] \in Party => t[3] = party

\* Defective variants: a column for every status, no delivered_at.
StampsOfAny(to) == {to}
StampsOfSome(to) == {to} \cap (Stamp \ {"delivered"})

\* The columns that updateStatus sets besides the status.
StampsOf(to) == {to} \cap Stamp

\* The entity after the handler's assignments, from the row it loaded.
Entity(op, to, loaded) ==
  IF op = "pay" THEN [loaded EXCEPT !.stamps = @ \cup {"method"}]
  ELSE [status |-> to,
        stamps |-> loaded.stamps \cup (IF op = "dispute" THEN {} ELSE StampsOf(to))]

\* Defective variants: paid_at is not looked at, only the scheduler's completion pays.
WalletJobUnchecked(op, to, loaded) ==
  CASE op \in {"update", "complete"} /\ to = "completed" -> "credit"
    [] op = "update" /\ to = "cancelled" -> "refund"
    [] OTHER -> "none"
WalletJobScheduled(op, to, loaded) ==
  CASE op = "complete" -> "credit"
    [] op = "update" /\ to = "cancelled" /\ "paid" \in loaded.stamps -> "refund"
    [] OTHER -> "none"

\* The wallet job that follows the save.  Expiry puts none on the queue.
WalletJob(op, to, loaded) ==
  CASE op \in {"update", "complete"} /\ to = "completed" -> "credit"
    [] op = "update" /\ to = "cancelled" /\ "paid" \in loaded.stamps -> "refund"
    [] OTHER -> "none"

-----------------------------------------------------------------------------
(***************************************************************************)
(* The local state of a handler.                                           *)
(*   begun     the order is loaded, the dispute query still to come        *)
(*   ready     the entity of the next order of the batch is to be saved    *)
(*   selected  save has compared the entity with the stored row            *)
(*   announce, enqueue, insert   the row is written, what follows is not   *)
(***************************************************************************)
Op == {"update", "pay", "dispute"} \cup ScheduledJobs
Phase == {"idle", "begun", "ready", "selected", "announce", "enqueue", "insert"}
AfterSave == {"announce", "enqueue", "insert"}
Saving == AfterSave \cup {"selected"}

HandlerState ==
  [phase: Phase, op: Op, to: Status, by: Party \cup {"system"},
   todo: SUBSET Orders, order: Orders \cup {NoOrder},
   loaded: [Orders -> OrderRow], dirty: SUBSET (Stamp \cup {"status"}),
   due: SUBSET Party]

Idle == [phase |-> "idle", op |-> "update", to |-> "pending", by |-> "system",
         todo |-> {}, order |-> NoOrder,
         loaded |-> [o \in Orders |-> NewOrder], dirty |-> {}, due |-> {}]

\* A handler that has just loaded the orders of its batch.
Start(phase, op, to, by, batch) ==
  [Idle EXCEPT !.phase = phase, !.op = op, !.to = to, !.by = by, !.todo = batch,
               !.loaded = [o \in Orders |-> IF o \in batch THEN row[o] ELSE NewOrder]]

\* On to the next order of the batch, or back to waiting for work.
Continue(h) ==
  IF handler[h].todo = {} THEN Idle
  ELSE [handler[h] EXCEPT !.phase = "ready", !.order = NoOrder, !.dirty = {}, !.due = {}]

\* Defective variant: the party that made the change is told of it.
RecipientsSwapped(op, by) ==
  CASE op = "update" -> {by}
    [] op \in ScheduledJobs -> Party
    [] OTHER -> {}

\* Whom the handler notifies of the change.
Recipients(op, by) ==
  CASE op = "update" -> {Other(by)}
    [] op \in ScheduledJobs -> Party
    [] OTHER -> {}

Label(h) == IF handler[h].op = "expire" THEN "expired" ELSE handler[h].to

-----------------------------------------------------------------------------
TypeOK ==
  /\ row \in [Orders -> OrderRow]
  /\ handler \in [Handlers -> HandlerState]
  /\ \A h \in Handlers : handler[h].phase \in Saving => handler[h].order \in Orders
  /\ credits \in [Orders -> Nat]
  /\ refunds \in [Orders -> Nat]
  /\ told \in [Orders -> SUBSET [to: Party, label: Status \cup {"expired"}]]
  /\ disputes \in [Orders -> Nat]
  /\ failures \in Nat
  /\ history \in [Orders -> SUBSET [status: Status, by: Party \cup {"system"}]]
  /\ stale \in [Orders -> Nat]
  /\ cut \subseteq Orders

Init ==
  /\ row = [o \in Orders |-> NewOrder]
  /\ handler = [h \in Handlers |-> Idle]
  /\ credits = [o \in Orders |-> 0]
  /\ refunds = [o \in Orders |-> 0]
  /\ told = [o \in Orders |-> {}]
  /\ disputes = [o \in Orders |-> 0]
  /\ failures = 0
  /\ history = [o \in Orders |-> {}]
  /\ stale = [o \in Orders |-> 0]
  /\ cut = {}

-----------------------------------------------------------------------------
Waiting(h) == handler[h].phase = "idle"

\* The bounds that keep the counters finite.
HasRoom(o) == credits[o] + refunds[o] < MaxJobs /\ stale[o] < MaxStale

Assign(h, state) == handler' = [handler EXCEPT ![h] = state]

Tables == <<row, credits, refunds, told, disputes, failures, history, stale, cut>>

\* PUT /orders/:id/status: findOne, the party check, validateStatusTransition
\* and the assignments, up to the await of save.
UpdateStatus(r) ==
  \E o \in Orders, party \in Party, to \in Status :
    /\ Waiting(r) /\ HasRoom(o)
    /\ MayMove(party, row[o].status, to)
    /\ Assign(r, Start("ready", "update", to, party, {o}))
    /\ UNCHANGED Tables

\* POST /orders/:id/pay: initiatePayment up to the await of save.
InitiatePayment(r) ==
  \E o \in Orders :
    /\ Waiting(r) /\ HasRoom(o)
    /\ row[o].status = "pending"
    /\ Assign(r, Start("ready", "pay", "pending", "requester", {o}))
    /\ UNCHANGED Tables

\* POST /orders/:id/disputes: the order is loaded and its status found disputable.
OpenDispute(r) ==
  \E o \in Orders, party \in Party :
    /\ Waiting(r) /\ HasRoom(o)
    /\ row[o].status \in {"purchased", "shipped", "delivered"}
    /\ Assign(r, Start("begun", "dispute", "disputed", party, {o}))
    /\ UNCHANGED Tables

\* The query for an open dispute of the order; one that exists ends the request.
CheckDispute(r) ==
  /\ handler[r].phase = "begun"
  /\ \E o \in handler[r].todo :
       Assign(r, IF disputes[o] = 0 THEN [handler[r] EXCEPT !.phase = "ready"] ELSE Idle)
  /\ UNCHANGED Tables

IsShipped(o) == row[o].status = "shipped" /\ "shipped" \in row[o].stamps
AwaitsCompletion(o) ==
  /\ row[o].status = "delivered"
  /\ "delivered" \in row[o].stamps /\ "completed" \notin row[o].stamps

\* Defective variant of a query: paid_at set instead of null.
IsUnpaidButPaid(o) == row[o].status = "pending" /\ "paid" \in row[o].stamps

IsUnpaid(o) == row[o].status = "pending" /\ "paid" \notin row[o].stamps

\* What the query of each job asks for.  The conditions on time are abstracted: any
\* of those orders may be old enough, or not.
Due(job, o) ==
  \/ job = "confirm" /\ IsShipped(o)
  \/ job = "complete" /\ AwaitsCompletion(o)
  \/ job = "expire" /\ IsUnpaid(o)

\* And the status it is going to write.
Target == [confirm |-> "delivered", complete |-> "completed", expire |-> "cancelled"]

\* A scheduled job loads a batch of orders that satisfy its query.
LoadBatch(job) ==
  \E batch \in SUBSET {o \in Orders : Due(job, o)} \ {{}} :
    /\ job \in Jobs /\ Waiting(job) /\ \A o \in batch : HasRoom(o)
    /\ Assign(job, Start("ready", job, Target[job], "system", batch))
    /\ UNCHANGED Tables

AutoConfirmDelivery == LoadBatch("confirm")
AutoCompleteOrders == LoadBatch("complete")
ExpirePendingOrders == LoadBatch("expire")

-----------------------------------------------------------------------------
\* The entity a handler is saving.
EntityOf(h, o) == Entity(handler[h].op, handler[h].to, handler[h].loaded[o])

\* First statement of save: compare the entity with what is stored now.
SaveSelect(h) ==
  /\ handler[h].phase = "ready"
  /\ \E o \in handler[h].todo :
       Assign(h, [handler[h] EXCEPT !.phase = "selected", !.order = o,
                                    !.todo = @ \ {o},
                                    !.dirty = Dirty(EntityOf(h, o), row[o])])
  /\ UNCHANGED Tables

\* Defective variant: the job pays after its loop, for the last order of the batch.
AfterUpdateLast(h) ==
  LET x == [handler[h] EXCEPT !.dirty = {},
                              !.due = Recipients(handler[h].op, handler[h].by)]
  IN CASE x.op = "pay"      -> Continue(h)
       [] x.op = "dispute"  -> [x EXCEPT !.phase = "insert"]
       [] x.op = "complete" /\ x.todo = {} -> [x EXCEPT !.phase = "enqueue"]
       [] x.op = "complete" /\ x.todo # {} -> Continue(h)
       [] OTHER             -> [x EXCEPT !.phase = "announce"]

\* What the handler does once the row is written.
AfterUpdate(h) ==
  LET x == [handler[h] EXCEPT !.dirty = {},
                              !.due = Recipients(handler[h].op, handler[h].by)]
  IN CASE x.op = "pay"      -> Continue(h)
       [] x.op = "dispute"  -> [x EXCEPT !.phase = "insert"]
       [] x.op = "complete" -> [x EXCEPT !.phase = "enqueue"]
       [] OTHER             -> [x EXCEPT !.phase = "announce"]

\* Second statement of save: the UPDATE of the dirty columns.
SaveUpdate(h) ==
  LET x == handler[h]
      o == x.order
      entity == EntityOf(h, o)
  IN /\ x.phase = "selected"
     /\ row' = [row EXCEPT ![o] = Saved(row[o], entity, x.dirty)]
     /\ history' = IF "status" \in x.dirty
                   THEN [history EXCEPT ![o] = @ \cup {[status |-> entity.status, by |-> x.by]}]
                   ELSE history
     /\ stale' = IF row[o] = x.loaded[o] THEN stale ELSE [stale EXCEPT ![o] = @ + 1]
     /\ Assign(h, AfterUpdate(h))
     /\ UNCHANGED <<credits, refunds, told, disputes, failures, cut>>

\* sendOrderNotification, one party after the other, the requester first.
Announce(h) ==
  LET x == handler[h]
      party == IF "requester" \in x.due THEN "requester" ELSE "traveler"
      rest == x.due \ {party}
      hasJob == x.op = "update" /\ WalletJob(x.op, x.to, x.loaded[x.order]) # "none"
  IN /\ x.phase = "announce"
     /\ told' = [told EXCEPT ![x.order] = @ \cup {[to |-> party, label |-> Label(h)]}]
     /\ Assign(h, CASE rest # {} -> [x EXCEPT !.due = rest]
                    [] rest = {} /\ hasJob -> [x EXCEPT !.phase = "enqueue", !.due = {}]
                    [] OTHER -> Continue(h))
     /\ UNCHANGED <<row, credits, refunds, disputes, failures, history, stale, cut>>

\* Defective variant: the job waits until both parties have been told.
EnqueueOnceTold(h) ==
  LET x == handler[h]
      o == x.order
      job == WalletJob(x.op, x.to, x.loaded[o])
  IN /\ x.phase = "enqueue"
     /\ \A party \in Party : [to |-> party, label |-> Label(h)] \in told[o]
     /\ credits' = IF job = "credit" THEN [credits EXCEPT ![o] = @ + 1] ELSE credits
     /\ refunds' = IF job = "refund" THEN [refunds EXCEPT ![o] = @ + 1] ELSE refunds
     /\ Assign(h, IF x.op = "complete" THEN [x EXCEPT !.phase = "announce"] ELSE Continue(h))
     /\ UNCHANGED <<row, told, disputes, failures, history, stale, cut>>

\* creditWallet or refundToWallet.  updateStatus ends here; autoCompleteOrders
\* still has both parties to notify.
Enqueue(h) ==
  LET x == handler[h]
      o == x.order
      job == WalletJob(x.op, x.to, x.loaded[o])
  IN /\ x.phase = "enqueue"
     /\ credits' = IF job = "credit" THEN [credits EXCEPT ![o] = @ + 1] ELSE credits
     /\ refunds' = IF job = "refund" THEN [refunds EXCEPT ![o] = @ + 1] ELSE refunds
     /\ Assign(h, IF x.op = "complete" THEN [x EXCEPT !.phase = "announce"] ELSE Continue(h))
     /\ UNCHANGED <<row, told, disputes, failures, history, stale, cut>>

\* DisputeService.create ends with the insert of the dispute.
InsertDispute(r) ==
  /\ handler[r].phase = "insert"
  /\ disputes' = [disputes EXCEPT ![handler[r].order] = @ + 1]
  /\ Assign(r, Idle)
  /\ UNCHANGED <<row, credits, refunds, told, failures, history, stale, cut>>

\* An await throws, or the process stops: nothing resumes the handler, and the
\* rest of a batch is abandoned.
Fail(h) ==
  /\ ~Waiting(h) /\ failures < MaxFailures
  /\ failures' = failures + 1
  /\ cut' = IF handler[h].phase \in AfterSave THEN cut \cup {handler[h].order} ELSE cut
  /\ Assign(h, Idle)
  /\ UNCHANGED <<row, credits, refunds, told, disputes, history, stale>>

-----------------------------------------------------------------------------
RequestStep(r) ==
  \/ UpdateStatus(r)
  \/ InitiatePayment(r)
  \/ OpenDispute(r)

\* Any of the three, whose names the fairness uses.
JobStep == \E job \in Jobs : LoadBatch(job)

HandlerStep(h) ==
  \/ CheckDispute(h)
  \/ SaveSelect(h)
  \/ SaveUpdate(h)
  \/ Announce(h)
  \/ Enqueue(h)
  \/ InsertDispute(h)

Next ==
  \/ \E r \in Requests : RequestStep(r)
  \/ JobStep
  \/ \E h \in Handlers : HandlerStep(h) \/ Fail(h)

Spec == Init /\ [][Next]_vars

\* The event loop resumes every handler whose await has settled, and the
\* scheduler starts every job again each hour.
Fairness ==
  /\ \A h \in Handlers : WF_vars(HandlerStep(h))
  /\ WF_vars(AutoConfirmDelivery)
  /\ WF_vars(AutoCompleteOrders)
  /\ WF_vars(ExpirePendingOrders)

FairSpec == Spec /\ Fairness

-----------------------------------------------------------------------------
(***************************************************************************)
(* Properties.                                                             *)
(***************************************************************************)
\* The orders on which no save ever landed after the row had changed under it.
Intact == {o \in Orders : stale[o] = 0}

Reached(o) == {"pending"} \cup {e.status : e \in history[o]}
Wrote(o, status, actors) == \E e \in history[o] : e.status = status /\ e.by \in actors

\* However handlers interleave and whatever stale entities they save, money
\* only leaves an order by the road the transition table draws: a traveler is
\* credited only for an order that was at some time paid, that the traveler
\* marked as purchased and as shipped, and whose delivery the requester or the
\* scheduler confirmed; a refund is only queued for an order that was paid.
Custody ==
  \A o \in Orders :
    /\ credits[o] > 0 => "completed" \in Reached(o)
    /\ "completed" \in Reached(o) =>
         /\ Wrote(o, "delivered", {"requester", "system"})
         /\ Wrote(o, "shipped", {"traveler"})
         /\ Wrote(o, "purchased", {"traveler"})
         /\ "paid" \in Reached(o)
    /\ refunds[o] > 0 => {"paid", "cancelled"} \subseteq Reached(o)
    /\ disputes[o] > 0 => "disputed" \in Reached(o)

\* As long as no save has landed on a row that changed after it was loaded, an
\* order is settled at most once: one credit or one refund, the credit only
\* for a completed order and the refund only for a cancelled one that was paid.
\* In particular a disputed order pays out nothing.
SettledOnce ==
  \A o \in Intact :
    /\ credits[o] + refunds[o] <= 1
    /\ credits[o] = 1 => row[o].status = "completed"
    /\ refunds[o] = 1 => row[o].status = "cancelled" /\ "paid" \in row[o].stamps

\* Handlers whose save is done and whose wallet job for o is still to be queued.
Pays(x, o, job) ==
  /\ x.phase \in {"announce", "enqueue"}
  /\ x.order = o
  /\ WalletJob(x.op, x.to, x.loaded[o]) = job

Paying(o, job) == {h \in Handlers : Pays(handler[h], o, job)}

\* No money is forgotten: a completed order has its credit queued, a cancelled
\* paid one its refund, or a handler is on the way to queue it.  Only a handler
\* that dies between its save and the queue, or a stale save, breaks this.
NothingForgotten ==
  \A o \in Intact \ cut :
    /\ row[o].status = "completed" => credits[o] = 1 \/ Paying(o, "credit") # {}
    /\ row[o].status = "cancelled" /\ "paid" \in row[o].stamps =>
         refunds[o] = 1 \/ Paying(o, "refund") # {}

\* The steps of the timeline that are done when an order has some status.
Road == <<"paid", "purchased", "shipped", "delivered", "completed">>
DoneUpTo(n) == {Road[i] : i \in 1..n}

Agrees(r) ==
  LET done == r.stamps \ {"method"} IN
  CASE r.status = "pending"   -> done = {}
    [] r.status = "cancelled" -> done \in {{"cancelled"}, {"paid", "cancelled"}}
    [] r.status = "disputed"  -> \E n \in 2..4 : done = DoneUpTo(n)
    [] OTHER -> \E n \in 1..5 : r.status = Road[n] /\ done = DoneUpTo(n)

\* What buildTimeline shows agrees with the status: the steps that are done
\* form a prefix of the road to completion and reach exactly the status.  Only
\* a cancelled or a disputed order has left the road, at the points where the
\* table lets it.
TimelineAgrees == \A o \in Intact : Agrees(row[o])

\* An open dispute freezes its order: as long as no stale save landed there is
\* one dispute at most, its order stays disputed and no money has moved.
DisputeFreezes ==
  \A o \in Intact :
    /\ disputes[o] <= 1
    /\ "disputed" \in Reached(o) =>
         row[o].status = "disputed" /\ credits[o] + refunds[o] = 0

Announcing(o, status) ==
  \E h \in Handlers : /\ handler[h].phase \in AfterSave
                      /\ handler[h].order = o /\ handler[h].to = status
                      /\ handler[h].due # {}

\* Nobody learns too late: every change of status (but a dispute opened through
\* DisputeService, which notifies nobody) was announced to the party that did
\* not make it, to both when the scheduler made it, or a handler is about to.
EveryChangeAnnounced ==
  \A o \in Intact \ cut : \A e \in history[o] :
    e.status # "disputed" =>
      \/ Announcing(o, e.status)
      \/ \A party \in Party \ {e.by} :
           \E n \in told[o] : /\ n.to = party
                              /\ \/ n.label = e.status
                                 \/ n.label = "expired" /\ e.by = "system"

\* The status whose deadline each scheduled job watches.
Watched == [confirm |-> "shipped", complete |-> "delivered", expire |-> "pending"]

\* The order waits for the job, and no stale save has hit it.
WaitsFor(job, o) == row[o].status = Watched[job] /\ o \in Intact

\* A status is never taken back: until a stale save lands on it, an order moves
\* only along the transitions of the table, or by a scheduled job along the
\* same edges; the row of an order that is completed, cancelled or disputed
\* changes no more.
ForwardOnly ==
  [][\A o \in Orders :
       (o \in Intact' /\ row'[o] # row[o]) =>
         \/ row'[o].status = row[o].status /\ row[o].status = "pending"
         \/ \E t \in Transitions : t[1] = row[o].status /\ t[2] = row'[o].status
         \/ row[o].status = "delivered" /\ row'[o].status = "disputed"]_vars

\* What the documentation of the scheduled jobs says: they settle only what the
\* parties left undone.  The job that completes delivered orders pays for an
\* order only "if neither party completes" it.
PaysOnlyForTheIdle ==
  [][\A o \in Orders :
       (/\ credits'[o] > credits[o]
        /\ \E job \in Jobs : handler[job].phase = "enqueue" /\ handler'[job] # handler[job])
          => ~Wrote(o, "completed", Party)]_vars

\* The job that expires pending orders cancels an order "with no payment".
ExpiresOnlyUnpaid ==
  [][\A o \in Orders :
       [status |-> "cancelled", by |-> "system"] \in history'[o] \ history[o]
         => "paid" \notin row[o].stamps]_vars

=============================================================================
