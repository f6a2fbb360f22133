---------------------------- MODULE Marketplace ----------------------------
(***************************************************************************)
(* Trips and item requests, the offers made on them, and the orders that   *)
(* accepted offers become: TripService, ItemRequestService, OfferService   *)
(* and the two jobs of ScheduledTasksService that let offers and requests  *)
(* expire.                                                                 *)
(*                                                                         *)
(* As in OrderLifecycle a handler loads rows, changes them in memory and   *)
(* saves them later, and every await is a step.  An offer that names both  *)
(* a trip and a request is an offer on the trip.                           *)
(***************************************************************************)
EXTENDS Naturals, FiniteSets, Persistence

CONSTANTS
  Trips,
  ItemRequests,
  Offers,
  Requests,      \* the slots in which HTTP requests are served
  Jobs,          \* the scheduled jobs for which enough time passes to find work
  Prices,        \* the prices that senders propose
  None,          \* a row that is not there
  MaxStale,      \* bound: no handler starts on a row with that many stale saves
  MaxFailures    \* bound: how often a handler may die half way

ScheduledJobs == {"expireOffers", "expireRequests"}
Listings == Trips \cup ItemRequests
Rows == Listings \cup Offers

ASSUME RowsAssumption == Listings \cap Offers = {} /\ Trips \cap ItemRequests = {}
ASSUME PricesAssumption == Prices \subseteq Nat
ASSUME JobsAssumption == Jobs \subseteq ScheduledJobs /\ Requests \cap ScheduledJobs = {}
ASSUME BoundsAssumption == MaxStale \in Nat /\ MaxFailures \in Nat

VARIABLES
  row,           \* the tables trips, item_requests and offers
  orders,        \* the orders that were inserted
  handler,       \* what each request slot and each scheduled job is doing
  told,          \* notifications put on the notification queue
  failures,      \* how many handlers died so far
  stale          \* ghost: per row, saves that landed after the row had changed

vars == <<row, orders, handler, told, failures, stale>>
Tables == <<row, orders, told, failures, stale>>

-----------------------------------------------------------------------------
Party == {"sender", "recipient"}
TripStatus == {"open", "in_progress", "completed", "cancelled"}
OfferStatus == {"pending", "accepted", "rejected", "cancelled"}

Listing == [status: TripStatus, deleted: BOOLEAN]
Offer == [status: OfferStatus, price: Prices]
Order == [offer: Offers, number: Nat, price: Prices]
Notice == [about: Rows, to: Party \cup {"owner"},
           label: OfferStatus \cup {"new", "expired"}]

ASSUME NoneAssumption == None \notin Listing \cup Offer

\* Defective variant: the status of an offer is not looked at.
IsOffered(o) == row[o] # None

\* A listing that findOne finds.
Live(l) == row[l] # None /\ ~row[l].deleted
IsOpen(l) == Live(l) /\ row[l].status = "open"
IsPending(o) == row[o] # None /\ row[o].status = "pending"

\* Defective variant: a cancelled trip may be opened again.
TripTransitionsBack ==
  {<<"open", "in_progress">>, <<"open", "cancelled">>, <<"cancelled", "open">>,
   <<"in_progress", "completed">>, <<"in_progress", "cancelled">>}

\* updateStatus of TripService.
TripTransitions ==
  {<<"open", "in_progress">>, <<"open", "cancelled">>,
   <<"in_progress", "completed">>, <<"in_progress", "cancelled">>}

\* The sender may cancel a pending offer, the recipient accept or reject it.
MayDecide(party, to) ==
  \/ to = "cancelled" /\ party = "sender"
  \/ to \in {"accepted", "rejected"} /\ party = "recipient"

-----------------------------------------------------------------------------
(***************************************************************************)
(* The local state of a handler.                                           *)
(*   insert    a listing was found open, the offer is to be inserted       *)
(*   ready     the entity of the next row of the batch is to be saved      *)
(*   selected  save has compared the entity with the stored row            *)
(*   announce  the row is written, the parties are to be notified          *)
(*   count     an offer is accepted, the orders are to be counted          *)
(*   number    they are counted, the order is to be inserted               *)
(***************************************************************************)
Op == {"edit", "move", "remove", "offer", "price", "decide"} \cup ScheduledJobs
Phase == {"idle", "insert", "ready", "selected", "announce", "count", "number"}
Handlers == Requests \cup Jobs

Idle == [phase |-> "idle", op |-> "edit", todo |-> {}, subject |-> None,
         loaded |-> <<>>, entity |-> <<>>, dirty |-> {}, due |-> {}, count |-> 0]

Waiting(h) == handler[h].phase = "idle"
Assign(h, state) == handler' = [handler EXCEPT ![h] = state]
HasRoom(x) == stale[x] < MaxStale

\* A handler that has loaded the rows of its batch and changed the entities.
Load(h, op, batch, Change(_)) ==
  /\ Waiting(h) /\ \A x \in batch : HasRoom(x)
  /\ Assign(h, [Idle EXCEPT !.phase = "ready", !.op = op, !.todo = batch,
                            !.loaded = [x \in batch |-> row[x]],
                            !.entity = [x \in batch |-> Change(row[x])]])
  /\ UNCHANGED Tables

\* On to the next row of the batch, or back to waiting for work.
Continue(h) ==
  IF handler[h].todo = {} THEN Idle
  ELSE [handler[h] EXCEPT !.phase = "ready", !.subject = None, !.dirty = {}, !.due = {}]

-----------------------------------------------------------------------------
\* The listings.

\* POST trips, POST requests: nothing is read before the insert.
CreateListing ==
  \E l \in Listings :
    /\ row[l] = None
    /\ row' = [row EXCEPT ![l] = [status |-> "open", deleted |-> FALSE]]
    /\ UNCHANGED <<orders, handler, told, failures, stale>>

\* The fields that an update may change matter to nothing here; that it saves
\* an entity loaded before does.
Unchanged(x) == x
EditListing(r) ==
  \E l \in Listings : Live(l) /\ Load(r, "edit", {l}, Unchanged)

MoveTrip(r) ==
  \E t \in Trips, to \in TripStatus :
    LET Move(x) == [x EXCEPT !.status = to] IN
    /\ Live(t) /\ <<row[t].status, to>> \in TripTransitions
    /\ Load(r, "move", {t}, Move)

\* Defective variant: a status that trips do not have.
RemovedAsExpired(x) == [x EXCEPT !.status = "expired", !.deleted = TRUE]

Removed(x) == [x EXCEPT !.status = "cancelled", !.deleted = TRUE]
RemoveListing(r) ==
  \E l \in Listings : Live(l) /\ Load(r, "remove", {l}, Removed)

-----------------------------------------------------------------------------
\* The offers.

\* POST offers: the trip or request is found, and found open.
CreateOffer(r) ==
  /\ Waiting(r)
  /\ \E l \in Listings : IsOpen(l)
  /\ \E o \in Offers : row[o] = None
  /\ Assign(r, [Idle EXCEPT !.phase = "insert", !.op = "offer"])
  /\ UNCHANGED Tables

\* The offer is inserted; the recipient will be told.
InsertOffer(r) ==
  /\ handler[r].phase = "insert"
  /\ \E o \in Offers, price \in Prices :
       /\ row[o] = None
       /\ row' = [row EXCEPT ![o] = [status |-> "pending", price |-> price]]
       /\ Assign(r, [handler[r] EXCEPT !.phase = "announce", !.subject = o,
                                       !.due = {"recipient"}])
  /\ UNCHANGED <<orders, told, failures, stale>>

\* Defective variant: the price can be edited at any time.
EditPriceAnytime(r) ==
  \E o \in Offers, price \in Prices :
    LET Reprice(x) == [x EXCEPT !.price = price] IN
    row[o] # None /\ Load(r, "price", {o}, Reprice)

\* PUT offers/:id with a price and no status.
EditPrice(r) ==
  \E o \in Offers, price \in Prices :
    LET Reprice(x) == [x EXCEPT !.price = price] IN
    IsPending(o) /\ Load(r, "price", {o}, Reprice)

\* PUT offers/:id with a status.
Decide(r) ==
  \E o \in Offers, party \in Party, to \in OfferStatus :
    LET Decided(x) == [x EXCEPT !.status = to] IN
    /\ IsPending(o) /\ MayDecide(party, to)
    /\ Load(r, "decide", {o}, Decided)

\* Defective variant: the status is not assigned.
CancelledInVain(x) == x

Cancelled(x) == [x EXCEPT !.status = "cancelled"]

\* The conditions on time are abstracted: any of the rows may be old enough.
ExpirePendingOffers ==
  \E batch \in SUBSET {o \in Offers : IsPending(o)} \ {{}} :
    "expireOffers" \in Jobs /\ Load("expireOffers", "expireOffers", batch, Cancelled)

ExpireRequests ==
  \E batch \in SUBSET {q \in ItemRequests : IsOpen(q)} \ {{}} :
    "expireRequests" \in Jobs /\ Load("expireRequests", "expireRequests", batch, Cancelled)

-----------------------------------------------------------------------------
\* First statement of save: compare the entity with what is stored now.
SaveSelect(h) ==
  /\ handler[h].phase = "ready"
  /\ \E x \in handler[h].todo :
       Assign(h, [handler[h] EXCEPT !.phase = "selected", !.subject = x, !.todo = @ \ {x},
                                    !.dirty = DirtyColumns(handler[h].entity[x], row[x])])
  /\ UNCHANGED Tables

\* Defective variant: the parties are swapped.
RecipientsSwapped(op, entity) ==
  CASE op = "decide" -> {IF entity.status = "cancelled" THEN "sender" ELSE "recipient"}
    [] op = "expireOffers" -> Party
    [] op = "expireRequests" -> {"owner"}
    [] OTHER -> {}

\* Whom the handler notifies once the entity is saved.
Recipients(op, entity) ==
  CASE op = "decide" -> {IF entity.status = "cancelled" THEN "recipient" ELSE "sender"}
    [] op = "expireOffers" -> Party
    [] op = "expireRequests" -> {"owner"}
    [] OTHER -> {}

\* Second statement of save: the UPDATE of the dirty columns.
SaveUpdate(h) ==
  LET x == handler[h]
      entity == x.entity[x.subject]
      due == Recipients(x.op, entity)
  IN /\ x.phase = "selected"
     /\ row' = [row EXCEPT ![x.subject] = SavedColumns(@, entity, x.dirty)]
     /\ stale' = IF row[x.subject] = x.loaded[x.subject] THEN stale
                 ELSE [stale EXCEPT ![x.subject] = @ + 1]
     /\ Assign(h, IF due = {} THEN Continue(h)
                  ELSE [x EXCEPT !.phase = "announce", !.dirty = {}, !.due = due])
     /\ UNCHANGED <<orders, told, failures>>

\* What the message of a notification says.
Label(x) ==
  CASE x.op = "offer" -> "new"
    [] x.op = "decide" -> x.entity[x.subject].status
    [] OTHER -> "expired"

\* Defective variant: it is the status before the change that is looked at.
AcceptsAgain(x) == x.op = "decide" /\ x.loaded[x.subject].status = "accepted"

Accepts(x) == x.op = "decide" /\ x.entity[x.subject].status = "accepted"

\* sendOfferNotification or createNotification, the sender before the recipient.
Announce(h) ==
  LET x == handler[h]
      party == IF "sender" \in x.due THEN "sender" ELSE CHOOSE p \in x.due : TRUE
      rest == x.due \ {party}
  IN /\ x.phase = "announce"
     /\ told' = told \cup {[about |-> x.subject, to |-> party, label |-> Label(x)]}
     /\ Assign(h, CASE rest # {} -> [x EXCEPT !.due = rest]
                    [] rest = {} /\ Accepts(x) -> [x EXCEPT !.phase = "count", !.due = {}]
                    [] OTHER -> Continue(h))
     /\ UNCHANGED <<row, orders, failures, stale>>

\* createOrderFromOffer counts the orders to number the new one.
CountOrders(r) ==
  /\ handler[r].phase = "count"
  /\ Assign(r, [handler[r] EXCEPT !.phase = "number", !.count = Cardinality(orders)])
  /\ UNCHANGED Tables

\* Defective variant: the number need not be unique.
InsertOrderAnyway(r) ==
  LET x == handler[r] IN
  /\ x.phase = "number"
  /\ orders' = orders \cup {[offer |-> x.subject, number |-> x.count + 1,
                             price |-> x.entity[x.subject].price]}
  /\ Assign(r, Idle)
  /\ UNCHANGED <<row, told, failures, stale>>

\* The insert of the order; it throws when the number, which is unique, is taken.
InsertOrder(r) ==
  LET x == handler[r]
      order == [offer |-> x.subject, number |-> x.count + 1,
                price |-> x.entity[x.subject].price]
  IN /\ x.phase = "number"
     /\ orders' = IF \E other \in orders : other.number = order.number THEN orders
                  ELSE orders \cup {order}
     /\ Assign(r, Idle)
     /\ UNCHANGED <<row, told, failures, stale>>

\* An await throws, or the process stops: nothing resumes the handler.
Fail(h) ==
  /\ ~Waiting(h) /\ failures < MaxFailures
  /\ failures' = failures + 1
  /\ Assign(h, Idle)
  /\ UNCHANGED <<row, orders, told, stale>>

-----------------------------------------------------------------------------
Init ==
  /\ row = [x \in Rows |-> None]
  /\ orders = {}
  /\ handler = [h \in Handlers |-> Idle]
  /\ told = {}
  /\ failures = 0
  /\ stale = [x \in Rows |-> 0]

RequestStep(r) ==
  \/ EditListing(r)
  \/ MoveTrip(r)
  \/ RemoveListing(r)
  \/ CreateOffer(r)
  \/ EditPrice(r)
  \/ Decide(r)

HandlerStep(h) ==
  \/ InsertOffer(h)
  \/ SaveSelect(h)
  \/ SaveUpdate(h)
  \/ Announce(h)
  \/ CountOrders(h)
  \/ InsertOrder(h)

Next ==
  \/ CreateListing
  \/ \E r \in Requests : RequestStep(r)
  \/ ExpirePendingOffers
  \/ ExpireRequests
  \/ \E h \in Handlers : HandlerStep(h) \/ Fail(h)

Spec == Init /\ [][Next]_vars

\* Awaits settle, and the hourly job loads every offer that is old enough.
Fairness ==
  /\ \A h \in Handlers : WF_vars(HandlerStep(h))
  /\ \A o \in Offers :
       WF_vars(ExpirePendingOffers /\ o \in handler'["expireOffers"].todo)

FairSpec == Spec /\ Fairness

TypeOK ==
  /\ \A l \in Listings : row[l] \in Listing \cup {None}
  /\ \A o \in Offers : row[o] \in Offer \cup {None}
  /\ orders \subseteq Order
  /\ \A h \in Handlers : handler[h].phase \in Phase /\ handler[h].op \in Op
  /\ told \subseteq Notice
  /\ failures \in Nat
  /\ stale \in [Rows -> Nat]

-----------------------------------------------------------------------------
(***************************************************************************)
(* Properties.                                                             *)
(***************************************************************************)
\* The rows on which no save ever landed after they had changed.
Intact == {x \in Rows : stale[x] = 0}

\* The handlers that accept o and have saved that, but not inserted the order.
Ordering(o) ==
  {h \in Handlers : /\ handler[h].phase \in {"announce", "count", "number"}
                    /\ handler[h].subject = o /\ Accepts(handler[h])}

HasOrder(o) == \E order \in orders : order.offer = o

\* However many requests accept, reject, cancel, re-price or expire an offer at
\* the same time: as long as no stale save landed on it, it becomes one order at
\* most, and only when it was accepted.
OneOrderPerOffer ==
  \A o \in Intact \cap Offers :
    /\ Cardinality({order \in orders : order.offer = o}) <= 1
    /\ HasOrder(o) => row[o].status = "accepted" /\ Ordering(o) = {}

\* The order numbers in use are 1, 2, ... without gap and without duplicate,
\* although they are made from a count that other inserts may have outdated.
Numbering == {order.number : order \in orders} = 1 .. Cardinality(orders)

\* When acceptances clash on a number, at least one of them makes its order:
\* without a failure, no state has accepted offers but neither an order nor a
\* handler that is about to insert one.
FirstAcceptanceOrders ==
  (failures = 0 /\ \E o \in Offers : row[o] # None /\ row[o].status = "accepted")
    => orders # {} \/ \E o \in Offers : Ordering(o) # {}

\* Listings only move forward, until a stale save hits one: what was removed
\* stays as it is, a completed or cancelled trip can only be removed, and no
\* listing is ever open again.
RemovedForGood ==
  [][\A l \in Listings :
       (l \in Intact' /\ row[l] # None /\ row'[l] # row[l]) =>
         /\ ~row[l].deleted
         /\ row'[l].status # "open"
         /\ row[l].status \in {"completed", "cancelled"} => row'[l].deleted]_vars

\* The price of an order is the price its offer still shows: once an offer is
\* accepted its price is final, unless a stale save landed on it.
TermsAgreed ==
  \A order \in orders : order.offer \in Intact => order.price = row[order.offer].price

Outcome == {"accepted", "rejected", "cancelled", "expired"}

\* The news about an intact offer is true: what was announced about its outcome
\* is the outcome it has, and the outcome was announced to the party that did
\* not decide, or a handler is about to, unless a handler died.
DecisionsAnnounced ==
  \A o \in Intact \cap Offers :
    LET news == {n \in told : n.about = o /\ n.label \in Outcome} IN
    /\ \A n \in news : /\ row[o].status = IF n.label = "expired" THEN "cancelled" ELSE n.label
                       /\ n.label = "cancelled" => n.to = "recipient"
                       /\ n.label \in {"accepted", "rejected"} => n.to = "sender"
    /\ (failures = 0 /\ row[o] # None /\ row[o].status # "pending") =>
         news # {} \/ \E h \in Handlers : handler[h].subject = o /\ handler[h].due # {}

\* No offer stays pending for ever: a party decides or the hourly job lets it
\* expire, even when a run of the job dies, unless a stale save lands on it.
OffersAreDecided ==
  \A o \in Offers : (row[o] # None /\ IsPending(o) /\ o \in Intact)
                      ~> (~IsPending(o) \/ o \notin Intact)

\* What OfferService says of the code after a status change, "Auto-create order
\* on accept": an accepted offer has its order, or a handler is creating it.
AcceptedHasOrder ==
  \A o \in Intact \cap Offers :
    (row[o] # None /\ row[o].status = "accepted" /\ failures = 0) =>
      HasOrder(o) \/ Ordering(o) # {}

=============================================================================
