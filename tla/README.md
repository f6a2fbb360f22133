# Nitipin backend: specifications, model checking and proofs

This directory holds TLA+ specifications of the Nitipin backend (`src/`), a
NestJS service for a marketplace in which travelers buy and carry goods for
requesters. It contains one module per component, configurations with which TLC
checks them on small instances, and theorems that TLAPS has checked for every
value of the constants. Everything here was written from the code. Line
numbers of each definition are in `PROJECT.json` under `map`.

    cd tla
    tlc -workers 2 -config MCOrderRequests.cfg MCOrderLifecycle
    tlapm OrderEscrow_proofs.tla

## 1. The system

All paths are below `src/src/`.

| Component | State it keeps | Operations that change it | Talks to |
|---|---|---|---|
| Orders (`modules/order`) | `orders`: a status and a nullable column per step of the way | `updateStatus`, `initiatePayment` | wallet queue, notification queue |
| Scheduled jobs (`infrastructure/scheduler`) | none, they change rows of others | `autoConfirmDelivery`, `autoCompleteOrders`, `expirePendingOrders`, `expirePendingOffers`, `expireRequests` | orders, offers, requests, both queues |
| Disputes (`modules/dispute`) | `disputes` | `create` | orders |
| Wallets (`modules/wallet`, `infrastructure/queue/processors/wallet.processor.ts`) | `wallets`, `wallet_transactions` | `withdraw`, creation on first use, `process` of `credit` and `refund` jobs | the wallet queue |
| Job queues (`infrastructure/queue`) | waiting, active, finished jobs in Redis | enqueue, hand out, retry (5 attempts) | every service |
| Trips, item requests, offers (`modules/trip`, `request`, `offer`) | one table each | create, update, move, remove; offers also become orders | notification queue, orders |
| Accounts and sessions (`modules/auth`, `modules/user`) | `users`, `refresh_tokens` | register, login, Google sign-in, refresh, logout, password reset, e-mail verification, profile, deletion | wallets, e-mail queue |
| Reviews (`modules/review`) | `reviews`, and two ratings in `users` | `create` | users |
| Messages, WebSocket gateway (`modules/message`, `infrastructure/events`) | `messages`; in memory the table `userSockets`, `client.userId` of each socket, and the rooms | send (over a socket or HTTP), mark as read, connect, authenticate, disconnect | orders, offers |
| Notifications (`modules/notification`, `notification.processor.ts`) | `notifications`, and the queue's jobs | queue, insert per job, retry (3 attempts), mark one or all as read | every service |
| E-mail (`email.processor.ts`), uploads, health, HTTP layer | none | - | - |

The services share tables and call the queues. They never call each other back,
and no transaction, lock or version column appears anywhere. What is hard in
this code comes from that:

- **Interleaving.** A handler loads entities, checks them, changes the objects
  in memory and saves them later. Each `await` lets another handler run.
- **Stale saves.** `repository.save(entity)` selects the row again and updates
  the columns in which the *object* differs from what is stored *now*. A column
  that the handler never touched, but another changed in the meantime, is
  written back. A column that the handler did change to the value it now has is
  not written.
- **Batches.** A scheduled job loads many rows at once and works through them
  with the entities of the start.
- **Steps in sequence.** A save, a notification, a wallet job: a handler may stop
  between any two.
- **At-least-once jobs.** A wallet or a notification job that throws, or whose
  worker stops, is repeated from its start. The two are counted apart: attempts
  that throw up to the `attempts` of the job, stops up to BullMQ's
  `maxStalledCount`, and the job is given up when either is used up.
- **Identity read late.** A message handler reads `client.userId` again after
  every await, and a socket may authenticate as somebody else in between.
- **Memory and tables.** The gateway's sockets and rooms vanish with the process;
  tables and queues stay.

What makes the components correct:

- *Orders*: money leaves an order only by the road that the transition table
  draws, once, and is never forgotten; the timeline agrees with the status; a
  dispute freezes the order; deadlines are kept; changes are announced.
- *Wallets*: no balance is negative, or above what was earned; balances agree with
  the transactions; every job is booked at least once, and no more often than it
  was tried.
- *Marketplace*: an accepted offer becomes one order, at the price that was
  agreed; order numbers are unique and have no gap; what was removed stays so.
- *Accounts*: one account per address, each with a wallet; mailed tokens work
  once; refreshing does not multiply sessions; deletion is final.
- *Reviews*: one review per party and order; a rating is the average of the
  reviews.
- *Orders and wallets together*: an order is an escrow; what the requester paid
  reaches one party, less the platform's fee, and it does reach it.
- *Messages*: stored under the name of a party, shown to the other; the
  gateway's table agrees with the rooms; reading marks the other's messages, all of
  them, and no others.
- *Notifications*: each arrives, and is repeated only when something failed.

The hazards behind these, each at its line, are in `PROJECT.json` under
`hazards`.

## 2. The modules

| Module | Models |
|---|---|
| `Persistence` | what `save` does to a row: `Dirty` (the SELECT and the comparison) and `Saved` (the UPDATE) |
| `OrderLifecycle` | orders, disputes and the three jobs on orders |
| `OrderInvariants` | the inductive invariants behind the properties of `OrderLifecycle` |
| `Escrow` | what the platform promises about the money of an order, abstractly |
| `OrderEscrow` | the refinement: `OrderLifecycle` implements `Escrow` |
| `WalletLedger` | wallets, transactions, the wallet queue and its worker |
| `MoneyFlow` | `Escrow` and `WalletLedger` composed, with the fees of `createOrderFromOffer` |
| `Marketplace` | trips, item requests, offers, and how an offer becomes an order |
| `MarketInvariants` | the inductive invariants behind the properties of `Marketplace` |
| `Accounts` | accounts, sessions and mailed tokens |
| `AccountsInvariants` | the inductive invariants behind the properties of `Accounts` |
| `Reviews` | reviews, the ratings derived from them, and the saves of a user by other services that write ratings back |
| `People` | the users, a parameter of the next two |
| `Chat` | the gateway and the messages |
| `Notifications` | the notification queue, its processor, and reading |
| `Inbox` | `Chat` and `Notifications` in one process that fails and restarts |
| `MC*` | values of the constants and symmetry for TLC; `MCOrderJobs` also chooses which of the jobs on orders run in a behaviour |
| `*_proofs` | theorems and proofs; those of `OrderEscrow` include `OrderLifecycle` |
| `Sums` | lemmas about the sum of a function over a finite set, for wallets and reviews |

**State.** A table is a function from row identifiers to rows. In
`OrderLifecycle` a row is a status and the set of nullable columns that are
filled in: the properties only ask whether `paid_at` is null, not what it holds.
In `Marketplace` and `Accounts` a row is a record of columns. The queues are
counters, or sets of what was put on them.

**Handlers.** `handler[h]` is what a request slot or a scheduled job is doing: the
entities it loaded, the row it works on, and the await it stands at
(`phase`). A slot in `Requests` serves one HTTP request after another, so the
number of slots is the number of requests in flight. One action stands for the
code from one await to the next: `UpdateStatus` is `updateStatus` up to its
`save`; `SaveSelect` and `SaveUpdate` are the two statements of `save`;
`Announce`, `Enqueue`, `InsertDispute`, `InsertOrder` and so on are the awaits
that follow. Guards of the code (`validateStatusTransition`, party checks, early
exceptions) are conjuncts; a request that is refused changes nothing and is no
step.

**Composition.** Three chains tie the modules together.

- `OrderEscrow` maps every state of `OrderLifecycle` to a stage of `Escrow`: `open`
  while nothing is paid, `held` on the road to completion, `frozen` by a dispute,
  `released` or `returned` while a handler is on the way to queue the wallet
  job, `settled` once it is queued, `lost` when that handler died, `void` once a
  stale entity was saved. `Money == INSTANCE Escrow WITH stage <- stage, ...` is the
  refinement mapping, and `Money!Spec` is both a PROPERTY of the run `order_jobs` and
  the theorem `OrdersAreEscrow`.
- `MoneyFlow` then uses `Escrow` in place of the orders: the steps that put a
  wallet job on the queue are those of `Escrow` and of `WalletLedger` at once
  (`EnqueueCredit`, `EnqueueRefund`), every other step belongs to one of them.
  The amounts in the jobs are computed as `createOrderFromOffer` does.
- `Inbox` joins `Chat` and `Notifications`, which share the process: `Restart` takes
  the sockets, rooms, handlers and the worker of both at once.

**Failures.** A handler may end at any await: a query throws, or the process stops.
What it had saved stays. `MaxFailures` bounds how often that happens.

- In the modules on orders, offers and reviews it makes no difference which of the
  two it was, and `Fail` ends one handler.
- `WalletLedger` and `Inbox` tell them apart, as BullMQ does. `Fail`, `QueryThrows`: one
  handler throws; if it is a worker, its job has used up an attempt
  (`AfterThrow`). `Stop`, `Restart`: *every* handler is gone and so are, in `Inbox`, the
  connections, the rooms and `userSockets`, while tables and queues stay. A job whose
  worker vanished has used up no attempt; the queue finds it stalled and hands it out
  again (`AfterStall`), but `MaxStalls` times only: neither `queue.module.ts` nor the
  processors set `maxStalledCount`, whose default is 1.
- In `MoneyFlow` a stop of the wallets' handlers and the loss of the handler of an order
  are two steps. A stop that hits both is one after the other.
- `Accounts` has no such action: there nothing is assumed to take a step, so a
  handler that dies is simply one that takes no more.

**Ghosts.** `history` (who wrote which status), `stale` (saves that landed on a
row that had changed since it was loaded), `cut` (a handler died between a save
and what follows), `torn` (ratings that another save wrote back; in `WalletLedger` users for whom a handler
died between balance and row), `readTo` (what was there when a conversation was marked),
`raced`, `spent`, `signIns`, `unsettled`, `shown`, `been`, `switched` and `excused` are written and never read by an action, except that `stale` serves as a bound
and `spent` keeps tokens fresh. They let a property say exactly for which rows
the code keeps a promise. For instance `SettledOnce` speaks of the orders in
`Intact`: on an order on which a stale save landed the code does not keep it,
and `Custody`, which does not mention `Intact`, says what still holds then.

### Abstractions

- *Time.* A job's condition on age is left out: any row that matches the rest of
  the query may be due, or not yet. This adds behaviours and removes none.
- *Money.* `OrderLifecycle` counts wallet jobs, `WalletLedger` has amounts, and
  `MoneyFlow` computes them from an offer. `FeePercent` is a whole number there
  and the fee is rounded up exactly; the code multiplies floating point numbers,
  whose error can round a whole product up (7 % of 100 becomes 8). The default of
  5 % has no such case for prices up to 20 million.
- *Void orders.* `Escrow` promises nothing about an order on which a stale entity
  was saved, except that what was never paid for is never paid out.
- *Requests over HTTP in `Chat`* are one step: the parties of an order or an offer
  never change, and an insert or an UPDATE is all that is left.
- *One worker per queue*, as BullMQ's default concurrency has it, and one
  process. Content of messages and notifications is left out, `is_read` is kept.
- *Statuses in `Transitions`* carry the party of the code's table. The table also
  has an entry for "system", a label no check of the code enforces; the model
  treats it as the code does.
- *Numbers of an order* are the counter in `NTP-<year>-<n>`; the year is left out,
  as if all were accepted in the same year.
- *Ratings* are in hundredths; `toFixed(2)` is rounding, a tie up. From 40 reviews on
  a tie may be no binary fraction (x.025), and the code then rounds either way.
- *Statuses of orders* are those that something writes: nothing in the code writes
  `refunded`, so `Status` leaves it out.
- *`JwtAuthGuard`* is a global guard (`app.module.ts:48`) and so also runs before the
  handlers of the gateway, which it may refuse. `Chat` has the gateway's own check of
  `client.userId` only: it lets through all that the guard would, and more.
- *Sessions and tokens* have no expiry: they may be used at any time.
- *An offer* on both a trip and a request is an offer on the trip, as in
  `createOrderFromOffer`.

## 3. The runs

Every passing run explores all states of its instance (up to symmetry in the runs
that use it, which check no liveness). Sizes are distinct states. The runs marked
with a finding stop at the first counterexample.

| Run | Instance | Checks | States |
|---|---|---|---|
| `order_requests` | 1 order, 2 requests, job expire | `TypeOK`, `Custody`, `TimelineAgrees`, `DisputeFreezes`, `ForwardOnly` | 3 128 000 |
| `order_jobs` | 1 order, 1 request, either jobs confirm and complete or job expire, 1 failure | `SettledOnce`, `EveryChangeAnnounced`, `DeadlinesAreKept`, `ImplementsEscrow`, `SettlesEscrow` | 239 000 |
| `order_batch` | 2 orders, 1 request, job complete, 1 failure | `NothingForgotten` | 3 129 000 |
| `money_flow` | 1 order, 2 wallets, 1 request, 2 attempts, 1 stall, 2 failures | `TypeOK`, `BalanceBounded`, `Reconciled`, `AtLeastOnce`, `DepositHandedOn`, `MoneyArrives` | 350 000 |
| `inbox` | 3 users, 1 order, 1 offer, 1 socket, 2 handlers, 1 notification, 2 failures | `TypeOK`, `TableMatchesRooms`, `RightParties`, `RowsPerAttempt`, `BadgesApart`, `MessagesAreShown`, `NoticesArrive` | 496 000 |
| `offers` | 1 trip, 2 offers, 2 requests | `TypeOK`, `OneOrderPerOffer`, `Numbering`, `FirstAcceptanceOrders`, `RemovedForGood` | 307 000 |
| `offer_expiry` | 1 item request, 1 offer, 1 request, both jobs, 1 failure | `TermsAgreed`, `DecisionsAnnounced`, `OffersAreDecided` | 78 000 |
| `reviews` | 2 orders of one traveler and one requester, 2 requests, 3 reviews, profile saves of the traveler, 1 failure | `OneReviewEach`, `RatingAgrees`, `RatingWasOnceRight` | 1 639 000 |
| `accounts` | 2 accounts, 2 passwords, 2 sessions, 1 mail, 2 requests | `TypeOK`, `AccountsComplete`, `TokensWorkOnce`, `RefreshReplaces`, `DeletionIsFinal` | 557 000 |
| `pays_only_for_the_idle` | 1 order, 1 request, jobs expire and complete, 1 failure | finding 1 | until found |
| `expires_only_unpaid` | the same | finding 2 | until found |
| `accepted_has_order` | 1 trip, 2 offers, 2 requests | finding 3 | until found |

**Why the bounds are enough for what the runs ask.** A clash takes two handlers
on one row: two requests, or a request and a job, are in every instance. A third
party can act between the steps of both, since a slot serves one request
after another. Handlers interact only through the rows they share, so one order
suffices except where a batch is the point (`order_batch`) or where rows share
something: two offers share the order numbers, two orders share a traveler's
rating, two accounts share an address. `MaxStale = 1` stops *new* handlers on a
row once a stale save has landed there; those at work still finish, so the state
after a stale save is explored as well. `MaxJobs = 1` likewise stops new handlers
on an order that has been settled. For orders, the theorems in section 5 remove
the bounds on everything safety depends on. One failure is enough to cut any
handler at any await; what a second one could do is covered for `Custody`,
`SettledOnce`, `AtLeastOnce` and `Numbering` by the theorems. The wallet queue's `MaxAttempts` is
2 where the code has 5, and `MaxStalls` 1 as in the code: two failures then use up
either, alone or one of each, so jobs that are given up, jobs that survive a throw and
a stop, and jobs that are booked twice all occur. In `money_flow` the withdrawal of 32 is
what a credit brings; the one request and the worker overlap on the wallet, each with
the balance that the other is about to write over. Two requests at a time beside two
failures are beyond TLC; the theorems on wallets hold for any number. In `order_jobs`
a behaviour has two of the jobs or the third (`Schedules`): all three at once are
too much with liveness. The jobs watch disjoint statuses, and each is
there with the request and the failure it may race with; the theorems on safety have
all three at once. In `inbox` one
socket is enough, since a socket reads no state of another; two handlers let
messages of the same socket be at every stage while it changes its user or is
closed; three users make room for one who is a party of only one of the two
conversations; two items (messages and notifications together) let two messages
be on the way at the same time, or one of each; and two failures reach the limit
on stalls.

**Deadlock** is not checked: when no request arrives, nothing is due and the
bounds are used up, the system rests, and it may. `DeadlinesAreKept`,
`SettlesEscrow`, `MoneyArrives`, `OffersAreDecided`, `MessagesAreShown` and
`NoticesArrive` say instead what may not be left waiting.

**Fairness.** Safety runs assume none. The liveness runs assume

- weak fairness of every handler's next step: the event loop resumes a handler
  whose await has settled, and database, Redis and queue calls settle or
  throw (`Fail`);
- weak fairness of the jobs that load batches (in `order_jobs`, of those the behaviour has): `@nestjs/schedule` starts each of
  them every hour whatever became of the run before, and time passes, so a row
  that stays due is loaded; `expirePendingOffers` loads *all* offers that are
  old enough, hence fairness for each offer there;
- weak fairness of handing out each waiting wallet or notification job and of the
  acknowledgement: BullMQ delivers waiting jobs to the one worker;
- in `MoneyFlow`, weak fairness of `Settle`: an order whose money is due queues its
  wallet job. This is not an assumption about the code but what `SettlesEscrow`
  checks of `OrderLifecycle` in `order_jobs`.

No request is ever assumed to arrive, and no user to act.

**Each property can fail.** `PROJECT.json` lists, for every property of every
passing run, a defective variant of a definition ("mutant") - a dropped guard, a
swapped party, a missing reset - under which TLC finds the property violated. The
variants stand in the modules before the definitions they alter.

## 4. Where code and comments disagree

1. `autoCompleteOrders` is said to complete an order "if neither party completes
   the order within 3 days". It loads a batch and then pays for each order in it
   without looking again, so it also pays for one that a party completed while it
   was working (`PaysOnlyForTheIdle`).
2. `expirePendingOrders` is said to cancel orders "with no payment". It also
   cancels one that became paid after its load, and queues no refund
   (`ExpiresOnlyUnpaid`). When the payment lands before the SELECT of the job's
   save, the null `paid_at` of the loaded entity differs from what is stored and
   erases the payment; when it lands after, `paid_at` stays beside the status
   `cancelled`.
3. `OfferService` says "Auto-create order on accept". Of two acceptances at the
   same time both take the same order number, the second insert throws, and its
   offer stays accepted without an order (`AcceptedHasOrder`).

## 5. The theorems

Proved by TLAPS, for any sets of orders, users, requests and so on, any bounds
and any number of failures. None uses fairness. The assumptions are those in the
modules: names of rows, handlers and jobs do not coincide, and bounds are
numbers.

| Theorem | States | Invariant |
|---|---|---|
| `OrderEscrow_proofs!TypeCorrect` | `Spec => []TypeOK` | `TypeOK` is inductive |
| `OrderEscrow_proofs!CustodyHolds` | `Spec => []Custody` | `CustodyInv` |
| `OrderEscrow_proofs!SettledOnceHolds` | `Spec => []SettledOnce` | `SettledInv` |
| `OrderEscrow_proofs!TimelineAgreesHolds` | `Spec => []TimelineAgrees` | `OrderInv` |
| `OrderEscrow_proofs!DisputeFreezesHolds` | `Spec => []DisputeFreezes` | `OrderInv` |
| `OrderEscrow_proofs!ForwardOnlyHolds` | `Spec => ForwardOnly` | `OrderInv` |
| `OrderEscrow_proofs!OrdersAreEscrow` | `Spec => ImplementsEscrow` | `OrderInv` |
| `OrderEscrow_proofs!NothingForgottenHolds` | `Spec => []NothingForgotten` | `OrderInv`, `NoneLost` |
| `OrderEscrow_proofs!EveryChangeAnnouncedHolds` | `Spec => []EveryChangeAnnounced` | `OrderInv`, `DueInv`, `ToldInv` |
| `WalletLedger_proofs!TypeCorrect` | `Spec => []TypeOK` | `TypeOK` is inductive |
| `WalletLedger_proofs!BalanceBoundedHolds` | `Spec => []BalanceBounded` | `WalletInv` |
| `WalletLedger_proofs!AtLeastOnceHolds` | `Spec => []AtLeastOnce` | `WalletInv` |
| `WalletLedger_proofs!ReconciledHolds` | `Spec => []Reconciled` | `RowsInv` |
| `MoneyFlow_proofs!FlowKeepsWallets` | `BalanceBounded`, `AtLeastOnce` and `Reconciled` when orders feed the queue | `FlowInv` |
| `MoneyFlow_proofs!DepositHandedOnHolds` | `Spec => []DepositHandedOn` | `FlowInv` |
| `Inbox_proofs!TypeCorrect` | `Spec => []TypeOK` | `TypeOK` is inductive |
| `Inbox_proofs!TableMatchesRoomsHolds` | `Spec => []TableMatchesRooms` | `SocketInv` |
| `Inbox_proofs!RightPartiesHolds` | `Spec => []RightParties` | `SendInv` |
| `Inbox_proofs!BadgesApartHolds` | `Spec => []BadgesApart` | `BadgesInv` |
| `Inbox_proofs!RowsPerAttemptHolds` | `Spec => []RowsPerAttempt` | `WorkerInv` |
| `Reviews_proofs!OneReviewEachHolds` | `Spec => []OneReviewEach` | `ReviewInv` |
| `Reviews_proofs!RatingAgreesHolds` | `Spec => []RatingAgrees` | `ReviewInv`, `RatingInv` |
| `Reviews_proofs!RatingWasOnceRightHolds` | `Spec => []RatingWasOnceRight` | `ReviewInv`, `RatingInv` |
| `Reviews_proofs!TypeCorrect` | `Spec => []TypeOK`, with averages from 1.00 to 5.00 | `ReviewInv`, `RatingInv`, `TypeRest` |
| `Marketplace_proofs!NumberingHolds` | `Spec => []Numbering` | `NumberingInv` |
| `Marketplace_proofs!TypeCorrect` | `Spec => []TypeOK` | `MarketInv` |
| `Marketplace_proofs!OneOrderPerOfferHolds` | `Spec => []OneOrderPerOffer` | `MarketInv` |
| `Marketplace_proofs!TermsAgreedHolds` | `Spec => []TermsAgreed` | `MarketInv` |
| `Marketplace_proofs!FirstAcceptanceOrdersHolds` | `Spec => []FirstAcceptanceOrders` | `MarketInv` |
| `Marketplace_proofs!DecisionsAnnouncedHolds` | `Spec => []DecisionsAnnounced` | `MarketInv` |
| `Marketplace_proofs!RemovedForGoodHolds` | `Spec => RemovedForGood` | `MarketInv` |
| `Accounts_proofs!TypeCorrect` | `Spec => []TypeOK` | `SessionInv` |
| `Accounts_proofs!TokensWorkOnceHolds` | `Spec => []TokensWorkOnce` | `SessionInv` |
| `Accounts_proofs!RefreshReplacesHolds` | `Spec => []RefreshReplaces` | `SessionInv` |
| `Accounts_proofs!DeletionIsFinalHolds` | `Spec => DeletionIsFinal` | `SessionInv` |
| `Accounts_proofs!AccountsCompleteHolds` | `Spec => []AccountsComplete` | `AccountsInv` |

- **Custody.** The property is not inductive: nothing in it says what a handler
  in flight may write. `CustodyInv` adds that what a handler loaded was once
  true of the order (`Sound`), that it got past the guards with it (`Lawful`), and
  that every status in the history came from its predecessor by the hand the
  table demands (`Lineage`). Statuses may be overwritten by stale saves; the
  *history* only grows, which is why the argument survives them.
- **SettledOnce.** For orders without a stale save, `SettledInv` adds that what
  a handler knows of the order is its present or its past (`UpToDate`, along the
  order `Precedes` on rows), and that at most one handler still owes the wallet
  job, with the row exactly as it saved it (`Owes`). `SavedIsEntity` is the key
  lemma: on an undisturbed row `save` stores exactly the entity. A second
  completion would have loaded an earlier row, so its save is stale.
- **Orders as an escrow.** `OrderInv` joins the type invariant, `CustodyInv` and
  `SettledInv` with `TimelineAgrees`, `DisputeInv` (a dispute once recorded stays
  in the row, and one handler at most is to insert it) and `PaidFirst` (the job
  that completes orders tells the parties only after it queued the credit). Under
  it every action maps to a step of `Escrow` or to a stutter, one lemma per
  action; most of the work is to show that a save of an undisturbed order is the
  step of `Escrow` that the transition table draws, and that a stale one leads to
  `void`. `NoneLost` adds that an order is `lost` only if a handler died on it,
  `ToldInv` that a change not yet announced has a handler that is to announce it.
- **MoneyFlow.** `MoneyInv` relates the jobs on the queue to the stages of the
  escrow. `PlatformFeeRoundsUp` is the arithmetic of the fee, for all prices and
  percentages.
- **Inbox.** `SocketInv`: an open socket is in the table and the room of each user it
  ever was, a closed one in the table only of its former users. `SendInv`: a message
  on the way has a party as its sender, and its socket still is that user unless it
  changed since (`switched`). `WorkerInv` counts rows against attempts across failures
  and restarts. `BadgesInv` adds to `BadgesApart` that nobody has read further than there
  are messages, so that a new message is one nobody has read.
- **Reviews.** `AtMostOne`: two reviews of one party take two requests between
  check and insert at the same time, which is what `raced` records. The properties
  of ratings are proved without computing an average. `RatingInv` says of every
  stored rating (`Carried`) and of what every handler read (`Sound`) that it is the
  summary of the reviews up to some row of the table, or mixes two such summaries
  once a save of the user wrote a rating back; an insert keeps that, as the
  beginnings of a longer table include those of the shorter one. For `RatingAgrees`,
  `Settled` adds that of somebody who is not `unsettled` one handler at most is
  counting, and that what it collected is the summary of *all* reviews: nobody
  inserted since, or the reviewee would be unsettled. `TypeCorrect` is about the
  arithmetic: a sum of n stars lies between n and 5n (`SumBetween`), so the average in
  hundredths lies between 100 and 500 (`Rounded`) and fits the column, a `decimal(3,2)`,
  for any number of reviews.
- **Wallets.** `Covered`: whatever a handler is about to write is neither negative,
  because it was checked against the balance it was computed from, nor above what was
  earned: what the worker read was bounded *before* the try it is in, which adds
  the amount of its job to `Earned`, and what was earned only grows. `Delivery`: an active
  job belongs to the worker, it has attempts and stalls left, and it is booked less often
  than it was tried until the worker has booked it. `Reconciled` is inductive once it is known
  that finitely many handlers are between write and insert (`RowsInv`): a write that
  is not stale adds to the balance what its handler has still to insert, and the
  insert moves that from `Unbooked` to the rows. The prover knows nothing of
  `SumFunction`, which is defined by recursion: `Sums` shows that the recursion has a
  solution, that it is the only one, and that a summand may be taken out of it in any
  order. Each is shown by contradiction from a smallest subset for which it fails, as
  an induction would need an operator as parameter.
- **Numbering.** A handler never holds a count above the number of orders, so a
  number is either the next one or taken, and a taken one throws.
- **Marketplace.** `RowsSound`: what a handler knows of a row without a stale save is
  the row's present or its past, so a save that leaves the row intact stores
  exactly the entity, and intact rows only move forward (`RowsMove`). On that rest
  `OrderedOnce` and `NewsTrue`: an intact offer leaves *pending* by a single save, and
  the handler that made it is the only one to order it or to tell of it.
- **Accounts.** `SessionInv`: on an intact account, what a handler loaded is the row's
  present or its past (`UpToDate`), and a column that it clears is dirty unless the
  row has moved on; a token that is not saved yet is known to one handler
  (`TokensPrivate`), a saved one is in one column of one account, and in none once
  it was used (`TokensApart`). `SessionsCounted` counts the live sessions together
  with the handlers that revoked one and have yet to insert the next. For
  `AccountsComplete`: a handler that saves does so over an account that exists, so
  `save` never inserts; an insert throws when the address is taken; so does an
  update that would give an address back.

The strengthened invariants were checked with TLC on the instances of section 3
before they were proved.

**Only model-checked**: the temporal properties `DeadlinesAreKept`, `SettlesEscrow`,
`MoneyArrives`, `OffersAreDecided`, `MessagesAreShown` and `NoticesArrive`. Liveness
under fairness and `ENABLED` are beyond the prover as installed. Every safety and
action property of the passing runs is a theorem; `TypeOK` of `Reviews` is a theorem
and in no run.

## 6. What is not modelled

- **E-mail** after it is queued: the processor writes to the log, sending is not
  implemented.
- **Uploads, health, HTTP layer**: no state. What guards and DTOs admit is in the
  guards of the actions.
- **Code without a caller**: `emitOrderUpdate`, `emitOfferUpdate` and
  `emitNotification` of the gateway, `NotificationService.create` and
  `WalletService.credit`. `typing` only forwards an event and changes nothing.
- **Usernames, names and avatars**: columns that nothing else depends on. They are
  written back by stale saves of a user exactly as ratings are, which `Reviews`
  shows.
- **PostgreSQL, TypeORM, BullMQ, Redis, Socket.IO**: external; modelled by what the
  services rely on (a save is two statements, unique columns throw, jobs are
  delivered at least once, a stalled job is handed out again). The back-off delays
  between attempts are left out.

## 7. Plan

Every component with state is modelled, and every safety and action property of the
passing runs is proved. Left to do, in this order:

1. lemmas that several proofs state for themselves (what `Assign` does to a function
   of handlers, what a save of an undisturbed row stores) could move to a module of
   their own;
2. an abstract specification of the life of an offer, with `Marketplace` shown to
   implement it as `OrderLifecycle` implements `Escrow`;
3. handlers for payments and for outgoing e-mail, which the code only prepares for.

When the code changes: adapt the operation's action, run its configuration, then
`tlapm` on the module's proofs.
