----------------------------- MODULE MoneyFlow ------------------------------
(***************************************************************************)
(* The way of the money from the order to the wallet: the orders, as the   *)
(* escrow that OrderEscrow shows them to be, put credit and refund jobs on *)
(* the wallet queue, and the wallets of WalletLedger work them off.  The   *)
(* amounts are those that OfferService.createOrderFromOffer computes when  *)
(* the order is created.                                                   *)
(***************************************************************************)
EXTENDS WalletLedger

CONSTANTS
  Orders,
  Traveler,       \* the user who travels for an order
  Requester,      \* and the one who pays for it
  Terms,          \* what the accepted offer says
  FeePercent,     \* PLATFORM_FEE_PERCENT, a whole number here
  MaxCopies       \* bound: jobs of one kind that an order may put on the queue

Kinds == {"credit", "refund"}

\* The price proposed in the offer and its quantity; the fee per item of the
\* trip, or no trip for an offer on an item request.
TermsOf ==
  [price: Nat \ {0}, quantity: Nat \ {0}, onTrip: BOOLEAN, feePerItem: Nat]

-----------------------------------------------------------------------------
(***************************************************************************)
(* createOrderFromOffer: what the order costs.                             *)
(***************************************************************************)
ServiceFee(t) == IF t.onTrip THEN t.feePerItem * t.quantity ELSE 0

\* Defective variant: the fee is rounded down.
PlatformFeeFloor(t) == (t.price * FeePercent) \div 100

\* Math.ceil of the percentage, in whole rupiah.
PlatformFee(t) == (t.price * FeePercent + 99) \div 100

TotalAmount(t) == t.price + ServiceFee(t) + PlatformFee(t)

\* What updateStatus and autoCompleteOrders put into the job.
JobAmount(o, kind) ==
  IF kind = "credit" THEN Terms[o].price + ServiceFee(Terms[o]) ELSE TotalAmount(Terms[o])

Beneficiary(o, kind) == IF kind = "credit" THEN Traveler[o] ELSE Requester[o]

OrderJobs == [order: Orders, kind: Kinds, copy: 1..MaxCopies]

ASSUME TermsAssumption ==
  /\ Terms \in [Orders -> TermsOf]
  /\ Traveler \in [Orders -> Users] /\ Requester \in [Orders -> Users]
  /\ \A o \in Orders : Traveler[o] # Requester[o]
  /\ FeePercent \in Nat /\ MaxCopies \in Nat

ASSUME OrderJobsAssumption ==
  /\ Jobs = OrderJobs
  /\ Owner = [j \in Jobs |-> Beneficiary(j.order, j.kind)]
  /\ Amount = [j \in Jobs |-> JobAmount(j.order, j.kind)]

-----------------------------------------------------------------------------
VARIABLES
  stage,          \* of each order, as Escrow says
  deposited,
  credits,
  refunds

Escrow == INSTANCE Escrow WITH
            stage <- stage, deposited <- deposited, credits <- credits,
            refunds <- refunds, failures <- failures

escrowVars == <<stage, deposited, credits, refunds>>
ledgerVars ==
  <<wallets, balance, booked, entries, job, throws, stalls, handler, stale, torn>>
moneyVars == <<vars, escrowVars>>

MoneyInit == Init /\ Escrow!Init

\* An order moves on and puts nothing on the queue.
OrderMoves(o) ==
  /\ Escrow!Pay(o) \/ Escrow!Decide(o) \/ Escrow!Void(o)
  /\ UNCHANGED ledgerVars

\* creditWallet, at the end of updateStatus or in autoCompleteOrders.
EnqueueCredit(o) ==
  /\ credits[o] < MaxCopies
  /\ Escrow!Credit(o)
  /\ Enqueue([order |-> o, kind |-> "credit", copy |-> credits[o] + 1])

\* refundToWallet, at the end of updateStatus.
EnqueueRefund(o) ==
  /\ refunds[o] < MaxCopies
  /\ Escrow!Refund(o)
  /\ Enqueue([order |-> o, kind |-> "refund", copy |-> refunds[o] + 1])

\* The handler of an order dies before it reaches the queue.
LoseOrder ==
  /\ failures < MaxFailures
  /\ Escrow!Crash /\ stage' # stage
  /\ UNCHANGED ledgerVars

\* The wallets and their queue go on by themselves.
LedgerMoves ==
  /\ \/ \E j \in Jobs : Take(j)
     \/ \E u \in Users : Register(u)
     \/ \E c \in Clients : Withdraw(c) \/ Look(c)
     \/ \E h \in Handlers : HandlerStep(h) \/ Fail(h)
     \/ Acknowledge \/ Stop
  /\ UNCHANGED escrowVars

MoneyNext ==
  \/ \E o \in Orders : OrderMoves(o) \/ EnqueueCredit(o) \/ EnqueueRefund(o)
  \/ LoseOrder
  \/ LedgerMoves

MoneySpec == MoneyInit /\ [][MoneyNext]_moneyVars

\* A handler that is on the way to the queue gets there (SettlesEscrow of
\* OrderEscrow), and the queue hands out its jobs.
Settle(o) == stage[o] \in Escrow!Due /\ (EnqueueCredit(o) \/ EnqueueRefund(o))

MoneyFairness == Fairness /\ \A o \in Orders : WF_moneyVars(Settle(o))

FairMoneySpec == MoneySpec /\ MoneyFairness

-----------------------------------------------------------------------------
(***************************************************************************)
(* Properties.                                                             *)
(***************************************************************************)
JobsOf(o) == {j \in Jobs : j.order = o}

\* From the deposit to the transaction rows: as long as no stale entity was
\* saved on an order, rows are inserted for one of its jobs only, no more than one
\* but for tries that were repeated, and only if the requester paid.  A row gives
\* the requester everything back, or the traveler all but the platform's
\* FeePercent per cent of the price, rounded up.
DepositHandedOn ==
  \A o \in Orders : \A j \in JobsOf(o) :
    (entries[j] > 0 /\ stage[o] # "void") =>
      LET kept == TotalAmount(Terms[o]) - Amount[j]
          share == Terms[o].price * FeePercent
      IN /\ o \in deposited
         /\ entries[j] <= 1 + throws[j] + stalls[j]
         /\ \A k \in JobsOf(o) \ {j} : entries[k] = 0
         /\ \/ Owner[j] = Requester[o] /\ kept = 0
            \/ Owner[j] = Traveler[o] /\ 100 * kept >= share /\ 100 * (kept - 1) < share

\* Money that is due reaches the wallet: once an order is completed, or was
\* cancelled after it was paid, a transaction row for it is inserted some day,
\* also when attempts at the wallet job throw or the process stops in between.
\* Only an order whose own handler died before the queue, a stale save, or a job
\* that the queue gave up after its last attempt or stall stops it.
MoneyArrives ==
  \A o \in Orders :
    stage[o] \in Escrow!Due
      ~> \/ stage[o] \in {"lost", "void"}
         \/ \E j \in JobsOf(o) : entries[j] > 0 \/ throws[j] = MaxAttempts \/ stalls[j] > MaxStalls

-----------------------------------------------------------------------------
(***************************************************************************)
(* The inductive invariant behind DepositHandedOn, with WalletInv.         *)
(***************************************************************************)

\* The stage of an order tells how many wallet jobs it has put on the queue.
StageCounts ==
  \A o \in Orders :
    /\ stage[o] \in {"open", "closed", "held", "frozen", "released", "returned", "lost"}
         => credits[o] + refunds[o] = 0
    /\ stage[o] = "settled" => credits[o] + refunds[o] = 1
    /\ (\/ stage[o] \in {"held", "frozen", "released", "returned", "settled", "lost"}
        \/ credits[o] + refunds[o] > 0) => o \in deposited

\* And those are the jobs that the queue has.
Copies(j) == IF j.kind = "credit" THEN credits[j.order] ELSE refunds[j.order]

QueueCounts == \A j \in Jobs : job[j] # "unqueued" => j.copy <= Copies(j)

EscrowTypeOK ==
  /\ stage \in [Orders -> Escrow!Stages]
  /\ deposited \subseteq Orders
  /\ credits \in [Orders -> Nat]
  /\ refunds \in [Orders -> Nat]

MoneyInv == EscrowTypeOK /\ StageCounts /\ QueueCounts

=============================================================================
