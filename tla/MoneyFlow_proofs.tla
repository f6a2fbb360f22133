-------------------------- MODULE MoneyFlow_proofs --------------------------
(***************************************************************************)
(* Theorems about MoneyFlow: the composition keeps what the wallets keep   *)
(* by themselves, and hands each deposit on to one party, for any orders,  *)
(* users, terms, attempts, stalls and failures.                            *)
(***************************************************************************)
EXTENDS MoneyFlow, WalletLedger_proofs

-----------------------------------------------------------------------------
(***************************************************************************)
(* The orders go their way by the steps of Escrow.                         *)
(***************************************************************************)

LEMMA MoneyStepIsEscrowStep == TypeOK /\ [MoneyNext]_moneyVars => [Escrow!Next]_(Escrow!vars)
<1> SUFFICES ASSUME TypeOK, [MoneyNext]_moneyVars PROVE [Escrow!Next]_(Escrow!vars)
  OBVIOUS
<1>1. ASSUME NEW o \in Orders, OrderMoves(o) \/ EnqueueCredit(o) \/ EnqueueRefund(o)
      PROVE  Escrow!Next
  BY <1>1 DEF OrderMoves, EnqueueCredit, EnqueueRefund, Escrow!Next
<1>2. CASE LoseOrder
  BY <1>2 DEF LoseOrder, Escrow!Next
<1>3. CASE LedgerMoves
  <2>1. UNCHANGED escrowVars
    BY <1>3 DEF LedgerMoves
  <2>2. ASSUME (\E h \in Handlers : Fail(h)) \/ Stop PROVE Escrow!Crash
    BY <2>1, <2>2 DEF Fail, Stop, Escrow!Crash, escrowVars
  <2>3. failures' = failures \/ (\E h \in Handlers : Fail(h)) \/ Stop
    BY <1>3 DEF LedgerMoves, Take, Register, Withdraw, Look, HandlerStep, Create, Write,
                Record, Acknowledge
  <2>4. QED
    BY <2>1, <2>2, <2>3 DEF escrowVars, Escrow!vars, Escrow!Next
<1>4. CASE UNCHANGED moneyVars
  BY <1>4 DEF moneyVars, vars, escrowVars, Escrow!vars
<1>5. QED
  BY <1>1, <1>2, <1>3, <1>4 DEF MoneyNext

-----------------------------------------------------------------------------
(***************************************************************************)
(* And the wallets by theirs, but for the handlers that die before they    *)
(* reach the queue.                                                        *)
(***************************************************************************)

LEMMA MoneyStepIsLedgerStep ==
  EscrowTypeOK /\ [MoneyNext]_moneyVars
    => [Next]_vars \/ (UNCHANGED ledgerVars /\ failures' = failures + 1)
<1> SUFFICES ASSUME EscrowTypeOK, [MoneyNext]_moneyVars
             PROVE  [Next]_vars \/ (UNCHANGED ledgerVars /\ failures' = failures + 1)
  OBVIOUS
<1>1. ASSUME NEW o \in Orders, OrderMoves(o) PROVE UNCHANGED vars
  BY <1>1 DEF OrderMoves, ledgerVars, vars, Escrow!Pay, Escrow!Decide, Escrow!Void
<1>2. ASSUME NEW o \in Orders, EnqueueCredit(o) PROVE Next
  <2>1. [order |-> o, kind |-> "credit", copy |-> credits[o] + 1] \in Jobs
    BY <1>2, OrderJobsAssumption, TermsAssumption
    DEF EnqueueCredit, OrderJobs, Kinds, EscrowTypeOK
  <2>2. QED
    BY <1>2, <2>1 DEF EnqueueCredit, Next
<1>3. ASSUME NEW o \in Orders, EnqueueRefund(o) PROVE Next
  <2>1. [order |-> o, kind |-> "refund", copy |-> refunds[o] + 1] \in Jobs
    BY <1>3, OrderJobsAssumption, TermsAssumption
    DEF EnqueueRefund, OrderJobs, Kinds, EscrowTypeOK
  <2>2. QED
    BY <1>3, <2>1 DEF EnqueueRefund, Next
<1>4. CASE LoseOrder
  BY <1>4 DEF LoseOrder, Escrow!Crash
<1>5. CASE LedgerMoves
  BY <1>5 DEF LedgerMoves, Next
<1>6. CASE UNCHANGED moneyVars
  BY <1>6 DEF moneyVars
<1>7. QED
  BY <1>1, <1>2, <1>3, <1>4, <1>5, <1>6 DEF MoneyNext

-----------------------------------------------------------------------------
LEMMA EscrowTypeInit == Escrow!Init => EscrowTypeOK
BY DEF Escrow!Init, EscrowTypeOK, Escrow!Stages

LEMMA EscrowTypeStep == EscrowTypeOK /\ [Escrow!Next]_(Escrow!vars) => EscrowTypeOK'
<1> SUFFICES ASSUME EscrowTypeOK, [Escrow!Next]_(Escrow!vars) PROVE EscrowTypeOK'
  OBVIOUS
<1>1. ASSUME NEW o \in Orders, Escrow!Pay(o) \/ Escrow!Decide(o) PROVE EscrowTypeOK'
  BY <1>1 DEF Escrow!Pay, Escrow!Decide, Escrow!Move, Escrow!Stages, EscrowTypeOK
<1>2. ASSUME NEW o \in Orders, Escrow!Credit(o) \/ Escrow!Refund(o) PROVE EscrowTypeOK'
  BY <1>2 DEF Escrow!Credit, Escrow!Refund, Escrow!Move, Escrow!Stages, EscrowTypeOK
<1>3. ASSUME NEW o \in Orders, Escrow!Void(o) PROVE EscrowTypeOK'
  BY <1>3 DEF Escrow!Void, Escrow!Stages, EscrowTypeOK
<1>4. CASE Escrow!Crash
  BY <1>4 DEF Escrow!Crash, Escrow!Move, Escrow!Stages, EscrowTypeOK
<1>5. CASE UNCHANGED Escrow!vars
  BY <1>5 DEF Escrow!vars, EscrowTypeOK
<1>6. QED
  BY <1>1, <1>2, <1>3, <1>4, <1>5 DEF Escrow!Next

LEMMA StageCountsInit == Escrow!Init => StageCounts
BY DEF Escrow!Init, StageCounts

\* An order whose money is handed out had put nothing on the queue before.
LEMMA StageCountsStep ==
  EscrowTypeOK /\ StageCounts /\ [Escrow!Next]_(Escrow!vars) => StageCounts'
<1> SUFFICES ASSUME EscrowTypeOK, StageCounts, [Escrow!Next]_(Escrow!vars) PROVE StageCounts'
  OBVIOUS
<1>1. ASSUME NEW o \in Orders, Escrow!Pay(o) \/ Escrow!Decide(o) PROVE StageCounts'
  BY <1>1 DEF Escrow!Pay, Escrow!Decide, Escrow!Move, EscrowTypeOK, StageCounts
<1>2. ASSUME NEW o \in Orders, Escrow!Credit(o) PROVE StageCounts'
  BY <1>2 DEF Escrow!Credit, Escrow!Move, EscrowTypeOK, StageCounts
<1>3. ASSUME NEW o \in Orders, Escrow!Refund(o) PROVE StageCounts'
  BY <1>3 DEF Escrow!Refund, Escrow!Move, EscrowTypeOK, StageCounts
<1>4. ASSUME NEW o \in Orders, Escrow!Void(o) PROVE StageCounts'
  BY <1>4 DEF Escrow!Void, EscrowTypeOK, StageCounts
<1>5. CASE Escrow!Crash
  BY <1>5 DEF Escrow!Crash, Escrow!Move, Escrow!Due, EscrowTypeOK, StageCounts
<1>6. CASE UNCHANGED Escrow!vars
  BY <1>6 DEF Escrow!vars, StageCounts
<1>7. QED
  BY <1>1, <1>2, <1>3, <1>4, <1>5, <1>6 DEF Escrow!Next

-----------------------------------------------------------------------------
LEMMA QueueCountsInit == MoneyInit => QueueCounts
BY DEF MoneyInit, Init, QueueCounts

\* The wallets put no job on the queue by themselves.
LEMMA LedgerQueues ==
  ASSUME TypeOK, WalletInv, LedgerMoves, NEW j \in Jobs, job[j] = "unqueued"
  PROVE  job'[j] = "unqueued"
<1>1. ASSUME NEW h \in Handlers, Throw(h), ~Waiting(h) PROVE job'[j] = "unqueued"
  <2>1. CASE h = Worker
    <3>1. handler[h].job \in Jobs /\ handler[h].job # j
      BY <1>1, <2>1 DEF WalletInv, Delivery
    <3>2. QED
      BY <1>1, <3>1 DEF Throw, TypeOK
  <2>2. CASE h # Worker
    <3>1. handler[h].job = None
      BY <2>2 DEF WalletInv, Delivery, Handlers
    <3>2. QED
      BY <1>1, <3>1 DEF Throw
  <2>3. QED
    BY <2>1, <2>2
<1>2. ASSUME NEW i \in Jobs, Take(i) PROVE job'[j] = "unqueued"
  BY <1>2 DEF Take, TypeOK
<1>3. ASSUME NEW h \in Handlers, HandlerStep(h) PROVE job'[j] = "unqueued"
  BY <1>1, <1>3 DEF HandlerStep, Create, Write, Record, Waiting
<1>4. ASSUME NEW h \in Handlers, Fail(h) PROVE job'[j] = "unqueued"
  BY <1>1, <1>4 DEF Fail
<1>5. CASE Acknowledge
  <2>1. handler[Worker].job \in Jobs /\ handler[Worker].job # j
    BY <1>5 DEF Acknowledge, WalletInv, Delivery, Waiting
  <2>2. QED
    BY <1>5, <2>1 DEF Acknowledge, TypeOK
<1>6. CASE Stop
  <2>1. CASE Waiting(Worker)
    BY <1>6, <2>1 DEF Stop
  <2>2. CASE ~Waiting(Worker)
    <3>1. handler[Worker].job \in Jobs /\ handler[Worker].job # j
      BY <2>2 DEF WalletInv, Delivery
    <3>2. QED
      BY <1>6, <2>2, <3>1 DEF Stop, TypeOK
  <2>3. QED
    BY <2>1, <2>2
<1>7. QED
  BY <1>2, <1>3, <1>4, <1>5, <1>6 DEF LedgerMoves, Register, Withdraw, Look

LEMMA QueueCountsStep ==
  TypeOK /\ WalletInv /\ EscrowTypeOK /\ QueueCounts /\ [MoneyNext]_moneyVars => QueueCounts'
<1> SUFFICES ASSUME TypeOK, WalletInv, EscrowTypeOK, QueueCounts, [MoneyNext]_moneyVars
             PROVE  QueueCounts'
  OBVIOUS
<1>0. \A j \in Jobs : j.order \in Orders /\ j.kind \in Kinds /\ j.copy \in Nat
                       /\ j = [order |-> j.order, kind |-> j.kind, copy |-> j.copy]
  BY OrderJobsAssumption, TermsAssumption DEF OrderJobs
<1>1. ASSUME NEW o \in Orders, OrderMoves(o) PROVE QueueCounts'
  <2>1. UNCHANGED <<job, credits, refunds>>
    BY <1>1 DEF OrderMoves, ledgerVars, Escrow!Pay, Escrow!Decide, Escrow!Void
  <2>2. QED
    BY <2>1 DEF QueueCounts, Copies
<1>2. ASSUME NEW o \in Orders, EnqueueCredit(o) PROVE QueueCounts'
  <2> DEFINE new == [order |-> o, kind |-> "credit", copy |-> credits[o] + 1]
  <2>1. /\ \A j \in Jobs \ {new} : job'[j] = job[j]
        /\ refunds' = refunds
        /\ \A p \in Orders : credits'[p] = IF p = o THEN credits[p] + 1 ELSE credits[p]
        /\ \A p \in Orders : credits[p] \in Nat
    BY <1>2 DEF EnqueueCredit, Enqueue, Escrow!Credit, EscrowTypeOK, TypeOK
  <2>2. \A j \in Jobs : Copies(j) <= Copies(j)'
    BY <1>0, <2>1 DEF Copies, EscrowTypeOK
  <2>3. ASSUME NEW j \in Jobs \ {new}, job'[j] # "unqueued" PROVE j.copy <= Copies(j)'
    <3>1. j.copy <= Copies(j) /\ Copies(j) \in Int /\ Copies(j)' \in Int
      BY <1>0, <2>1, <2>3 DEF QueueCounts, Copies, EscrowTypeOK
    <3>2. QED
      BY <1>0, <2>2, <3>1
  <2>4. ASSUME NEW j \in Jobs, j = new PROVE j.copy <= Copies(j)'
    BY <2>1, <2>4 DEF Copies
  <2>5. QED
    BY <2>3, <2>4 DEF QueueCounts
<1>3. ASSUME NEW o \in Orders, EnqueueRefund(o) PROVE QueueCounts'
  <2> DEFINE new == [order |-> o, kind |-> "refund", copy |-> refunds[o] + 1]
  <2>1. /\ \A j \in Jobs \ {new} : job'[j] = job[j]
        /\ credits' = credits
        /\ \A p \in Orders : refunds'[p] = IF p = o THEN refunds[p] + 1 ELSE refunds[p]
        /\ \A p \in Orders : refunds[p] \in Nat
    BY <1>3 DEF EnqueueRefund, Enqueue, Escrow!Refund, EscrowTypeOK, TypeOK
  <2>2. \A j \in Jobs : Copies(j) <= Copies(j)'
    BY <1>0, <2>1 DEF Copies, EscrowTypeOK
  <2>3. ASSUME NEW j \in Jobs \ {new}, job'[j] # "unqueued" PROVE j.copy <= Copies(j)'
    <3>1. j.copy <= Copies(j) /\ Copies(j) \in Int /\ Copies(j)' \in Int
      BY <1>0, <2>1, <2>3 DEF QueueCounts, Copies, EscrowTypeOK
    <3>2. QED
      BY <1>0, <2>2, <3>1
  <2>4. ASSUME NEW j \in Jobs, j = new PROVE j.copy <= Copies(j)'
    BY <2>1, <2>4 DEF Copies
  <2>5. QED
    BY <2>3, <2>4 DEF QueueCounts
<1>4. CASE LoseOrder
  BY <1>4 DEF LoseOrder, ledgerVars, Escrow!Crash, QueueCounts, Copies
<1>5. CASE LedgerMoves
  <2>1. UNCHANGED <<credits, refunds>>
    BY <1>5 DEF LedgerMoves, escrowVars
  <2>2. \A j \in Jobs : job'[j] # "unqueued" => job[j] # "unqueued"
    BY <1>5, LedgerQueues
  <2>3. QED
    BY <2>1, <2>2 DEF QueueCounts, Copies
<1>6. CASE UNCHANGED moneyVars
  BY <1>6 DEF moneyVars, vars, escrowVars, QueueCounts, Copies
<1>7. QED
  BY <1>1, <1>2, <1>3, <1>4, <1>5, <1>6 DEF MoneyNext

-----------------------------------------------------------------------------
(***************************************************************************)
(* Together.                                                               *)
(***************************************************************************)

FlowInv == TypeOK /\ WalletInv /\ RowsInv /\ MoneyInv

LEMMA FlowInit == MoneyInit => FlowInv
BY TypeInit, WalletInit, RowsInit, EscrowTypeInit, StageCountsInit, QueueCountsInit
   DEF MoneyInit, FlowInv, MoneyInv

LEMMA FlowStep == FlowInv /\ [MoneyNext]_moneyVars => FlowInv'
<1> SUFFICES ASSUME FlowInv, [MoneyNext]_moneyVars PROVE FlowInv'
  OBVIOUS
<1>0. TypeOK /\ WalletInv /\ RowsInv /\ EscrowTypeOK /\ StageCounts /\ QueueCounts
  BY DEF FlowInv, MoneyInv
<1>1. EscrowTypeOK' /\ StageCounts'
  BY <1>0, MoneyStepIsEscrowStep, EscrowTypeStep, StageCountsStep
<1>2. QueueCounts'
  BY <1>0, QueueCountsStep
<1>3. CASE [Next]_vars
  BY <1>0, <1>1, <1>2, <1>3, TypeStep, WalletStep, RowsStep DEF FlowInv, MoneyInv
<1>4. CASE UNCHANGED ledgerVars /\ failures' = failures + 1
  <2>1. TypeOK'
    BY <1>0, <1>4 DEF ledgerVars, TypeOK
  <2>2. WalletInv'
    <3>1. UNCHANGED <<balance, entries, job, throws, stalls, handler>>
      BY <1>4 DEF ledgerVars
    <3>2. \A i \in Jobs : Tries(i)' = Tries(i)
      BY <3>1 DEF Tries
    <3>3. Covered'
      BY <1>0, <3>1, <3>2, CoveredStays DEF WalletInv
    <3>4. QED
      BY <1>0, <3>1, <3>2, <3>3 DEF WalletInv, Delivery, AtLeastOnce, Waiting
  <2>3. UNCHANGED <<handler, balance, booked, stale, torn>>
    BY <1>4 DEF ledgerVars
  <2>4. RowsInv'
    BY <1>0, <2>3 DEF RowsInv, Reconciled, Unbooked, Writing
  <2>5. QED
    BY <1>1, <1>2, <2>1, <2>2, <2>4 DEF FlowInv, MoneyInv
<1>5. QED
  BY <1>0, <1>3, <1>4, MoneyStepIsLedgerStep

LEMMA FlowInvHolds == MoneySpec => []FlowInv
BY FlowInit, FlowStep, PTL DEF MoneySpec

\* The fee is the percentage of the price, rounded up.
LEMMA PlatformFeeRoundsUp ==
  ASSUME NEW t \in TermsOf
  PROVE  /\ PlatformFee(t) \in Nat
         /\ 100 * PlatformFee(t) >= t.price * FeePercent
         /\ 100 * (PlatformFee(t) - 1) < t.price * FeePercent
<1>1. PICK share \in Nat : share = t.price * FeePercent
  BY TermsAssumption DEF TermsOf
<1>2. PlatformFee(t) = (share + 99) \div 100
  BY <1>1 DEF PlatformFee
<1>3. QED
  BY <1>1, <1>2

LEMMA JobTerms ==
  ASSUME NEW o \in Orders, NEW j \in JobsOf(o)
  PROVE  LET kept == TotalAmount(Terms[o]) - Amount[j]
         IN \/ Owner[j] = Requester[o] /\ kept = 0
            \/ Owner[j] = Traveler[o] /\ kept = PlatformFee(Terms[o])
<1>1. j \in Jobs /\ j.order = o /\ j.kind \in Kinds
  BY OrderJobsAssumption DEF JobsOf, OrderJobs
<1>2. Amount[j] = JobAmount(o, j.kind) /\ Owner[j] = Beneficiary(o, j.kind)
  BY <1>1, OrderJobsAssumption
<1>3. Terms[o] \in TermsOf
  BY TermsAssumption
<1>4. PlatformFee(Terms[o]) \in Nat
  BY <1>3, PlatformFeeRoundsUp
<1>5. Terms[o].price \in Nat /\ ServiceFee(Terms[o]) \in Nat
  BY <1>3 DEF TermsOf, ServiceFee
<1>6. CASE j.kind = "credit"
  BY <1>2, <1>4, <1>5, <1>6 DEF JobAmount, Beneficiary, TotalAmount
<1>7. CASE j.kind = "refund"
  BY <1>2, <1>4, <1>5, <1>7 DEF JobAmount, Beneficiary, TotalAmount
<1>8. QED
  BY <1>1, <1>6, <1>7 DEF Kinds

\* A job with a row was on the queue, and it is the only one of its order.
LEMMA OneHandout ==
  ASSUME FlowInv, NEW o \in Orders, NEW j \in JobsOf(o), entries[j] > 0, stage[o] # "void"
  PROVE  /\ o \in deposited
         /\ \A k \in JobsOf(o) : entries[k] > 0 => k = j
<1>0. TypeOK /\ Delivery /\ AtLeastOnce /\ EscrowTypeOK /\ StageCounts /\ QueueCounts
  BY DEF FlowInv, WalletInv, MoneyInv
<1>1. \A k \in JobsOf(o) :
        /\ k \in Jobs /\ k.order = o /\ k.kind \in Kinds /\ k.copy \in Nat \ {0}
        /\ k = [order |-> k.order, kind |-> k.kind, copy |-> k.copy]
  BY OrderJobsAssumption, TermsAssumption DEF JobsOf, OrderJobs
<1>2. credits[o] \in Nat /\ refunds[o] \in Nat /\ stage[o] \in Escrow!Stages
  BY <1>0 DEF EscrowTypeOK
<1>3. ASSUME NEW k \in JobsOf(o), entries[k] > 0 PROVE k.copy <= Copies(k)
  <2>1. entries[k] \in Nat /\ Tries(k) \in Nat
    BY <1>0, <1>1, EarningsType DEF TypeOK
  <2>2. Tries(k) # 0
    BY <1>0, <1>1, <1>3, <2>1 DEF AtLeastOnce
  <2>3. job[k] # "unqueued"
    BY <1>0, <1>1, <2>2 DEF Delivery
  <2>4. QED
    BY <1>0, <1>1, <2>3 DEF QueueCounts
<1>4. credits[o] + refunds[o] > 0
  BY <1>1, <1>2, <1>3 DEF Copies
<1>5. o \in deposited
  BY <1>0, <1>4 DEF StageCounts
<1>6. credits[o] + refunds[o] = 1
  <2>1. stage[o] = "settled"
    BY <1>0, <1>2, <1>4 DEF StageCounts, Escrow!Stages
  <2>2. QED
    BY <1>0, <2>1 DEF StageCounts
<1>7. ASSUME NEW k \in JobsOf(o), entries[k] > 0
      PROVE  k.copy = 1 /\ k.kind = IF credits[o] = 1 THEN "credit" ELSE "refund"
  BY <1>1, <1>2, <1>3, <1>6, <1>7 DEF Copies, Kinds
<1>8. \A k \in JobsOf(o) : entries[k] > 0 => k = j
  BY <1>1, <1>7
<1>9. QED
  BY <1>5, <1>8

\* What the requester paid is handed on to one party, and the right amount of
\* it: from the deposit to the transaction rows, for any terms and any fee.
THEOREM DepositHandedOnHolds == MoneySpec => []DepositHandedOn
<1>1. FlowInv => DepositHandedOn
  <2> SUFFICES ASSUME FlowInv, NEW o \in Orders, NEW j \in JobsOf(o),
                      entries[j] > 0, stage[o] # "void"
               PROVE  LET kept == TotalAmount(Terms[o]) - Amount[j]
                          share == Terms[o].price * FeePercent
                      IN /\ o \in deposited
                         /\ entries[j] <= 1 + throws[j] + stalls[j]
                         /\ \A k \in JobsOf(o) \ {j} : entries[k] = 0
                         /\ \/ Owner[j] = Requester[o] /\ kept = 0
                            \/ /\ Owner[j] = Traveler[o]
                               /\ 100 * kept >= share /\ 100 * (kept - 1) < share
    BY DEF DepositHandedOn
  <2>1. /\ TypeOK /\ AtLeastOnce /\ j \in Jobs
        /\ \A k \in JobsOf(o) : entries[k] \in Nat
    BY DEF JobsOf, FlowInv, WalletInv, TypeOK
  <2>2. o \in deposited /\ \A k \in JobsOf(o) : entries[k] > 0 => k = j
    BY OneHandout
  <2>3. /\ entries[j] <= 1 + throws[j] + stalls[j]
        /\ \A k \in JobsOf(o) \ {j} : entries[k] = 0
    <3>1. entries[j] \in Nat /\ throws[j] \in Nat /\ stalls[j] \in Nat /\ entries[j] <= Tries(j)
      BY <2>1 DEF TypeOK, AtLeastOnce
    <3>2. Tries(j) <= 1 + throws[j] + stalls[j]
      BY <3>1 DEF Tries
    <3>3. Tries(j) \in Nat
      BY <2>1, EarningsType
    <3>4. QED
      BY <2>1, <2>2, <3>1, <3>2, <3>3
  <2>4. Terms[o] \in TermsOf
    BY TermsAssumption
  <2>5. QED
    BY <2>2, <2>3, <2>4, JobTerms, PlatformFeeRoundsUp
<1>2. QED
  BY <1>1, FlowInvHolds, PTL

\* What the wallets keep by themselves they keep behind the orders: balances are
\* neither negative nor more than the tries earned, the queue delivers at least
\* once and gives up only what it may, and the rows account for the balances.
THEOREM FlowKeepsWallets == MoneySpec => [](BalanceBounded /\ AtLeastOnce /\ Reconciled)
<1>1. FlowInv => BalanceBounded /\ AtLeastOnce /\ Reconciled
  BY DEF FlowInv, WalletInv, Covered, RowsInv
<1>2. QED
  BY <1>1, FlowInvHolds, PTL

=============================================================================
