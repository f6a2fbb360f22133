---------------------------- MODULE WalletLedger ----------------------------
(***************************************************************************)
(* Wallets and their transactions: WalletService.withdraw and getBalance,  *)
(* WalletProcessor.process, which works off the 'credit' and 'refund' jobs *)
(* that QueueService puts on the wallet queue, and the creation of wallets *)
(* at registration.                                                        *)
(*                                                                         *)
(* A balance is read, changed in memory and written back as a number; the  *)
(* row of wallet_transactions is inserted after it, in no transaction with *)
(* it.  (The balance column comes back from the driver as a string, so     *)
(* save always finds it changed and always writes it.)                     *)
(*                                                                         *)
(* The processor has one worker.  A job whose processing throws is tried   *)
(* again, from the start, until MaxAttempts attempts threw.  A job whose   *)
(* worker vanished with the process is no attempt that threw: BullMQ finds *)
(* it stalled and hands it out again, MaxStalls times.                     *)
(***************************************************************************)
EXTENDS Integers, FiniteSets, Functions

CONSTANTS
  Users,
  Jobs,           \* the credit and refund jobs that orders may give rise to
  Owner,          \* whose wallet a job credits
  Amount,         \* and by how much
  Clients,        \* the slots in which HTTP requests are served
  Worker,         \* the worker of the wallet queue
  None,           \* no user, or no job
  Withdrawals,    \* the amounts that users try to withdraw
  MaxAttempts,    \* the attempts option of the jobs
  MaxStalls,      \* the queue's maxStalledCount
  MaxFailures     \* bound: queries that throw and stops of the process together

ASSUME WorkerAssumption == Worker \notin Clients
ASSUME NoneAssumption == None \notin Jobs \cup Users
ASSUME JobsAssumption ==
  IsFiniteSet(Jobs) /\ Owner \in [Jobs -> Users] /\ Amount \in [Jobs -> Nat]
ASSUME AmountsAssumption == Withdrawals \subseteq Nat \ {0}
ASSUME BoundsAssumption ==
  MaxAttempts \in Nat \ {0} /\ MaxStalls \in Nat /\ MaxFailures \in Nat

VARIABLES
  wallets,        \* the users who have a row in wallets
  balance,        \* its balance
  booked,         \* the sum of the user's rows in wallet_transactions, withdrawals negative
  entries,        \* how many of those rows a job has inserted
  job,            \* where a job stands in the queue
  throws,         \* how many of its attempts threw
  stalls,         \* how often its worker vanished
  handler,        \* what the requests and the worker are doing
  failures,       \* how many queries threw, or stops there were, so far
  stale,          \* ghost: users whose balance was written over a newer one
  torn            \* ghost: users for whom a handler died between write and insert

vars == <<wallets, balance, booked, entries, job, throws, stalls, handler, failures,
          stale, torn>>

Handlers == Clients \cup {Worker}

-----------------------------------------------------------------------------
(***************************************************************************)
(* missing   no wallet was found, one is to be created                     *)
(* found     the wallet was read and, for a withdrawal, found sufficient   *)
(* written   the balance is saved, the transaction row is not              *)
(* recorded  the row is inserted, the queue does not know yet (worker)     *)
(***************************************************************************)
Phase == {"idle", "missing", "found", "written", "recorded"}

\* The change is what the handler adds to the balance: negative to withdraw,
\* zero for a request that only looks.
HandlerState ==
  [phase: Phase, user: Users \cup {None}, change: Int, read: Int, job: Jobs \cup {None}]

Idle == [phase |-> "idle", user |-> None, change |-> 0, read |-> 0, job |-> None]

JobState == {"unqueued", "waiting", "active", "done", "failed"}

TypeOK ==
  /\ wallets \subseteq Users
  /\ balance \in [Users -> Int]
  /\ booked \in [Users -> Int]
  /\ entries \in [Jobs -> Nat]
  /\ job \in [Jobs -> JobState]
  /\ throws \in [Jobs -> Nat]
  /\ stalls \in [Jobs -> Nat]
  /\ handler \in [Handlers -> HandlerState]
  /\ \A h \in Handlers : handler[h].phase # "idle" => handler[h].user \in Users
  /\ failures \in Nat
  /\ stale \subseteq Users
  /\ torn \subseteq Users

Init ==
  /\ wallets = {}
  /\ balance = [u \in Users |-> 0]
  /\ booked = [u \in Users |-> 0]
  /\ entries = [j \in Jobs |-> 0]
  /\ job = [j \in Jobs |-> "unqueued"]
  /\ throws = [j \in Jobs |-> 0]
  /\ stalls = [j \in Jobs |-> 0]
  /\ handler = [h \in Handlers |-> Idle]
  /\ failures = 0
  /\ stale = {}
  /\ torn = {}

Waiting(h) == handler[h].phase = "idle"
Assign(h, state) == handler' = [handler EXCEPT ![h] = state]

\* Defective variant: a wallet that is not there is read all the same.
FindAnyway(u, change, j) ==
  [phase |-> "found", user |-> u, change |-> change,
   read |-> IF u \in wallets THEN balance[u] ELSE None, job |-> j]

\* findOne of getOrCreateWallet and of process.
Find(u, change, j) ==
  [phase |-> IF u \in wallets THEN "found" ELSE "missing",
   user |-> u, change |-> change, read |-> balance[u], job |-> j]

-----------------------------------------------------------------------------
\* creditWallet or refundToWallet put a job on the queue.
Enqueue(j) ==
  /\ job[j] = "unqueued"
  /\ job' = [job EXCEPT ![j] = "waiting"]
  /\ UNCHANGED <<wallets, balance, booked, entries, throws, stalls, handler, failures, stale, torn>>

\* register and googleAuth create the wallet of a new user; user_id is unique.
Register(u) ==
  /\ u \notin wallets
  /\ wallets' = wallets \cup {u}
  /\ UNCHANGED <<balance, booked, entries, job, throws, stalls, handler, failures, stale, torn>>

\* Defective variant: a withdrawal is not checked against the balance.
WithdrawUnchecked(c) ==
  \E u \in Users, amount \in Withdrawals :
    /\ Waiting(c)
    /\ Assign(c, Find(u, -amount, None))
    /\ UNCHANGED <<wallets, balance, booked, entries, job, throws, stalls, failures, stale, torn>>

\* POST wallet/withdraw up to the save; a balance that does not suffice ends it.
Withdraw(c) ==
  \E u \in Users, amount \in Withdrawals :
    /\ Waiting(c)
    /\ u \in wallets => balance[u] >= amount
    /\ Assign(c, Find(u, -amount, None))
    /\ UNCHANGED <<wallets, balance, booked, entries, job, throws, stalls, failures, stale, torn>>

\* GET wallet and wallet/transactions: only a missing wallet is of interest.
Look(c) ==
  \E u \in Users \ wallets :
    /\ Waiting(c)
    /\ Assign(c, Find(u, 0, None))
    /\ UNCHANGED <<wallets, balance, booked, entries, job, throws, stalls, failures, stale, torn>>

\* Defective variant: the job is acknowledged when it is taken.
TakeAndForget(j) ==
  /\ Waiting(Worker) /\ job[j] = "waiting"
  /\ job' = [job EXCEPT ![j] = "done"]
  /\ Assign(Worker, Find(Owner[j], Amount[j], j))
  /\ UNCHANGED <<wallets, balance, booked, entries, throws, stalls, failures, stale, torn>>

\* The worker starts the next job.
Take(j) ==
  /\ Waiting(Worker) /\ job[j] = "waiting"
  /\ job' = [job EXCEPT ![j] = "active"]
  /\ Assign(Worker, Find(Owner[j], Amount[j], j))
  /\ UNCHANGED <<wallets, balance, booked, entries, throws, stalls, failures, stale, torn>>

\* Defective variant: no attempt follows one that threw.
AfterThrowNothing(j) == "failed"

\* Where a job stands after an attempt that threw.
AfterThrow(j) == IF throws[j] + 1 < MaxAttempts THEN "waiting" ELSE "failed"

\* And after its worker vanished.
AfterStall(j) == IF stalls[j] < MaxStalls THEN "waiting" ELSE "failed"

\* The handler ends with an exception: the request with an error, the attempt
\* with another one to come or not.
Throw(h) ==
  /\ Assign(h, Idle)
  /\ IF handler[h].job = None THEN UNCHANGED <<job, throws>>
     ELSE /\ job' = [job EXCEPT ![handler[h].job] = AfterThrow(handler[h].job)]
          /\ throws' = [throws EXCEPT ![handler[h].job] = @ + 1]

\* The wallet that was missing is inserted.  If it exists by now, the unique
\* user_id makes the insert fail.  An empty wallet suffices for no withdrawal.
Create(h) ==
  LET x == handler[h] IN
  /\ x.phase = "missing"
  /\ \/ x.user \in wallets /\ Throw(h) /\ UNCHANGED wallets
     \/ /\ x.user \notin wallets
        /\ wallets' = wallets \cup {x.user}
        /\ Assign(h, IF h = Worker THEN [x EXCEPT !.phase = "found", !.read = 0] ELSE Idle)
        /\ UNCHANGED <<job, throws>>
  /\ UNCHANGED <<balance, booked, entries, stalls, failures, stale, torn>>

\* The new balance is computed from the one that was read, and saved.
Write(h) ==
  LET x == handler[h] IN
  /\ x.phase = "found"
  /\ balance' = [balance EXCEPT ![x.user] = x.read + x.change]
  /\ stale' = IF balance[x.user] = x.read THEN stale ELSE stale \cup {x.user}
  /\ Assign(h, [x EXCEPT !.phase = "written"])
  /\ UNCHANGED <<wallets, booked, entries, job, throws, stalls, failures, torn>>

\* Defective variant: a withdrawal is recorded without its sign.
RecordUnsigned(h) ==
  LET x == handler[h] IN
  /\ x.phase = "written"
  /\ booked' = [booked EXCEPT ![x.user] = IF x.change < 0 THEN @ - x.change ELSE @ + x.change]
  /\ entries' = IF x.job = None THEN entries ELSE [entries EXCEPT ![x.job] = @ + 1]
  /\ Assign(h, IF h = Worker THEN [x EXCEPT !.phase = "recorded"] ELSE Idle)
  /\ UNCHANGED <<wallets, balance, job, throws, stalls, failures, stale, torn>>

\* The row of wallet_transactions is inserted.
Record(h) ==
  LET x == handler[h] IN
  /\ x.phase = "written"
  /\ booked' = [booked EXCEPT ![x.user] = @ + x.change]
  /\ entries' = IF x.job = None THEN entries ELSE [entries EXCEPT ![x.job] = @ + 1]
  /\ Assign(h, IF h = Worker THEN [x EXCEPT !.phase = "recorded"] ELSE Idle)
  /\ UNCHANGED <<wallets, balance, job, throws, stalls, failures, stale, torn>>

\* process returns and the queue moves the job to its completed set.
Acknowledge ==
  /\ handler[Worker].phase = "recorded"
  /\ job' = [job EXCEPT ![handler[Worker].job] = "done"]
  /\ Assign(Worker, Idle)
  /\ UNCHANGED <<wallets, balance, booked, entries, throws, stalls, failures, stale, torn>>

\* The users for whom some handler is between the balance and the row.
TornBy(hs) == {handler[h].user : h \in {g \in hs : handler[g].phase = "written"}}

\* An await throws, be it that only the answer was lost.
Fail(h) ==
  /\ ~Waiting(h) /\ failures < MaxFailures
  /\ failures' = failures + 1
  /\ torn' = torn \cup TornBy({h})
  /\ Throw(h)
  /\ UNCHANGED <<wallets, balance, booked, entries, stalls, stale>>

\* The process stops: its handlers are gone, the tables and the queue stay.
Stop ==
  /\ \E h \in Handlers : ~Waiting(h)
  /\ failures < MaxFailures
  /\ failures' = failures + 1
  /\ torn' = torn \cup TornBy(Handlers)
  /\ handler' = [h \in Handlers |-> Idle]
  /\ IF Waiting(Worker) THEN UNCHANGED <<job, stalls>>
     ELSE /\ job' = [job EXCEPT ![handler[Worker].job] = AfterStall(handler[Worker].job)]
          /\ stalls' = [stalls EXCEPT ![handler[Worker].job] = @ + 1]
  /\ UNCHANGED <<wallets, balance, booked, entries, throws, stale>>

-----------------------------------------------------------------------------
HandlerStep(h) == Create(h) \/ Write(h) \/ Record(h)

Next ==
  \/ \E j \in Jobs : Enqueue(j) \/ Take(j)
  \/ \E u \in Users : Register(u)
  \/ \E c \in Clients : Withdraw(c) \/ Look(c)
  \/ \E h \in Handlers : HandlerStep(h) \/ Fail(h)
  \/ Acknowledge \/ Stop

Spec == Init /\ [][Next]_vars

\* The queue hands out every waiting job, and awaits settle.
Fairness ==
  /\ \A j \in Jobs : WF_vars(Take(j))
  /\ \A h \in Handlers : WF_vars(HandlerStep(h))
  /\ WF_vars(Acknowledge)

-----------------------------------------------------------------------------
(***************************************************************************)
(* Properties.                                                             *)
(***************************************************************************)

\* How often the worker was given a job.
Tries(j) == throws[j] + stalls[j] + (IF job[j] \in {"active", "done"} THEN 1 ELSE 0)

\* What the credits of a user amount to if every try at one counts.
Earned(u) == SumFunction([j \in {i \in Jobs : Owner[i] = u} |-> Tries(j) * Amount[j]])

\* However withdrawals and credits overwrite each other, are cut short or
\* repeated, a balance stays within what was earned: it never goes below zero,
\* and no overwritten write and no retry makes more money than the tries at the
\* user's own jobs account for.
BalanceBounded == \A u \in Users : 0 <= balance[u] /\ balance[u] <= Earned(u)

\* The handlers that wrote a user's balance, and what they have still to insert.
Writing(u) == {h \in Handlers : handler[h].phase = "written" /\ handler[h].user = u}
Unbooked(u) == [h \in Writing(u) |-> handler[h].change]

\* The transaction rows account for the balance: for a user on whose wallet no
\* handler wrote over a newer balance or died between write and insert, the
\* balance is the sum of the rows, but for the rows still to be inserted.
Reconciled ==
  \A u \in Users \ (stale \cup torn) : balance[u] = booked[u] + SumFunction(Unbooked(u))

\* The queue delivers at least once, and only a repeated try books a job twice:
\* a job that is done has a row, it has no more rows than tries, and it is given
\* up only after the last attempt or stall that the queue allows.
AtLeastOnce ==
  \A j \in Jobs :
    /\ job[j] = "done" => entries[j] >= 1
    /\ entries[j] <= Tries(j)
    /\ Tries(j) <= MaxAttempts + MaxStalls
    /\ job[j] = "failed" => throws[j] = MaxAttempts \/ stalls[j] > MaxStalls

-----------------------------------------------------------------------------
(***************************************************************************)
(* The inductive invariant behind BalanceBounded and AtLeastOnce.          *)
(***************************************************************************)

\* Whatever a handler is about to write is neither negative nor more than was
\* earned, and only the worker, which takes nothing away, goes on after creating
\* a wallet.
Covered ==
  /\ BalanceBounded
  /\ \A u \in Users, h \in Handlers :
       LET x == handler[h] IN
       (x.user = u /\ x.phase \in {"missing", "found"}) =>
         /\ 0 <= x.read + (IF x.phase = "missing" THEN 0 ELSE x.change)
         /\ x.read + x.change <= Earned(u)
  /\ ~Waiting(Worker) => handler[Worker].change >= 0

\* The worker has one active job, which it is about to book once more than before.
Delivery ==
  /\ \A c \in Clients : handler[c].job = None /\ handler[c].phase # "recorded"
  /\ ~Waiting(Worker) => handler[Worker].job \in Jobs /\ job[handler[Worker].job] = "active"
  /\ Waiting(Worker) => handler[Worker].job = None
  /\ \A j \in Jobs :
       /\ job[j] = "unqueued" => Tries(j) = 0
       /\ job[j] \in {"waiting", "active"} => throws[j] < MaxAttempts /\ stalls[j] <= MaxStalls
       /\ job[j] = "active" => handler[Worker].job = j
       /\ job[j] = "active" /\ handler[Worker].phase = "recorded" => entries[j] >= 1
       /\ job[j] = "active" /\ handler[Worker].phase # "recorded" => entries[j] < Tries(j)

WalletInv == Covered /\ Delivery /\ AtLeastOnce

=============================================================================
