------------------------ MODULE WalletLedger_proofs ------------------------
(***************************************************************************)
(* Theorems about WalletLedger: for any users, jobs and amounts, any       *)
(* number of concurrent requests, attempts and stalls, a balance stays     *)
(* between zero and what the tries at the user's jobs account for, the     *)
(* queue books every finished job at least once and never more often than  *)
(* it was tried, and the rows of the transactions add up to the balance of *)
(* a user on whose wallet nothing overlapped.                              *)
(***************************************************************************)
EXTENDS WalletLedger, Sums

LEMMA IdleType == Idle \in HandlerState
BY DEF Idle, HandlerState, Phase

LEMMA FindType ==
  ASSUME TypeOK, NEW u \in Users, NEW change \in Int, NEW j \in Jobs \cup {None}
  PROVE  Find(u, change, j) \in HandlerState
BY DEF TypeOK, Find, HandlerState, Phase

LEMMA TypeInit == Init => TypeOK
BY IdleType DEF Init, TypeOK, JobState, Idle

\* A handler that throws becomes idle; a job it was working on waits or fails.
LEMMA ThrowType ==
  ASSUME TypeOK, NEW h \in Handlers, Throw(h)
  PROVE  /\ job' \in [Jobs -> JobState] /\ throws' \in [Jobs -> Nat]
         /\ handler' \in [Handlers -> HandlerState]
         /\ \A g \in Handlers : handler'[g].phase # "idle" => handler'[g].user \in Users
<1>1. job' \in [Jobs -> JobState] /\ throws' \in [Jobs -> Nat]
  BY DEF TypeOK, Throw, AfterThrow, JobState
<1>2. handler' = [handler EXCEPT ![h] = Idle] /\ Idle.phase = "idle"
  BY DEF Throw, Assign, Idle
<1>3. QED
  BY <1>1, <1>2, IdleType DEF TypeOK

LEMMA TypeStep == TypeOK /\ [Next]_vars => TypeOK'
<1> SUFFICES ASSUME TypeOK, [Next]_vars PROVE TypeOK'
  OBVIOUS
<1>a. ASSUME NEW h \in Handlers, NEW x \in HandlerState, Assign(h, x),
             x.phase # "idle" => x.user \in Users
      PROVE  /\ handler' \in [Handlers -> HandlerState]
             /\ \A g \in Handlers : handler'[g].phase # "idle" => handler'[g].user \in Users
  BY <1>a DEF TypeOK, Assign
<1>b. \A h \in Handlers : handler[h] \in HandlerState
  BY DEF TypeOK
<1>1. ASSUME NEW j \in Jobs, Enqueue(j) PROVE TypeOK'
  BY <1>1 DEF Enqueue, TypeOK, JobState
<1>2. ASSUME NEW j \in Jobs, Take(j) PROVE TypeOK'
  <2>1. Owner[j] \in Users /\ Amount[j] \in Int
    BY JobsAssumption
  <2>2. Find(Owner[j], Amount[j], j) \in HandlerState /\ Find(Owner[j], Amount[j], j).user \in Users
    BY <2>1, FindType DEF Find
  <2>3. /\ handler' \in [Handlers -> HandlerState]
        /\ \A g \in Handlers : handler'[g].phase # "idle" => handler'[g].user \in Users
    BY <1>2, <1>a, <2>2 DEF Take, Handlers
  <2>4. QED
    BY <1>2, <2>3 DEF Take, TypeOK, JobState
<1>3. ASSUME NEW u \in Users, Register(u) PROVE TypeOK'
  BY <1>3 DEF Register, TypeOK
<1>4. ASSUME NEW c \in Clients, Withdraw(c) \/ Look(c) PROVE TypeOK'
  <2>1. PICK u \in Users, change \in Int : Assign(c, Find(u, change, None))
    BY <1>4, AmountsAssumption DEF Withdraw, Look
  <2>2. Find(u, change, None) \in HandlerState /\ Find(u, change, None).user \in Users
    BY FindType DEF Find
  <2>3. /\ handler' \in [Handlers -> HandlerState]
        /\ \A g \in Handlers : handler'[g].phase # "idle" => handler'[g].user \in Users
    BY <1>a, <2>1, <2>2 DEF Handlers
  <2>4. QED
    BY <1>4, <2>3 DEF Withdraw, Look, TypeOK
<1>5. ASSUME NEW h \in Handlers, Create(h) PROVE TypeOK'
  <2>1. handler[h].user \in Users
    BY <1>5 DEF Create, TypeOK
  <2>2. CASE Throw(h) /\ UNCHANGED wallets
    BY <1>5, <2>2, ThrowType DEF Create, TypeOK
  <2>3. CASE /\ wallets' = wallets \cup {handler[h].user}
             /\ Assign(h, IF h = Worker THEN [handler[h] EXCEPT !.phase = "found", !.read = 0]
                          ELSE Idle)
             /\ UNCHANGED <<job, throws>>
    <3>1. PICK x \in {[handler[h] EXCEPT !.phase = "found", !.read = 0], Idle} : Assign(h, x)
      BY <2>3
    <3>2. x \in HandlerState /\ (x.phase # "idle" => x.user \in Users)
      BY <1>b, <2>1, <3>1, IdleType DEF HandlerState, Phase, Idle
    <3>3. /\ handler' \in [Handlers -> HandlerState]
          /\ \A g \in Handlers : handler'[g].phase # "idle" => handler'[g].user \in Users
      BY <1>a, <3>1, <3>2
    <3>4. QED
      BY <1>5, <2>1, <2>3, <3>3 DEF Create, TypeOK
  <2>4. QED
    BY <1>5, <2>2, <2>3 DEF Create
<1>6. ASSUME NEW h \in Handlers, Write(h) PROVE TypeOK'
  <2>1. handler[h].user \in Users /\ handler[h].read \in Int /\ handler[h].change \in Int
    BY <1>6, <1>b DEF Write, TypeOK, HandlerState
  <2>2. [handler[h] EXCEPT !.phase = "written"] \in HandlerState
        /\ [handler[h] EXCEPT !.phase = "written"].user \in Users
    BY <1>b, <2>1 DEF HandlerState, Phase
  <2>3. /\ handler' \in [Handlers -> HandlerState]
        /\ \A g \in Handlers : handler'[g].phase # "idle" => handler'[g].user \in Users
    BY <1>6, <1>a, <2>2 DEF Write
  <2>4. balance' \in [Users -> Int]
    BY <1>6, <2>1 DEF Write, TypeOK
  <2>5. stale' \subseteq Users
    BY <1>6, <2>1 DEF Write, TypeOK
  <2>6. UNCHANGED <<wallets, booked, entries, job, throws, stalls, failures, torn>>
    BY <1>6 DEF Write
  <2>7. QED
    BY <2>3, <2>4, <2>5, <2>6 DEF TypeOK
<1>7. ASSUME NEW h \in Handlers, Record(h) PROVE TypeOK'
  <2>1. handler[h].user \in Users /\ handler[h].change \in Int
    BY <1>7, <1>b DEF Record, TypeOK, HandlerState
  <2>2. PICK x \in {[handler[h] EXCEPT !.phase = "recorded"], Idle} : Assign(h, x)
    BY <1>7 DEF Record
  <2>3. x \in HandlerState /\ (x.phase # "idle" => x.user \in Users)
    BY <1>b, <2>1, <2>2, IdleType DEF HandlerState, Phase, Idle
  <2>4. /\ handler' \in [Handlers -> HandlerState]
        /\ \A g \in Handlers : handler'[g].phase # "idle" => handler'[g].user \in Users
    BY <1>a, <2>2, <2>3
  <2>5. booked' \in [Users -> Int] /\ entries' \in [Jobs -> Nat]
    <3>1. booked' = [booked EXCEPT ![handler[h].user] = @ + handler[h].change]
      BY <1>7 DEF Record
    <3>2. \/ entries' = entries
          \/ entries' = [entries EXCEPT ![handler[h].job] = @ + 1]
      BY <1>7 DEF Record
    <3>3. \A j \in Jobs : entries[j] + 1 \in Nat
      BY DEF TypeOK
    <3>4. entries' \in [Jobs -> Nat]
      BY <3>2, <3>3 DEF TypeOK
    <3>5. booked' \in [Users -> Int]
      BY <2>1, <3>1 DEF TypeOK
    <3>6. QED
      BY <3>4, <3>5
  <2>6. QED
    BY <1>7, <2>4, <2>5 DEF Record, TypeOK
<1>8. CASE Acknowledge
  <2>1. /\ handler' \in [Handlers -> HandlerState]
        /\ \A g \in Handlers : handler'[g].phase # "idle" => handler'[g].user \in Users
    BY <1>8, <1>a, IdleType DEF Acknowledge, Handlers, Idle
  <2>2. QED
    BY <1>8, <2>1 DEF Acknowledge, TypeOK, JobState
<1>9. ASSUME NEW h \in Handlers, Fail(h) PROVE TypeOK'
  <2>1. TornBy({h}) \subseteq Users
    BY DEF TornBy, TypeOK
  <2>2. /\ job' \in [Jobs -> JobState] /\ throws' \in [Jobs -> Nat]
        /\ handler' \in [Handlers -> HandlerState]
        /\ \A g \in Handlers : handler'[g].phase # "idle" => handler'[g].user \in Users
    BY <1>9, ThrowType DEF Fail
  <2>3. /\ torn' = torn \cup TornBy({h}) /\ failures' = failures + 1
        /\ UNCHANGED <<wallets, balance, booked, entries, stalls, stale>>
    BY <1>9 DEF Fail
  <2>4. torn \subseteq Users /\ failures \in Nat
    BY DEF TypeOK
  <2>5. torn' \subseteq Users
    BY <2>1, <2>3, <2>4
  <2>6. failures' \in Nat
    BY <2>3, <2>4
  <2>7. QED
    BY <2>2, <2>3, <2>5, <2>6 DEF TypeOK
<1>10. CASE Stop
  <2>1. TornBy(Handlers) \subseteq Users
    BY DEF TornBy, TypeOK
  <2>2. job' \in [Jobs -> JobState] /\ stalls' \in [Jobs -> Nat]
    BY <1>10 DEF Stop, AfterStall, TypeOK, JobState
  <2>3. QED
    BY <1>10, <2>1, <2>2, IdleType DEF Stop, TypeOK, Idle
<1>11. CASE UNCHANGED vars
  BY <1>11 DEF vars, TypeOK
<1>12. QED
  BY <1>1, <1>2, <1>3, <1>4, <1>5, <1>6, <1>7, <1>8, <1>9, <1>10, <1>11 DEF Next, HandlerStep

-----------------------------------------------------------------------------
(***************************************************************************)
(* What the tries earned.                                                  *)
(***************************************************************************)

\* The jobs of a user, and their part of what the user earned.
JobsOfUser(u) == {i \in Jobs : Owner[i] = u}
Earnings(u) == [i \in JobsOfUser(u) |-> Tries(i) * Amount[i]]

LEMMA EarningsType ==
  ASSUME TypeOK, NEW u
  PROVE  /\ IsFiniteSet(JobsOfUser(u)) /\ Earnings(u) \in [JobsOfUser(u) -> Int]
         /\ \A i \in Jobs : Tries(i) \in Nat
<1>1. IsFiniteSet(JobsOfUser(u))
  BY JobsAssumption, FS_Subset DEF JobsOfUser
<1>2. \A i \in Jobs : Tries(i) \in Nat /\ Amount[i] \in Nat
  BY JobsAssumption DEF TypeOK, Tries
<1>3. QED
  BY <1>1, <1>2 DEF Earnings, JobsOfUser

LEMMA EarnedType ==
  ASSUME TypeOK, NEW u PROVE Earned(u) \in Int
<1>1. PICK S, f : S = JobsOfUser(u) /\ f = Earnings(u)
  OBVIOUS
<1>2. IsFiniteSet(S) /\ f \in [S -> Int]
  BY <1>1, EarningsType
<1>3. SumFunctionOnSet(f, S) \in Int
  BY <1>2, SumInAnyOrder
<1>4. QED
  BY <1>1, <1>2, <1>3 DEF Earned, Earnings, JobsOfUser, SumFunction

\* As long as no job is tried once more, what was earned stays.
LEMMA EarnedStays ==
  ASSUME \A j \in Jobs : Tries(j)' = Tries(j)
  PROVE  \A u \in Users : Earned(u)' = Earned(u)
BY DEF Earned

\* One more try at a job earns its owner the amount.
LEMMA EarnedGrows ==
  ASSUME TypeOK, NEW j \in Jobs, Tries(j)' = Tries(j) + 1,
         \A i \in Jobs \ {j} : Tries(i)' = Tries(i), NEW u \in Users
  PROVE  Earned(u)' = IF u = Owner[j] THEN Earned(u) + Amount[j] ELSE Earned(u)
<1>1. PICK S, f, h : S = JobsOfUser(u) /\ f = Earnings(u) /\ h = Earnings(u)'
  OBVIOUS
<1>2. IsFiniteSet(S) /\ f \in [S -> Int] /\ \A i \in S : i \in Jobs /\ f[i] = Tries(i) * Amount[i]
  BY <1>1, EarningsType DEF Earnings, JobsOfUser
<1>3. h = [i \in S |-> Tries(i)' * Amount[i]]
  BY <1>1 DEF Earnings, JobsOfUser
<1>4. Earned(u) = SumFunction(f) /\ Earned(u)' = SumFunction(h)
  BY <1>1 DEF Earned, Earnings, JobsOfUser
<1>5. CASE u # Owner[j]
  <2>1. \A i \in S : Tries(i)' = Tries(i)
    BY <1>1, <1>5 DEF JobsOfUser
  <2>2. h = f
    BY <1>1, <1>3, <2>1 DEF Earnings
  <2>3. QED
    BY <1>4, <1>5, <2>2
<1>6. CASE u = Owner[j]
  <2>1. j \in S
    BY <1>1, <1>6 DEF JobsOfUser
  <2>2. Tries(j) \in Nat /\ Amount[j] \in Nat
    BY EarningsType, JobsAssumption
  <2>3. h[j] = f[j] + Amount[j]
    <3>1. (Tries(j) + 1) * Amount[j] = Tries(j) * Amount[j] + Amount[j]
      BY <2>2
    <3>2. QED
      BY <1>2, <1>3, <2>1, <3>1
  <2>4. \A i \in S \ {j} : h[i] = f[i]
    BY <1>2, <1>3
  <2>5. h \in [S -> Int]
    <3>1. \A i \in S : h[i] \in Int
      BY <1>2, <2>1, <2>2, <2>3, <2>4
    <3>2. QED
      BY <1>3, <3>1
  <2>6. SumFunction(f) \in Int /\ SumFunction(h) = SumFunction(f) + (h[j] - f[j])
    BY <1>2, <2>1, <2>4, <2>5, SumOfOneChanged
  <2>7. f[j] \in Int
    BY <1>2, <2>1
  <2>8. QED
    BY <1>4, <1>6, <2>2, <2>3, <2>6, <2>7
<1>7. QED
  BY <1>5, <1>6

-----------------------------------------------------------------------------
(***************************************************************************)
(* The balances and the queue.                                             *)
(***************************************************************************)

LEMMA WalletInit == Init => WalletInv
<1> SUFFICES ASSUME Init PROVE WalletInv
  OBVIOUS
<1>1. TypeOK /\ \A i \in Jobs : Tries(i) = 0
  BY TypeInit DEF Init, Tries
<1>2. ASSUME NEW u \in Users PROVE Earned(u) = 0
  <2>1. PICK S, f : S = JobsOfUser(u) /\ f = Earnings(u)
    OBVIOUS
  <2>2. IsFiniteSet(S) /\ f \in [S -> Int]
    BY <1>1, <2>1, EarningsType
  <2>3. \A i \in S : f[i] = 0
    BY <1>1, <2>1, JobsAssumption DEF Earnings, JobsOfUser
  <2>4. /\ SumFunction(f) \in Int /\ Cardinality(S) \in Nat
        /\ 0 * Cardinality(S) <= SumFunction(f) /\ SumFunction(f) <= 0 * Cardinality(S)
    BY <2>2, <2>3, SumBetween
  <2>5. SumFunction(f) = 0
    BY <2>4
  <2>6. QED
    BY <2>1, <2>5 DEF Earned, Earnings, JobsOfUser
<1>3. QED
  BY <1>1, <1>2, BoundsAssumption, WorkerAssumption
     DEF Init, WalletInv, Covered, BalanceBounded, Delivery, AtLeastOnce, Idle, Waiting, Handlers

\* A handler that neither goes on to write nor starts anew keeps the balances
\* covered, as long as they stay and no job is tried once more.
LEMMA CoveredStays ==
  ASSUME TypeOK, Covered, UNCHANGED balance, \A j \in Jobs : Tries(j)' = Tries(j),
         \A h \in Handlers :
           \/ handler'[h] = handler[h]
           \/ handler'[h].phase = "idle"
           \/ /\ handler[h].phase # "idle" /\ handler'[h].phase \in {"written", "recorded"}
              /\ handler'[h].change = handler[h].change
  PROVE  Covered'
<1>1. \A u \in Users : Earned(u)' = Earned(u)
  BY EarnedStays
<1>2. BalanceBounded'
  BY <1>1 DEF Covered, BalanceBounded
<1>3. QED
  BY <1>1, <1>2 DEF Covered, Waiting, Handlers

\* One handler goes on to y, nothing else changes but that more may be earned.
LEMMA CoveredStep ==
  ASSUME TypeOK, Covered, BalanceBounded',
         \A u \in Users : Earned(u)' \in Int /\ Earned(u) <= Earned(u)',
         NEW h \in Handlers, NEW y, handler'[h] = y,
         \A g \in Handlers \ {h} : handler'[g] = handler[g],
         \A u \in Users :
           (y.user = u /\ y.phase \in {"missing", "found"}) =>
             /\ 0 <= y.read + (IF y.phase = "missing" THEN 0 ELSE y.change)
             /\ y.read + y.change <= Earned(u)',
         h = Worker /\ y.phase # "idle" => y.change >= 0
  PROVE  Covered'
<1>1. \A u \in Users : Earned(u) \in Int
  BY EarnedType
<1>2. ASSUME NEW u \in Users, NEW g \in Handlers \ {h}, NEW x, x = handler[g],
             x.user = u, x.phase \in {"missing", "found"}
      PROVE  /\ 0 <= x.read + (IF x.phase = "missing" THEN 0 ELSE x.change)
             /\ x.read + x.change <= Earned(u)'
  <2>1. x.read \in Int /\ x.change \in Int
    BY <1>2 DEF TypeOK, HandlerState
  <2>2. /\ 0 <= x.read + (IF x.phase = "missing" THEN 0 ELSE x.change)
        /\ x.read + x.change <= Earned(u)
    BY <1>2 DEF Covered
  <2>3. x.read + x.change \in Int /\ Earned(u) \in Int /\ Earned(u)' \in Int /\ Earned(u) <= Earned(u)'
    BY <1>1, <2>1
  <2>4. QED
    BY <2>2, <2>3
<1>3. ~Waiting(Worker)' => handler'[Worker].change >= 0
  BY DEF Covered, Waiting, Handlers
<1>4. QED
  BY <1>2, <1>3 DEF Covered

\* The worker gives its job back, to wait or for good, and counts why.
LEMMA GivesBack ==
  ASSUME TypeOK, WalletInv, ~Waiting(Worker), NEW j \in Jobs, j = handler[Worker].job,
         handler'[Worker] = Idle,
         \A c \in Clients : handler'[c] = handler[c] \/ handler'[c] = Idle,
         \A i \in Jobs \ {j} : job'[i] = job[i] /\ throws'[i] = throws[i] /\ stalls'[i] = stalls[i],
         UNCHANGED entries,
         \/ throws'[j] = throws[j] + 1 /\ stalls'[j] = stalls[j] /\ job'[j] = AfterThrow(j)
         \/ throws'[j] = throws[j] /\ stalls'[j] = stalls[j] + 1 /\ job'[j] = AfterStall(j)
  PROVE  /\ \A i \in Jobs : Tries(i)' = Tries(i)
         /\ Delivery' /\ AtLeastOnce'
<1>1. Idle.phase = "idle" /\ Idle.job = None
  BY DEF Idle
<1>2. job[j] = "active" /\ \A i \in Jobs \ {j} : job[i] # "active"
  BY DEF WalletInv, Delivery
<1>3. /\ throws[j] \in Nat /\ stalls[j] \in Nat /\ MaxAttempts \in Nat /\ MaxStalls \in Nat
      /\ throws[j] < MaxAttempts /\ stalls[j] <= MaxStalls
  BY <1>2, BoundsAssumption DEF TypeOK, WalletInv, Delivery
<1>4. /\ job'[j] \in {"waiting", "failed"}
      /\ job'[j] = "waiting" => throws'[j] < MaxAttempts /\ stalls'[j] <= MaxStalls
      /\ job'[j] = "failed" => throws'[j] = MaxAttempts \/ stalls'[j] > MaxStalls
  BY <1>3 DEF AfterThrow, AfterStall
<1>5. Tries(j) = throws[j] + stalls[j] + 1 /\ Tries(j)' = throws'[j] + stalls'[j]
  <2>1. job'[j] \notin {"active", "done"}
    BY <1>4
  <2>2. QED
    BY <1>2, <1>3, <2>1 DEF Tries
<1>6. \A i \in Jobs : Tries(i)' = Tries(i)
  <2>1. Tries(j)' = Tries(j)
    BY <1>3, <1>5
  <2>2. \A i \in Jobs \ {j} : Tries(i)' = Tries(i)
    BY DEF Tries
  <2>3. QED
    BY <2>1, <2>2
<1>7. \A c \in Clients : handler'[c].job = None /\ handler'[c].phase # "recorded"
  BY <1>1 DEF WalletInv, Delivery
<1>8. Delivery'
  <2>1. ASSUME NEW i \in Jobs \ {j}
        PROVE  /\ job'[i] = "unqueued" => Tries(i)' = 0
               /\ job'[i] \in {"waiting", "active"} => throws'[i] < MaxAttempts /\ stalls'[i] <= MaxStalls
               /\ job'[i] # "active"
    BY <1>2, <1>6 DEF WalletInv, Delivery
  <2>2. /\ job'[j] # "unqueued" /\ job'[j] # "active"
        /\ job'[j] = "waiting" => throws'[j] < MaxAttempts /\ stalls'[j] <= MaxStalls
    BY <1>4
  <2>3. ASSUME NEW i \in Jobs
        PROVE  /\ job'[i] = "unqueued" => Tries(i)' = 0
               /\ job'[i] \in {"waiting", "active"} => throws'[i] < MaxAttempts /\ stalls'[i] <= MaxStalls
               /\ job'[i] # "active"
    BY <2>1, <2>2
  <2>4. handler'[Worker].phase = "idle" /\ handler'[Worker].job = None
    BY <1>1
  <2>5. QED
    BY <1>7, <2>3, <2>4 DEF Delivery, Waiting
<1>9. AtLeastOnce'
  <2>1. ASSUME NEW i \in Jobs \ {j}
        PROVE  /\ job'[i] = "done" => entries'[i] >= 1
               /\ entries'[i] <= Tries(i)' /\ Tries(i)' <= MaxAttempts + MaxStalls
               /\ job'[i] = "failed" => throws'[i] = MaxAttempts \/ stalls'[i] > MaxStalls
    BY <1>6 DEF WalletInv, AtLeastOnce
  <2>2. entries'[j] <= Tries(j)' /\ Tries(j)' <= MaxAttempts + MaxStalls
    BY <1>6 DEF WalletInv, AtLeastOnce
  <2>3. QED
    BY <1>4, <2>1, <2>2 DEF AtLeastOnce
<1>10. QED
  BY <1>6, <1>8, <1>9

\* The end of an attempt that threw, or of a request.
LEMMA ThrowInv ==
  ASSUME TypeOK, WalletInv, NEW h \in Handlers, ~Waiting(h), Throw(h),
         UNCHANGED <<balance, entries, stalls>>
  PROVE  WalletInv'
<1>1. handler'[h] = Idle /\ \A g \in Handlers \ {h} : handler'[g] = handler[g]
  BY DEF Throw, Assign, TypeOK
<1>2. Idle.phase = "idle" /\ Idle.job = None
  BY DEF Idle
<1>3. Covered /\ \A g \in Handlers : handler'[g] = handler[g] \/ handler'[g].phase = "idle"
  BY <1>1, <1>2 DEF WalletInv
<1>4. CASE h = Worker
  <2>1. PICK j \in Jobs : j = handler[h].job
    BY <1>4 DEF WalletInv, Delivery
  <2>2. /\ job' = [job EXCEPT ![j] = AfterThrow(j)]
        /\ throws' = [throws EXCEPT ![j] = @ + 1]
    BY <2>1, NoneAssumption DEF Throw
  <2>3. /\ job'[j] = AfterThrow(j) /\ throws'[j] = throws[j] + 1 /\ stalls'[j] = stalls[j]
        /\ \A i \in Jobs \ {j} : job'[i] = job[i] /\ throws'[i] = throws[i] /\ stalls'[i] = stalls[i]
    BY <2>2 DEF TypeOK
  <2>4. \A c \in Clients : handler'[c] = handler[c] \/ handler'[c] = Idle
    BY <1>1 DEF Handlers
  <2>5. (\A i \in Jobs : Tries(i)' = Tries(i)) /\ Delivery' /\ AtLeastOnce'
    BY <1>1, <1>4, <2>1, <2>3, <2>4, GivesBack
  <2>6. QED
    BY <1>3, <2>5, CoveredStays DEF WalletInv
<1>5. CASE h # Worker
  <2>1. h \in Clients /\ UNCHANGED <<job, throws>> /\ handler'[Worker] = handler[Worker]
    BY <1>1, <1>5 DEF WalletInv, Delivery, Throw, Handlers
  <2>2. \A i \in Jobs : Tries(i)' = Tries(i)
    BY <2>1 DEF Tries
  <2>3. Delivery'
    BY <1>1, <1>2, <2>1, <2>2 DEF WalletInv, Delivery, Waiting, Handlers
  <2>4. AtLeastOnce'
    BY <2>1, <2>2 DEF WalletInv, AtLeastOnce
  <2>5. QED
    BY <1>3, <2>2, <2>3, <2>4, CoveredStays DEF WalletInv
<1>6. QED
  BY <1>4, <1>5

\* The end of the process.
LEMMA StopInv ==
  ASSUME TypeOK, WalletInv, Stop PROVE WalletInv'
<1>1. \A h \in Handlers : handler'[h] = Idle
  BY DEF Stop
<1>2. Idle.phase = "idle" /\ Idle.job = None /\ Worker \in Handlers /\ Clients \subseteq Handlers
  BY DEF Idle, Handlers
<1>3. UNCHANGED <<balance, entries, throws>> /\ Covered
  BY DEF Stop, WalletInv
<1>4. CASE Waiting(Worker)
  <2>1. UNCHANGED <<job, stalls>>
    BY <1>4 DEF Stop
  <2>2. \A i \in Jobs : Tries(i)' = Tries(i)
    BY <1>3, <2>1 DEF Tries
  <2>3. Delivery'
    BY <1>1, <1>2, <1>3, <1>4, <2>1, <2>2, NoneAssumption DEF WalletInv, Delivery, Waiting
  <2>4. AtLeastOnce'
    BY <1>3, <2>1, <2>2 DEF WalletInv, AtLeastOnce
  <2>5. QED
    BY <1>1, <1>2, <1>3, <2>2, <2>3, <2>4, CoveredStays DEF WalletInv
<1>5. CASE ~Waiting(Worker)
  <2>1. PICK j \in Jobs : j = handler[Worker].job
    BY <1>5 DEF WalletInv, Delivery
  <2>2. /\ job' = [job EXCEPT ![j] = AfterStall(j)]
        /\ stalls' = [stalls EXCEPT ![j] = @ + 1]
    BY <1>5, <2>1 DEF Stop
  <2>3. /\ job'[j] = AfterStall(j) /\ stalls'[j] = stalls[j] + 1 /\ throws'[j] = throws[j]
        /\ \A i \in Jobs \ {j} : job'[i] = job[i] /\ throws'[i] = throws[i] /\ stalls'[i] = stalls[i]
    BY <1>3, <2>2 DEF TypeOK
  <2>4. handler'[Worker] = Idle /\ \A c \in Clients : handler'[c] = Idle
    BY <1>1, <1>2
  <2>5. (\A i \in Jobs : Tries(i)' = Tries(i)) /\ Delivery' /\ AtLeastOnce'
    BY <1>3, <1>5, <2>1, <2>3, <2>4, GivesBack
  <2>6. QED
    BY <1>1, <1>2, <1>3, <2>5, CoveredStays DEF WalletInv
<1>6. QED
  BY <1>4, <1>5

LEMMA WalletStep == TypeOK /\ WalletInv /\ [Next]_vars => WalletInv'
<1> SUFFICES ASSUME TypeOK, WalletInv, [Next]_vars PROVE WalletInv'
  OBVIOUS
<1>a. Worker \in Handlers /\ Worker \notin Clients /\ Clients \subseteq Handlers
  BY WorkerAssumption DEF Handlers
<1>b. \A h \in Handlers : handler[h] \in HandlerState
  BY DEF TypeOK
<1>c. Covered /\ \A u \in Users : Earned(u) \in Int
  BY EarnedType DEF WalletInv
<1>1. ASSUME NEW j \in Jobs, Enqueue(j) PROVE WalletInv'
  <2>1. /\ job[j] = "unqueued" /\ job'[j] = "waiting"
        /\ \A i \in Jobs \ {j} : job'[i] = job[i]
        /\ UNCHANGED <<balance, entries, throws, stalls, handler>>
    BY <1>1 DEF Enqueue, TypeOK
  <2>2. \A i \in Jobs : Tries(i)' = Tries(i)
    BY <2>1 DEF Tries
  <2>3. throws[j] < MaxAttempts /\ stalls[j] <= MaxStalls
    <3>1. throws[j] \in Nat /\ stalls[j] \in Nat /\ throws[j] + stalls[j] = 0
      BY <2>1 DEF TypeOK, WalletInv, Delivery, Tries
    <3>2. QED
      BY <3>1, BoundsAssumption
  <2>4. Delivery'
    BY <2>1, <2>2, <2>3 DEF WalletInv, Delivery, Waiting
  <2>5. AtLeastOnce'
    BY <2>1, <2>2 DEF WalletInv, AtLeastOnce
  <2>6. QED
    BY <1>c, <2>1, <2>2, <2>4, <2>5, CoveredStays DEF WalletInv
<1>2. ASSUME NEW j \in Jobs, Take(j) PROVE WalletInv'
  <2>1. Owner[j] \in Users /\ Amount[j] \in Nat
    BY JobsAssumption
  <2>2. PICK x : x = Find(Owner[j], Amount[j], j)
    OBVIOUS
  <2>3. /\ x.phase \in {"found", "missing"} /\ x.job = j /\ x.change = Amount[j]
        /\ x.read = balance[Owner[j]] /\ x.user = Owner[j]
    BY <2>2 DEF Find
  <2>4. handler' = [handler EXCEPT ![Worker] = x] /\ handler[Worker].phase = "idle"
    BY <1>2, <2>2 DEF Take, Assign, Waiting
  <2>5. handler'[Worker] = x /\ \A g \in Handlers \ {Worker} : handler'[g] = handler[g]
    BY <1>a, <2>4 DEF TypeOK
  <2>6. UNCHANGED <<balance, entries, throws, stalls>> /\ job[j] = "waiting"
    BY <1>2 DEF Take
  <2>7. /\ job'[j] = "active" /\ \A i \in Jobs \ {j} : job'[i] = job[i]
        /\ \A i \in Jobs : Tries(i) \in Nat /\ entries[i] \in Nat
    BY <1>2, EarningsType DEF Take, TypeOK
  <2>8. \A i \in Jobs : job[i] # "active"
    BY <2>4, NoneAssumption DEF WalletInv, Delivery, Waiting
  <2>9. Tries(j)' = Tries(j) + 1 /\ \A i \in Jobs \ {j} : Tries(i)' = Tries(i)
    <3>1. throws[j] \in Nat /\ stalls[j] \in Nat
      BY DEF TypeOK
    <3>2. QED
      BY <2>6, <2>7, <3>1 DEF Tries
  <2>10. Covered'
    <3>1. /\ \A u \in Users : Earned(u)' >= Earned(u) /\ Earned(u)' \in Int
          /\ Earned(Owner[j])' = Earned(Owner[j]) + Amount[j]
      BY <1>c, <2>1, <2>9, EarnedGrows
    <3>2. \A u \in Users : balance[u] \in Int /\ 0 <= balance[u] /\ balance[u] <= Earned(u)
      BY <1>c DEF TypeOK, Covered, BalanceBounded
    <3>3. BalanceBounded'
      BY <1>c, <2>6, <3>1, <3>2 DEF BalanceBounded
    <3>4. balance[Owner[j]] + Amount[j] <= Earned(Owner[j])'
      BY <1>c, <2>1, <3>1, <3>2
    <3>5. /\ x.read + x.change >= 0 /\ x.read >= 0 /\ x.change >= 0
          /\ \A u \in Users : x.user = u => x.read + x.change <= Earned(u)'
      BY <2>1, <2>3, <3>2, <3>4
    <3>6. \A u \in Users : Earned(u)' \in Int /\ Earned(u) <= Earned(u)'
      BY <1>c, <3>1
    <3>7. 0 <= x.read + (IF x.phase = "missing" THEN 0 ELSE x.change)
      BY <2>1, <2>3, <3>2, <3>5
    <3>8. QED
      BY <1>a, <1>c, <2>5, <3>3, <3>5, <3>6, <3>7, CoveredStep
  <2>11. \A c \in Clients : handler'[c] = handler[c]
    BY <1>a, <2>5
  <2>12. \A i \in Jobs : entries[i] <= Tries(i) /\ Tries(i) <= MaxAttempts + MaxStalls
    BY DEF WalletInv, AtLeastOnce
  <2>13. throws[j] < MaxAttempts /\ stalls[j] <= MaxStalls
    BY <2>6 DEF WalletInv, Delivery
  <2>14. Delivery'
    <3>1. entries[j] < Tries(j)'
      BY <2>7, <2>9, <2>12
    <3>2. ASSUME NEW i \in Jobs \ {j}
          PROVE  /\ job'[i] = "unqueued" => Tries(i)' = 0
                 /\ job'[i] \in {"waiting", "active"} => throws'[i] < MaxAttempts /\ stalls'[i] <= MaxStalls
                 /\ job'[i] # "active"
      BY <2>6, <2>7, <2>8, <2>9 DEF WalletInv, Delivery
    <3>3. \A c \in Clients : handler'[c].job = None /\ handler'[c].phase # "recorded"
      BY <2>11 DEF WalletInv, Delivery
    <3>4. ASSUME NEW i \in Jobs
          PROVE  /\ job'[i] = "unqueued" => Tries(i)' = 0
                 /\ job'[i] \in {"waiting", "active"} => throws'[i] < MaxAttempts /\ stalls'[i] <= MaxStalls
                 /\ job'[i] = "active" => i = j
      BY <2>6, <2>7, <2>13, <3>2
    <3>5. handler'[Worker].job = j /\ handler'[Worker].phase \in {"found", "missing"}
      BY <2>3, <2>5
    <3>6. \A i \in Jobs :
            /\ job'[i] = "active" => handler'[Worker].job = i
            /\ job'[i] = "active" /\ handler'[Worker].phase = "recorded" => entries'[i] >= 1
            /\ job'[i] = "active" /\ handler'[Worker].phase # "recorded" => entries'[i] < Tries(i)'
      BY <2>6, <3>1, <3>4, <3>5
    <3>7. ~Waiting(Worker)' /\ handler'[Worker].job \in Jobs /\ job'[handler'[Worker].job] = "active"
      BY <2>7, <3>5 DEF Waiting
    <3>8. \A i \in Jobs :
            /\ job'[i] = "unqueued" => Tries(i)' = 0
            /\ job'[i] \in {"waiting", "active"} => throws'[i] < MaxAttempts /\ stalls'[i] <= MaxStalls
      BY <3>4
    <3>9. QED
      BY <3>3, <3>6, <3>7, <3>8 DEF Delivery
  <2>15. AtLeastOnce'
    <3>1. Tries(j)' <= MaxAttempts + MaxStalls
      <4>1. throws[j] \in Nat /\ stalls[j] \in Nat /\ Tries(j)' = throws[j] + stalls[j] + 1
        BY <2>6, <2>7 DEF TypeOK, Tries
      <4>2. QED
        BY <2>13, <4>1, BoundsAssumption
    <3>2. ASSUME NEW i \in Jobs
          PROVE  /\ job'[i] = "done" => entries'[i] >= 1
                 /\ job'[i] = "failed" => throws'[i] = MaxAttempts \/ stalls'[i] > MaxStalls
      BY <2>6, <2>7 DEF WalletInv, AtLeastOnce
    <3>3. \A i \in Jobs : entries'[i] <= Tries(i)'
      BY <2>6, <2>7, <2>9, <2>12
    <3>4. \A i \in Jobs : Tries(i)' <= MaxAttempts + MaxStalls
      BY <2>9, <2>12, <3>1
    <3>5. QED
      BY <3>2, <3>3, <3>4 DEF AtLeastOnce
  <2>16. QED
    BY <2>10, <2>14, <2>15 DEF WalletInv
<1>3. ASSUME NEW u \in Users, Register(u) PROVE WalletInv'
  <2>1. UNCHANGED <<balance, entries, job, throws, stalls, handler>>
    BY <1>3 DEF Register
  <2>2. \A i \in Jobs : Tries(i)' = Tries(i)
    BY <2>1 DEF Tries
  <2>3. QED
    BY <1>c, <2>1, <2>2, CoveredStays DEF WalletInv, Delivery, AtLeastOnce, Waiting
<1>4. ASSUME NEW c \in Clients, Withdraw(c) \/ Look(c) PROVE WalletInv'
  <2>1. PICK u \in Users, amount \in Nat :
          /\ Assign(c, Find(u, -amount, None))
          /\ u \in wallets => balance[u] >= amount
    BY <1>4, AmountsAssumption DEF Withdraw, Look
  <2> DEFINE x == Find(u, -amount, None)
  <2>2. /\ x.phase \in {"found", "missing"} /\ x.job = None /\ x.change = -amount
        /\ x.read = balance[u] /\ x.user = u /\ (x.phase = "found" => u \in wallets)
    BY DEF Find
  <2>3. handler'[c] = x /\ \A g \in Handlers \ {c} : handler'[g] = handler[g]
    BY <1>a, <2>1 DEF Assign, TypeOK
  <2>4. handler'[Worker] = handler[Worker]
    BY <1>a, <2>3
  <2>5. UNCHANGED <<balance, entries, job, throws, stalls>>
    BY <1>4 DEF Withdraw, Look
  <2>. HIDE DEF x
  <2>6. \A i \in Jobs : Tries(i)' = Tries(i)
    BY <2>5 DEF Tries
  <2>7. Covered'
    <3>1. \A v \in Users : Earned(v)' = Earned(v)
      BY <2>6, EarnedStays
    <3>2. balance[u] \in Int /\ 0 <= balance[u] /\ balance[u] <= Earned(u)
      BY <1>c DEF TypeOK, Covered, BalanceBounded
    <3>3. /\ x.read \in Int /\ x.change \in Int /\ x.read >= 0
          /\ x.phase = "found" => x.read + x.change >= 0
      BY <2>1, <2>2, <3>2
    <3>4. \A v \in Users : x.user = v => x.read + x.change <= Earned(v)'
      <4>1. balance[u] + -amount <= Earned(u)
        BY <1>c, <3>2
      <4>2. QED
        BY <2>2, <3>1, <4>1
    <3>5. BalanceBounded'
      BY <1>c, <2>5, <3>1 DEF Covered, BalanceBounded
    <3>6. c \in Handlers /\ c # Worker
      BY <1>a
    <3>7. \A v \in Users : Earned(v)' \in Int /\ Earned(v) <= Earned(v)'
      BY <1>c, <3>1
    <3>8. QED
      BY <1>c, <2>3, <3>3, <3>4, <3>5, <3>6, <3>7, CoveredStep
  <2>8. Delivery'
    BY <1>a, <2>2, <2>3, <2>4, <2>5, <2>6 DEF WalletInv, Delivery, Waiting
  <2>9. QED
    BY <2>5, <2>6, <2>7, <2>8 DEF WalletInv, AtLeastOnce
<1>5. ASSUME NEW h \in Handlers, Create(h) PROVE WalletInv'
  <2>1. ~Waiting(h) /\ UNCHANGED <<balance, entries, stalls>> /\ handler[h].phase = "missing"
    BY <1>5 DEF Create, Waiting
  <2>2. CASE Throw(h)
    BY <2>1, <2>2, ThrowInv
  <2>3. CASE /\ Assign(h, IF h = Worker THEN [handler[h] EXCEPT !.phase = "found", !.read = 0]
                          ELSE Idle)
             /\ UNCHANGED <<job, throws>>
    <3>1. \A g \in Handlers \ {h} : handler'[g] = handler[g]
      BY <2>3 DEF Assign, TypeOK
    <3>2. \A i \in Jobs : Tries(i)' = Tries(i)
      BY <2>1, <2>3 DEF Tries
    <3>3. CASE h = Worker
      <4>1. handler'[h] = [handler[h] EXCEPT !.phase = "found", !.read = 0]
        BY <2>3, <3>3 DEF Assign, TypeOK
      <4>2. /\ handler'[h].phase = "found" /\ handler'[h].read = 0
            /\ handler'[h].change = handler[h].change /\ handler'[h].job = handler[h].job
            /\ handler'[h].user = handler[h].user /\ handler[h].user \in Users
            /\ handler[h].change \in Int /\ handler[h].read \in Int
        BY <1>b, <2>1, <4>1 DEF HandlerState, TypeOK
      <4>3. Covered'
        <5>1. \A v \in Users : Earned(v)' = Earned(v)
          BY <3>2, EarnedStays
        <5>2. BalanceBounded'
          BY <1>c, <2>1, <5>1 DEF Covered, BalanceBounded
        <5>3. PICK u \in Users : u = handler[h].user
          BY <4>2
        <5>4. /\ handler[h].read >= 0 /\ handler[h].change >= 0
              /\ handler[h].read + handler[h].change <= Earned(u)
          BY <1>c, <2>1, <3>3, <4>2, <5>3 DEF Covered, Waiting
        <5>5. PICK y : y = handler'[h]
          OBVIOUS
        <5>6. /\ y.phase = "found" /\ y.read = 0 /\ y.change >= 0 /\ y.change \in Int
              /\ y.user = u /\ y.read + y.change <= Earned(u)'
          BY <1>c, <4>2, <5>1, <5>3, <5>4, <5>5
        <5>7. \A v \in Users : Earned(v)' \in Int /\ Earned(v) <= Earned(v)'
          BY <1>c, <5>1
        <5>8. QED
          BY <1>c, <3>1, <5>2, <5>5, <5>6, <5>7, CoveredStep
      <4>4. Delivery'
        BY <1>a, <2>1, <2>3, <3>1, <3>2, <3>3, <4>2 DEF WalletInv, Delivery, Waiting
      <4>5. QED
        BY <2>1, <2>3, <3>2, <4>3, <4>4 DEF WalletInv, AtLeastOnce
    <3>4. CASE h # Worker
      <4>1. handler'[h] = Idle /\ h \in Clients /\ Idle.phase = "idle"
        BY <2>3, <3>4 DEF Assign, TypeOK, Handlers, Idle
      <4>2. Covered'
        BY <1>c, <2>1, <3>1, <3>2, <4>1, CoveredStays
      <4>3. Delivery'
        BY <1>a, <2>1, <2>3, <3>1, <3>2, <3>4, <4>1 DEF WalletInv, Delivery, Waiting, Idle
      <4>4. QED
        BY <2>1, <2>3, <3>2, <4>2, <4>3 DEF WalletInv, AtLeastOnce
    <3>5. QED
      BY <3>3, <3>4
  <2>4. QED
    BY <1>5, <2>2, <2>3 DEF Create
<1>6. ASSUME NEW h \in Handlers, Write(h) PROVE WalletInv'
  <2> DEFINE x == handler[h]
  <2>1. x.user \in Users /\ x.read \in Int /\ x.change \in Int /\ x.phase = "found"
    BY <1>6, <1>b DEF Write, TypeOK, HandlerState
  <2>2. x.read + x.change >= 0
    BY <1>c, <2>1 DEF Covered
  <2>3. \A u \in Users : balance'[u] = IF u = x.user THEN x.read + x.change ELSE balance[u]
    BY <1>6 DEF Write, TypeOK
  <2>4. handler'[h] = [x EXCEPT !.phase = "written"] /\ \A g \in Handlers \ {h} : handler'[g] = handler[g]
    BY <1>6 DEF Write, Assign, TypeOK
  <2>5. handler'[h].phase = "written" /\ handler'[h].change = x.change /\ handler'[h].job = x.job
    BY <1>b, <2>4 DEF HandlerState
  <2>6. UNCHANGED <<entries, job, throws, stalls>> /\ \A i \in Jobs : Tries(i)' = Tries(i)
    BY <1>6 DEF Write, Tries
  <2>7. Covered'
    <3>1. \A v \in Users : Earned(v)' = Earned(v)
      BY <2>6, EarnedStays
    <3>2. \A u \in Users : u = x.user => x.read + x.change <= Earned(u)
      BY <1>c, <2>1 DEF Covered
    <3>3. BalanceBounded'
      BY <1>c, <2>1, <2>2, <2>3, <3>1, <3>2 DEF Covered, BalanceBounded
    <3>4. PICK y : y = handler'[h]
      OBVIOUS
    <3>5. y.phase = "written" /\ (h = Worker => y.change >= 0)
      BY <1>c, <2>1, <2>5, <3>4 DEF Covered, Waiting
    <3>6. \A v \in Users : Earned(v)' \in Int /\ Earned(v) <= Earned(v)'
      BY <1>c, <3>1
    <3>7. QED
      BY <1>c, <2>4, <3>3, <3>4, <3>5, <3>6, CoveredStep
  <2>8. Delivery'
    <3>1. \A g \in Handlers :
            /\ handler'[g].job = handler[g].job
            /\ handler'[g].phase = "recorded" <=> handler[g].phase = "recorded"
            /\ handler'[g].phase = "idle" <=> handler[g].phase = "idle"
      BY <2>1, <2>4, <2>5
    <3>2. QED
      BY <1>a, <2>6, <3>1 DEF WalletInv, Delivery, Waiting
  <2>9. QED
    BY <2>6, <2>7, <2>8 DEF WalletInv, AtLeastOnce
<1>7. ASSUME NEW h \in Handlers, Record(h) PROVE WalletInv'
  <2> DEFINE x == handler[h]
  <2>1. x.phase = "written" /\ UNCHANGED <<balance, job, throws, stalls>> /\ \A i \in Jobs : Tries(i)' = Tries(i)
    BY <1>7 DEF Record, Tries
  <2>2. \A g \in Handlers \ {h} : handler'[g] = handler[g]
    BY <1>7 DEF Record, Assign, TypeOK
  <2>3. CASE h = Worker
    <3>1. PICK j \in Jobs : j = x.job /\ job[j] = "active"
      BY <2>1, <2>3 DEF WalletInv, Delivery, Waiting
    <3>2. \A i \in Jobs : entries'[i] = IF i = j THEN entries[i] + 1 ELSE entries[i]
      BY <1>7, <3>1, NoneAssumption DEF Record, TypeOK
    <3>3. handler'[h] = [x EXCEPT !.phase = "recorded"]
      BY <1>7, <2>3 DEF Record, Assign, TypeOK
    <3>4. /\ handler'[h].phase = "recorded" /\ handler'[h].change = x.change
          /\ handler'[h].job = x.job
      BY <1>b, <3>3 DEF HandlerState
    <3>5. Covered'
      BY <1>c, <2>1, <2>2, <2>3, <3>4, CoveredStays
    <3>6. entries[j] < Tries(j) /\ \A i \in Jobs : entries[i] \in Nat /\ Tries(i) \in Nat
      BY <2>1, <2>3, <3>1, EarningsType DEF WalletInv, Delivery, TypeOK
    <3>7. Delivery'
      BY <1>a, <2>1, <2>2, <2>3, <3>1, <3>2, <3>4, <3>6 DEF WalletInv, Delivery, Waiting
    <3>8. AtLeastOnce'
      BY <2>1, <3>2, <3>6 DEF WalletInv, AtLeastOnce
    <3>9. QED
      BY <3>5, <3>7, <3>8 DEF WalletInv
  <2>4. CASE h # Worker
    <3>1. h \in Clients /\ x.job = None /\ handler'[Worker] = handler[Worker]
      BY <1>a, <2>2, <2>4 DEF WalletInv, Delivery, Handlers
    <3>2. handler'[h] = Idle /\ entries' = entries
      BY <1>7, <2>4, <3>1 DEF Record, Assign, TypeOK
    <3>3. Covered'
      BY <1>c, <2>1, <2>2, <3>1, <3>2, CoveredStays DEF Idle
    <3>4. Delivery'
      BY <1>a, <2>1, <2>2, <3>1, <3>2 DEF WalletInv, Delivery, Waiting, Idle
    <3>5. QED
      BY <2>1, <3>2, <3>3, <3>4 DEF WalletInv, AtLeastOnce
  <2>5. QED
    BY <2>3, <2>4
<1>8. CASE Acknowledge
  <2>1. /\ handler[Worker].phase = "recorded" /\ UNCHANGED <<balance, entries, throws, stalls>>
        /\ handler'[Worker] = Idle
        /\ \A c \in Clients : handler'[c] = handler[c]
    BY <1>8, <1>a DEF Acknowledge, Assign, TypeOK
  <2>2. PICK j \in Jobs : j = handler[Worker].job /\ job[j] = "active" /\ entries[j] >= 1
    BY <2>1 DEF WalletInv, Delivery, Waiting
  <2>3. /\ job'[j] = "done"
        /\ \A i \in Jobs \ {j} : job'[i] = job[i] /\ job[i] # "active"
    <3>1. job' = [job EXCEPT ![j] = "done"]
      BY <1>8, <2>2 DEF Acknowledge
    <3>2. job'[j] = "done" /\ \A i \in Jobs \ {j} : job'[i] = job[i]
      BY <3>1 DEF TypeOK
    <3>3. \A i \in Jobs \ {j} : job[i] # "active"
      BY <2>2 DEF WalletInv, Delivery
    <3>4. QED
      BY <3>2, <3>3
  <2>4. \A i \in Jobs : Tries(i)' = Tries(i)
    BY <2>1, <2>2, <2>3 DEF Tries
  <2>5. Covered'
    BY <1>c, <2>1, <2>4, CoveredStays DEF Handlers, Idle
  <2>6. Delivery'
    BY <2>1, <2>2, <2>3, <2>4 DEF WalletInv, Delivery, Waiting, Idle
  <2>7. AtLeastOnce'
    BY <2>1, <2>2, <2>3, <2>4 DEF WalletInv, AtLeastOnce
  <2>8. QED
    BY <2>5, <2>6, <2>7 DEF WalletInv
<1>9. ASSUME NEW h \in Handlers, Fail(h) PROVE WalletInv'
  BY <1>9, ThrowInv DEF Fail
<1>10. CASE Stop
  BY <1>10, StopInv
<1>11. CASE UNCHANGED vars
  <2>1. UNCHANGED <<balance, entries, job, throws, stalls, handler>>
    BY <1>11 DEF vars
  <2>2. \A i \in Jobs : Tries(i)' = Tries(i)
    BY <2>1 DEF Tries
  <2>3. QED
    BY <1>c, <2>1, <2>2, CoveredStays DEF WalletInv, Delivery, AtLeastOnce, Waiting
<1>12. QED
  BY <1>1, <1>2, <1>3, <1>4, <1>5, <1>6, <1>7, <1>8, <1>9, <1>10, <1>11 DEF Next, HandlerStep

-----------------------------------------------------------------------------
(***************************************************************************)
(* The rows account for the balances.  A write that was not stale adds to  *)
(* the balance what its handler has still to insert, and the insert takes  *)
(* it from there: the property is inductive once it is known that only     *)
(* finitely many handlers are between the two.                             *)
(***************************************************************************)
RowsInv ==
  /\ Reconciled
  /\ \A u \in Users : IsFiniteSet(Writing(u))

LEMMA RowsInit == Init => RowsInv
<1> SUFFICES ASSUME Init, NEW u \in Users
             PROVE  IsFiniteSet(Writing(u)) /\ balance[u] = booked[u] + SumFunction(Unbooked(u))
  BY DEF RowsInv, Reconciled
<1>1. Writing(u) = {}
  BY DEF Init, Writing, Idle
<1>2. DOMAIN Unbooked(u) = {}
  BY <1>1 DEF Unbooked
<1>3. SumFunction(Unbooked(u)) = 0
  BY <1>2, SumOfNothing
<1>4. QED
  BY <1>1, <1>3, FS_EmptySet DEF Init

\* A handler that has not written goes on to anything but a write.
LEMMA WritesNothing ==
  ASSUME RowsInv, TypeOK, NEW h \in Handlers, NEW x, Assign(h, x),
         handler[h].phase # "written", x.phase # "written",
         UNCHANGED <<balance, booked, stale, torn>>
  PROVE  RowsInv'
<1>1. handler' = [g \in Handlers |-> IF g = h THEN x ELSE handler[g]]
  BY DEF Assign, TypeOK
<1>2. ASSUME NEW u \in Users PROVE Writing(u)' = Writing(u) /\ Unbooked(u)' = Unbooked(u)
  <2>1. Writing(u)' = Writing(u) /\ \A g \in Writing(u) : handler'[g] = handler[g]
    BY <1>1 DEF Writing
  <2>2. QED
    BY <2>1 DEF Unbooked
<1>3. QED
  BY <1>2 DEF RowsInv, Reconciled

\* The rows of the users whom the handler does not serve stay as they are.
LEMMA OthersUnchanged ==
  ASSUME TypeOK, NEW h \in Handlers, NEW x, Assign(h, x),
         handler[h].phase = "idle" \/ x.phase = "idle" \/ x.user = handler[h].user,
         NEW u \in Users, u # handler[h].user, x.phase = "written" => u # x.user
  PROVE  Writing(u)' = Writing(u) /\ Unbooked(u)' = Unbooked(u)
<1>1. handler' = [g \in Handlers |-> IF g = h THEN x ELSE handler[g]]
  BY DEF Assign, TypeOK
<1>2. Writing(u)' = Writing(u) /\ \A g \in Writing(u) : handler'[g] = handler[g]
  BY <1>1 DEF Writing
<1>3. QED
  BY <1>2 DEF Unbooked

LEMMA UnbookedType ==
  ASSUME TypeOK, NEW u PROVE Unbooked(u) \in [Writing(u) -> Int]
BY DEF TypeOK, Unbooked, Writing, HandlerState

\* A write that nobody came before changes the balance by what is still to be
\* inserted; one that somebody came before makes the user's balance stale.
LEMMA WriteKeepsRows ==
  ASSUME RowsInv, TypeOK, NEW h \in Handlers, Write(h)
  PROVE  RowsInv'
<1> DEFINE x == handler[h]
<1>1. PICK y : y = [x EXCEPT !.phase = "written"]
  OBVIOUS
<1>2. /\ x.user \in Users /\ x.read \in Int /\ x.change \in Int
      /\ y.phase = "written" /\ y.user = x.user /\ y.change = x.change
  BY <1>1 DEF Write, TypeOK, HandlerState
<1>3. handler' = [g \in Handlers |-> IF g = h THEN y ELSE handler[g]]
  BY <1>1 DEF Write, Assign, TypeOK
<1>4. ASSUME NEW u \in Users, u # x.user
      PROVE  /\ IsFiniteSet(Writing(u)')
             /\ u \notin stale' \cup torn' => balance'[u] = booked'[u] + SumFunction(Unbooked(u)')
  <2>1. Writing(u)' = Writing(u) /\ Unbooked(u)' = Unbooked(u)
    BY <1>1, <1>2, <1>4, OthersUnchanged DEF Write
  <2>2. balance'[u] = balance[u] /\ booked' = booked /\ stale \subseteq stale' /\ torn' = torn
    BY <1>4 DEF Write, TypeOK
  <2>3. QED
    BY <2>1, <2>2 DEF RowsInv, Reconciled
<1>5. ASSUME NEW u \in Users, u = x.user
      PROVE  /\ IsFiniteSet(Writing(u)')
             /\ u \notin stale' \cup torn' => balance'[u] = booked'[u] + SumFunction(Unbooked(u)')
  <2>1. /\ h \notin Writing(u) /\ Writing(u)' = Writing(u) \cup {h}
        /\ \A g \in Writing(u) : handler'[g].change = handler[g].change
        /\ handler'[h].change = x.change
    BY <1>2, <1>3, <1>5 DEF Writing, Write
  <2>2. IsFiniteSet(Writing(u)) /\ IsFiniteSet(Writing(u)')
    <3>1. IsFiniteSet(Writing(u))
      BY DEF RowsInv
    <3>2. QED
      BY <2>1, <3>1, FS_AddElement
  <2>3. PICK S, f, e : S = Writing(u) /\ f = Unbooked(u) /\ e = Unbooked(u)'
    OBVIOUS
  <2>4. f \in [S -> Int]
    BY <2>3, UnbookedType
  <2>5. e \in [S \cup {h} -> Int] /\ e[h] = x.change /\ \A g \in S : e[g] = f[g]
    <3>1. e = [g \in S \cup {h} |-> handler'[g].change] /\ f = [g \in S |-> handler[g].change]
      BY <2>1, <2>3 DEF Unbooked
    <3>2. \A g \in S : e[g] = f[g] /\ f[g] \in Int
      BY <2>1, <2>3, <2>4, <3>1
    <3>3. e[h] = x.change
      BY <2>1, <3>1
    <3>4. \A g \in S \cup {h} : e[g] \in Int
      BY <1>2, <3>2, <3>3
    <3>. HIDE DEF x
    <3>5. QED
      BY <3>1, <3>2, <3>3, <3>4
  <2>6. SumFunction(f) \in Int /\ SumFunction(e) = SumFunction(f) + x.change
    <3>1. h \notin S /\ IsFiniteSet(S)
      BY <2>1, <2>2, <2>3
    <3>2. SumFunction(f) \in Int /\ SumFunction(e) = SumFunction(f) + e[h]
      BY <2>4, <2>5, <3>1, SumOfOneMore
    <3>3. QED
      BY <2>5, <3>2
  <2>7. ASSUME u \notin stale' \cup torn'
        PROVE  balance'[u] = booked'[u] + SumFunction(e)
    <3>1. u \notin stale /\ u \notin torn /\ balance[u] = x.read
      BY <1>5, <2>7 DEF Write
    <3>2. balance'[u] = balance[u] + x.change /\ booked' = booked
      BY <1>2, <1>5, <3>1 DEF Write, TypeOK
    <3>3. balance[u] = booked[u] + SumFunction(f)
      BY <2>3, <3>1 DEF RowsInv, Reconciled
    <3>4. booked[u] \in Int
      BY DEF TypeOK
    <3>5. QED
      BY <1>2, <2>6, <3>2, <3>3, <3>4
  <2>8. QED
    BY <2>2, <2>3, <2>7
<1>6. QED
  BY <1>4, <1>5 DEF RowsInv, Reconciled

\* An insert moves the change from what is to be inserted to what is booked.
LEMMA RecordKeepsRows ==
  ASSUME RowsInv, TypeOK, NEW h \in Handlers, Record(h)
  PROVE  RowsInv'
<1> DEFINE x == handler[h]
<1>1. PICK y : y \in {[x EXCEPT !.phase = "recorded"], Idle} /\ Assign(h, y)
  BY DEF Record
<1>2. /\ x.user \in Users /\ x.change \in Int /\ x.phase = "written"
      /\ y.phase # "written" /\ (y.phase = "idle" \/ y.user = x.user)
  BY <1>1 DEF Record, TypeOK, HandlerState, Idle
<1>3. handler' = [g \in Handlers |-> IF g = h THEN y ELSE handler[g]]
  BY <1>1 DEF Assign, TypeOK
<1>4. ASSUME NEW u \in Users, u # x.user
      PROVE  /\ IsFiniteSet(Writing(u)')
             /\ u \notin stale' \cup torn' => balance'[u] = booked'[u] + SumFunction(Unbooked(u)')
  <2>1. Writing(u)' = Writing(u) /\ Unbooked(u)' = Unbooked(u)
    BY <1>1, <1>2, <1>4, OthersUnchanged
  <2>2. balance' = balance /\ booked'[u] = booked[u] /\ stale' = stale /\ torn' = torn
    BY <1>4 DEF Record, TypeOK
  <2>3. QED
    BY <2>1, <2>2 DEF RowsInv, Reconciled
<1>5. ASSUME NEW u \in Users, u = x.user
      PROVE  /\ IsFiniteSet(Writing(u)')
             /\ u \notin stale' \cup torn' => balance'[u] = booked'[u] + SumFunction(Unbooked(u)')
  <2>1. PICK S, f, e : S = Writing(u)' /\ f = Unbooked(u)' /\ e = Unbooked(u)
    OBVIOUS
  <2>2. /\ h \notin S /\ Writing(u) = S \cup {h}
        /\ \A g \in S : handler'[g] = handler[g]
    BY <1>2, <1>3, <1>5, <2>1 DEF Writing
  <2>3. IsFiniteSet(S)
    <3>1. IsFiniteSet(Writing(u))
      BY DEF RowsInv
    <3>2. QED
      BY <2>2, <3>1, FS_Subset
  <2>4. e \in [S \cup {h} -> Int]
    BY <2>1, <2>2, UnbookedType
  <2>5. f \in [S -> Int] /\ e[h] = x.change /\ \A g \in S : e[g] = f[g]
    <3>1. e = [g \in S \cup {h} |-> handler[g].change] /\ f = [g \in S |-> handler'[g].change]
      BY <2>1, <2>2 DEF Unbooked
    <3>2. QED
      BY <2>2, <2>4, <3>1
  <2>6. SumFunction(f) \in Int /\ SumFunction(e) = SumFunction(f) + x.change
    BY <2>2, <2>3, <2>4, <2>5, SumOfOneMore
  <2>7. ASSUME u \notin stale' \cup torn'
        PROVE  balance'[u] = booked'[u] + SumFunction(f)
    <3>1. u \notin stale /\ u \notin torn /\ balance' = balance
      BY <2>7 DEF Record
    <3>2. booked'[u] = booked[u] + x.change
      BY <1>5 DEF Record, TypeOK
    <3>3. balance[u] = booked[u] + SumFunction(e)
      BY <2>1, <3>1 DEF RowsInv, Reconciled
    <3>4. booked[u] \in Int
      BY DEF TypeOK
    <3>5. QED
      BY <1>2, <2>6, <3>1, <3>2, <3>3, <3>4
  <2>8. QED
    BY <2>1, <2>3, <2>7
<1>6. QED
  BY <1>4, <1>5 DEF RowsInv, Reconciled

\* Handlers that die between write and insert tear the users they serve, and
\* what those of the others have still to insert stays.
LEMMA DyingKeepsRows ==
  ASSUME RowsInv, TypeOK, NEW hs \in SUBSET Handlers,
         handler' = [g \in Handlers |-> IF g \in hs THEN Idle ELSE handler[g]],
         torn' = torn \cup TornBy(hs), UNCHANGED <<balance, booked, stale>>
  PROVE  RowsInv'
<1>1. Idle.phase = "idle"
  BY DEF Idle
<1>2. ASSUME NEW u \in Users PROVE IsFiniteSet(Writing(u)')
  <2>1. Writing(u)' \subseteq Writing(u)
    BY <1>1 DEF Writing
  <2>2. IsFiniteSet(Writing(u))
    BY DEF RowsInv
  <2>3. QED
    BY <2>1, <2>2, FS_Subset
<1>3. ASSUME NEW u \in Users, u \notin stale' \cup torn'
      PROVE  balance'[u] = booked'[u] + SumFunction(Unbooked(u)')
  <2>1. \A h \in hs : ~(handler[h].phase = "written" /\ handler[h].user = u)
    BY <1>3 DEF TornBy
  <2>2. Writing(u)' = Writing(u) /\ \A h \in Writing(u) : handler'[h] = handler[h]
    BY <1>1, <2>1 DEF Writing
  <2>3. Unbooked(u)' = Unbooked(u)
    BY <2>2 DEF Unbooked
  <2>4. QED
    BY <1>3, <2>3 DEF RowsInv, Reconciled
<1>4. QED
  BY <1>2, <1>3 DEF RowsInv, Reconciled

LEMMA RowsStep == TypeOK /\ RowsInv /\ [Next]_vars => RowsInv'
<1> SUFFICES ASSUME TypeOK, RowsInv, [Next]_vars PROVE RowsInv'
  OBVIOUS
<1>a. Worker \in Handlers /\ Clients \subseteq Handlers /\ Idle.phase = "idle"
  BY DEF Handlers, Idle
<1>b. ASSUME NEW u, NEW change, NEW j PROVE Find(u, change, j).phase # "written"
  BY DEF Find
<1>c. ASSUME UNCHANGED <<handler, balance, booked, stale, torn>> PROVE RowsInv'
  BY <1>c DEF RowsInv, Reconciled, Unbooked, Writing
<1>1. ASSUME NEW j \in Jobs, Enqueue(j) PROVE RowsInv'
  BY <1>1, <1>c DEF Enqueue
<1>2. ASSUME NEW j \in Jobs, Take(j) PROVE RowsInv'
  BY <1>2, <1>a, <1>b, WritesNothing DEF Take, Waiting
<1>3. ASSUME NEW u \in Users, Register(u) PROVE RowsInv'
  BY <1>3, <1>c DEF Register
<1>4. ASSUME NEW c \in Clients, Withdraw(c) \/ Look(c) PROVE RowsInv'
  BY <1>4, <1>a, <1>b, WritesNothing DEF Withdraw, Look, Waiting
<1>5. ASSUME NEW h \in Handlers, Create(h) PROVE RowsInv'
  <2>1. PICK x : Assign(h, x) /\ x \in {[handler[h] EXCEPT !.phase = "found", !.read = 0], Idle}
    BY <1>5 DEF Create, Throw
  <2>2. x.phase # "written" /\ handler[h].phase = "missing"
    BY <1>5, <1>a, <2>1 DEF Create, TypeOK, HandlerState
  <2>3. QED
    BY <1>5, <2>1, <2>2, WritesNothing DEF Create
<1>6. ASSUME NEW h \in Handlers, Write(h) \/ Record(h) PROVE RowsInv'
  BY <1>6, WriteKeepsRows, RecordKeepsRows
<1>7. ASSUME NEW h \in Handlers, Fail(h) PROVE RowsInv'
  <2>1. handler' = [g \in Handlers |-> IF g \in {h} THEN Idle ELSE handler[g]]
    BY <1>7 DEF Fail, Throw, Assign, TypeOK
  <2>2. torn' = torn \cup TornBy({h}) /\ UNCHANGED <<balance, booked, stale>>
    BY <1>7 DEF Fail
  <2>3. QED
    BY <2>1, <2>2, DyingKeepsRows
<1>8. CASE Acknowledge
  BY <1>8, <1>a, WritesNothing DEF Acknowledge
<1>9. CASE Stop
  <2>1. handler' = [g \in Handlers |-> IF g \in Handlers THEN Idle ELSE handler[g]]
    BY <1>9 DEF Stop
  <2>2. torn' = torn \cup TornBy(Handlers) /\ UNCHANGED <<balance, booked, stale>>
    BY <1>9 DEF Stop
  <2>3. QED
    BY <2>1, <2>2, DyingKeepsRows
<1>10. CASE UNCHANGED vars
  BY <1>10, <1>c DEF vars
<1>11. QED
  BY <1>1, <1>2, <1>3, <1>4, <1>5, <1>6, <1>7, <1>8, <1>9, <1>10 DEF Next, HandlerStep

-----------------------------------------------------------------------------
\* The tables, the queue and the handlers keep their types.
THEOREM TypeCorrect == Spec => []TypeOK
<1>1. QED
  BY TypeInit, TypeStep, PTL DEF Spec

\* No interleaving of withdrawals and credits, and no retry, makes a balance
\* negative or more than the tries at the user's jobs account for, although each
\* one is written from an older one.
THEOREM BalanceBoundedHolds == Spec => []BalanceBounded
<1>1. WalletInv => BalanceBounded
  BY DEF WalletInv, Covered
<1>2. QED
  BY <1>1, TypeInit, TypeStep, WalletInit, WalletStep, PTL DEF Spec

\* A job that is done was booked, no job was booked more often than tried, and it
\* is given up only when the attempts or the stalls that the queue allows are used.
THEOREM AtLeastOnceHolds == Spec => []AtLeastOnce
<1>1. WalletInv => AtLeastOnce
  BY DEF WalletInv
<1>2. QED
  BY <1>1, TypeInit, TypeStep, WalletInit, WalletStep, PTL DEF Spec

\* The rows of wallet_transactions add up to the balance, but for those that are
\* about to be inserted, as long as no write came over a newer balance and no
\* handler died between its write and its insert.
THEOREM ReconciledHolds == Spec => []Reconciled
<1>1. RowsInv => Reconciled
  BY DEF RowsInv
<1>2. QED
  BY <1>1, TypeInit, TypeStep, RowsInit, RowsStep, PTL DEF Spec

=============================================================================
