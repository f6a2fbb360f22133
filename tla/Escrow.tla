------------------------------- MODULE Escrow -------------------------------
(***************************************************************************)
(* What the platform promises about the money of an order, whatever the    *)
(* handlers do in between: it takes a deposit, holds it while the goods    *)
(* travel, and hands it out once, to the traveler or back to the           *)
(* requester.  An abstract specification of the orders: OrderEscrow shows  *)
(* that OrderLifecycle implements it, MoneyFlow puts the wallets behind    *)
(* it.                                                                     *)
(*                                                                         *)
(* The promise ends for an order on which a stale entity was saved: it is  *)
(* void, and all that is left is that an order which was never paid for    *)
(* is never paid out.                                                      *)
(***************************************************************************)
EXTENDS Naturals

CONSTANT Orders

VARIABLES
  stage,         \* where the money of an order is
  deposited,     \* the orders that were at some time paid for
  credits,       \* wallet jobs for the traveler, per order
  refunds,       \* wallet jobs for the requester, per order
  failures       \* how many handlers died so far

vars == <<stage, deposited, credits, refunds, failures>>

(***************************************************************************)
(* open      nothing is paid            closed    and nothing ever will be *)
(* held      the deposit is kept        frozen    for good, by a dispute   *)
(* released  due to the traveler        returned  due to the requester     *)
(* settled   a wallet job is queued     lost      its handler died first   *)
(* void      a stale entity was saved                                      *)
(***************************************************************************)
Stages == {"open", "closed", "held", "frozen", "released", "returned",
           "settled", "lost", "void"}

Due == {"released", "returned"}

Init ==
  /\ stage = [o \in Orders |-> "open"]
  /\ deposited = {}
  /\ credits = [o \in Orders |-> 0]
  /\ refunds = [o \in Orders |-> 0]
  /\ failures = 0

Move(o, from, to) ==
  /\ stage[o] = from
  /\ stage' = [stage EXCEPT ![o] = to]

Pay(o) ==
  /\ Move(o, "open", "held")
  /\ deposited' = deposited \cup {o}
  /\ UNCHANGED <<credits, refunds, failures>>

\* The deposit is promised to one party, frozen, or never made.
Decide(o) ==
  /\ \/ Move(o, "open", "closed")
     \/ Move(o, "held", "frozen")
     \/ Move(o, "held", "released")
     \/ Move(o, "held", "returned")
  /\ UNCHANGED <<deposited, credits, refunds, failures>>

Credit(o) ==
  /\ o \in deposited
  /\ Move(o, "released", "settled") \/ (stage[o] = "void" /\ UNCHANGED stage)
  /\ credits' = [credits EXCEPT ![o] = @ + 1]
  /\ UNCHANGED <<deposited, refunds, failures>>

Refund(o) ==
  /\ o \in deposited
  /\ Move(o, "returned", "settled") \/ (stage[o] = "void" /\ UNCHANGED stage)
  /\ refunds' = [refunds EXCEPT ![o] = @ + 1]
  /\ UNCHANGED <<deposited, credits, failures>>

\* A handler dies.  If it was the one to queue the wallet job, nobody else will.
Crash ==
  /\ failures' = failures + 1
  /\ \/ UNCHANGED stage
     \/ \E o \in Orders : stage[o] \in Due /\ Move(o, stage[o], "lost")
  /\ UNCHANGED <<deposited, credits, refunds>>

\* A stale entity is saved, which may overwrite the status with 'paid'.
Void(o) ==
  /\ stage' = [stage EXCEPT ![o] = "void"]
  /\ deposited' = deposited \/ deposited' = deposited \cup {o}
  /\ UNCHANGED <<credits, refunds, failures>>

Next ==
  \/ \E o \in Orders : Pay(o) \/ Decide(o) \/ Credit(o) \/ Refund(o) \/ Void(o)
  \/ Crash

Spec == Init /\ [][Next]_vars

\* Money that is due is handed out, unless the handler that had to died.
Settles ==
  \A o \in Orders : stage[o] \in Due ~> stage[o] \in {"settled", "lost", "void"}

=============================================================================
