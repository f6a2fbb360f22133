---------------------------- MODULE OrderEscrow -----------------------------
(***************************************************************************)
(* Orders are an escrow: the refinement of Escrow by OrderLifecycle.       *)
(***************************************************************************)
EXTENDS OrderInvariants

\* Where the money of an order is.  A completed or a refundable order whose
\* wallet job is not queued is due as long as some handler is on the way to
\* queue it, and lost afterwards.
StageOf(o) ==
  IF stale[o] > 0 THEN "void"
  ELSE CASE row[o].status = "pending" -> "open"
         [] row[o].status \in {"paid", "purchased", "shipped", "delivered"} -> "held"
         [] row[o].status = "disputed" -> "frozen"
         [] row[o].status = "completed" ->
              IF credits[o] > 0 THEN "settled"
              ELSE IF Paying(o, "credit") # {} THEN "released" ELSE "lost"
         [] row[o].status = "cancelled" ->
              IF "paid" \notin row[o].stamps THEN "closed"
              ELSE IF refunds[o] > 0 THEN "settled"
              ELSE IF Paying(o, "refund") # {} THEN "returned" ELSE "lost"

stage == [o \in Orders |-> StageOf(o)]

\* The orders that were at some time paid for.
deposited == {o \in Orders : "paid" \in Reached(o)}

\* The mapping: the stage and the deposits are read off the rows and the handlers,
\* the jobs and the deaths are counted alike.
Money == INSTANCE Escrow WITH
           stage     <- stage,
           deposited <- deposited,
           credits   <- credits,
           refunds   <- refunds,
           failures  <- failures

\* An order implements the escrow: whatever the requests and the jobs do to it,
\* its money moves by the steps of Escrow only.  It is paid out once, to the
\* party to whom it is due, after it was paid for, and it is lost only in the
\* step in which a handler dies.
ImplementsEscrow == Money!Spec

\* And it implements it to the end: the credit of a completed order and the
\* refund of a cancelled one are queued, whoever completed or cancelled it,
\* unless the handler that had to queue them died.
SettlesEscrow == Money!Settles

=============================================================================
