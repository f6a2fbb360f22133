--------------------------- MODULE OrderInvariants --------------------------
(***************************************************************************)
(* The inductive invariants from which the properties of OrderLifecycle    *)
(* follow.  TLC checks them on the small instances before the proofs       *)
(* modules prove them for all.                                             *)
(***************************************************************************)
EXTENDS OrderLifecycle

\* What a handler may be about to write, given the status it loaded.
Lawful(op, by, from, to) ==
  /\ op = "update"   => by \in Party /\ MayMove(by, from, to)
  /\ op = "pay"      => from = "pending"
  /\ op = "dispute"  => to = "disputed" /\ from \in {"purchased", "shipped", "delivered"}
  /\ op = "confirm"  => to = "delivered" /\ from = "shipped" /\ by = "system"
  /\ op = "complete" => to = "completed" /\ from = "delivered"
  /\ op = "expire"   => to = "cancelled" /\ from = "pending"

WorksOn(x, o) == o \in x.todo \/ o = x.order

\* What a handler loaded was once true, and what it has written stays recorded.
Sound(x) ==
  \A o \in Orders : WorksOn(x, o) =>
    /\ x.loaded[o].status \in Reached(o)
    /\ "paid" \in x.loaded[o].stamps => "paid" \in Reached(o)
    /\ Lawful(x.op, x.by, x.loaded[o].status, x.to)
    /\ x.phase = "insert" => x.op = "dispute"
    /\ (o = x.order /\ x.phase \in Saving /\ ~(x.phase = "selected" /\ "status" \in x.dirty))
         => Entity(x.op, x.to, x.loaded[o]).status \in Reached(o)

\* Every status in an order's history came from its predecessor, by the hand
\* the table demands.
Lineage(o) ==
  \A e \in history[o] :
    /\ e.status = "purchased" => e.by = "traveler" /\ "paid" \in Reached(o)
    /\ e.status = "shipped"   => e.by = "traveler" /\ "purchased" \in Reached(o)
    /\ e.status = "delivered" => e.by \in {"requester", "system"} /\ "shipped" \in Reached(o)
    /\ e.status = "completed" => "delivered" \in Reached(o)

Recorded(o) ==
  /\ row[o].status \in Reached(o)
  /\ "paid" \in row[o].stamps => "paid" \in Reached(o)
  /\ credits[o] > 0 => "completed" \in Reached(o)
  /\ refunds[o] > 0 => {"paid", "cancelled"} \subseteq Reached(o)
  /\ disputes[o] > 0 => "disputed" \in Reached(o)

CustodyInv ==
  /\ \A o \in Orders : Lineage(o) /\ Recorded(o)
  /\ \A h \in Handlers : Sound(handler[h])

\* How far an order has come: an undisturbed save never takes it back.
Stage(status) ==
  CASE status = "pending" -> 0
    [] status = "paid" -> 1
    [] status = "purchased" -> 2
    [] status = "shipped" -> 3
    [] status = "delivered" -> 4
    [] OTHER -> 5

Precedes(r, s) ==
  \/ Stage(r.status) < Stage(s.status)
  \/ r.status = s.status /\ r.stamps \subseteq s.stamps

\* What a handler knows of an undisturbed order is its present or its past.
UpToDate(x, o) ==
  WorksOn(x, o) =>
    /\ Precedes(x.loaded[o], row[o])
    /\ (o = x.order /\ x.phase = "selected" /\ row[o] = x.loaded[o])
         => x.dirty = Dirty(Entity(x.op, x.to, x.loaded[o]), row[o])

\* The handler still has to queue a wallet job for the order.
Owes(x, o) ==
  /\ o = x.order
  /\ \/ x.phase = "enqueue"
     \/ x.phase = "announce" /\ x.op = "update"
  /\ WalletJob(x.op, x.to, x.loaded[o]) # "none"

SettledInv ==
  \A o \in Intact :
    /\ \A h \in Handlers :
         /\ UpToDate(handler[h], o)
         /\ Owes(handler[h], o) =>
              /\ row[o] = Entity(handler[h].op, handler[h].to, handler[h].loaded[o])
              /\ credits[o] = 0 /\ refunds[o] = 0
              /\ \A g \in Handlers : Owes(handler[g], o) => g = h
    /\ credits[o] + refunds[o] <= 1
    /\ credits[o] > 0 => row[o].status = "completed"
    /\ refunds[o] > 0 => row[o].status = "cancelled" /\ "paid" \in row[o].stamps

\* autoCompleteOrders notifies the parties only after it queued the credit.
PaidFirst ==
  \A h \in Handlers :
    handler[h].phase = "announce" /\ handler[h].op = "complete"
      => credits[handler[h].order] > 0

\* One handler at most is about to insert a dispute, of an order without one.
Inserting(x, o) == x.phase = "insert" /\ x.order = o

DisputeInv ==
  \A o \in Intact :
    /\ "disputed" \in Reached(o) => row[o].status = "disputed"
    /\ disputes[o] <= 1
    /\ disputes[o] > 0 => row[o].status = "disputed"
    /\ \A h \in Handlers : Inserting(handler[h], o) =>
         /\ row[o].status = "disputed" /\ disputes[o] = 0
         /\ \A g \in Handlers : Inserting(handler[g], o) => g = h

\* The handler is on the way to tell the party of a change it has written.
Tells(x, o, e, party) ==
  /\ x.phase \in AfterSave /\ x.order = o
  /\ x.to = e.status /\ x.by = e.by
  /\ party \in x.due

Told(o, e, party) ==
  \E n \in told[o] : /\ n.to = party
                     /\ n.label = e.status \/ (n.label = "expired" /\ e.by = "system")

\* Only autoCompleteOrders queues a wallet job before it notifies, only the
\* scheduler expires orders, and nobody is told of a dispute.
DueInv ==
  \A h \in Handlers :
    /\ handler[h].op = "expire" => handler[h].by = "system"
    /\ handler[h].phase = "enqueue" => handler[h].op = "complete" \/ handler[h].due = {}
    /\ handler[h].phase = "insert" => handler[h].due = {}

ToldInv ==
  \A o \in Intact \ cut : \A e \in history[o] : \A party \in Party \ {e.by} :
    e.status # "disputed" =>
      Told(o, e, party) \/ \E h \in Handlers : Tells(handler[h], o, e, party)

=============================================================================
