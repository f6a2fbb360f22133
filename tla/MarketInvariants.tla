-------------------------- MODULE MarketInvariants --------------------------
(***************************************************************************)
(* The inductive invariants behind the properties of Marketplace: what a   *)
(* handler in flight knows of its rows, and what may still come of an      *)
(* offer that was accepted.                                                *)
(***************************************************************************)
EXTENDS Marketplace

\* How far a listing has come; it moves forward only, until a stale save hits it.
ListingRank(x) ==
  IF x.deleted THEN 3
  ELSE IF x.status = "open" THEN 0
  ELSE IF x.status = "in_progress" THEN 1 ELSE 2

Later(old, new) == ListingRank(old) < ListingRank(new)

\* A listing that no stale save hit is removed as a whole.
Whole(x) == x \in Listing /\ (x.deleted => x.status = "cancelled")

\* The entity e that a handler made of the row l which it had loaded.
Edited(op, x, l, e) ==
  \/ /\ x \in Listings /\ op \in {"edit", "move", "remove", "expireRequests"}
     /\ Whole(l) /\ Whole(e) /\ ~l.deleted
     /\ e = l \/ Later(l, e)
  \/ /\ x \in Offers /\ l \in Offer /\ e \in Offer /\ l.status = "pending"
     /\ \/ op = "price" /\ e.status = "pending"
        \/ op = "decide" /\ e.status # "pending" /\ e.price = l.price
        \/ op = "expireOffers" /\ e.status = "cancelled" /\ e.price = l.price

HasBatch(x) ==
  \/ x.phase \in {"ready", "selected", "count", "number"}
  \/ x.phase = "announce" /\ x.op # "offer"

IsState(x) ==
  x = [phase |-> x.phase, op |-> x.op, todo |-> x.todo, subject |-> x.subject,
       loaded |-> x.loaded, entity |-> x.entity, dirty |-> x.dirty, due |-> x.due,
       count |-> x.count]

\* The rows a handler works on exist, and it lawfully changed what it loaded.
Sound(x) ==
  /\ IsState(x) /\ x.phase \in Phase /\ x.op \in Op
  /\ HasBatch(x) =>
       /\ DOMAIN x.loaded = DOMAIN x.entity
       /\ DOMAIN x.entity \subseteq Rows /\ x.todo \subseteq DOMAIN x.entity
       /\ \A y \in DOMAIN x.entity :
            row[y] # None /\ Edited(x.op, y, x.loaded[y], x.entity[y])
       /\ x.phase # "ready" => x.subject \in DOMAIN x.entity
  /\ x.phase = "insert" => x.op = "offer"
  /\ x.op = "offer" => x.todo = {}
  /\ x.phase = "announce" => x.due # {}
  /\ x.phase = "announce" /\ x.op = "offer" =>
       x.subject \in Offers /\ row[x.subject] # None /\ x.due = {"recipient"}
  /\ x.phase = "announce" /\ x.op # "offer" => x.due \subseteq Recipients(x.op, x.entity[x.subject])
  /\ x.phase \in {"count", "number"} => Accepts(x)

\* An intact listing is where the handler found it or further on; what the
\* handler changed is dirty, or the row it compared with has moved.
UpToDate(x) ==
  /\ HasBatch(x) => \A y \in DOMAIN x.loaded \cap Listings \cap Intact :
                      x.loaded[y] = row[y] \/ Later(x.loaded[y], row[y])
  /\ (x.phase = "selected" /\ x.subject \in Intact \cap Listings
      /\ row[x.subject] = x.loaded[x.subject])
       => \A c \in {"status", "deleted"} :
            x.entity[x.subject][c] # row[x.subject][c] => c \in x.dirty
  /\ (x.phase = "selected" /\ x.subject \in Intact \cap Offers
      /\ row[x.subject].status = "pending" /\ x.entity[x.subject].status # "pending")
       => "status" \in x.dirty

\* Every row is a whole listing or an offer, or not there.
RowsTyped ==
  /\ row = [x \in Rows |-> row[x]]
  /\ \A l \in Listings : row[l] \in Listing \cup {None}
  /\ \A o \in Offers : row[o] \in Offer \cup {None}
  /\ \A l \in Listings \cap Intact : row[l] # None => Whole(row[l])

\* Orders and notifications are about offers and rows that exist.
TablesTyped ==
  /\ orders \subseteq Order /\ \A a \in orders : row[a.offer] # None
  /\ told \subseteq Notice /\ \A n \in told : row[n.about] # None
  /\ failures \in Nat

\* Every handler knows what it does.
HandlersSound ==
  /\ handler = [h \in Handlers |-> handler[h]]
  /\ \A h \in Handlers : Sound(handler[h]) /\ UpToDate(handler[h])

RowsSound == RowsTyped /\ stale \in [Rows -> Nat] /\ HandlersSound

\* An intact offer that is accepted is on its way to one order, or has it.
OrderedOnce ==
  \A o \in Intact \cap Offers :
    /\ \A h \in Ordering(o) : /\ row[o].status = "accepted"
                              /\ row[o].price = handler[h].entity[o].price
    /\ \A g, h \in Ordering(o) : g = h
    /\ \A a \in orders : a.offer = o => /\ row[o].status = "accepted" /\ a.price = row[o].price
                                        /\ Ordering(o) = {}
    /\ \A a, b \in orders : a.offer = o /\ b.offer = o => a = b

\* The handler is to announce what became of o.
Tells(x, o) ==
  x.phase = "announce" /\ x.op \in {"decide", "expireOffers"} /\ x.subject = o

Telling(o) == {h \in Handlers : Tells(handler[h], o)}

\* What was announced of the outcome of o.
News(o) == {n \in told : n.about = o /\ n.label \in Outcome}

\* The news of an intact offer is what its row says, and nothing goes untold.
NewsTrue ==
  \A o \in Intact \cap Offers :
    /\ \A h \in Telling(o) : row[o].status = handler[h].entity[o].status
    /\ \A n \in News(o) :
         /\ row[o].status = IF n.label = "expired" THEN "cancelled" ELSE n.label
         /\ n.label = "cancelled" => n.to = "recipient"
         /\ n.label \in {"accepted", "rejected"} => n.to = "sender"
    /\ (failures = 0 /\ row[o] # None /\ row[o].status # "pending")
         => News(o) # {} \/ Telling(o) # {}

MarketInv == RowsSound /\ TablesTyped /\ OrderedOnce /\ FirstAcceptanceOrders /\ NewsTrue

=============================================================================
