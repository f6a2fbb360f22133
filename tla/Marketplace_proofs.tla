------------------------- MODULE Marketplace_proofs -------------------------
(***************************************************************************)
(* Theorems about Marketplace, for any trips, requests and offers, any     *)
(* number of concurrent requests and jobs and any number of failures:      *)
(* every safety property that the runs check.                              *)
(*                                                                         *)
(* Numbering.  A number is made from a count of the orders.  The proof     *)
(* needs to know that no handler ever holds a count greater than the       *)
(* number of orders: a count that is too small yields a number that is     *)
(* taken.                                                                  *)
(*                                                                         *)
(* The others rest on MarketInv (MarketInvariants).  RowsSound: what a     *)
(* handler knows of an intact row is its present or its past, hence a save *)
(* that leaves the row intact stores exactly the entity, and rows move     *)
(* forward.  OffersSound: an intact offer leaves pending by one save, and  *)
(* the handler that made it is the only one to order it or to announce it. *)
(***************************************************************************)
EXTENDS MarketInvariants, FiniteSetTheorems, TLAPS

\* The local state of a handler, as far as the count goes.
Counts(x) ==
  /\ {"phase", "count"} \subseteq DOMAIN x
  /\ x.count \in 0 .. Cardinality(orders)

NumberingInv ==
  /\ IsFiniteSet(orders)
  /\ Numbering
  /\ handler = [h \in Handlers |-> handler[h]]
  /\ \A h \in Handlers : Counts(handler[h])

-----------------------------------------------------------------------------
LEMMA IdleCounts == IsFiniteSet(orders) => Counts(Idle)
<1> SUFFICES ASSUME IsFiniteSet(orders) PROVE Counts(Idle)
  OBVIOUS
<1>1. Cardinality(orders) \in Nat
  BY FS_CardinalityType
<1>2. Idle.count = 0 /\ {"phase", "count"} \subseteq DOMAIN Idle
  BY DEF Idle
<1>3. QED
  BY <1>1, <1>2 DEF Counts

LEMMA NumberingInit == Init => NumberingInv
<1> SUFFICES ASSUME Init PROVE NumberingInv
  OBVIOUS
<1>1. orders = {} /\ handler = [h \in Handlers |-> Idle]
  BY DEF Init
<1>2. IsFiniteSet(orders) /\ Cardinality(orders) = 0
  BY <1>1, FS_EmptySet
<1>3. Numbering
  BY <1>1, <1>2 DEF Numbering
<1>4. QED
  BY <1>1, <1>2, <1>3, IdleCounts DEF NumberingInv

\* A step that gives one handler a new state and inserts no order.
LEMMA AssignKeeps ==
  ASSUME NumberingInv, NEW h \in Handlers, NEW x, Counts(x), Assign(h, x), UNCHANGED orders
  PROVE  NumberingInv'
<1>1. handler' = [g \in Handlers |-> IF g = h THEN x ELSE handler[g]]
  BY DEF NumberingInv, Assign
<1>2. \A g \in Handlers : Counts(handler'[g])
  BY <1>1 DEF NumberingInv
<1>3. \A g \in Handlers : Counts(handler[g])'
  BY <1>2 DEF Counts
<1>4. QED
  BY <1>1, <1>3 DEF NumberingInv, Numbering

\* A batch that is loaded starts a handler without a count.
LEMMA LoadKeeps ==
  ASSUME NumberingInv, NEW h \in Handlers, NEW x, Assign(h, x), UNCHANGED orders,
         {"phase", "count"} \subseteq DOMAIN x, x.count = 0
  PROVE  NumberingInv'
<1>1. Cardinality(orders) \in Nat
  BY FS_CardinalityType DEF NumberingInv
<1>2. QED
  BY <1>1, AssignKeeps DEF Counts

-----------------------------------------------------------------------------
\* The states that a handler goes to from its present one.
LEMMA GoesOnCounts ==
  ASSUME NumberingInv, NEW h \in Handlers
  PROVE  /\ Counts(Idle)
         /\ Counts(handler[h])
         /\ Counts(Continue(h))
         /\ \A p : Counts([handler[h] EXCEPT !.phase = p])
<1>1. Counts(Idle) /\ Counts(handler[h])
  BY IdleCounts DEF NumberingInv
<1>2. QED
  BY <1>1 DEF Counts, Continue

\* The steps that load something to work on.
LEMMA StartKeeps ==
  ASSUME NumberingInv,
         \/ \E r \in Requests : RequestStep(r)
         \/ ExpirePendingOffers \/ ExpireRequests
  PROVE  NumberingInv'
<1>1. ASSUME NEW h \in Handlers, NEW op, NEW batch, NEW entity, NEW loaded, UNCHANGED orders,
             Assign(h, [Idle EXCEPT !.phase = "ready", !.op = op, !.todo = batch,
                                    !.loaded = loaded, !.entity = entity])
      PROVE  NumberingInv'
  <2> DEFINE x == [Idle EXCEPT !.phase = "ready", !.op = op, !.todo = batch,
                               !.loaded = loaded, !.entity = entity]
  <2>1. {"phase", "count"} \subseteq DOMAIN x /\ x.count = 0
    BY DEF Idle
  <2>2. QED
    BY <1>1, <2>1, LoadKeeps
<1>2. ASSUME NEW r \in Requests, EditListing(r) PROVE NumberingInv'
  BY <1>1, <1>2 DEF EditListing, Load, Tables, Handlers
<1>3. ASSUME NEW r \in Requests, MoveTrip(r) PROVE NumberingInv'
  BY <1>1, <1>3 DEF MoveTrip, Load, Tables, Handlers
<1>4. ASSUME NEW r \in Requests, RemoveListing(r) PROVE NumberingInv'
  BY <1>1, <1>4 DEF RemoveListing, Load, Tables, Handlers
<1>5. ASSUME NEW r \in Requests, EditPrice(r) PROVE NumberingInv'
  BY <1>1, <1>5 DEF EditPrice, Load, Tables, Handlers
<1>6. ASSUME NEW r \in Requests, Decide(r) PROVE NumberingInv'
  BY <1>1, <1>6 DEF Decide, Load, Tables, Handlers
<1>7. ASSUME ExpirePendingOffers PROVE NumberingInv'
  BY <1>1, <1>7 DEF ExpirePendingOffers, Load, Tables, Handlers
<1>8. ASSUME ExpireRequests PROVE NumberingInv'
  BY <1>1, <1>8 DEF ExpireRequests, Load, Tables, Handlers
<1>9. ASSUME NEW r \in Requests, CreateOffer(r) PROVE NumberingInv'
  <2> DEFINE x == [Idle EXCEPT !.phase = "insert", !.op = "offer"]
  <2>1. {"phase", "count"} \subseteq DOMAIN x /\ x.count = 0
    BY DEF Idle
  <2>2. Assign(r, x) /\ UNCHANGED orders /\ r \in Handlers
    BY <1>9 DEF CreateOffer, Tables, Handlers
  <2>3. QED
    BY <2>1, <2>2, LoadKeeps
<1>10. QED
  BY <1>2, <1>3, <1>4, <1>5, <1>6, <1>7, <1>8, <1>9 DEF RequestStep

\* The steps that go on without touching the orders.
LEMMA GoOnKeeps ==
  ASSUME NumberingInv, NEW h \in Handlers,
         InsertOffer(h) \/ SaveSelect(h) \/ SaveUpdate(h) \/ Announce(h) \/ Fail(h)
  PROVE  NumberingInv'
<1> USE GoesOnCounts
<1>1. CASE InsertOffer(h)
  <2>1. PICK o : Assign(h, [handler[h] EXCEPT !.phase = "announce", !.subject = o,
                                              !.due = {"recipient"}])
    BY <1>1 DEF InsertOffer
  <2>2. Counts([handler[h] EXCEPT !.phase = "announce", !.subject = o, !.due = {"recipient"}])
    BY DEF Counts
  <2>3. QED
    BY <1>1, <2>1, <2>2, AssignKeeps DEF InsertOffer
<1>2. CASE SaveSelect(h)
  <2>1. PICK x : Assign(h, [handler[h] EXCEPT !.phase = "selected", !.subject = x,
                              !.todo = @ \ {x},
                              !.dirty = DirtyColumns(handler[h].entity[x], row[x])])
    BY <1>2 DEF SaveSelect
  <2>2. Counts([handler[h] EXCEPT !.phase = "selected", !.subject = x, !.todo = @ \ {x},
                  !.dirty = DirtyColumns(handler[h].entity[x], row[x])])
    BY DEF Counts
  <2>3. QED
    BY <1>2, <2>1, <2>2, AssignKeeps DEF SaveSelect, Tables
<1>3. CASE SaveUpdate(h)
  <2> DEFINE due == Recipients(handler[h].op, handler[h].entity[handler[h].subject])
  <2>1. Counts([handler[h] EXCEPT !.phase = "announce", !.dirty = {}, !.due = due])
    BY DEF Counts
  <2>2. PICK x : Counts(x) /\ Assign(h, x)
    BY <1>3, <2>1 DEF SaveUpdate
  <2>3. QED
    BY <1>3, <2>2, AssignKeeps DEF SaveUpdate
<1>4. CASE Announce(h)
  <2>1. \A rest : Counts([handler[h] EXCEPT !.due = rest])
    BY DEF Counts
  <2>2. Counts([handler[h] EXCEPT !.phase = "count", !.due = {}])
    BY DEF Counts
  <2>3. PICK x : Counts(x) /\ Assign(h, x)
    BY <1>4, <2>1, <2>2 DEF Announce
  <2>4. QED
    BY <1>4, <2>3, AssignKeeps DEF Announce
<1>5. CASE Fail(h)
  BY <1>5, AssignKeeps DEF Fail
<1>6. QED
  BY <1>1, <1>2, <1>3, <1>4, <1>5

LEMMA CountOrdersKeeps ==
  ASSUME NumberingInv, NEW h \in Handlers, CountOrders(h)
  PROVE  NumberingInv'
<1>1. Cardinality(orders) \in Nat
  BY FS_CardinalityType DEF NumberingInv
<1>2. Counts([handler[h] EXCEPT !.phase = "number", !.count = Cardinality(orders)])
  BY <1>1, GoesOnCounts DEF Counts
<1>3. QED
  BY <1>2, AssignKeeps DEF CountOrders, Tables

LEMMA InsertOrderKeeps ==
  ASSUME NumberingInv, NEW h \in Handlers, InsertOrder(h)
  PROVE  NumberingInv'
<1> DEFINE x == handler[h]
           order == [offer |-> x.subject, number |-> x.count + 1,
                     price |-> x.entity[x.subject].price]
<1>1. Assign(h, Idle)
  BY DEF InsertOrder
<1>2. CASE \E other \in orders : other.number = order.number
  <2>1. UNCHANGED orders
    BY <1>2 DEF InsertOrder
  <2>2. QED
    BY <1>1, <2>1, GoesOnCounts, AssignKeeps
<1>3. CASE ~\E other \in orders : other.number = order.number
  <2> DEFINE n == Cardinality(orders)
  <2>1. orders' = orders \cup {order} /\ order \notin orders
    BY <1>3 DEF InsertOrder
  <2>2. n \in Nat
    BY FS_CardinalityType DEF NumberingInv
  <2>3. IsFiniteSet(orders') /\ Cardinality(orders') = n + 1
    BY <2>1, FS_AddElement DEF NumberingInv
  <2>4. {other.number : other \in orders} = 1 .. n
    BY DEF NumberingInv, Numbering
  <2>5. x.count \in 0 .. n
    BY DEF NumberingInv, Counts
  <2>6. order.number \notin 1 .. n
    BY <1>3, <2>4
  <2>7. order.number = n + 1
    BY <2>2, <2>5, <2>6
  <2>8. {other.number : other \in orders'} = {other.number : other \in orders} \cup {order.number}
    BY <2>1
  <2>9. Numbering'
    BY <2>2, <2>3, <2>4, <2>7, <2>8 DEF Numbering
  <2>10. handler' = [g \in Handlers |-> IF g = h THEN Idle ELSE handler[g]]
    BY <1>1 DEF NumberingInv, Assign
  <2>11. \A g \in Handlers : Counts(handler[g])'
    <3>1. Counts(Idle) /\ \A g \in Handlers : Counts(handler[g])
      BY GoesOnCounts DEF NumberingInv
    <3>2. QED
      BY <2>2, <2>3, <2>10, <3>1 DEF Counts
  <2>12. QED
    BY <2>3, <2>9, <2>10, <2>11 DEF NumberingInv
<1>4. QED
  BY <1>2, <1>3

LEMMA NumberingStep == NumberingInv /\ [Next]_vars => NumberingInv'
<1> SUFFICES ASSUME NumberingInv, [Next]_vars PROVE NumberingInv'
  OBVIOUS
<1>1. CASE CreateListing
  BY <1>1 DEF CreateListing, NumberingInv, Numbering, Counts
<1>2. CASE UNCHANGED vars
  BY <1>2 DEF vars, NumberingInv, Numbering, Counts
<1>3. ASSUME NEW h \in Handlers, HandlerStep(h) \/ Fail(h) PROVE NumberingInv'
  BY <1>3, GoOnKeeps, CountOrdersKeeps, InsertOrderKeeps DEF HandlerStep
<1>4. QED
  BY <1>1, <1>2, <1>3, StartKeeps DEF Next

-----------------------------------------------------------------------------
\* Order numbers have no gap and no duplicate, whatever acceptances overlap and
\* wherever handlers die (createOrderFromOffer and the unique order_number).
THEOREM NumberingHolds == Spec => []Numbering
<1>1. NumberingInv => Numbering
  BY DEF NumberingInv
<1>2. QED
  BY NumberingInit, NumberingStep, <1>1, PTL DEF Spec

-----------------------------------------------------------------------------
(***************************************************************************)
(* Rows, and what save makes of them.                                      *)
(***************************************************************************)

LEMMA SavedListing ==
  ASSUME NEW l \in Listing, NEW e \in Listing, NEW dirty
  PROVE  /\ SavedColumns(l, e, dirty) \in Listing
         /\ SavedColumns(l, e, dirty).status = IF "status" \in dirty THEN e.status ELSE l.status
         /\ SavedColumns(l, e, dirty).deleted
              = IF "deleted" \in dirty THEN e.deleted ELSE l.deleted
<1> DEFINE saved == SavedColumns(l, e, dirty)
<1>1. DOMAIN l = {"status", "deleted"}
  BY DEF Listing
<1>2. saved = [c \in DOMAIN l |-> saved[c]]
  BY DEF SavedColumns
<1>3. \A c \in DOMAIN l : saved[c] = IF c \in dirty THEN e[c] ELSE l[c]
  BY DEF SavedColumns
<1>4. QED
  BY <1>1, <1>2, <1>3 DEF Listing

LEMMA SavedOffer ==
  ASSUME NEW l \in Offer, NEW e \in Offer, NEW dirty
  PROVE  /\ SavedColumns(l, e, dirty) \in Offer
         /\ SavedColumns(l, e, dirty).status = IF "status" \in dirty THEN e.status ELSE l.status
         /\ SavedColumns(l, e, dirty).price = IF "price" \in dirty THEN e.price ELSE l.price
<1> DEFINE saved == SavedColumns(l, e, dirty)
<1>1. DOMAIN l = {"status", "price"}
  BY DEF Offer
<1>2. saved = [c \in DOMAIN l |-> saved[c]]
  BY DEF SavedColumns
<1>3. \A c \in DOMAIN l : saved[c] = IF c \in dirty THEN e[c] ELSE l[c]
  BY DEF SavedColumns
<1>4. QED
  BY <1>1, <1>2, <1>3 DEF Offer

LEMMA RanksOrdered ==
  /\ \A a : ListingRank(a) \in 0 .. 3
  /\ \A a, b, c : (a = b \/ Later(a, b)) /\ (b = c \/ Later(b, c)) => a = c \/ Later(a, c)
  /\ \A a : ~Later(a, a)
BY DEF ListingRank, Later

\* A row that exists goes on existing; an intact one moves forward.
Moves(y) ==
  \/ row'[y] = row[y]
  \/ row[y] = None
  \/ y \in Listings /\ Later(row[y], row'[y])
  \/ y \in Offers /\ row[y].status = "pending"

RowsMove ==
  /\ \A y \in Rows : row[y] # None => row'[y] # None
  /\ Intact' \subseteq Intact
  /\ \A y \in Intact' : Moves(y)

\* What a handler knows stays good while rows move.
LEMMA SoundStays ==
  ASSUME RowsMove, NEW x, Sound(x), UpToDate(x)
  PROVE  Sound(x)' /\ UpToDate(x)'
<1>1. Offers \subseteq Rows /\ Listings \cap Offers = {} /\ Intact \subseteq Rows
  BY RowsAssumption DEF Rows, Intact
<1>2. Sound(x)'
  BY <1>1 DEF Sound, RowsMove, IsState, HasBatch, Edited, Accepts, Recipients, Whole, Later, ListingRank
<1>3. ASSUME HasBatch(x), NEW y \in (DOMAIN x.loaded \cap Listings \cap Intact')
      PROVE  x.loaded[y] = row'[y] \/ Later(x.loaded[y], row'[y])
  <2>1. y \in Intact /\ Moves(y) /\ row[y] # None
    BY <1>3, <1>1 DEF RowsMove, Sound
  <2>2. x.loaded[y] = row[y] \/ Later(x.loaded[y], row[y])
    BY <1>3, <2>1 DEF UpToDate
  <2>3. row[y] = row'[y] \/ Later(row[y], row'[y])
    BY <1>1, <1>3, <2>1 DEF Moves
  <2>4. QED
    BY <2>2, <2>3, RanksOrdered
<1>4. ASSUME x.phase = "selected", x.subject \in Intact' \cap Listings,
             row'[x.subject] = x.loaded[x.subject]
      PROVE  row[x.subject] = x.loaded[x.subject]
  <2>1. x.subject \in Intact /\ Moves(x.subject) /\ HasBatch(x)
    BY <1>4 DEF RowsMove, HasBatch
  <2>2. x.subject \in DOMAIN x.loaded /\ row[x.subject] # None
    BY <1>4, <2>1 DEF Sound
  <2>3. x.loaded[x.subject] = row[x.subject] \/ Later(x.loaded[x.subject], row[x.subject])
    BY <1>4, <2>1, <2>2 DEF UpToDate
  <2>4. row[x.subject] = row'[x.subject] \/ Later(row[x.subject], row'[x.subject])
    BY <1>1, <1>4, <2>1, <2>2 DEF Moves
  <2>5. ListingRank(x.loaded[x.subject]) \in 0 .. 3 /\ ListingRank(row[x.subject]) \in 0 .. 3
    BY RanksOrdered
  <2>6. QED
    BY <1>4, <2>3, <2>4, <2>5 DEF Later
<1>5. ASSUME x.phase = "selected", x.subject \in Intact' \cap Offers,
             row'[x.subject].status = "pending"
      PROVE  x.subject \in Intact \cap Offers
  BY <1>5 DEF RowsMove
<1>6. UpToDate(x)'
  <2>1. x.phase = "selected" /\ x.subject \in Intact' \cap Offers /\ row'[x.subject].status = "pending"
          => row[x.subject].status = "pending"
    <3> SUFFICES ASSUME x.phase = "selected", x.subject \in Intact' \cap Offers,
                        row'[x.subject].status = "pending", row[x.subject].status # "pending"
                 PROVE  FALSE
      OBVIOUS
    <3>1. Moves(x.subject) /\ row[x.subject] # None
      BY DEF RowsMove, Sound, HasBatch
    <3>2. QED
      BY <1>1, <3>1 DEF Moves
  <2>2. (HasBatch(x) => \A y \in DOMAIN x.loaded \cap Listings \cap Intact :
                          x.loaded[y] = row[y] \/ Later(x.loaded[y], row[y]))'
    BY <1>3 DEF HasBatch, Later, ListingRank
  <2>3. ((x.phase = "selected" /\ x.subject \in Intact \cap Listings
          /\ row[x.subject] = x.loaded[x.subject])
           => \A c \in {"status", "deleted"} :
                x.entity[x.subject][c] # row[x.subject][c] => c \in x.dirty)'
    BY <1>4 DEF UpToDate, RowsMove
  <2>4. ((x.phase = "selected" /\ x.subject \in Intact \cap Offers
          /\ row[x.subject].status = "pending" /\ x.entity[x.subject].status # "pending")
           => "status" \in x.dirty)'
    BY <1>5, <2>1 DEF UpToDate
  <2>5. QED
    BY <2>2, <2>3, <2>4 DEF UpToDate
<1>7. QED
  BY <1>2, <1>6

\* Nothing moves.
LEMMA NothingMoves == UNCHANGED <<row, stale>> => RowsMove
BY DEF RowsMove, Moves, Intact

-----------------------------------------------------------------------------
(***************************************************************************)
(* The states a handler goes to.                                           *)
(***************************************************************************)

LEMMA IdleSound == Sound(Idle) /\ UpToDate(Idle) /\ Sound(Idle)' /\ UpToDate(Idle)'
BY DEF Sound, UpToDate, Idle, IsState, HasBatch, Phase, Op

\* A handler gets a new state, the others keep theirs.
LEMMA HandlersGoOn ==
  ASSUME HandlersSound, RowsMove, NEW h \in Handlers, NEW x, Assign(h, x),
         Sound(x)', UpToDate(x)'
  PROVE  HandlersSound'
<1>1. handler' = [g \in Handlers |-> IF g = h THEN x ELSE handler[g]]
  BY DEF HandlersSound, Assign
<1>2. ASSUME NEW g \in Handlers PROVE Sound(handler[g])' /\ UpToDate(handler[g])'
  <2>1. CASE g = h
    <3>1. handler'[g] = x
      BY <1>1, <2>1
    <3>2. QED
      BY <3>1 DEF Sound, UpToDate, IsState, HasBatch, Accepts
  <2>2. CASE g # h
    <3>1. PICK y : y = handler[g]
      OBVIOUS
    <3>2. Sound(y) /\ UpToDate(y)
      BY <3>1 DEF HandlersSound
    <3>3. Sound(y)' /\ UpToDate(y)'
      BY <3>2, SoundStays
    <3>4. handler'[g] = y
      BY <1>1, <2>2, <3>1
    <3>5. QED
      BY <3>3, <3>4
  <2>3. QED
    BY <2>1, <2>2
<1>3. QED
  BY <1>1, <1>2 DEF HandlersSound

\* The same while no row changes.
LEMMA HandlersStay ==
  ASSUME HandlersSound, UNCHANGED <<row, stale>>, NEW h \in Handlers, NEW x, Assign(h, x),
         Sound(x), UpToDate(x)
  PROVE  HandlersSound'
<1>1. Sound(x)' /\ UpToDate(x)'
  BY NothingMoves, SoundStays
<1>2. QED
  BY <1>1, NothingMoves, HandlersGoOn

\* On to the next row of a batch, or back to waiting.
LEMMA ContinueSound ==
  ASSUME NEW x, NEW y, HasBatch(x),
         y \in {Idle, [x EXCEPT !.phase = "ready", !.subject = None, !.dirty = {}, !.due = {}]}
  PROVE  /\ Sound(x) /\ UpToDate(x) => Sound(y) /\ UpToDate(y)
         /\ Sound(x)' /\ UpToDate(x)' => Sound(y)' /\ UpToDate(y)'
<1>1. CASE y = Idle
  BY <1>1, IdleSound
<1>2. CASE y = [x EXCEPT !.phase = "ready", !.subject = None, !.dirty = {}, !.due = {}]
  <2>1. ASSUME IsState(x)
        PROVE  /\ IsState(y) /\ y.phase = "ready" /\ y.op = x.op /\ y.todo = x.todo
               /\ y.loaded = x.loaded /\ y.entity = x.entity
    BY <1>2, <2>1 DEF IsState
  <2>2. ASSUME Sound(x), UpToDate(x) PROVE Sound(y) /\ UpToDate(y)
    BY <2>1, <2>2 DEF Sound, UpToDate, HasBatch, Phase
  <2>3. ASSUME Sound(x)', UpToDate(x)' PROVE Sound(y)' /\ UpToDate(y)'
    <3>1. IsState(x)
      BY <2>3 DEF Sound, IsState
    <3>2. QED
      BY <2>1, <2>3, <3>1 DEF Sound, UpToDate, HasBatch, Phase, IsState
  <2>4. QED
    BY <2>2, <2>3
<1>3. QED
  BY <1>1, <1>2

-----------------------------------------------------------------------------
(***************************************************************************)
(* The steps that load a batch.                                            *)
(***************************************************************************)

\* A handler that has loaded, and lawfully changed, rows that exist.
Loads(h, x) ==
  /\ Waiting(h) /\ Assign(h, x) /\ UNCHANGED Tables
  /\ Sound(x) /\ UpToDate(x)
  /\ x.phase \in {"ready", "insert"}

\* The same for a batch of rows and the entities made of them.
LoadsBatch(h, op, batch, e) ==
  /\ Waiting(h) /\ UNCHANGED Tables
  /\ Assign(h, [Idle EXCEPT !.phase = "ready", !.op = op, !.todo = batch,
                            !.loaded = [y \in batch |-> row[y]], !.entity = e])

LEMMA LoadSound ==
  ASSUME RowsTyped, NEW h \in Handlers, NEW op \in Op \ {"offer"}, NEW batch \in SUBSET Rows,
         NEW e, DOMAIN e = batch, LoadsBatch(h, op, batch, e),
         \A y \in batch : row[y] # None /\ Edited(op, y, row[y], e[y])
  PROVE  \E x : Loads(h, x)
<1>1. PICK x : x = [Idle EXCEPT !.phase = "ready", !.op = op, !.todo = batch,
                                !.loaded = [y \in batch |-> row[y]], !.entity = e]
  OBVIOUS
<1>2. /\ IsState(x) /\ x.phase = "ready" /\ x.op = op /\ x.todo = batch /\ x.entity = e
      /\ x.loaded = [y \in batch |-> row[y]]
  BY <1>1 DEF Idle, IsState
<1>3. Sound(x)
  BY <1>2 DEF Sound, HasBatch, Phase
<1>4. UpToDate(x)
  BY <1>2 DEF UpToDate
<1>5. QED
  BY <1>1, <1>2, <1>3, <1>4 DEF Loads, LoadsBatch

LEMMA StartLoads ==
  ASSUME RowsTyped,
         \/ \E r \in Requests : RequestStep(r)
         \/ ExpirePendingOffers \/ ExpireRequests
  PROVE  \E h \in Handlers : \E x : Loads(h, x)
<1>0. /\ Listings \subseteq Rows /\ Offers \subseteq Rows /\ Trips \subseteq Listings
      /\ ItemRequests \subseteq Listings /\ Requests \subseteq Handlers /\ Jobs \subseteq Handlers
      /\ Listings \cap Offers = {}
  BY RowsAssumption DEF Rows, Listings, Handlers
<1>1. \A l \in Listings : Live(l) => Whole(row[l]) /\ row[l] # None /\ ~row[l].deleted
  BY DEF RowsTyped, Live, Whole
<1>2. \A o \in Offers : IsPending(o) => row[o] \in Offer /\ row[o] # None /\ row[o].status = "pending"
  BY DEF RowsTyped, IsPending
<1>3. ASSUME NEW r \in Requests, EditListing(r) PROVE \E x : Loads(r, x)
  <2>1. PICK l \in Listings : Live(l) /\ Load(r, "edit", {l}, Unchanged)
    BY <1>3 DEF EditListing
  <2>2. PICK e : e = [y \in {l} |-> Unchanged(row[y])]
    OBVIOUS
  <2>3. Edited("edit", l, row[l], e[l])
    BY <1>0, <1>1, <2>1, <2>2 DEF Edited, Unchanged
  <2>4. {l} \in SUBSET Rows /\ "edit" \in Op \ {"offer"} /\ DOMAIN e = {l}
    BY <1>0, <2>2 DEF Op
  <2>5. LoadsBatch(r, "edit", {l}, e)
    BY <2>1, <2>2 DEF LoadsBatch, Load
  <2>6. QED
    BY <1>0, <1>1, <1>2, <2>1, <2>3, <2>4, <2>5, LoadSound
<1>4. ASSUME NEW r \in Requests, MoveTrip(r) PROVE \E x : Loads(r, x)
  <2>1. PICK t \in Trips, to \in TripStatus :
          /\ Live(t) /\ <<row[t].status, to>> \in TripTransitions /\ Waiting(r) /\ UNCHANGED Tables
          /\ Assign(r, [Idle EXCEPT !.phase = "ready", !.op = "move", !.todo = {t},
                                    !.loaded = [y \in {t} |-> row[y]],
                                    !.entity = [y \in {t} |-> [row[y] EXCEPT !.status = to]]])
    BY <1>4 DEF MoveTrip, Load
  <2>2. PICK e : e = [y \in {t} |-> [row[y] EXCEPT !.status = to]]
    OBVIOUS
  <2>3. Edited("move", t, row[t], e[t])
    BY <1>0, <1>1, <2>1, <2>2
       DEF Edited, Whole, Listing, Later, ListingRank, TripTransitions, TripStatus
  <2>4. {t} \in SUBSET Rows /\ "move" \in Op \ {"offer"} /\ DOMAIN e = {t}
    BY <1>0, <2>2 DEF Op
  <2>5. LoadsBatch(r, "move", {t}, e)
    BY <2>1, <2>2 DEF LoadsBatch, Load
  <2>6. QED
    BY <1>0, <1>1, <1>2, <2>1, <2>3, <2>4, <2>5, LoadSound
<1>5. ASSUME NEW r \in Requests, RemoveListing(r) PROVE \E x : Loads(r, x)
  <2>1. PICK l \in Listings : Live(l) /\ Load(r, "remove", {l}, Removed)
    BY <1>5 DEF RemoveListing
  <2>2. PICK e : e = [y \in {l} |-> Removed(row[y])]
    OBVIOUS
  <2>3. Edited("remove", l, row[l], e[l])
    <3>1. row[l] \in Listing /\ ~row[l].deleted /\ e[l] = Removed(row[l])
      BY <1>1, <2>1, <2>2 DEF Whole
    <3>2. e[l] \in Listing /\ e[l].deleted /\ e[l].status = "cancelled"
      BY <3>1 DEF Removed, Listing, TripStatus
    <3>3. QED
      BY <1>1, <2>1, <3>1, <3>2 DEF Edited, Whole, Later, ListingRank
  <2>4. {l} \in SUBSET Rows /\ "remove" \in Op \ {"offer"} /\ DOMAIN e = {l}
    BY <1>0, <2>2 DEF Op
  <2>5. LoadsBatch(r, "remove", {l}, e)
    BY <2>1, <2>2 DEF LoadsBatch, Load
  <2>6. QED
    BY <1>0, <1>1, <1>2, <2>1, <2>3, <2>4, <2>5, LoadSound
<1>6. ASSUME NEW r \in Requests, EditPrice(r) PROVE \E x : Loads(r, x)
  <2>1. PICK o \in Offers, price \in Prices :
          /\ IsPending(o) /\ Waiting(r) /\ UNCHANGED Tables
          /\ Assign(r, [Idle EXCEPT !.phase = "ready", !.op = "price", !.todo = {o},
                                    !.loaded = [y \in {o} |-> row[y]],
                                    !.entity = [y \in {o} |-> [row[y] EXCEPT !.price = price]]])
    BY <1>6 DEF EditPrice, Load
  <2>2. PICK e : e = [y \in {o} |-> [row[y] EXCEPT !.price = price]]
    OBVIOUS
  <2>3. Edited("price", o, row[o], e[o])
    BY <1>0, <1>2, <2>1, <2>2 DEF Edited, Offer
  <2>4. {o} \in SUBSET Rows /\ "price" \in Op \ {"offer"} /\ DOMAIN e = {o}
    BY <1>0, <2>2 DEF Op
  <2>5. LoadsBatch(r, "price", {o}, e)
    BY <2>1, <2>2 DEF LoadsBatch, Load
  <2>6. QED
    BY <1>0, <1>1, <1>2, <2>1, <2>3, <2>4, <2>5, LoadSound
<1>7. ASSUME NEW r \in Requests, Decide(r) PROVE \E x : Loads(r, x)
  <2>1. PICK o \in Offers, party \in Party, to \in OfferStatus :
          /\ IsPending(o) /\ MayDecide(party, to) /\ Waiting(r) /\ UNCHANGED Tables
          /\ Assign(r, [Idle EXCEPT !.phase = "ready", !.op = "decide", !.todo = {o},
                                    !.loaded = [y \in {o} |-> row[y]],
                                    !.entity = [y \in {o} |-> [row[y] EXCEPT !.status = to]]])
    BY <1>7 DEF Decide, Load
  <2>2. PICK e : e = [y \in {o} |-> [row[y] EXCEPT !.status = to]]
    OBVIOUS
  <2>3. Edited("decide", o, row[o], e[o])
    BY <1>0, <1>2, <2>1, <2>2 DEF Edited, Offer, OfferStatus, MayDecide
  <2>4. {o} \in SUBSET Rows /\ "decide" \in Op \ {"offer"} /\ DOMAIN e = {o}
    BY <1>0, <2>2 DEF Op
  <2>5. LoadsBatch(r, "decide", {o}, e)
    BY <2>1, <2>2 DEF LoadsBatch, Load
  <2>6. QED
    BY <1>0, <1>1, <1>2, <2>1, <2>3, <2>4, <2>5, LoadSound
<1>8. ASSUME ExpirePendingOffers PROVE \E h \in Handlers : \E x : Loads(h, x)
  <2>1. PICK batch \in SUBSET {o \in Offers : IsPending(o)} :
          "expireOffers" \in Jobs /\ Load("expireOffers", "expireOffers", batch, Cancelled)
    BY <1>8 DEF ExpirePendingOffers
  <2>2. PICK e : e = [y \in batch |-> Cancelled(row[y])]
    OBVIOUS
  <2>3. \A o \in batch : row[o] # None /\ Edited("expireOffers", o, row[o], e[o])
    BY <1>0, <1>2, <2>1, <2>2 DEF Edited, Offer, OfferStatus, Cancelled
  <2>4. batch \in SUBSET Rows /\ "expireOffers" \in Op \ {"offer"} /\ DOMAIN e = batch
    BY <1>0, <2>2 DEF Op, ScheduledJobs
  <2>5. LoadsBatch("expireOffers", "expireOffers", batch, e)
    BY <2>1, <2>2 DEF LoadsBatch, Load
  <2>6. QED
    BY <1>0, <1>2, <2>1, <2>2, <2>3, <2>4, <2>5, LoadSound
<1>9. ASSUME ExpireRequests PROVE \E h \in Handlers : \E x : Loads(h, x)
  <2>1. PICK batch \in SUBSET {q \in ItemRequests : IsOpen(q)} :
          "expireRequests" \in Jobs /\ Load("expireRequests", "expireRequests", batch, Cancelled)
    BY <1>9 DEF ExpireRequests
  <2>2. PICK e : e = [y \in batch |-> Cancelled(row[y])]
    OBVIOUS
  <2>3. \A q \in batch : row[q] # None /\ Edited("expireRequests", q, row[q], e[q])
    BY <1>0, <1>1, <2>1, <2>2
       DEF Edited, IsOpen, Whole, Listing, Later, ListingRank, TripStatus, Cancelled
  <2>4. batch \in SUBSET Rows /\ "expireRequests" \in Op \ {"offer"} /\ DOMAIN e = batch
    BY <1>0, <2>2 DEF Op, ScheduledJobs
  <2>5. LoadsBatch("expireRequests", "expireRequests", batch, e)
    BY <2>1, <2>2 DEF LoadsBatch, Load
  <2>6. QED
    BY <1>0, <1>2, <2>1, <2>2, <2>3, <2>4, <2>5, LoadSound
<1>10. ASSUME NEW r \in Requests, CreateOffer(r) PROVE \E x : Loads(r, x)
  <2>1. PICK x : x = [Idle EXCEPT !.phase = "insert", !.op = "offer"]
    OBVIOUS
  <2>2. IsState(x) /\ x.phase = "insert" /\ x.op = "offer" /\ x.todo = {}
    BY <2>1 DEF Idle, IsState
  <2>3. Sound(x) /\ UpToDate(x)
    BY <2>2 DEF Sound, UpToDate, HasBatch, Phase, Op
  <2>4. QED
    BY <1>10, <2>1, <2>2, <2>3 DEF CreateOffer, Loads
<1>11. QED
  BY <1>0, <1>3, <1>4, <1>5, <1>6, <1>7, <1>8, <1>9, <1>10 DEF RequestStep

-----------------------------------------------------------------------------
(***************************************************************************)
(* Every step leaves rows and handlers sound, and rows move forward only.  *)
(***************************************************************************)
LEMMA LoadKeepsRows ==
  ASSUME RowsSound, NEW h \in Handlers, NEW x, Loads(h, x)
  PROVE  RowsSound' /\ RowsMove
<1>1. UNCHANGED <<row, stale>>
  BY DEF Loads, Tables
<1>2. HandlersSound'
  BY <1>1, HandlersStay DEF Loads, RowsSound
<1>3. QED
  BY <1>1, <1>2, NothingMoves DEF RowsSound, RowsTyped, Intact

LEMMA CreateListingKeepsRows ==
  ASSUME RowsSound, CreateListing
  PROVE  RowsSound' /\ RowsMove
<1>1. PICK l \in Listings :
        /\ row[l] = None
        /\ row' = [row EXCEPT ![l] = [status |-> "open", deleted |-> FALSE]]
        /\ UNCHANGED <<orders, handler, told, failures, stale>>
  BY DEF CreateListing
<1>2. /\ row' = [y \in Rows |-> row'[y]]
      /\ row'[l] = [status |-> "open", deleted |-> FALSE] /\ \A y \in Rows \ {l} : row'[y] = row[y]
      /\ Intact' = Intact
  BY <1>1 DEF RowsSound, RowsTyped, Rows, Intact
<1>3. row'[l] \in Listing /\ row'[l] # None /\ ~row'[l].deleted
  <2>1. row'[l] \in Listing /\ ~row'[l].deleted
    BY <1>2 DEF Listing, TripStatus
  <2>2. QED
    BY <2>1, NoneAssumption
<1>4. RowsMove
  BY <1>1, <1>2, <1>3 DEF RowsMove, Moves, Intact
<1>5. RowsTyped'
  <2>1. l \notin Offers /\ Listings \subseteq Rows /\ Offers \subseteq Rows
    BY RowsAssumption DEF Rows
  <2>2. \A k \in Listings : row'[k] \in Listing \cup {None}
    BY <1>2, <1>3, <2>1 DEF RowsSound, RowsTyped
  <2>3. \A k \in Offers : row'[k] \in Offer \cup {None}
    BY <1>2, <2>1 DEF RowsSound, RowsTyped
  <2>4. \A k \in Listings \cap Intact : row'[k] # None => Whole(row'[k])
    BY <1>2, <1>3, <2>1 DEF RowsSound, RowsTyped, Whole
  <2>5. QED
    BY <1>2, <2>2, <2>3, <2>4 DEF RowsTyped, Whole
<1>6. HandlersSound'
  <2>1. ASSUME NEW h \in Handlers PROVE Sound(handler[h])' /\ UpToDate(handler[h])'
    <3>1. PICK x : x = handler[h]
      OBVIOUS
    <3>2. Sound(x)' /\ UpToDate(x)'
      BY <1>4, <3>1, SoundStays DEF RowsSound, HandlersSound
    <3>3. handler'[h] = x
      BY <1>1, <3>1
    <3>4. QED
      BY <3>2, <3>3
  <2>2. QED
    BY <1>1, <2>1 DEF RowsSound, HandlersSound
<1>7. QED
  BY <1>1, <1>4, <1>5, <1>6 DEF RowsSound

LEMMA InsertOfferKeepsRows ==
  ASSUME RowsSound, NEW h \in Handlers, InsertOffer(h)
  PROVE  RowsSound' /\ RowsMove
<1>1. PICK o \in Offers, price \in Prices :
        /\ row[o] = None
        /\ row' = [row EXCEPT ![o] = [status |-> "pending", price |-> price]]
        /\ Assign(h, [handler[h] EXCEPT !.phase = "announce", !.subject = o, !.due = {"recipient"}])
        /\ handler[h].phase = "insert" /\ UNCHANGED <<orders, told, failures, stale>>
  BY DEF InsertOffer
<1>2. /\ row' = [y \in Rows |-> row'[y]]
      /\ row'[o] = [status |-> "pending", price |-> price] /\ \A y \in Rows \ {o} : row'[y] = row[y]
  BY <1>1 DEF RowsSound, RowsTyped, Rows
<1>3. row'[o] \in Offer /\ row'[o] # None
  BY <1>2, NoneAssumption DEF Offer, OfferStatus
<1>4. RowsMove
  BY <1>1, <1>2, <1>3 DEF RowsMove, Moves, Intact
<1>5. RowsTyped'
  BY <1>1, <1>2, <1>3, RowsAssumption DEF RowsSound, RowsTyped, Whole, Intact, Rows
<1>6. PICK x : x = [handler[h] EXCEPT !.phase = "announce", !.subject = o, !.due = {"recipient"}]
  OBVIOUS
<1>7. Sound(handler[h]) /\ handler[h].op = "offer" /\ handler[h].todo = {}
  BY <1>1 DEF RowsSound, HandlersSound, Sound
<1>8. /\ IsState(x) /\ x.phase = "announce" /\ x.op = "offer" /\ x.todo = {} /\ x.subject = o
      /\ x.due = {"recipient"}
  BY <1>6, <1>7 DEF Sound, IsState
<1>9. Sound(x)' /\ UpToDate(x)'
  BY <1>3, <1>8 DEF Sound, UpToDate, HasBatch, Phase, Op, IsState
<1>10. HandlersSound'
  BY <1>1, <1>4, <1>6, <1>9, HandlersGoOn DEF RowsSound
<1>11. QED
  BY <1>1, <1>4, <1>5, <1>10 DEF RowsSound

LEMMA SaveSelectKeepsRows ==
  ASSUME RowsSound, NEW h \in Handlers, SaveSelect(h)
  PROVE  RowsSound' /\ RowsMove
<1>1. PICK y \in handler[h].todo :
        Assign(h, [handler[h] EXCEPT !.phase = "selected", !.subject = y, !.todo = @ \ {y},
                     !.dirty = DirtyColumns(handler[h].entity[y], row[y])])
  BY DEF SaveSelect
<1>2. PICK x : x = handler[h]
  OBVIOUS
<1>3. x.phase = "ready" /\ Sound(x) /\ UpToDate(x) /\ HasBatch(x) /\ UNCHANGED <<row, stale>>
  BY <1>2 DEF SaveSelect, RowsSound, HandlersSound, HasBatch, Tables
<1>4. PICK z : z = [x EXCEPT !.phase = "selected", !.subject = y, !.todo = @ \ {y},
                             !.dirty = DirtyColumns(x.entity[y], row[y])]
  OBVIOUS
<1>5. /\ IsState(z) /\ z.phase = "selected" /\ z.op = x.op /\ z.todo = x.todo \ {y} /\ z.subject = y
      /\ z.loaded = x.loaded /\ z.entity = x.entity /\ z.dirty = DirtyColumns(x.entity[y], row[y])
  BY <1>3, <1>4 DEF Sound, IsState
<1>6. y \in DOMAIN x.entity /\ y \in Rows /\ row[y] # None
  BY <1>1, <1>2, <1>3 DEF Sound
<1>7. Sound(z)
  BY <1>3, <1>5, <1>6 DEF Sound, HasBatch, Phase, Accepts
<1>8. y \in Listings => DOMAIN row[y] = {"status", "deleted"}
  BY <1>6 DEF RowsSound, RowsTyped, Listing
<1>9. y \in Offers => DOMAIN row[y] = {"status", "price"}
  BY <1>6 DEF RowsSound, RowsTyped, Offer
<1>10. UpToDate(z)
  BY <1>3, <1>5, <1>8, <1>9 DEF UpToDate, HasBatch, DirtyColumns
<1>11. HandlersSound'
  BY <1>1, <1>2, <1>3, <1>4, <1>7, <1>10, HandlersStay DEF RowsSound
<1>12. QED
  BY <1>3, <1>11, NothingMoves DEF RowsSound, RowsTyped, Intact

\* The entity that a handler is about to save over the row it compared it with.
LEMMA Selected ==
  ASSUME RowsSound, NEW h \in Handlers, handler[h].phase = "selected"
  PROVE  LET x == handler[h] IN
           /\ Sound(x) /\ UpToDate(x) /\ HasBatch(x)
           /\ x.subject \in Rows /\ row[x.subject] # None
           /\ x.subject \in DOMAIN x.entity /\ x.subject \in DOMAIN x.loaded
           /\ Edited(x.op, x.subject, x.loaded[x.subject], x.entity[x.subject])
BY DEF RowsSound, HandlersSound, Sound, HasBatch

\* What save leaves of an offer and of a listing.
LEMMA SaveUpdateRow ==
  ASSUME RowsSound, NEW h \in Handlers, SaveUpdate(h)
  PROVE  LET x == handler[h]
             y == handler[h].subject
         IN /\ row' = [z \in Rows |-> row'[z]] /\ \A z \in Rows \ {y} : row'[z] = row[z]
            /\ row'[y] = SavedColumns(row[y], x.entity[y], x.dirty)
            /\ stale' \in [Rows -> Nat] /\ Intact' \subseteq Intact
            /\ \A z \in Rows \ {y} : z \in Intact' <=> z \in Intact
            /\ y \in Intact' => row[y] = x.loaded[y]
            /\ y \in Listings => row[y] \in Listing /\ row'[y] \in Listing
            /\ y \in Offers => row[y] \in Offer /\ row'[y] \in Offer
            /\ y \in Listings \cap Intact' => row'[y] = x.entity[y]
            /\ y \in Offers \cap Intact' =>
                 /\ row[y].status = "pending" /\ row'[y].status = x.entity[y].status
                 /\ x.op \in {"decide", "expireOffers"} => row'[y].price = x.entity[y].price
<1> DEFINE x == handler[h]
           y == handler[h].subject
           entity == x.entity[y]
<1>1. x.phase = "selected" /\ row' = [row EXCEPT ![y] = SavedColumns(@, entity, x.dirty)]
  BY DEF SaveUpdate
<1>2. stale' = IF row[y] = x.loaded[y] THEN stale ELSE [stale EXCEPT ![y] = @ + 1]
  BY DEF SaveUpdate
<1>3. /\ Sound(x) /\ UpToDate(x) /\ HasBatch(x) /\ y \in Rows /\ row[y] # None
      /\ Edited(x.op, y, x.loaded[y], entity)
  BY <1>1, Selected
<1>4. row' = [z \in Rows |-> row'[z]] /\ \A z \in Rows \ {y} : row'[z] = row[z]
  BY <1>1, <1>3 DEF RowsSound, RowsTyped
<1>5. row'[y] = SavedColumns(row[y], entity, x.dirty)
  BY <1>1, <1>3 DEF RowsSound, RowsTyped
<1>6. /\ stale' \in [Rows -> Nat] /\ Intact' \subseteq Intact
      /\ \A z \in Rows \ {y} : z \in Intact' <=> z \in Intact
      /\ y \in Intact' => row[y] = x.loaded[y]
  BY <1>2, <1>3 DEF RowsSound, Intact
<1>7. ASSUME y \in Listings PROVE row[y] \in Listing /\ entity \in Listing /\ row'[y] \in Listing
  <2>1. row[y] \in Listing
    BY <1>3, <1>7 DEF RowsSound, RowsTyped
  <2>2. entity \in Listing
    BY <1>3, <1>7, RowsAssumption DEF Edited, Whole
  <2>3. QED
    BY <1>5, <2>1, <2>2, SavedListing
<1>8. ASSUME y \in Offers
      PROVE  /\ row[y] \in Offer /\ entity \in Offer /\ row'[y] \in Offer
             /\ x.loaded[y].status = "pending" /\ x.op \in {"price", "decide", "expireOffers"}
             /\ x.op = "price" => entity.status = "pending"
             /\ x.op # "price" => entity.status # "pending" /\ entity.price = x.loaded[y].price
  <2>1. row[y] \in Offer
    BY <1>3, <1>8 DEF RowsSound, RowsTyped
  <2>2. entity \in Offer /\ x.loaded[y].status = "pending" /\ x.op \in {"price", "decide", "expireOffers"}
        /\ (x.op = "price" => entity.status = "pending")
        /\ (x.op # "price" => entity.status # "pending" /\ entity.price = x.loaded[y].price)
    BY <1>3, <1>8, RowsAssumption DEF Edited
  <2>3. QED
    BY <1>5, <2>1, <2>2, SavedOffer
<1>9. ASSUME y \in Listings \cap Intact' PROVE row'[y] = entity
  <2>1. y \in Intact \cap Listings /\ row[y] = x.loaded[y]
    BY <1>6, <1>9
  <2>2. \A c \in {"status", "deleted"} : entity[c] # row[y][c] => c \in x.dirty
    BY <1>1, <2>1, <1>3 DEF UpToDate
  <2>3. row[y] \in Listing /\ entity \in Listing /\ row'[y] \in Listing
    BY <1>7, <1>9
  <2>4. /\ row'[y].status = IF "status" \in x.dirty THEN entity.status ELSE row[y].status
        /\ row'[y].deleted = IF "deleted" \in x.dirty THEN entity.deleted ELSE row[y].deleted
    BY <1>5, <2>3, SavedListing
  <2>5. row'[y].status = entity.status /\ row'[y].deleted = entity.deleted
    BY <2>2, <2>4
  <2>6. QED
    BY <2>3, <2>5 DEF Listing
<1>10. ASSUME y \in Offers \cap Intact'
       PROVE  /\ row[y].status = "pending" /\ row'[y].status = entity.status
              /\ x.op \in {"decide", "expireOffers"} => row'[y].price = entity.price
  <2>1. y \in Intact \cap Offers /\ row[y] = x.loaded[y]
    BY <1>6, <1>10
  <2>2. /\ row[y] \in Offer /\ entity \in Offer /\ row[y].status = "pending"
        /\ x.op \in {"price", "decide", "expireOffers"}
        /\ x.op = "price" => entity.status = "pending"
        /\ x.op # "price" => entity.status # "pending" /\ entity.price = row[y].price
    BY <1>8, <2>1
  <2>3. entity.status # "pending" => "status" \in x.dirty
    BY <1>1, <1>3, <2>1, <2>2 DEF UpToDate
  <2>4. /\ row'[y].status = IF "status" \in x.dirty THEN entity.status ELSE row[y].status
        /\ row'[y].price = IF "price" \in x.dirty THEN entity.price ELSE row[y].price
    BY <1>5, <2>2, SavedOffer
  <2>5. QED
    BY <2>2, <2>3, <2>4
<1>11. QED
  BY <1>4, <1>5, <1>6, <1>7, <1>8, <1>9, <1>10

LEMMA SaveUpdateKeepsRows ==
  ASSUME RowsSound, NEW h \in Handlers, SaveUpdate(h)
  PROVE  RowsSound' /\ RowsMove
<1>1. PICK x : x = handler[h]
  OBVIOUS
<1>2. PICK y : y = x.subject
  OBVIOUS
<1>3. /\ Sound(x) /\ UpToDate(x) /\ HasBatch(x) /\ y \in Rows /\ row[y] # None
      /\ y \in DOMAIN x.entity /\ y \in DOMAIN x.loaded /\ x.phase = "selected"
      /\ Edited(x.op, y, x.loaded[y], x.entity[y])
  BY <1>1, <1>2, Selected DEF SaveUpdate
<1>4. /\ row' = [z \in Rows |-> row'[z]] /\ \A z \in Rows \ {y} : row'[z] = row[z]
      /\ stale' \in [Rows -> Nat] /\ Intact' \subseteq Intact
      /\ \A z \in Rows \ {y} : z \in Intact' <=> z \in Intact
      /\ y \in Intact' => row[y] = x.loaded[y]
      /\ y \in Listings => row[y] \in Listing /\ row'[y] \in Listing
      /\ y \in Offers => row[y] \in Offer /\ row'[y] \in Offer
      /\ y \in Listings \cap Intact' => row'[y] = x.entity[y]
      /\ y \in Offers \cap Intact' => row[y].status = "pending"
  BY <1>1, <1>2, SaveUpdateRow
<1>5. Listings \subseteq Rows /\ Offers \subseteq Rows /\ Listings \cap Offers = {}
      /\ Rows = Listings \cup Offers
  BY RowsAssumption DEF Rows
<1>6. RowsMove
  <2>1. row'[y] # None
    BY <1>3, <1>4, <1>5, NoneAssumption
  <2>2. ASSUME y \in Intact' PROVE Moves(y)
    BY <1>3, <1>4, <1>5, <2>2 DEF Moves, Edited
  <2>3. Intact' \subseteq Rows
    BY DEF Intact
  <2>4. QED
    BY <1>4, <2>1, <2>2, <2>3 DEF RowsMove, Moves
<1>7. RowsTyped'
  <2>1. \A k \in Listings : row'[k] \in Listing \cup {None}
    BY <1>4, <1>5 DEF RowsSound, RowsTyped
  <2>2. \A k \in Offers : row'[k] \in Offer \cup {None}
    BY <1>4, <1>5 DEF RowsSound, RowsTyped
  <2>3. ASSUME NEW k \in Listings \cap Intact', row'[k] # None PROVE Whole(row'[k])
    <3>1. CASE k = y
      BY <1>3, <1>4, <1>5, <2>3, <3>1 DEF Edited
    <3>2. CASE k # y
      BY <1>4, <1>5, <2>3, <3>2 DEF RowsSound, RowsTyped
    <3>3. QED
      BY <3>1, <3>2
  <2>4. QED
    BY <1>4, <2>1, <2>2, <2>3 DEF RowsTyped, Whole
<1>8. Sound(x)' /\ UpToDate(x)'
  BY <1>3, <1>6, SoundStays
<1>9. PICK due : due = Recipients(x.op, x.entity[y])
  OBVIOUS
<1>10. Assign(h, IF due = {} THEN Continue(h)
                 ELSE [x EXCEPT !.phase = "announce", !.dirty = {}, !.due = due])
  BY <1>1, <1>2, <1>9 DEF SaveUpdate
<1>11. CASE due = {}
  <2>1. PICK z : z = Continue(h)
    OBVIOUS
  <2>2. z \in {Idle, [x EXCEPT !.phase = "ready", !.subject = None, !.dirty = {}, !.due = {}]}
    BY <1>1, <2>1 DEF Continue
  <2>3. Sound(z)' /\ UpToDate(z)'
    BY <1>3, <1>8, <2>2, ContinueSound
  <2>4. HandlersSound'
    BY <1>6, <1>10, <1>11, <2>1, <2>3, HandlersGoOn DEF RowsSound
  <2>5. QED
    BY <1>4, <1>6, <1>7, <2>4 DEF RowsSound
<1>12. CASE due # {}
  <2>1. PICK z : z = [x EXCEPT !.phase = "announce", !.dirty = {}, !.due = due]
    OBVIOUS
  <2>2. /\ IsState(z) /\ z.phase = "announce" /\ z.op = x.op /\ z.todo = x.todo /\ z.subject = y
        /\ z.loaded = x.loaded /\ z.entity = x.entity /\ z.due = due
    BY <1>2, <1>3, <2>1 DEF Sound, IsState
  <2>3. x.op # "offer"
    BY <1>3 DEF Edited
  <2>4. Sound(z)'
    BY <1>2, <1>8, <1>9, <1>12, <1>3, <2>2, <2>3 DEF Sound, HasBatch, Phase, IsState
  <2>5. UpToDate(z)'
    BY <1>8, <1>3, <2>2 DEF UpToDate, HasBatch
  <2>6. HandlersSound'
    BY <1>6, <1>10, <1>12, <2>1, <2>4, <2>5, HandlersGoOn DEF RowsSound
  <2>7. QED
    BY <1>4, <1>6, <1>7, <2>6 DEF RowsSound
<1>13. QED
  BY <1>11, <1>12

\* A handler that announces, and what it does next.
LEMMA AnnounceKeepsRows ==
  ASSUME RowsSound, NEW h \in Handlers, Announce(h)
  PROVE  RowsSound' /\ RowsMove
<1>1. PICK x : x = handler[h]
  OBVIOUS
<1>2. PICK party : party = IF "sender" \in x.due THEN "sender" ELSE CHOOSE p \in x.due : TRUE
  OBVIOUS
<1>3. PICK rest : rest = x.due \ {party}
  OBVIOUS
<1>4. /\ Sound(x) /\ UpToDate(x) /\ x.phase = "announce" /\ UNCHANGED <<row, stale>>
      /\ Assign(h, CASE rest # {} -> [x EXCEPT !.due = rest]
                     [] rest = {} /\ Accepts(x) -> [x EXCEPT !.phase = "count", !.due = {}]
                     [] OTHER -> Continue(h))
  BY <1>1, <1>2, <1>3 DEF Announce, RowsSound, HandlersSound
<1>5. CASE rest # {}
  <2>1. PICK z : z = [x EXCEPT !.due = rest]
    OBVIOUS
  <2>2. /\ IsState(z) /\ z.phase = "announce" /\ z.op = x.op /\ z.todo = x.todo
        /\ z.subject = x.subject /\ z.loaded = x.loaded /\ z.entity = x.entity /\ z.due = rest
    BY <1>4, <2>1 DEF Sound, IsState
  <2>3. x.op # "offer"
    BY <1>2, <1>3, <1>4, <1>5 DEF Sound
  <2>4. Sound(z)
    BY <1>3, <1>4, <1>5, <2>2, <2>3 DEF Sound, HasBatch, Phase
  <2>5. UpToDate(z)
    BY <1>4, <2>2 DEF UpToDate, HasBatch
  <2>6. QED
    BY <1>4, <1>5, <2>1, <2>4, <2>5, HandlersStay, NothingMoves DEF RowsSound, RowsTyped, Intact
<1>6. CASE rest = {} /\ Accepts(x)
  <2>1. PICK z : z = [x EXCEPT !.phase = "count", !.due = {}]
    OBVIOUS
  <2>2. /\ IsState(z) /\ z.phase = "count" /\ z.op = x.op /\ z.todo = x.todo
        /\ z.subject = x.subject /\ z.loaded = x.loaded /\ z.entity = x.entity
    BY <1>4, <2>1 DEF Sound, IsState
  <2>3. x.op = "decide"
    BY <1>6 DEF Accepts
  <2>4. Sound(z)
    BY <1>4, <1>6, <2>2, <2>3 DEF Sound, HasBatch, Phase, Accepts
  <2>5. UpToDate(z)
    BY <1>4, <2>2, <2>3 DEF UpToDate, HasBatch
  <2>6. QED
    BY <1>4, <1>6, <2>1, <2>4, <2>5, HandlersStay, NothingMoves DEF RowsSound, RowsTyped, Intact
<1>7. CASE rest = {} /\ ~Accepts(x)
  <2>1. PICK z : z = Continue(h)
    OBVIOUS
  <2>2. Assign(h, z)
    BY <1>4, <1>7, <2>1
  <2>3. Sound(z) /\ UpToDate(z)
    <3>1. CASE x.op = "offer"
      <4>1. z = Idle
        BY <1>1, <1>4, <2>1, <3>1 DEF Continue, Sound
      <4>2. QED
        BY <4>1, IdleSound
    <3>2. CASE x.op # "offer"
      <4>1. z \in {Idle, [x EXCEPT !.phase = "ready", !.subject = None, !.dirty = {}, !.due = {}]}
        BY <1>1, <2>1 DEF Continue
      <4>2. HasBatch(x)
        BY <1>4, <3>2 DEF HasBatch
      <4>3. QED
        BY <1>4, <4>1, <4>2, ContinueSound
    <3>3. QED
      BY <3>1, <3>2
  <2>4. QED
    BY <1>4, <2>2, <2>3, HandlersStay, NothingMoves DEF RowsSound, RowsTyped, Intact
<1>8. QED
  BY <1>5, <1>6, <1>7

LEMMA CountKeepsRows ==
  ASSUME RowsSound, NEW h \in Handlers, CountOrders(h)
  PROVE  RowsSound' /\ RowsMove
<1>1. PICK x : x = handler[h]
  OBVIOUS
<1>2. PICK n : n = Cardinality(orders)
  OBVIOUS
<1>3. PICK z : z = [x EXCEPT !.phase = "number", !.count = n]
  OBVIOUS
<1>4. /\ Sound(x) /\ UpToDate(x) /\ x.phase = "count" /\ UNCHANGED <<row, stale>> /\ Assign(h, z)
  BY <1>1, <1>2, <1>3 DEF CountOrders, RowsSound, HandlersSound, Tables
<1>5. /\ IsState(z) /\ z.phase = "number" /\ z.op = x.op /\ z.todo = x.todo
      /\ z.subject = x.subject /\ z.loaded = x.loaded /\ z.entity = x.entity
  BY <1>3, <1>4 DEF Sound, IsState
<1>6. Accepts(x)
  BY <1>4 DEF Sound
<1>7. Sound(z) /\ UpToDate(z)
  BY <1>4, <1>5, <1>6 DEF Sound, UpToDate, HasBatch, Phase, Accepts
<1>8. QED
  BY <1>4, <1>7, HandlersStay, NothingMoves DEF RowsSound, RowsTyped, Intact

LEMMA EndKeepsRows ==
  ASSUME RowsSound, NEW h \in Handlers, InsertOrder(h) \/ Fail(h)
  PROVE  RowsSound' /\ RowsMove
<1>1. UNCHANGED <<row, stale>> /\ Assign(h, Idle)
  BY DEF InsertOrder, Fail
<1>2. QED
  BY <1>1, IdleSound, HandlersStay, NothingMoves DEF RowsSound, RowsTyped, Intact

LEMMA RowsSoundInit == Init => RowsSound
<1> SUFFICES ASSUME Init PROVE RowsSound
  OBVIOUS
<1>1. RowsTyped /\ stale \in [Rows -> Nat]
  BY DEF Init, RowsTyped, Rows
<1>2. handler = [h \in Handlers |-> handler[h]] /\ \A h \in Handlers : handler[h] = Idle
  BY DEF Init
<1>3. HandlersSound
  BY <1>2, IdleSound DEF HandlersSound
<1>4. QED
  BY <1>1, <1>3 DEF RowsSound

LEMMA RowsSoundStep == RowsSound /\ [Next]_vars => RowsSound' /\ RowsMove
<1> SUFFICES ASSUME RowsSound, [Next]_vars PROVE RowsSound' /\ RowsMove
  OBVIOUS
<1>1. CASE UNCHANGED vars
  <2>1. UNCHANGED <<row, stale, handler>>
    BY <1>1 DEF vars
  <2>2. HandlersSound'
    BY <2>1 DEF RowsSound, HandlersSound, Sound, UpToDate, IsState, HasBatch, Intact
  <2>3. QED
    BY <2>1, <2>2, NothingMoves DEF RowsSound, RowsTyped, Intact
<1>2. CASE (\E r \in Requests : RequestStep(r)) \/ ExpirePendingOffers \/ ExpireRequests
  BY <1>2, StartLoads, LoadKeepsRows DEF RowsSound
<1>3. ASSUME NEW h \in Handlers, HandlerStep(h) \/ Fail(h) PROVE RowsSound' /\ RowsMove
  BY <1>3, InsertOfferKeepsRows, SaveSelectKeepsRows, SaveUpdateKeepsRows, AnnounceKeepsRows,
     CountKeepsRows, EndKeepsRows DEF HandlerStep
<1>4. QED
  BY <1>1, <1>2, <1>3, CreateListingKeepsRows DEF Next

-----------------------------------------------------------------------------
(***************************************************************************)
(* What becomes of an offer that was accepted.                             *)
(***************************************************************************)

\* The handler has accepted o and will insert the order.
OnItsWay(x, o) ==
  x.phase \in {"announce", "count", "number"} /\ x.subject = o /\ Accepts(x)

LEMMA OrderingIs == \A o : Ordering(o) = {h \in Handlers : OnItsWay(handler[h], o)}
BY DEF Ordering, OnItsWay

LEMMA AssignIs ==
  ASSUME RowsSound, NEW h \in Handlers, NEW x, Assign(h, x)
  PROVE  \A g \in Handlers : handler'[g] = IF g = h THEN x ELSE handler[g]
BY DEF RowsSound, HandlersSound, Assign

\* No handler is at work on an offer that is not there.
LEMMA NobodyAtWork ==
  ASSUME RowsSound, NEW o, row[o] = None, NEW h \in Handlers
  PROVE  ~OnItsWay(handler[h], o) /\ ~Tells(handler[h], o)
<1>1. Sound(handler[h])
  BY DEF RowsSound, HandlersSound
<1>2. OnItsWay(handler[h], o) \/ Tells(handler[h], o)
        => HasBatch(handler[h]) /\ handler[h].phase # "ready" /\ handler[h].subject = o
  BY DEF OnItsWay, Tells, HasBatch, Accepts
<1>3. QED
  BY <1>1, <1>2 DEF Sound

\* The offers are as they were, but for new ones.
SameOffers == \A o \in Offers : row'[o] = row[o] \/ (row[o] = None /\ row'[o].status = "pending")

LEMMA TablesKept ==
  ASSUME TablesTyped, RowsMove, UNCHANGED <<orders, told, failures>>
  PROVE  TablesTyped'
<1>1. \A a \in orders : a.offer \in Rows
  BY DEF TablesTyped, Order, Rows
<1>2. \A n \in told : n.about \in Rows
  BY DEF TablesTyped, Notice
<1>3. QED
  BY <1>1, <1>2 DEF TablesTyped, RowsMove

\* A handler gets a new state in which it is to insert no other order.
LEMMA OrderedOnceKept ==
  ASSUME RowsSound, TablesTyped, OrderedOnce, RowsMove, SameOffers, UNCHANGED orders,
         \A h \in Handlers : \A o \in Offers :
           OnItsWay(handler'[h], o)
             => OnItsWay(handler[h], o) /\ handler'[h].entity = handler[h].entity
  PROVE  OrderedOnce'
<1> SUFFICES ASSUME NEW o \in Intact' \cap Offers
             PROVE  /\ \A h \in Ordering(o)' : /\ row'[o].status = "accepted"
                                              /\ row'[o].price = handler'[h].entity[o].price
                    /\ \A g, h \in Ordering(o)' : g = h
                    /\ \A a \in orders : a.offer = o =>
                         /\ row'[o].status = "accepted" /\ a.price = row'[o].price
                         /\ Ordering(o)' = {}
                    /\ \A a, b \in orders : a.offer = o /\ b.offer = o => a = b
  BY DEF OrderedOnce
<1>1. o \in Intact \cap Offers
  BY DEF RowsMove
<1>2. Ordering(o)' = {h \in Handlers : OnItsWay(handler'[h], o)}
  BY DEF Ordering, OnItsWay, Accepts
<1>3. Ordering(o)' \subseteq Ordering(o)
  BY <1>2, OrderingIs
<1>4. CASE row[o] = None
  <2>1. Ordering(o)' = {} /\ \A a \in orders : a.offer # o
    BY <1>2, <1>4, NobodyAtWork DEF TablesTyped
  <2>2. QED
    BY <2>1
<1>5. CASE row'[o] = row[o]
  <2>1. \A h \in Ordering(o)' : h \in Ordering(o) /\ handler'[h].entity = handler[h].entity
    BY <1>2, <1>3
  <2>2. QED
    BY <1>1, <1>3, <1>5, <2>1 DEF OrderedOnce
<1>6. QED
  BY <1>4, <1>5 DEF SameOffers

LEMMA FirstKept ==
  ASSUME FirstAcceptanceOrders, SameOffers, UNCHANGED orders,
         \/ failures' # 0
         \/ failures' = failures /\ \A h \in Handlers : \A o \in Offers :
              OnItsWay(handler[h], o) => OnItsWay(handler'[h], o)
  PROVE  FirstAcceptanceOrders'
<1> SUFFICES ASSUME failures' = 0, orders = {},
                    \E o \in Offers : row'[o] # None /\ row'[o].status = "accepted"
             PROVE  \E o \in Offers : Ordering(o)' # {}
  BY DEF FirstAcceptanceOrders
<1>1. \E o \in Offers : row[o] # None /\ row[o].status = "accepted"
  BY DEF SameOffers
<1>2. PICK o \in Offers : Ordering(o) # {}
  BY <1>1 DEF FirstAcceptanceOrders
<1>3. PICK h \in Handlers : OnItsWay(handler[h], o)
  BY <1>2, OrderingIs
<1>4. h \in Ordering(o)'
  BY <1>3 DEF Ordering, OnItsWay, Accepts
<1>5. QED
  BY <1>4

LEMMA NewsKept ==
  ASSUME RowsSound, TablesTyped, NewsTrue, RowsMove, SameOffers, UNCHANGED told,
         \A h \in Handlers : \A o \in Offers :
           Tells(handler'[h], o) => Tells(handler[h], o) /\ handler'[h].entity = handler[h].entity,
         \/ failures' # 0
         \/ failures' = failures /\ \A h \in Handlers : \A o \in Offers :
              Tells(handler[h], o) => Tells(handler'[h], o)
  PROVE  NewsTrue'
<1> SUFFICES ASSUME NEW o \in Intact' \cap Offers
             PROVE  /\ \A h \in Telling(o)' : row'[o].status = handler'[h].entity[o].status
                    /\ \A n \in News(o)' :
                         /\ row'[o].status = IF n.label = "expired" THEN "cancelled" ELSE n.label
                         /\ n.label = "cancelled" => n.to = "recipient"
                         /\ n.label \in {"accepted", "rejected"} => n.to = "sender"
                    /\ (failures' = 0 /\ row'[o] # None /\ row'[o].status # "pending")
                         => News(o)' # {} \/ Telling(o)' # {}
  BY DEF NewsTrue
<1>1. o \in Intact \cap Offers
  BY DEF RowsMove
<1>2. News(o)' = News(o)
  BY DEF News
<1>3. Telling(o)' \subseteq Telling(o) /\ \A h \in Telling(o)' : handler'[h].entity = handler[h].entity
  BY DEF Telling, Tells
<1>4. CASE row[o] = None /\ row'[o].status = "pending"
  <2>1. News(o) = {} /\ Telling(o) = {}
    BY <1>4, NobodyAtWork DEF TablesTyped, News, Telling
  <2>2. QED
    BY <1>2, <1>3, <1>4, <2>1
<1>5. CASE row'[o] = row[o]
  <2>1. failures' = 0 => failures = 0 /\ Telling(o) \subseteq Telling(o)'
    BY DEF Telling, Tells
  <2>2. QED
    BY <1>1, <1>2, <1>3, <1>5, <2>1 DEF NewsTrue
<1>6. QED
  BY <1>4, <1>5 DEF SameOffers

-----------------------------------------------------------------------------
(***************************************************************************)
(* The steps, one by one.                                                  *)
(***************************************************************************)
\* Orders, announcements and offers agree.
OffersSound == TablesTyped /\ OrderedOnce /\ FirstAcceptanceOrders /\ NewsTrue

\* A handler gets a new state in which it is to insert and announce the same.
LEMMA QuietStep ==
  ASSUME RowsSound, OffersSound, RowsMove, SameOffers, UNCHANGED <<orders, told, failures>>,
         NEW h \in Handlers, NEW x, Assign(h, x),
         \A o \in Offers : /\ OnItsWay(x, o) <=> OnItsWay(handler[h], o)
                           /\ Tells(x, o) <=> Tells(handler[h], o)
                           /\ OnItsWay(x, o) \/ Tells(x, o) => x.entity = handler[h].entity
  PROVE  OffersSound'
<1>1. \A g \in Handlers : handler'[g] = IF g = h THEN x ELSE handler[g]
  BY AssignIs
<1>2. ASSUME NEW g \in Handlers, NEW o \in Offers
      PROVE  /\ OnItsWay(handler'[g], o) <=> OnItsWay(handler[g], o)
             /\ Tells(handler'[g], o) <=> Tells(handler[g], o)
             /\ OnItsWay(handler'[g], o) \/ Tells(handler'[g], o)
                  => handler'[g].entity = handler[g].entity
  BY <1>1
<1>3. OrderedOnce'
  BY <1>2, OrderedOnceKept DEF OffersSound
<1>4. FirstAcceptanceOrders'
  BY <1>2, FirstKept DEF OffersSound
<1>5. NewsTrue'
  BY <1>2, NewsKept DEF OffersSound
<1>6. QED
  BY <1>3, <1>4, <1>5, TablesKept DEF OffersSound

LEMMA LoadQuiet ==
  ASSUME RowsSound, OffersSound, RowsMove, NEW h \in Handlers, NEW x, Loads(h, x)
  PROVE  OffersSound'
<1>1. /\ Assign(h, x) /\ UNCHANGED <<row, orders, told, failures>>
      /\ handler[h].phase = "idle" /\ x.phase \in {"ready", "insert"}
  BY DEF Loads, Waiting, Tables
<1>2. \A o \in Offers : /\ ~OnItsWay(x, o) /\ ~OnItsWay(handler[h], o)
                        /\ ~Tells(x, o) /\ ~Tells(handler[h], o)
  BY <1>1 DEF OnItsWay, Tells
<1>3. QED
  BY <1>1, <1>2, QuietStep DEF SameOffers

LEMMA CreateListingQuiet ==
  ASSUME RowsSound, OffersSound, RowsMove, CreateListing
  PROVE  OffersSound'
<1>1. PICK l \in Listings :
        /\ row' = [row EXCEPT ![l] = [status |-> "open", deleted |-> FALSE]]
        /\ UNCHANGED <<orders, handler, told, failures, stale>>
  BY DEF CreateListing
<1>2. SameOffers
  BY <1>1, RowsAssumption DEF SameOffers, RowsSound, RowsTyped, Rows
<1>3. OrderedOnce'
  BY <1>1, <1>2, OrderedOnceKept DEF OffersSound
<1>4. FirstAcceptanceOrders'
  BY <1>1, <1>2, FirstKept DEF OffersSound
<1>5. NewsTrue'
  BY <1>1, <1>2, NewsKept DEF OffersSound
<1>6. QED
  BY <1>1, <1>3, <1>4, <1>5, TablesKept DEF OffersSound

LEMMA InsertOfferQuiet ==
  ASSUME RowsSound, OffersSound, RowsMove, NEW h \in Handlers, InsertOffer(h)
  PROVE  OffersSound'
<1>1. PICK o \in Offers, price \in Prices :
        /\ row[o] = None
        /\ row' = [row EXCEPT ![o] = [status |-> "pending", price |-> price]]
        /\ Assign(h, [handler[h] EXCEPT !.phase = "announce", !.subject = o, !.due = {"recipient"}])
        /\ handler[h].phase = "insert" /\ UNCHANGED <<orders, told, failures>>
  BY DEF InsertOffer
<1>2. SameOffers
  BY <1>1 DEF SameOffers, RowsSound, RowsTyped, Rows
<1>3. PICK x : x = [handler[h] EXCEPT !.phase = "announce", !.subject = o, !.due = {"recipient"}]
  OBVIOUS
<1>4. handler[h].op = "offer" /\ IsState(handler[h])
  BY <1>1 DEF RowsSound, HandlersSound, Sound
<1>5. x.op = "offer"
  BY <1>3, <1>4 DEF IsState
<1>6. \A p \in Offers : /\ ~OnItsWay(x, p) /\ ~OnItsWay(handler[h], p)
                        /\ ~Tells(x, p) /\ ~Tells(handler[h], p)
  BY <1>4, <1>5 DEF OnItsWay, Tells, Accepts
<1>7. QED
  BY <1>1, <1>2, <1>3, <1>6, QuietStep

LEMMA SaveSelectQuiet ==
  ASSUME RowsSound, OffersSound, RowsMove, NEW h \in Handlers, SaveSelect(h)
  PROVE  OffersSound'
<1>1. PICK y \in handler[h].todo :
        Assign(h, [handler[h] EXCEPT !.phase = "selected", !.subject = y, !.todo = @ \ {y},
                     !.dirty = DirtyColumns(handler[h].entity[y], row[y])])
  BY DEF SaveSelect
<1>2. PICK x : x = [handler[h] EXCEPT !.phase = "selected", !.subject = y, !.todo = @ \ {y},
                     !.dirty = DirtyColumns(handler[h].entity[y], row[y])]
  OBVIOUS
<1>3. handler[h].phase = "ready" /\ UNCHANGED <<row, orders, told, failures>> /\ IsState(handler[h])
  BY DEF SaveSelect, Tables, RowsSound, HandlersSound, Sound
<1>4. x.phase = "selected"
  BY <1>2, <1>3 DEF IsState
<1>5. \A o \in Offers : /\ ~OnItsWay(x, o) /\ ~OnItsWay(handler[h], o)
                        /\ ~Tells(x, o) /\ ~Tells(handler[h], o)
  BY <1>3, <1>4 DEF OnItsWay, Tells
<1>6. QED
  BY <1>1, <1>2, <1>3, <1>5, QuietStep DEF SameOffers

LEMMA CountQuiet ==
  ASSUME RowsSound, OffersSound, RowsMove, NEW h \in Handlers, CountOrders(h)
  PROVE  OffersSound'
<1>1. PICK n : n = Cardinality(orders)
  OBVIOUS
<1>2. PICK x : x = [handler[h] EXCEPT !.phase = "number", !.count = n]
  OBVIOUS
<1>3. /\ handler[h].phase = "count" /\ UNCHANGED <<row, orders, told, failures>>
      /\ Assign(h, x) /\ IsState(handler[h])
  BY <1>1, <1>2 DEF CountOrders, Tables, RowsSound, HandlersSound, Sound
<1>4. /\ x.phase = "number" /\ x.op = handler[h].op /\ x.subject = handler[h].subject
      /\ x.entity = handler[h].entity
  BY <1>2, <1>3 DEF IsState
<1>5. \A o \in Offers : /\ OnItsWay(x, o) <=> OnItsWay(handler[h], o)
                        /\ ~Tells(x, o) /\ ~Tells(handler[h], o)
  BY <1>3, <1>4 DEF OnItsWay, Tells, Accepts
<1>6. QED
  BY <1>3, <1>4, <1>5, QuietStep DEF SameOffers

\* A handler that stops leaves what it wrote.
LEMMA FailKeeps ==
  ASSUME RowsSound, OffersSound, RowsMove, NEW h \in Handlers, Fail(h)
  PROVE  OffersSound'
<1>1. Assign(h, Idle) /\ UNCHANGED <<row, orders, told>> /\ failures' = failures + 1
  BY DEF Fail
<1>2. failures \in Nat /\ failures' # 0 /\ failures' \in Nat
  BY <1>1 DEF OffersSound, TablesTyped
<1>3. \A o : ~OnItsWay(Idle, o) /\ ~Tells(Idle, o)
  BY DEF OnItsWay, Tells, Idle
<1>4. ASSUME NEW g \in Handlers, NEW o \in Offers
      PROVE  /\ OnItsWay(handler'[g], o)
                  => OnItsWay(handler[g], o) /\ handler'[g].entity = handler[g].entity
             /\ Tells(handler'[g], o)
                  => Tells(handler[g], o) /\ handler'[g].entity = handler[g].entity
  BY <1>1, <1>3, AssignIs
<1>5. OrderedOnce'
  BY <1>1, <1>4, OrderedOnceKept DEF OffersSound, SameOffers
<1>6. FirstAcceptanceOrders'
  BY <1>2 DEF FirstAcceptanceOrders
<1>7. NewsTrue'
  BY <1>1, <1>2, <1>4, NewsKept DEF OffersSound, SameOffers
<1>8. TablesTyped'
  BY <1>1, <1>2 DEF OffersSound, TablesTyped
<1>9. QED
  BY <1>5, <1>6, <1>7, <1>8 DEF OffersSound

\* What a handler that tells of an offer, or is to order it, made of it.
LEMMA Decided ==
  ASSUME RowsSound, NEW h \in Handlers, NEW o, OnItsWay(handler[h], o) \/ Tells(handler[h], o)
  PROVE  LET x == handler[h] IN
           /\ o \in Offers /\ row[o] # None /\ x.entity[o] \in Offer
           /\ x.entity[o].status # "pending"
           /\ x.op = "expireOffers" => x.entity[o].status = "cancelled"
<1>1. PICK x : x = handler[h]
  OBVIOUS
<1>2. Sound(x) /\ HasBatch(x) /\ x.phase # "ready" /\ x.subject = o
      /\ x.op \in {"decide", "expireOffers"}
  BY <1>1 DEF OnItsWay, Tells, Accepts, HasBatch, RowsSound, HandlersSound
<1>3. row[o] # None /\ Edited(x.op, o, x.loaded[o], x.entity[o])
  BY <1>2 DEF Sound
<1>4. QED
  BY <1>1, <1>2, <1>3 DEF Edited

\* Saving the decision on an offer starts its order and its announcement.
LEMMA SaveUpdateKeeps ==
  ASSUME RowsSound, OffersSound, RowsMove, NEW h \in Handlers, SaveUpdate(h)
  PROVE  OffersSound'
<1>1. PICK x : x = handler[h]
  OBVIOUS
<1>2. PICK y : y = x.subject
  OBVIOUS
<1>3. /\ Sound(x) /\ UpToDate(x) /\ HasBatch(x) /\ y \in Rows /\ row[y] # None
      /\ y \in DOMAIN x.entity /\ y \in DOMAIN x.loaded /\ x.phase = "selected"
      /\ Edited(x.op, y, x.loaded[y], x.entity[y])
  BY <1>1, <1>2, Selected DEF SaveUpdate
<1>4. /\ \A z \in Rows \ {y} : row'[z] = row[z]
      /\ \A z \in Rows \ {y} : z \in Intact' <=> z \in Intact
      /\ row'[y] = SavedColumns(row[y], x.entity[y], x.dirty)
      /\ y \in Intact' => row[y] = x.loaded[y]
      /\ y \in Offers => row[y] \in Offer /\ row'[y] \in Offer
      /\ y \in Offers \cap Intact' =>
           /\ row[y].status = "pending" /\ row'[y].status = x.entity[y].status
           /\ x.op \in {"decide", "expireOffers"} => row'[y].price = x.entity[y].price
  BY <1>1, <1>2, SaveUpdateRow
<1>5. PICK due : due = Recipients(x.op, x.entity[y])
  OBVIOUS
<1>6. PICK z : z = IF due = {} THEN Continue(h)
                   ELSE [x EXCEPT !.phase = "announce", !.dirty = {}, !.due = due]
  OBVIOUS
<1>7. Assign(h, z) /\ UNCHANGED <<orders, told, failures>>
  BY <1>1, <1>2, <1>5, <1>6 DEF SaveUpdate
<1>8. \A g \in Handlers : handler'[g] = IF g = h THEN z ELSE handler[g]
  BY <1>7, AssignIs
<1>9. \A o : ~OnItsWay(x, o) /\ ~Tells(x, o)
  BY <1>3 DEF OnItsWay, Tells
<1>10. CASE due = {}
  <2>1. z.phase \in {"idle", "ready"}
    BY <1>1, <1>3, <1>6, <1>10 DEF Continue, Idle, Sound, IsState
  <2>2. \A o : ~OnItsWay(z, o) /\ ~Tells(z, o)
    BY <2>1 DEF OnItsWay, Tells
  <2>3. x.op \notin {"decide", "expireOffers"}
    BY <1>5, <1>10 DEF Recipients, Party
  <2>4. ASSUME NEW o \in Offers, row'[o].status = "accepted" PROVE row[o].status = "accepted"
    <3>1. CASE o = y
      <4>1. row[y] \in Offer /\ x.entity[y] \in Offer /\ x.entity[y].status = "pending"
        BY <1>3, <1>4, <2>3, <2>4, <3>1, RowsAssumption DEF Edited
      <4>2. row'[y].status = IF "status" \in x.dirty THEN x.entity[y].status ELSE row[y].status
        BY <1>4, <4>1, SavedOffer
      <4>3. QED
        BY <2>4, <3>1, <4>1, <4>2
    <3>2. CASE o # y
      BY <1>4, <2>4, <3>2 DEF Rows
    <3>3. QED
      BY <3>1, <3>2
  <2>5. FirstAcceptanceOrders'
    <3> SUFFICES ASSUME failures' = 0, orders' = {}, NEW o \in Offers,
                        row'[o] # None, row'[o].status = "accepted"
                 PROVE  \E p \in Offers : Ordering(p)' # {}
      BY DEF FirstAcceptanceOrders
    <3>1. row[o] # None
      BY <1>3, <1>4 DEF Rows
    <3>2. PICK p \in Offers, g \in Handlers : OnItsWay(handler[g], p)
      BY <1>7, <2>4, <3>1, OrderingIs DEF OffersSound, FirstAcceptanceOrders
    <3>3. OnItsWay(handler'[g], p)
      BY <1>1, <1>8, <1>9, <3>2
    <3>4. g \in Ordering(p)'
      BY <3>3 DEF Ordering, OnItsWay, Accepts
    <3>5. QED
      BY <3>4
  <2>6. OrderedOnce'
    <3> SUFFICES ASSUME NEW o \in Intact' \cap Offers
                 PROVE  /\ \A g \in Ordering(o)' : /\ row'[o].status = "accepted"
                                                  /\ row'[o].price = handler'[g].entity[o].price
                        /\ \A f, g \in Ordering(o)' : f = g
                        /\ \A a \in orders' : a.offer = o =>
                             /\ row'[o].status = "accepted" /\ a.price = row'[o].price
                             /\ Ordering(o)' = {}
                        /\ \A a, b \in orders' : a.offer = o /\ b.offer = o => a = b
      BY DEF OrderedOnce
    <3>1. /\ Ordering(o)' \subseteq Ordering(o)
          /\ \A g \in Ordering(o)' : handler'[g] = handler[g]
      <4>1. Ordering(o)' = {g \in Handlers : OnItsWay(handler'[g], o)}
        BY DEF Ordering, OnItsWay, Accepts
      <4>2. QED
        BY <1>8, <2>2, <4>1, OrderingIs
    <3>2. o \in Intact
      BY DEF RowsMove
    <3>3. CASE o = y
      BY <1>4, <1>7, <3>1, <3>2, <3>3 DEF OffersSound, OrderedOnce
    <3>4. CASE o # y
      <4>1. row'[o] = row[o]
        BY <1>4, <3>4 DEF Rows
      <4>2. QED
        BY <1>7, <3>1, <3>2, <4>1 DEF OffersSound, OrderedOnce
    <3>5. QED
      BY <3>3, <3>4
  <2>7. NewsTrue'
    <3> SUFFICES ASSUME NEW o \in Intact' \cap Offers
             PROVE  /\ \A g \in Telling(o)' : row'[o].status = handler'[g].entity[o].status
                    /\ \A n \in News(o)' :
                         /\ row'[o].status = IF n.label = "expired" THEN "cancelled" ELSE n.label
                         /\ n.label = "cancelled" => n.to = "recipient"
                         /\ n.label \in {"accepted", "rejected"} => n.to = "sender"
                    /\ (failures' = 0 /\ row'[o] # None /\ row'[o].status # "pending")
                         => News(o)' # {} \/ Telling(o)' # {}
      BY DEF NewsTrue
    <3>1. Telling(o)' = Telling(o) /\ \A g \in Telling(o) : handler'[g] = handler[g]
      BY <1>1, <1>8, <1>9, <2>2 DEF Telling, Tells
    <3>2. News(o)' = News(o) /\ o \in Intact
      BY <1>7 DEF News, RowsMove
    <3>3. (row'[o].status = row[o].status /\ row[o] # None) \/ row'[o] = row[o]
      <4>1. CASE o = y
        BY <1>3, <1>4, <2>3, <4>1, RowsAssumption DEF Edited
      <4>2. CASE o # y
        BY <1>4, <4>2 DEF Rows
      <4>3. QED
        BY <4>1, <4>2
    <3>4. QED
      BY <1>7, <3>1, <3>2, <3>3 DEF OffersSound, NewsTrue
  <2>8. QED
    BY <1>7, <2>5, <2>6, <2>7, TablesKept DEF OffersSound
<1>11. CASE due # {}
  <2>1. z.phase = "announce" /\ z.op = x.op /\ z.subject = y /\ z.entity = x.entity
    BY <1>2, <1>3, <1>6, <1>11 DEF Sound, IsState
  <2>2. \A o : /\ OnItsWay(z, o) <=> o = y /\ Accepts(x)
               /\ Tells(z, o) <=> o = y /\ x.op \in {"decide", "expireOffers"}
    BY <1>2, <2>1 DEF OnItsWay, Tells, Accepts
  <2>3. y \in Offers => x.op \in {"decide", "expireOffers"} /\ x.entity[y] \in Offer
                        /\ x.entity[y].status # "pending" /\ (~Accepts(x) => x.entity[y].status # "accepted")
    BY <1>2, <1>3, <1>5, <1>11, RowsAssumption DEF Edited, Recipients, Accepts
  <2>4. ASSUME y \in Intact' \cap Offers
        PROVE  /\ y \in Intact /\ Ordering(y) = {} /\ \A a \in orders : a.offer # y
               /\ Telling(y) = {} /\ News(y) = {}
    <3>1. y \in Intact \cap Offers /\ row[y].status = "pending"
      BY <1>4, <2>4 DEF RowsMove
    <3>2. Ordering(y) = {} /\ \A a \in orders : a.offer # y
      BY <3>1 DEF OffersSound, OrderedOnce
    <3>3. Telling(y) = {}
      BY <3>1, Decided DEF OffersSound, NewsTrue, Telling
    <3>4. News(y) = {}
      BY <3>1 DEF OffersSound, NewsTrue, News, Outcome
    <3>5. QED
      BY <3>1, <3>2, <3>3, <3>4
  <2>5. \A o : Ordering(o)' = {g \in Handlers : OnItsWay(handler'[g], o)}
    BY DEF Ordering, OnItsWay, Accepts
  <2>6. OrderedOnce'
    <3> SUFFICES ASSUME NEW o \in Intact' \cap Offers
                 PROVE  /\ \A g \in Ordering(o)' : /\ row'[o].status = "accepted"
                                                  /\ row'[o].price = handler'[g].entity[o].price
                        /\ \A f, g \in Ordering(o)' : f = g
                        /\ \A a \in orders' : a.offer = o =>
                             /\ row'[o].status = "accepted" /\ a.price = row'[o].price
                             /\ Ordering(o)' = {}
                        /\ \A a, b \in orders' : a.offer = o /\ b.offer = o => a = b
      BY DEF OrderedOnce
    <3>1. CASE o = y
      <4>1. \A g \in Ordering(y)' : g = h /\ Accepts(x)
        BY <1>8, <2>2, <2>4, <2>5, <3>1, OrderingIs
      <4>2. h \in Ordering(y)' => row'[y].status = "accepted" /\ row'[y].price = handler'[h].entity[y].price
        BY <1>2, <1>4, <1>8, <2>1, <2>3, <3>1, <4>1 DEF Accepts
      <4>3. QED
        BY <1>7, <2>4, <3>1, <4>1, <4>2
    <3>2. CASE o # y
      <4>1. row'[o] = row[o] /\ o \in Intact
        BY <1>4, <3>2 DEF Rows, RowsMove
      <4>2. Ordering(o)' = Ordering(o) /\ \A g \in Ordering(o) : handler'[g] = handler[g]
        BY <1>1, <1>8, <1>9, <2>2, <2>5, <3>2, OrderingIs
      <4>3. QED
        BY <1>7, <4>1, <4>2 DEF OffersSound, OrderedOnce
    <3>3. QED
      BY <3>1, <3>2
  <2>7. FirstAcceptanceOrders'
    <3> SUFFICES ASSUME failures' = 0, orders' = {}, NEW o \in Offers,
                        row'[o] # None, row'[o].status = "accepted"
                 PROVE  \E p \in Offers : \E g \in Handlers : OnItsWay(handler'[g], p)
      BY <2>5 DEF FirstAcceptanceOrders
    <3>1. ASSUME row[o] # None, row[o].status = "accepted"
          PROVE  \E p \in Offers : \E g \in Handlers : OnItsWay(handler'[g], p)
      <4>1. PICK p \in Offers, g \in Handlers : OnItsWay(handler[g], p)
        BY <1>7, <3>1, OrderingIs DEF OffersSound, FirstAcceptanceOrders
      <4>2. OnItsWay(handler'[g], p)
        BY <1>1, <1>8, <1>9, <4>1
      <4>3. QED
        BY <4>2
    <3>2. CASE o # y
      BY <1>4, <3>1, <3>2 DEF Rows
    <3>3. CASE o = y
      <4>1. row'[y].status = IF "status" \in x.dirty THEN x.entity[y].status ELSE row[y].status
        BY <1>4, <2>3, <3>3, SavedOffer
      <4>2. CASE Accepts(x)
        BY <1>8, <2>2, <3>3, <4>2
      <4>3. CASE ~Accepts(x)
        BY <1>3, <2>3, <3>1, <3>3, <4>1, <4>3
      <4>4. QED
        BY <4>2, <4>3
    <3>4. QED
      BY <3>2, <3>3
  <2>8. NewsTrue'
    <3> SUFFICES ASSUME NEW o \in Intact' \cap Offers
             PROVE  /\ \A g \in Telling(o)' : row'[o].status = handler'[g].entity[o].status
                    /\ \A n \in News(o)' :
                         /\ row'[o].status = IF n.label = "expired" THEN "cancelled" ELSE n.label
                         /\ n.label = "cancelled" => n.to = "recipient"
                         /\ n.label \in {"accepted", "rejected"} => n.to = "sender"
                    /\ (failures' = 0 /\ row'[o] # None /\ row'[o].status # "pending")
                         => News(o)' # {} \/ Telling(o)' # {}
      BY DEF NewsTrue
    <3>1. Telling(o)' = {g \in Handlers : Tells(handler'[g], o)} /\ News(o)' = News(o)
      BY <1>7 DEF Telling, Tells, News
    <3>2. CASE o = y
      <4>1. Telling(y)' = {h}
        BY <1>8, <2>2, <2>3, <2>4, <3>1, <3>2 DEF Telling
      <4>2. row'[y].status = handler'[h].entity[y].status
        BY <1>4, <1>8, <2>1, <3>2
      <4>3. QED
        BY <2>4, <3>1, <3>2, <4>1, <4>2
    <3>3. CASE o # y
      <4>1. row'[o] = row[o] /\ o \in Intact
        BY <1>4, <3>3 DEF Rows, RowsMove
      <4>2. Telling(o)' = Telling(o) /\ \A g \in Telling(o) : handler'[g] = handler[g]
        BY <1>1, <1>8, <1>9, <2>2, <3>1, <3>3 DEF Telling
      <4>3. QED
        BY <1>7, <3>1, <4>1, <4>2 DEF OffersSound, NewsTrue
    <3>4. QED
      BY <3>2, <3>3
  <2>9. QED
    BY <1>7, <2>6, <2>7, <2>8, TablesKept DEF OffersSound
<1>12. QED
  BY <1>10, <1>11

\* Announcing what became of an offer: the news is what the row says.
LEMMA AnnounceKeeps ==
  ASSUME RowsSound, OffersSound, RowsMove, NEW h \in Handlers, Announce(h)
  PROVE  OffersSound'
<1>1. PICK x : x = handler[h]
  OBVIOUS
<1>2. PICK s : s = x.subject
  OBVIOUS
<1>3. PICK party : party = IF "sender" \in x.due THEN "sender" ELSE CHOOSE p \in x.due : TRUE
  OBVIOUS
<1>4. PICK rest : rest = x.due \ {party}
  OBVIOUS
<1>5. PICK n : n = [about |-> s, to |-> party, label |-> Label(x)]
  OBVIOUS
<1>6. PICK z : z = CASE rest # {} -> [x EXCEPT !.due = rest]
                     [] rest = {} /\ Accepts(x) -> [x EXCEPT !.phase = "count", !.due = {}]
                     [] OTHER -> Continue(h)
  OBVIOUS
<1>7. /\ Sound(x) /\ x.phase = "announce" /\ told' = told \cup {n} /\ Assign(h, z)
      /\ UNCHANGED <<row, orders, failures, stale>>
  BY <1>1, <1>2, <1>3, <1>4, <1>5, <1>6 DEF Announce, RowsSound, HandlersSound
<1>8. \A g \in Handlers : handler'[g] = IF g = h THEN z ELSE handler[g]
  BY <1>7, AssignIs
<1>9. \A o \in Offers : /\ OnItsWay(z, o) <=> OnItsWay(x, o)
                        /\ Tells(z, o) => Tells(x, o)
                        /\ OnItsWay(z, o) \/ Tells(z, o) => z.entity = x.entity
  <2>1. CASE rest # {}
    <3>1. /\ z.phase = "announce" /\ z.op = x.op /\ z.subject = x.subject /\ z.entity = x.entity
      BY <1>6, <1>7, <2>1 DEF Sound, IsState
    <3>2. QED
      BY <1>7, <3>1 DEF OnItsWay, Tells, Accepts
  <2>2. CASE rest = {} /\ Accepts(x)
    <3>1. /\ z.phase = "count" /\ z.op = x.op /\ z.subject = x.subject /\ z.entity = x.entity
      BY <1>6, <1>7, <2>2 DEF Sound, IsState
    <3>2. QED
      BY <1>7, <3>1 DEF OnItsWay, Tells, Accepts
  <2>3. CASE rest = {} /\ ~Accepts(x)
    <3>1. z.phase \in {"idle", "ready"}
      <4>1. z = Continue(h)
        BY <1>6, <2>3
      <4>2. QED
        BY <1>1, <1>7, <4>1 DEF Continue, Idle, Sound, IsState
    <3>2. QED
      BY <2>3, <3>1 DEF OnItsWay, Tells
  <2>4. QED
    BY <2>1, <2>2, <2>3
<1>10. party \in x.due /\ x.due \subseteq Party \cup {"owner"}
  <2>1. party \in x.due
    BY <1>3, <1>7 DEF Sound
  <2>2. Recipients(x.op, x.entity[s]) \subseteq Party \cup {"owner"}
    BY DEF Recipients, Party
  <2>3. QED
    BY <1>2, <1>7, <2>1, <2>2 DEF Sound, Party
<1>11. x.op # "offer" =>
         /\ s \in Rows /\ row[s] # None /\ Edited(x.op, s, x.loaded[s], x.entity[s])
         /\ x.due \subseteq Recipients(x.op, x.entity[s])
  BY <1>2, <1>7 DEF Sound, HasBatch
<1>12. TablesTyped'
  <2>1. s \in Rows /\ row[s] # None
    BY <1>2, <1>7, <1>11 DEF Sound, Rows
  <2>2. Label(x) \in OfferStatus \cup {"new", "expired"}
    BY <1>2, <1>11, RowsAssumption DEF Label, Edited, Offer
  <2>3. n \in Notice
    BY <1>5, <1>10, <2>1, <2>2 DEF Notice
  <2>4. QED
    BY <1>5, <1>7, <2>1, <2>3 DEF OffersSound, TablesTyped
<1>13. ASSUME NEW g \in Handlers, NEW o \in Offers
       PROVE  /\ OnItsWay(handler'[g], o) <=> OnItsWay(handler[g], o)
              /\ OnItsWay(handler'[g], o) => handler'[g].entity = handler[g].entity
  BY <1>1, <1>8, <1>9
<1>14. OrderedOnce'
  BY <1>7, <1>13, OrderedOnceKept DEF OffersSound, SameOffers
<1>15. FirstAcceptanceOrders'
  BY <1>7, <1>13, FirstKept DEF OffersSound, SameOffers
<1>16. NewsTrue'
  <2> SUFFICES ASSUME NEW o \in Intact' \cap Offers
           PROVE  /\ \A g \in Telling(o)' : row'[o].status = handler'[g].entity[o].status
                  /\ \A m \in News(o)' :
                       /\ row'[o].status = IF m.label = "expired" THEN "cancelled" ELSE m.label
                       /\ m.label = "cancelled" => m.to = "recipient"
                       /\ m.label \in {"accepted", "rejected"} => m.to = "sender"
                  /\ (failures' = 0 /\ row'[o] # None /\ row'[o].status # "pending")
                       => News(o)' # {} \/ Telling(o)' # {}
    BY DEF NewsTrue
  <2>1. o \in Intact \cap Offers
    BY DEF RowsMove
  <2>2. Telling(o)' = {g \in Handlers : Tells(handler'[g], o)}
    BY DEF Telling, Tells
  <2>3. \A g \in Telling(o)' : g \in Telling(o) /\ handler'[g].entity = handler[g].entity
    BY <1>1, <1>8, <1>9, <2>1, <2>2 DEF Telling
  <2>4. ASSUME o = s, n.label \in Outcome PROVE h \in Telling(o)
    <3>1. x.op # "offer"
      BY <1>5, <2>4 DEF Label, Outcome
    <3>2. x.op \in {"price", "decide", "expireOffers"}
      BY <1>11, <2>1, <2>4, <3>1, RowsAssumption DEF Edited
    <3>3. x.op # "price"
      BY <1>10, <1>11, <3>1 DEF Recipients
    <3>4. QED
      BY <1>1, <1>2, <1>7, <2>4, <3>2, <3>3 DEF Telling, Tells
  <2>5. ASSUME h \in Telling(o)
        PROVE  /\ o = s /\ x.op \in {"decide", "expireOffers"}
               /\ row[o].status = x.entity[o].status /\ x.entity[o].status \in OfferStatus \ {"pending"}
               /\ x.op = "expireOffers" => x.entity[o].status = "cancelled"
    <3>1. Tells(x, o)
      BY <1>1, <2>5 DEF Telling
    <3>2. row[o].status = x.entity[o].status
      BY <1>1, <2>1, <2>5 DEF OffersSound, NewsTrue
    <3>3. /\ x.entity[o] \in Offer /\ x.entity[o].status # "pending"
          /\ x.op = "expireOffers" => x.entity[o].status = "cancelled"
      BY <1>1, <3>1, Decided
    <3>4. QED
      BY <1>2, <3>1, <3>2, <3>3 DEF Tells, Offer
  <2>6. ASSUME h \in Telling(o)
        PROVE  /\ n.label \in Outcome
               /\ row[o].status = IF n.label = "expired" THEN "cancelled" ELSE n.label
               /\ n.label = "cancelled" => n.to = "recipient"
               /\ n.label \in {"accepted", "rejected"} => n.to = "sender"
    <3>1. n.label = (IF x.op = "decide" THEN x.entity[o].status ELSE "expired") /\ n.to = party
      BY <1>2, <1>5, <2>5, <2>6 DEF Label
    <3>2. x.op = "decide" => party = IF x.entity[o].status = "cancelled" THEN "recipient" ELSE "sender"
      BY <1>10, <1>11, <2>5, <2>6 DEF Recipients
    <3>3. QED
      BY <2>5, <2>6, <3>1, <3>2 DEF OfferStatus, Outcome
  <2>7. ASSUME NEW m \in News(o)'
        PROVE  /\ row[o].status = IF m.label = "expired" THEN "cancelled" ELSE m.label
               /\ m.label = "cancelled" => m.to = "recipient"
               /\ m.label \in {"accepted", "rejected"} => m.to = "sender"
    <3>1. CASE m \in News(o)
      BY <2>1, <3>1 DEF OffersSound, NewsTrue
    <3>2. CASE m \notin News(o)
      <4>1. m = n /\ o = s /\ n.label \in Outcome
        BY <1>5, <1>7, <3>2 DEF News
      <4>2. QED
        BY <2>4, <2>6, <4>1
    <3>3. QED
      BY <3>1, <3>2
  <2>8. ASSUME failures' = 0, row'[o] # None, row'[o].status # "pending"
        PROVE  News(o)' # {} \/ Telling(o)' # {}
    <3>1. News(o) # {} \/ Telling(o) # {}
      BY <1>7, <2>1, <2>8 DEF OffersSound, NewsTrue
    <3>2. News(o) \subseteq News(o)'
      BY <1>7 DEF News
    <3>3. ASSUME h \in Telling(o) PROVE n \in News(o)'
      <4>1. n.about = o /\ n.label \in Outcome
        BY <1>5, <2>5, <2>6, <3>3
      <4>2. QED
        BY <1>7, <4>1 DEF News
    <3>4. ASSUME NEW g \in Telling(o), g # h PROVE g \in Telling(o)'
      BY <1>8, <2>2, <3>4 DEF Telling
    <3>5. QED
      BY <3>1, <3>2, <3>3, <3>4
  <2>9. QED
    BY <1>7, <2>1, <2>3, <2>7, <2>8 DEF OffersSound, NewsTrue
<1>17. QED
  BY <1>12, <1>14, <1>15, <1>16 DEF OffersSound

\* The order of an accepted offer is inserted, or its number is taken.
LEMMA InsertOrderKeepsOffers ==
  ASSUME RowsSound, OffersSound, RowsMove, NEW h \in Handlers, InsertOrder(h),
         handler[h].count \in Nat
  PROVE  OffersSound'
<1>1. PICK x : x = handler[h]
  OBVIOUS
<1>2. PICK s : s = x.subject
  OBVIOUS
<1>3. PICK order : order = [offer |-> s, number |-> x.count + 1, price |-> x.entity[s].price]
  OBVIOUS
<1>4. /\ x.phase = "number" /\ Assign(h, Idle) /\ UNCHANGED <<row, told, failures, stale>>
      /\ orders' = IF \E other \in orders : other.number = order.number THEN orders
                   ELSE orders \cup {order}
  BY <1>1, <1>2, <1>3 DEF InsertOrder
<1>5. OnItsWay(x, s)
  BY <1>1, <1>2, <1>4 DEF OnItsWay, RowsSound, HandlersSound, Sound
<1>6. s \in Offers /\ row[s] # None /\ x.entity[s] \in Offer
  BY <1>1, <1>5, Decided
<1>7. order \in Order /\ order.offer = s
  BY <1>1, <1>3, <1>6 DEF Order, Offer
<1>8. \A o : ~OnItsWay(Idle, o) /\ ~Tells(Idle, o) /\ ~Tells(x, o)
  BY <1>4 DEF OnItsWay, Tells, Idle
<1>9. \A g \in Handlers : handler'[g] = IF g = h THEN Idle ELSE handler[g]
  BY <1>4, AssignIs
<1>10. TablesTyped'
  BY <1>4, <1>6, <1>7 DEF OffersSound, TablesTyped
<1>11. NewsTrue'
  <2>1. ASSUME NEW g \in Handlers, NEW o \in Offers
        PROVE  /\ Tells(handler'[g], o) <=> Tells(handler[g], o)
               /\ Tells(handler'[g], o) => handler'[g].entity = handler[g].entity
    BY <1>1, <1>8, <1>9
  <2>2. QED
    BY <1>4, <2>1, NewsKept DEF OffersSound, SameOffers
<1>12. FirstAcceptanceOrders'
  BY <1>4 DEF FirstAcceptanceOrders
<1>13. OrderedOnce'
  <2>1. CASE orders' = orders
    <3>1. ASSUME NEW g \in Handlers, NEW o \in Offers, OnItsWay(handler'[g], o)
          PROVE  OnItsWay(handler[g], o) /\ handler'[g].entity = handler[g].entity
      BY <1>8, <1>9, <3>1
    <3>2. QED
      BY <1>4, <2>1, <3>1, OrderedOnceKept DEF OffersSound, SameOffers
  <2>2. CASE orders' = orders \cup {order}
    <3> SUFFICES ASSUME NEW o \in Intact' \cap Offers
                 PROVE  /\ \A g \in Ordering(o)' : /\ row'[o].status = "accepted"
                                                  /\ row'[o].price = handler'[g].entity[o].price
                        /\ \A f, g \in Ordering(o)' : f = g
                        /\ \A a \in orders' : a.offer = o =>
                             /\ row'[o].status = "accepted" /\ a.price = row'[o].price
                             /\ Ordering(o)' = {}
                        /\ \A a, b \in orders' : a.offer = o /\ b.offer = o => a = b
      BY DEF OrderedOnce
    <3>1. Ordering(o)' = {g \in Handlers : OnItsWay(handler'[g], o)}
      BY DEF Ordering, OnItsWay, Accepts
    <3>2. o \in Intact /\ row' = row
      BY <1>4 DEF RowsMove
    <3>3. CASE o = s
      <4>1. h \in Ordering(s)
        BY <1>1, <1>5, OrderingIs
      <4>2. /\ row[s].status = "accepted" /\ row[s].price = x.entity[s].price
            /\ \A g \in Ordering(s) : g = h /\ \A a \in orders : a.offer # s
        BY <1>1, <3>2, <3>3, <4>1 DEF OffersSound, OrderedOnce
      <4>3. Ordering(s)' = {}
        BY <1>8, <1>9, <3>1, <3>3, <4>2, OrderingIs
      <4>4. \A a \in orders' : a.offer = s => a = order
        BY <2>2, <4>1, <4>2
      <4>5. QED
        BY <1>3, <3>2, <3>3, <4>2, <4>3, <4>4
    <3>4. CASE o # s
      <4>1. \A a \in orders' : a.offer = o => a \in orders
        BY <1>7, <2>2, <3>4
      <4>2. Ordering(o)' \subseteq Ordering(o) /\ \A g \in Ordering(o)' : handler'[g] = handler[g]
        BY <1>8, <1>9, <3>1, OrderingIs
      <4>3. QED
        BY <3>2, <4>1, <4>2 DEF OffersSound, OrderedOnce
    <3>5. QED
      BY <3>3, <3>4
  <2>3. QED
    BY <1>4, <2>1, <2>2
<1>14. QED
  BY <1>10, <1>11, <1>12, <1>13 DEF OffersSound

-----------------------------------------------------------------------------
(***************************************************************************)
(* The inductive invariant.                                                *)
(***************************************************************************)

LEMMA MarketInit == Init => MarketInv
<1> SUFFICES ASSUME Init PROVE MarketInv
  OBVIOUS
<1>1. /\ orders = {} /\ told = {} /\ failures = 0
      /\ \A h \in Handlers : handler[h] = Idle
      /\ \A o \in Offers : row[o] = None
  BY DEF Init, Rows
<1>2. TablesTyped
  BY <1>1 DEF TablesTyped
<1>3. OrderedOnce
  <2>1. \A o : \A h \in Handlers : ~OnItsWay(handler[h], o)
    BY <1>1 DEF OnItsWay, Idle
  <2>2. QED
    BY <1>1, <2>1, OrderingIs DEF OrderedOnce
<1>4. FirstAcceptanceOrders
  BY <1>1 DEF FirstAcceptanceOrders
<1>5. NewsTrue
  <2>1. \A o : \A h \in Handlers : ~Tells(handler[h], o)
    BY <1>1 DEF Tells, Idle
  <2>2. QED
    BY <1>1, <2>1 DEF NewsTrue, Telling, News
<1>6. QED
  BY <1>2, <1>3, <1>4, <1>5, RowsSoundInit DEF MarketInv

LEMMA MarketStep == NumberingInv /\ MarketInv /\ [Next]_vars => MarketInv' /\ RowsMove
<1> SUFFICES ASSUME NumberingInv, MarketInv, [Next]_vars PROVE MarketInv' /\ RowsMove
  OBVIOUS
<1>1. RowsSound /\ OffersSound /\ RowsSound' /\ RowsMove
  BY RowsSoundStep DEF MarketInv, OffersSound
<1>2. CASE UNCHANGED vars
  <2>1. UNCHANGED <<row, orders, handler, told, failures>>
    BY <1>2 DEF vars
  <2>2. OrderedOnce' /\ FirstAcceptanceOrders' /\ NewsTrue'
    BY <1>1, <2>1, OrderedOnceKept, FirstKept, NewsKept DEF OffersSound, SameOffers
  <2>3. QED
    BY <1>1, <2>1, <2>2, TablesKept DEF OffersSound, MarketInv
<1>3. CASE (\E r \in Requests : RequestStep(r)) \/ ExpirePendingOffers \/ ExpireRequests
  BY <1>1, <1>3, StartLoads, LoadQuiet DEF RowsSound, OffersSound, MarketInv
<1>4. CASE CreateListing
  BY <1>1, <1>4, CreateListingQuiet DEF OffersSound, MarketInv
<1>5. ASSUME NEW h \in Handlers, HandlerStep(h) \/ Fail(h) PROVE OffersSound'
  <2>1. handler[h].count \in Nat
    BY FS_CardinalityType DEF NumberingInv, Counts
  <2>2. QED
    BY <1>1, <1>5, <2>1, InsertOfferQuiet, SaveSelectQuiet, SaveUpdateKeeps, AnnounceKeeps,
       CountQuiet, InsertOrderKeepsOffers, FailKeeps DEF HandlerStep
<1>6. QED
  BY <1>1, <1>2, <1>3, <1>4, <1>5 DEF Next, OffersSound, MarketInv

LEMMA MarketHolds == Spec => [](NumberingInv /\ MarketInv)
BY NumberingInit, NumberingStep, MarketInit, MarketStep, PTL DEF Spec

-----------------------------------------------------------------------------
\* Rows, orders, notifications and handlers keep their types.
THEOREM TypeCorrect == Spec => []TypeOK
<1>1. MarketInv => TypeOK
  BY DEF MarketInv, RowsSound, RowsTyped, TablesTyped, HandlersSound, Sound, TypeOK
<1>2. QED
  BY MarketHolds, <1>1, PTL

\* An intact offer becomes one order at most, and only when it was accepted
\* (updateStatus and createOrderFromOffer of OfferService).
THEOREM OneOrderPerOfferHolds == Spec => []OneOrderPerOffer
<1>1. MarketInv => OneOrderPerOffer
  <2> SUFFICES ASSUME MarketInv, NEW o \in Intact \cap Offers
               PROVE  /\ Cardinality({order \in orders : order.offer = o}) <= 1
                      /\ HasOrder(o) => row[o].status = "accepted" /\ Ordering(o) = {}
    BY DEF OneOrderPerOffer
  <2>1. \A a, b \in orders : a.offer = o /\ b.offer = o => a = b
    BY DEF MarketInv, OrderedOnce
  <2>2. CASE {order \in orders : order.offer = o} = {}
    BY <2>2, FS_EmptySet DEF HasOrder
  <2>3. CASE {order \in orders : order.offer = o} # {}
    <3>1. PICK a \in orders : a.offer = o
      BY <2>3
    <3>2. {order \in orders : order.offer = o} = {a}
      BY <2>1, <3>1
    <3>3. Cardinality({order \in orders : order.offer = o}) = 1
      BY <3>2, FS_Singleton
    <3>4. row[o].status = "accepted" /\ Ordering(o) = {}
      BY <3>1 DEF MarketInv, OrderedOnce
    <3>5. QED
      BY <3>3, <3>4
  <2>4. QED
    BY <2>2, <2>3
<1>2. QED
  BY MarketHolds, <1>1, PTL

\* The price of an order is the price its intact offer shows (createOrderFromOffer
\* computes it from the offer that was loaded before the acceptance).
THEOREM TermsAgreedHolds == Spec => []TermsAgreed
<1>1. MarketInv => TermsAgreed
  BY DEF MarketInv, OrderedOnce, TablesTyped, Order, TermsAgreed
<1>2. QED
  BY MarketHolds, <1>1, PTL

\* Of the acceptances that clash on an order number, one makes its order.
THEOREM FirstAcceptanceOrdersHolds == Spec => []FirstAcceptanceOrders
<1>1. MarketInv => FirstAcceptanceOrders
  BY DEF MarketInv
<1>2. QED
  BY MarketHolds, <1>1, PTL

\* What was announced of an intact offer is true, and its outcome was announced
\* to the party that did not decide, or is about to be, unless a handler died.
THEOREM DecisionsAnnouncedHolds == Spec => []DecisionsAnnounced
<1>1. MarketInv => DecisionsAnnounced
  <2> SUFFICES ASSUME MarketInv, NEW o \in Intact \cap Offers
               PROVE  /\ \A n \in News(o) :
                           /\ row[o].status = IF n.label = "expired" THEN "cancelled" ELSE n.label
                           /\ n.label = "cancelled" => n.to = "recipient"
                           /\ n.label \in {"accepted", "rejected"} => n.to = "sender"
                      /\ (failures = 0 /\ row[o] # None /\ row[o].status # "pending") =>
                           News(o) # {} \/ \E h \in Handlers : handler[h].subject = o
                                                               /\ handler[h].due # {}
    BY DEF DecisionsAnnounced, News
  <2>1. \A h \in Telling(o) : handler[h].subject = o /\ handler[h].due # {}
    BY DEF MarketInv, RowsSound, HandlersSound, Sound, Telling, Tells
  <2>2. Telling(o) \subseteq Handlers
    BY DEF Telling
  <2>3. QED
    BY <2>1, <2>2 DEF MarketInv, NewsTrue
<1>2. QED
  BY MarketHolds, <1>1, PTL

\* Intact listings only move forward (updateStatus, remove and the expiry job).
THEOREM RemovedForGoodHolds == Spec => RemovedForGood
<1> DEFINE Forward ==
      \A l \in Listings :
        (l \in Intact' /\ row[l] # None /\ row'[l] # row[l]) =>
          /\ ~row[l].deleted
          /\ row'[l].status # "open"
          /\ row[l].status \in {"completed", "cancelled"} => row'[l].deleted
<1>1. NumberingInv /\ MarketInv /\ [Next]_vars => Forward
  <2> SUFFICES ASSUME NumberingInv, MarketInv, [Next]_vars, NEW l \in Listings,
                      l \in Intact', row[l] # None, row'[l] # row[l]
               PROVE  /\ ~row[l].deleted
                      /\ row'[l].status # "open"
                      /\ row[l].status \in {"completed", "cancelled"} => row'[l].deleted
    OBVIOUS
  <2>1. MarketInv' /\ RowsMove
    BY MarketStep
  <2>2. Later(row[l], row'[l]) /\ row'[l] # None
    BY <2>1, RowsAssumption DEF RowsMove, Moves, Rows
  <2>3. Whole(row[l]) /\ Whole(row'[l])
    BY <2>1, <2>2 DEF MarketInv, RowsSound, RowsTyped, RowsMove, Whole
  <2>4. QED
    BY <2>2, <2>3 DEF Later, ListingRank, Whole
<1>2. NumberingInv /\ MarketInv /\ [Next]_vars => [Forward]_vars
  BY <1>1
<1>3. QED
  BY MarketHolds, <1>2, PTL DEF Spec, RemovedForGood

=============================================================================
