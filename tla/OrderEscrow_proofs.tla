------------------------- MODULE OrderEscrow_proofs -------------------------
(***************************************************************************)
(* Theorems about OrderLifecycle, for every set of orders and of request   *)
(* slots and for every value of the bounds: types, custody, settlement;    *)
(* then, of the orders on which no stale entity was saved, their timeline, *)
(* the moves they make, their disputes, the escrow they implement, and who *)
(* is told of their changes.                                               *)
(***************************************************************************)
EXTENDS OrderEscrow, TLAPS

(***************************************************************************)
(* Lemmas about the operators the handlers are built from.                 *)
(***************************************************************************)

\* A save that nobody interferes with stores exactly the handler's entity.
LEMMA SavedIsEntity ==
  ASSUME NEW r \in OrderRow, NEW e \in OrderRow
  PROVE  Saved(r, e, Dirty(e, r)) = e
<1>1. "status" \notin Stamp
  BY DEF Stamp
<1>2. Saved(r, e, Dirty(e, r)).status = e.status
  BY <1>1 DEF Saved, Dirty, OrderRow, Row
<1>3. Saved(r, e, Dirty(e, r)).stamps = e.stamps
  BY <1>1 DEF Saved, Dirty, OrderRow, Row
<1>4. QED
  BY <1>2, <1>3 DEF Saved, OrderRow, Row

LEMMA SavedType ==
  ASSUME NEW r \in OrderRow, NEW e \in OrderRow, NEW d
  PROVE  Saved(r, e, d) \in OrderRow
BY DEF Saved, OrderRow, Row

LEMMA DirtyType ==
  ASSUME NEW r \in OrderRow, NEW e \in OrderRow
  PROVE  Dirty(e, r) \subseteq (Stamp \cup {"status"})
BY DEF Dirty, OrderRow, Row

LEMMA EntityType ==
  ASSUME NEW op, NEW to \in Status, NEW r \in OrderRow
  PROVE  Entity(op, to, r) \in OrderRow
BY DEF Entity, OrderRow, Row, StampsOf, Stamp

LEMMA NewOrderType == NewOrder \in OrderRow
BY DEF NewOrder, OrderRow, Row, Status

LEMMA IdleType == Idle \in HandlerState
BY NewOrderType DEF Idle, HandlerState, Phase, Op, Status, ScheduledJobs

\* A handler that starts on orders of the table is a handler state.
LEMMA StartType ==
  ASSUME row \in [Orders -> OrderRow],
         NEW phase \in Phase, NEW op \in Op, NEW to \in Status,
         NEW by \in Party \cup {"system"}, NEW batch \in SUBSET Orders
  PROVE  Start(phase, op, to, by, batch) \in HandlerState
<1>1. [o \in Orders |-> IF o \in batch THEN row[o] ELSE NewOrder] \in [Orders -> OrderRow]
  BY NewOrderType
<1>2. QED
  BY <1>1, IdleType DEF Start, HandlerState, Idle

LEMMA StartPhase ==
  ASSUME NEW phase \in {"begun", "ready"}, NEW op, NEW to, NEW by, NEW batch
  PROVE  Start(phase, op, to, by, batch).phase \notin Saving
BY DEF Start, Idle, Saving, AfterSave

LEMMA ContinueType ==
  ASSUME TypeOK, NEW h \in Handlers
  PROVE  Continue(h) \in HandlerState
<1>1. handler[h] \in HandlerState
  BY DEF TypeOK
<1>2. [handler[h] EXCEPT !.phase = "ready", !.order = NoOrder, !.dirty = {}, !.due = {}]
        \in HandlerState
  BY <1>1 DEF HandlerState, Phase
<1>3. QED
  BY <1>2, IdleType DEF Continue

LEMMA ContinuePhase ==
  ASSUME NEW h \in Handlers, handler[h] \in HandlerState
  PROVE  Continue(h).phase \notin Saving
BY DEF Continue, Idle, Saving, AfterSave, HandlerState

LEMMA RecipientsType ==
  ASSUME NEW op, NEW by
  PROVE  Recipients(op, by) \in SUBSET Party
BY DEF Recipients, Party, Other

-----------------------------------------------------------------------------
(***************************************************************************)
(* Type correctness.                                                       *)
(***************************************************************************)
LEMMA TypeInit == Init => TypeOK
BY NewOrderType, IdleType DEF Init, TypeOK, Idle, Saving, AfterSave

LEMMA JobCases ==
  JobStep => AutoConfirmDelivery \/ AutoCompleteOrders \/ ExpirePendingOrders
BY JobsAssumption
   DEF JobStep, ScheduledJobs, AutoConfirmDelivery, AutoCompleteOrders, ExpirePendingOrders

LEMMA TypeStep == TypeOK /\ [Next]_vars => TypeOK'
<1> SUFFICES ASSUME TypeOK, [Next]_vars PROVE TypeOK'
  OBVIOUS
<1>a. \A h \in Handlers : handler[h] \in HandlerState
  BY DEF TypeOK
<1>1. ASSUME NEW r \in Requests, UpdateStatus(r) PROVE TypeOK'
  <2>1. PICK o \in Orders, party \in Party, to \in Status :
          /\ handler' = [handler EXCEPT ![r] = Start("ready", "update", to, party, {o})]
          /\ UNCHANGED Tables
    BY <1>1 DEF UpdateStatus, Assign
  <2>2. Start("ready", "update", to, party, {o}) \in HandlerState
    BY StartType DEF TypeOK, Phase, Op
  <2>3. QED
    BY <2>1, <2>2, StartPhase DEF TypeOK, Tables
<1>2. ASSUME NEW r \in Requests, InitiatePayment(r) PROVE TypeOK'
  <2>1. PICK o \in Orders :
          /\ handler' = [handler EXCEPT ![r] = Start("ready", "pay", "pending", "requester", {o})]
          /\ UNCHANGED Tables
    BY <1>2 DEF InitiatePayment, Assign
  <2>2. Start("ready", "pay", "pending", "requester", {o}) \in HandlerState
    BY StartType DEF TypeOK, Phase, Op, Status, Party
  <2>3. QED
    BY <2>1, <2>2, StartPhase DEF TypeOK, Tables
<1>3. ASSUME NEW r \in Requests, OpenDispute(r) PROVE TypeOK'
  <2>1. PICK o \in Orders, party \in Party :
          /\ handler' = [handler EXCEPT ![r] = Start("begun", "dispute", "disputed", party, {o})]
          /\ UNCHANGED Tables
    BY <1>3 DEF OpenDispute, Assign
  <2>2. Start("begun", "dispute", "disputed", party, {o}) \in HandlerState
    BY StartType DEF TypeOK, Phase, Op, Status
  <2>3. QED
    BY <2>1, <2>2, StartPhase DEF TypeOK, Tables
<1>4. ASSUME NEW job \in ScheduledJobs, NEW to \in Status, NEW batch \in SUBSET Orders,
             Assign(job, Start("ready", job, to, "system", batch)), UNCHANGED Tables
      PROVE  TypeOK'
  <2>1. Start("ready", job, to, "system", batch) \in HandlerState
    BY StartType DEF TypeOK, Phase, Op
  <2>2. QED
    BY <1>4, <2>1, StartPhase DEF TypeOK, Tables, Assign
<1>5. CASE AutoConfirmDelivery
  BY <1>4, <1>5 DEF AutoConfirmDelivery, LoadBatch, Target, Status, ScheduledJobs
<1>6. CASE AutoCompleteOrders
  BY <1>4, <1>6 DEF AutoCompleteOrders, LoadBatch, Target, Status, ScheduledJobs
<1>7. CASE ExpirePendingOrders
  BY <1>4, <1>7 DEF ExpirePendingOrders, LoadBatch, Target, Status, ScheduledJobs
<1>8. ASSUME NEW h \in Handlers, CheckDispute(h) PROVE TypeOK'
  <2>1. [handler[h] EXCEPT !.phase = "ready"] \in HandlerState
    BY <1>a DEF HandlerState, Phase
  <2>2. [handler[h] EXCEPT !.phase = "ready"].phase \notin Saving /\ Idle.phase \notin Saving
    BY <1>a DEF HandlerState, Saving, AfterSave, Idle
  <2>3. QED
    BY <1>8, <2>1, <2>2, IdleType DEF CheckDispute, Assign, TypeOK, Tables
<1>9. ASSUME NEW h \in Handlers, SaveSelect(h) PROVE TypeOK'
  <2>1. PICK o \in handler[h].todo :
          handler' = [handler EXCEPT ![h] =
                        [handler[h] EXCEPT !.phase = "selected", !.order = o,
                                           !.todo = @ \ {o},
                                           !.dirty = Dirty(EntityOf(h, o), row[o])]]
    BY <1>9 DEF SaveSelect, Assign
  <2>2. o \in Orders /\ handler[h].to \in Status /\ handler[h].loaded[o] \in OrderRow
    BY <1>a DEF HandlerState
  <2>3. Dirty(EntityOf(h, o), row[o]) \subseteq (Stamp \cup {"status"})
    BY <2>2, EntityType, DirtyType DEF TypeOK, EntityOf
  <2>4. [handler[h] EXCEPT !.phase = "selected", !.order = o, !.todo = @ \ {o},
                           !.dirty = Dirty(EntityOf(h, o), row[o])] \in HandlerState
    BY <1>a, <2>2, <2>3 DEF HandlerState, Phase
  <2>5. [handler[h] EXCEPT !.phase = "selected", !.order = o, !.todo = @ \ {o},
                           !.dirty = Dirty(EntityOf(h, o), row[o])].order = o
    BY <1>a DEF HandlerState
  <2>6. QED
    BY <1>9, <2>1, <2>2, <2>4, <2>5 DEF SaveSelect, TypeOK, Tables
<1>10. ASSUME NEW h \in Handlers, SaveUpdate(h) PROVE TypeOK'
  <2> DEFINE x == handler[h]
             o == x.order
             entity == EntityOf(h, o)
  <2>1. x \in HandlerState /\ x.phase = "selected"
    BY <1>10, <1>a DEF SaveUpdate
  <2>2. o \in Orders
    BY <2>1 DEF TypeOK, Saving
  <2>3. x.to \in Status /\ x.by \in Party \cup {"system"} /\ x.loaded[o] \in OrderRow
    BY <2>1, <2>2 DEF HandlerState
  <2>4. entity \in OrderRow /\ entity.status \in Status
    BY <2>3, EntityType DEF EntityOf, OrderRow, Row
  <2>5. row' \in [Orders -> OrderRow]
    BY <1>10, <2>2, <2>4, SavedType DEF SaveUpdate, TypeOK
  <2>6. history' \in [Orders -> SUBSET [status: Status, by: Party \cup {"system"}]]
    <3>1. [status |-> entity.status, by |-> x.by] \in [status: Status, by: Party \cup {"system"}]
      BY <2>3, <2>4
    <3>2. CASE "status" \in x.dirty
      BY <1>10, <3>1, <3>2 DEF SaveUpdate, TypeOK
    <3>3. CASE "status" \notin x.dirty
      BY <1>10, <3>3 DEF SaveUpdate, TypeOK
    <3>4. QED
      BY <3>2, <3>3
  <2>7. stale' \in [Orders -> Nat]
    BY <1>10, <2>2 DEF SaveUpdate, TypeOK
  <2>8. AfterUpdate(h) \in HandlerState /\ (AfterUpdate(h).phase \in Saving => AfterUpdate(h).order \in Orders)
    <3> DEFINE y == [handler[h] EXCEPT !.dirty = {},
                                       !.due = Recipients(handler[h].op, handler[h].by)]
    <3>1. y \in HandlerState /\ y.order = o
      BY <2>1, RecipientsType DEF HandlerState
    <3>2. /\ [y EXCEPT !.phase = "insert"] \in HandlerState
          /\ [y EXCEPT !.phase = "enqueue"] \in HandlerState
          /\ [y EXCEPT !.phase = "announce"] \in HandlerState
      BY <3>1 DEF HandlerState, Phase
    <3>3. /\ [y EXCEPT !.phase = "insert"].order = o
          /\ [y EXCEPT !.phase = "enqueue"].order = o
          /\ [y EXCEPT !.phase = "announce"].order = o
      BY <3>1 DEF HandlerState
    <3>4. Continue(h) \in HandlerState /\ Continue(h).phase \notin Saving
      BY <2>1, ContinueType, ContinuePhase
    <3>5. \/ AfterUpdate(h) = Continue(h)
          \/ AfterUpdate(h) = [y EXCEPT !.phase = "insert"]
          \/ AfterUpdate(h) = [y EXCEPT !.phase = "enqueue"]
          \/ AfterUpdate(h) = [y EXCEPT !.phase = "announce"]
      BY DEF AfterUpdate
    <3>. HIDE DEF y, o
    <3>6. QED
      BY <2>2, <3>2, <3>3, <3>4, <3>5
  <2>9. QED
    BY <1>10, <2>5, <2>6, <2>7, <2>8 DEF SaveUpdate, TypeOK, Assign
<1>11. ASSUME NEW h \in Handlers, Announce(h) PROVE TypeOK'
  <2> DEFINE x == handler[h]
             party == IF "requester" \in x.due THEN "requester" ELSE "traveler"
             rest == x.due \ {party}
  <2>1. x \in HandlerState /\ x.phase = "announce" /\ x.order \in Orders
    BY <1>11, <1>a DEF Announce, TypeOK, Saving, AfterSave
  <2>2. [to |-> party, label |-> Label(h)] \in [to: Party, label: Status \cup {"expired"}]
    BY <2>1 DEF Label, HandlerState, Party
  <2>3. told' \in [Orders -> SUBSET [to: Party, label: Status \cup {"expired"}]]
    BY <1>11, <2>2 DEF Announce, TypeOK
  <2>4. /\ [x EXCEPT !.due = rest] \in HandlerState
        /\ [x EXCEPT !.phase = "enqueue", !.due = {}] \in HandlerState
        /\ [x EXCEPT !.due = rest].order = x.order
        /\ [x EXCEPT !.phase = "enqueue", !.due = {}].order = x.order
    BY <2>1 DEF HandlerState, Phase
  <2>5. /\ handler'[h] \in HandlerState
        /\ handler'[h].phase \in Saving => handler'[h].order \in Orders
    BY <1>11, <2>1, <2>4, ContinueType, ContinuePhase DEF Announce, Assign, TypeOK
  <2>6. QED
    BY <1>11, <2>3, <2>5 DEF Announce, TypeOK, Assign
<1>12. ASSUME NEW h \in Handlers, Enqueue(h) PROVE TypeOK'
  <2> DEFINE x == handler[h]
  <2>1. x \in HandlerState /\ x.phase = "enqueue" /\ x.order \in Orders
    BY <1>12, <1>a DEF Enqueue, TypeOK, Saving, AfterSave
  <2>2. [x EXCEPT !.phase = "announce"] \in HandlerState
        /\ [x EXCEPT !.phase = "announce"].order = x.order
    BY <2>1 DEF HandlerState, Phase
  <2>3. credits' \in [Orders -> Nat] /\ refunds' \in [Orders -> Nat]
    BY <1>12, <2>1 DEF Enqueue, TypeOK
  <2>4. QED
    BY <1>12, <2>1, <2>2, <2>3, ContinueType, ContinuePhase DEF Enqueue, TypeOK, Assign
<1>13. ASSUME NEW h \in Handlers, InsertDispute(h) PROVE TypeOK'
  <2>1. disputes' \in [Orders -> Nat]
    <3>1. handler[h].order \in Orders
      BY <1>13 DEF InsertDispute, TypeOK, Saving, AfterSave
    <3>2. QED
      BY <1>13, <3>1 DEF InsertDispute, TypeOK
  <2>2. Idle.phase \notin Saving
    BY DEF Idle, Saving, AfterSave
  <2>3. QED
    BY <1>13, <2>1, <2>2, IdleType DEF InsertDispute, TypeOK, Assign
<1>14. ASSUME NEW h \in Handlers, Fail(h) PROVE TypeOK'
  <2>1. cut' \subseteq Orders /\ failures' \in Nat
    BY <1>14 DEF Fail, TypeOK, Saving
  <2>2. Idle.phase \notin Saving
    BY DEF Idle, Saving, AfterSave
  <2>3. QED
    BY <1>14, <2>1, <2>2, IdleType DEF Fail, TypeOK, Assign
<1>15. CASE UNCHANGED vars
  BY <1>15 DEF vars, TypeOK
<1>16. QED
  BY <1>1, <1>2, <1>3, <1>5, <1>6, <1>7, <1>8, <1>9, <1>10, <1>11, <1>12, <1>13, <1>14, <1>15,
     JobCases DEF Next, RequestStep, HandlerStep

\* Every variable keeps its type, and a handler that is saving an order or has
\* saved it works on an order of the table.
THEOREM TypeCorrect == Spec => []TypeOK
<1>1. QED
  BY TypeInit, TypeStep, PTL DEF Spec

-----------------------------------------------------------------------------
(***************************************************************************)
(* Custody.                                                                *)
(***************************************************************************)
LEMMA SoundIdle == Sound(Idle)
BY OrdersAssumption DEF Sound, WorksOn, Idle

\* A handler that starts has loaded what is stored, and plans a lawful change.
LEMMA SoundStart ==
  ASSUME TypeOK, CustodyInv, NEW phase \in {"begun", "ready"}, NEW op, NEW to, NEW by,
         NEW batch \in SUBSET Orders,
         \A o \in batch : Lawful(op, by, row[o].status, to)
  PROVE  Sound(Start(phase, op, to, by, batch))
<1> DEFINE x == Start(phase, op, to, by, batch)
<1>1. /\ x.phase = phase /\ x.op = op /\ x.to = to /\ x.by = by
      /\ x.todo = batch /\ x.order = NoOrder
      /\ x.loaded = [o \in Orders |-> IF o \in batch THEN row[o] ELSE NewOrder]
  BY DEF Start, Idle
<1>2. SUFFICES ASSUME NEW o \in Orders, WorksOn(x, o)
               PROVE  /\ x.loaded[o].status \in Reached(o)
                      /\ "paid" \in x.loaded[o].stamps => "paid" \in Reached(o)
                      /\ Lawful(x.op, x.by, x.loaded[o].status, x.to)
                      /\ x.phase \notin Saving
  BY DEF Sound, Saving, AfterSave
<1>3. o \in batch /\ x.loaded[o] = row[o]
  BY <1>1, <1>2, OrdersAssumption DEF WorksOn
<1>4. Recorded(o)
  BY DEF CustodyInv
<1>. HIDE DEF x
<1>5. QED
  BY <1>1, <1>3, <1>4 DEF Recorded, Saving, AfterSave

LEMMA SoundContinue ==
  ASSUME TypeOK, CustodyInv, NEW h \in Handlers
  PROVE  Sound(Continue(h))
<1>1. CASE handler[h].todo = {}
  BY <1>1, SoundIdle DEF Continue
<1>2. CASE handler[h].todo # {}
  <2> DEFINE x == Continue(h)
  <2>1. handler[h] \in HandlerState /\ Sound(handler[h])
    BY DEF TypeOK, CustodyInv
  <2>2. /\ x.phase = "ready" /\ x.op = handler[h].op /\ x.to = handler[h].to
        /\ x.by = handler[h].by /\ x.todo = handler[h].todo /\ x.order = NoOrder
        /\ x.loaded = handler[h].loaded
    BY <1>2, <2>1 DEF Continue, HandlerState
  <2>3. \A o \in Orders : WorksOn(x, o) => WorksOn(handler[h], o)
    BY <2>2, OrdersAssumption DEF WorksOn
  <2>4. Sound(x)
    <3>. HIDE DEF x
    <3>1. QED
      BY <2>1, <2>2, <2>3 DEF Sound, Saving, AfterSave
  <2>5. QED
    BY <2>4
<1>3. QED
  BY <1>1, <1>2

\* A step that leaves the tables alone and the handler in a sound state.
LEMMA LocalStep ==
  ASSUME TypeOK, CustodyInv, NEW h \in Handlers, NEW x, Sound(x),
         handler' = [handler EXCEPT ![h] = x],
         UNCHANGED <<row, history>>,
         \A o \in Orders : Recorded(o)'
  PROVE  CustodyInv'
<1>1. \A o \in Orders : Reached(o)' = Reached(o)
  BY DEF Reached
<1>2. Sound(x)'
  BY <1>1 DEF Sound
<1>3. ASSUME NEW g \in Handlers PROVE Sound(handler[g])'
  <2>1. CASE g = h
    BY <1>2, <2>1 DEF TypeOK
  <2>2. CASE g # h
    <3>1. handler'[g] = handler[g] /\ Sound(handler[g])
      BY <2>2 DEF TypeOK, CustodyInv
    <3>2. QED
      BY <1>1, <3>1 DEF Sound
  <2>3. QED
    BY <2>1, <2>2
<1>4. \A o \in Orders : Lineage(o)'
  BY <1>1 DEF Lineage, CustodyInv
<1>5. QED
  BY <1>3, <1>4 DEF CustodyInv

LEMMA RecordedUnchanged ==
  ASSUME CustodyInv, UNCHANGED <<row, history, credits, refunds, disputes>>
  PROVE  \A o \in Orders : Recorded(o)'
BY DEF CustodyInv, Recorded, Reached

LEMMA CustodyInit == Init => CustodyInv
<1> SUFFICES ASSUME Init PROVE CustodyInv
  OBVIOUS
<1>1. \A o \in Orders : Lineage(o) /\ Recorded(o)
  BY DEF Init, Lineage, Recorded, Reached, NewOrder
<1>2. \A h \in Handlers : Sound(handler[h])
  BY SoundIdle DEF Init
<1>3. QED
  BY <1>1, <1>2 DEF CustodyInv

\* The UPDATE of a save: what it adds to an order's history has the ancestry the
\* table demands, because the handler loaded a status that was once reached.
LEMMA CustodySaveUpdate ==
  ASSUME TypeOK, TypeOK', CustodyInv, NEW h \in Handlers, SaveUpdate(h)
  PROVE  CustodyInv'
<1> DEFINE x == handler[h]
<1>0. PICK o \in Orders : o = x.order
  BY DEF SaveUpdate, TypeOK, Saving
<1> DEFINE from == x.loaded[o]
           entity == Entity(x.op, x.to, from)
<1>1. x \in HandlerState /\ x.phase = "selected" /\ x.order = o
  BY <1>0 DEF SaveUpdate, TypeOK
<1>2. /\ row' = [row EXCEPT ![o] = Saved(row[o], entity, x.dirty)]
      /\ history' = IF "status" \in x.dirty
                    THEN [history EXCEPT ![o] = @ \cup {[status |-> entity.status, by |-> x.by]}]
                    ELSE history
      /\ handler' = [handler EXCEPT ![h] = AfterUpdate(h)]
      /\ UNCHANGED <<credits, refunds, disputes>>
  BY <1>0 DEF SaveUpdate, EntityOf, Assign
<1>3. /\ from.status \in Reached(o)
      /\ "paid" \in from.stamps => "paid" \in Reached(o)
      /\ Lawful(x.op, x.by, from.status, x.to)
      /\ "status" \notin x.dirty => entity.status \in Reached(o)
  BY <1>1 DEF CustodyInv, Sound, WorksOn, Saving
<1>4. \A p \in Orders : history[p] \subseteq history'[p] /\ Reached(p) \subseteq Reached(p)'
  BY <1>1, <1>2 DEF TypeOK, Reached
<1>5. \A p \in Orders \ {o} : history'[p] = history[p] /\ row'[p] = row[p]
  BY <1>1, <1>2 DEF TypeOK
<1>6. entity.status \in Reached(o)'
  <2>1. CASE "status" \in x.dirty
    <3>1. [status |-> entity.status, by |-> x.by] \in history'[o]
      BY <1>2, <2>1 DEF TypeOK
    <3>2. QED
      BY <3>1 DEF Reached
  <2>2. CASE "status" \notin x.dirty
    BY <1>3, <1>4, <2>2
  <2>3. QED
    BY <2>1, <2>2
<1>7. \A p \in Orders : Lineage(p)'
  <2>1. SUFFICES ASSUME NEW p \in Orders, NEW e \in history'[p]
                 PROVE  /\ e.status = "purchased" => e.by = "traveler" /\ "paid" \in Reached(p)
                        /\ e.status = "shipped" => e.by = "traveler" /\ "purchased" \in Reached(p)
                        /\ e.status = "delivered" =>
                             e.by \in {"requester", "system"} /\ "shipped" \in Reached(p)
                        /\ e.status = "completed" => "delivered" \in Reached(p)
    BY <1>4 DEF Lineage
  <2>2. CASE e \in history[p]
    BY <2>2 DEF CustodyInv, Lineage
  <2>3. CASE e \notin history[p]
    <3>1. p = o /\ e.status = entity.status /\ e.by = x.by
      BY <1>1, <1>2, <2>3 DEF TypeOK
    <3>2. x.op \in Op
      BY <1>1 DEF HandlerState
    <3>3. CASE x.op = "pay"
      BY <1>3, <3>1, <3>3 DEF Entity, Lawful
    <3>4. CASE x.op = "update"
      <4>1. entity.status = x.to
        BY <3>4 DEF Entity
      <4>2. PICK t \in Transitions : t[1] = from.status /\ t[2] = x.to /\ (t[3] \in Party => t[3] = x.by)
        BY <1>3, <3>4 DEF Lawful, MayMove
      <4>3. QED
        BY <1>3, <3>1, <4>1, <4>2 DEF Transitions, Party
    <3>5. CASE x.op \in {"dispute", "confirm", "complete", "expire"}
      <4>1. entity.status = x.to
        BY <3>5 DEF Entity
      <4>2. QED
        BY <1>3, <3>1, <3>5, <4>1 DEF Lawful
    <3>6. QED
      BY <3>2, <3>3, <3>4, <3>5 DEF Op, ScheduledJobs
  <2>4. QED
    BY <2>2, <2>3
<1>8. \A p \in Orders : Recorded(p)'
  <2>1. ASSUME NEW p \in Orders \ {o} PROVE Recorded(p)'
    BY <1>2, <1>5, <2>1 DEF CustodyInv, Recorded, Reached
  <2>2. Recorded(o)'
    <3>1. row'[o] = Saved(row[o], entity, x.dirty)
      BY <1>1, <1>2 DEF TypeOK
    <3>2. row'[o].status \in Reached(o)'
      BY <1>1, <1>4, <1>6, <3>1 DEF Saved, CustodyInv, Recorded
    <3>3. "paid" \in row'[o].stamps => "paid" \in Reached(o)'
      <4>1. "paid" \in row'[o].stamps => "paid" \in row[o].stamps \/ "paid" \in entity.stamps
        BY <3>1 DEF Saved
      <4>2. "paid" \in entity.stamps => "paid" \in from.stamps \/ entity.status = "paid"
        BY <1>1 DEF Entity, StampsOf, HandlerState, OrderRow, Row
      <4>3. QED
        BY <1>1, <1>3, <1>4, <1>6, <4>1, <4>2 DEF CustodyInv, Recorded
    <3>4. QED
      BY <1>1, <1>2, <1>4, <3>2, <3>3 DEF CustodyInv, Recorded
  <2>3. QED
    BY <2>1, <2>2
<1>9. \A g \in Handlers : Sound(handler[g])'
  <2>1. ASSUME NEW g \in Handlers \ {h} PROVE Sound(handler[g])'
    <3>1. handler'[g] = handler[g] /\ Sound(handler[g])
      BY <1>2, <2>1 DEF TypeOK, CustodyInv
    <3>2. QED
      BY <1>4, <3>1 DEF Sound
  <2>2. Sound(handler[h])'
    <3>1. handler'[h] = AfterUpdate(h)
      BY <1>2 DEF TypeOK
    <3>2. CASE x.op = "pay"
      <4>1. handler'[h] = Continue(h) /\ Sound(Continue(h))
        BY <3>1, <3>2, SoundContinue, <1>1 DEF AfterUpdate, HandlerState
      <4>2. QED
        BY <1>4, <4>1 DEF Sound
    <3>3. CASE x.op # "pay"
      <4>1. /\ handler'[h].op = x.op /\ handler'[h].to = x.to /\ handler'[h].by = x.by
            /\ handler'[h].todo = x.todo /\ handler'[h].order = o
            /\ handler'[h].loaded = x.loaded
            /\ handler'[h].phase = "insert" => x.op = "dispute"
        BY <1>1, <3>1, <3>3 DEF AfterUpdate, HandlerState
      <4>2. Sound(x)
        BY DEF CustodyInv
      <4>3. \A p \in Orders : WorksOn(x, p) =>
              /\ x.loaded[p].status \in Reached(p)'
              /\ "paid" \in x.loaded[p].stamps => "paid" \in Reached(p)'
              /\ Lawful(x.op, x.by, x.loaded[p].status, x.to)
        BY <1>4, <4>2 DEF Sound
      <4>4. Entity(x.op, x.to, x.loaded[o]).status \in Reached(o)'
        BY <1>6
      <4>. HIDE DEF x
      <4>5. QED
        BY <1>1, <4>1, <4>3, <4>4 DEF Sound, WorksOn
    <3>4. QED
      BY <3>2, <3>3
  <2>3. QED
    BY <2>1, <2>2
<1>10. QED
  BY <1>7, <1>8, <1>9 DEF CustodyInv

LEMMA CustodyStep == TypeOK /\ TypeOK' /\ CustodyInv /\ [Next]_vars => CustodyInv'
<1> SUFFICES ASSUME TypeOK, TypeOK', CustodyInv, [Next]_vars PROVE CustodyInv'
  OBVIOUS
<1>a. ASSUME NEW h \in Handlers, NEW x, Sound(x), Assign(h, x), UNCHANGED Tables
      PROVE  CustodyInv'
  <2>1. \A o \in Orders : Recorded(o)'
    BY <1>a, RecordedUnchanged DEF Tables
  <2>2. QED
    BY <1>a, <2>1, LocalStep DEF Assign, Tables
<1>b. \A h \in Handlers : handler[h] \in HandlerState /\ Sound(handler[h])
  BY DEF TypeOK, CustodyInv
<1>1. ASSUME NEW r \in Requests, UpdateStatus(r) PROVE CustodyInv'
  <2>1. PICK o \in Orders, party \in Party, to \in Status :
          /\ MayMove(party, row[o].status, to)
          /\ Assign(r, Start("ready", "update", to, party, {o}))
          /\ UNCHANGED Tables
    BY <1>1 DEF UpdateStatus
  <2>2. Sound(Start("ready", "update", to, party, {o}))
    BY <2>1, SoundStart DEF Lawful
  <2>3. QED
    BY <1>a, <2>1, <2>2 DEF Handlers
<1>2. ASSUME NEW r \in Requests, InitiatePayment(r) PROVE CustodyInv'
  <2>1. PICK o \in Orders :
          /\ row[o].status = "pending"
          /\ Assign(r, Start("ready", "pay", "pending", "requester", {o}))
          /\ UNCHANGED Tables
    BY <1>2 DEF InitiatePayment
  <2>2. Sound(Start("ready", "pay", "pending", "requester", {o}))
    BY <2>1, SoundStart DEF Lawful
  <2>3. QED
    BY <1>a, <2>1, <2>2 DEF Handlers
<1>3. ASSUME NEW r \in Requests, OpenDispute(r) PROVE CustodyInv'
  <2>1. PICK o \in Orders, party \in Party :
          /\ row[o].status \in {"purchased", "shipped", "delivered"}
          /\ Assign(r, Start("begun", "dispute", "disputed", party, {o}))
          /\ UNCHANGED Tables
    BY <1>3 DEF OpenDispute
  <2>2. Sound(Start("begun", "dispute", "disputed", party, {o}))
    BY <2>1, SoundStart DEF Lawful
  <2>3. QED
    BY <1>a, <2>1, <2>2 DEF Handlers
<1>4. CASE AutoConfirmDelivery
  <2>1. PICK batch \in SUBSET {o \in Orders : IsShipped(o)} :
          /\ "confirm" \in Jobs
          /\ Assign("confirm", Start("ready", "confirm", "delivered", "system", batch))
          /\ UNCHANGED Tables
    BY <1>4 DEF AutoConfirmDelivery, LoadBatch, Target, Due
  <2>2. Sound(Start("ready", "confirm", "delivered", "system", batch))
    BY <2>1, SoundStart DEF Lawful, IsShipped
  <2>3. QED
    BY <1>a, <2>1, <2>2 DEF Handlers
<1>5. CASE AutoCompleteOrders
  <2>1. PICK batch \in SUBSET {o \in Orders : AwaitsCompletion(o)} :
          /\ "complete" \in Jobs
          /\ Assign("complete", Start("ready", "complete", "completed", "system", batch))
          /\ UNCHANGED Tables
    BY <1>5 DEF AutoCompleteOrders, LoadBatch, Target, Due
  <2>2. Sound(Start("ready", "complete", "completed", "system", batch))
    BY <2>1, SoundStart DEF Lawful, AwaitsCompletion
  <2>3. QED
    BY <1>a, <2>1, <2>2 DEF Handlers
<1>6. CASE ExpirePendingOrders
  <2>1. PICK batch \in SUBSET {o \in Orders : IsUnpaid(o)} :
          /\ "expire" \in Jobs
          /\ Assign("expire", Start("ready", "expire", "cancelled", "system", batch))
          /\ UNCHANGED Tables
    BY <1>6 DEF ExpirePendingOrders, LoadBatch, Target, Due
  <2>2. Sound(Start("ready", "expire", "cancelled", "system", batch))
    BY <2>1, SoundStart DEF Lawful, IsUnpaid
  <2>3. QED
    BY <1>a, <2>1, <2>2 DEF Handlers
<1>7. ASSUME NEW h \in Handlers, CheckDispute(h) PROVE CustodyInv'
  <2>1. Sound([handler[h] EXCEPT !.phase = "ready"])
    BY <1>7, <1>b DEF CheckDispute, HandlerState, Sound, WorksOn, Saving, AfterSave
  <2>2. PICK x \in {[handler[h] EXCEPT !.phase = "ready"], Idle} : Assign(h, x) /\ UNCHANGED Tables
    BY <1>7 DEF CheckDispute
  <2>3. QED
    BY <1>a, <2>1, <2>2, SoundIdle
<1>8. ASSUME NEW h \in Handlers, SaveSelect(h) PROVE CustodyInv'
  <2>1. PICK o \in handler[h].todo :
          Assign(h, [handler[h] EXCEPT !.phase = "selected", !.order = o, !.todo = @ \ {o},
                                       !.dirty = Dirty(EntityOf(h, o), row[o])])
    BY <1>8 DEF SaveSelect
  <2> DEFINE x == [handler[h] EXCEPT !.phase = "selected", !.order = o, !.todo = @ \ {o},
                                     !.dirty = Dirty(EntityOf(h, o), row[o])]
  <2>2. /\ x.op = handler[h].op /\ x.to = handler[h].to /\ x.by = handler[h].by
        /\ x.loaded = handler[h].loaded /\ x.order = o /\ x.todo = handler[h].todo \ {o}
        /\ x.phase = "selected"
        /\ x.dirty = Dirty(Entity(handler[h].op, handler[h].to, handler[h].loaded[o]), row[o])
    BY <1>b DEF HandlerState, EntityOf
  <2>3. o \in Orders /\ Recorded(o)
    BY <1>b DEF HandlerState, CustodyInv
  <2>4. "status" \notin x.dirty =>
          Entity(x.op, x.to, x.loaded[o]).status \in Reached(o)
    BY <2>2, <2>3 DEF Dirty, Recorded
  <2>5. Sound(x)
    <3>. HIDE DEF x
    <3>1. QED
      BY <1>b, <2>2, <2>3, <2>4 DEF Sound, WorksOn
  <2>6. QED
    BY <1>8, <1>a, <2>1, <2>5 DEF SaveSelect
<1>9. ASSUME NEW h \in Handlers, SaveUpdate(h) PROVE CustodyInv'
  BY <1>9, CustodySaveUpdate
<1>c. \A h \in Handlers : Sound(Continue(h))
  BY SoundContinue
<1>10. ASSUME NEW h \in Handlers, Announce(h) PROVE CustodyInv'
  <2>1. PICK x : /\ Assign(h, x)
                 /\ \/ x = Continue(h)
                    \/ \E rest : x = [handler[h] EXCEPT !.due = rest]
                    \/ x = [handler[h] EXCEPT !.phase = "enqueue", !.due = {}]
    BY <1>10 DEF Announce
  <2>2. Sound(x)
    <3>1. CASE x = Continue(h)
      BY <1>c, <3>1
    <3>2. CASE \E rest : x = [handler[h] EXCEPT !.due = rest]
      BY <1>b, <3>2 DEF HandlerState, Sound, WorksOn
    <3>3. CASE x = [handler[h] EXCEPT !.phase = "enqueue", !.due = {}]
      BY <1>b, <1>10, <3>3 DEF Announce, HandlerState, Sound, WorksOn, Saving, AfterSave
    <3>4. QED
      BY <2>1, <3>1, <3>2, <3>3
  <2>3. \A o \in Orders : Recorded(o)'
    BY <1>10, RecordedUnchanged DEF Announce
  <2>4. QED
    BY <1>10, <2>1, <2>2, <2>3, LocalStep DEF Announce, Assign
<1>11. ASSUME NEW h \in Handlers, Enqueue(h) PROVE CustodyInv'
  <2>1. PICK x \in {[handler[h] EXCEPT !.phase = "announce"], Continue(h)} : Assign(h, x)
    BY <1>11 DEF Enqueue
  <2>2. Sound(x)
    <3>1. Sound([handler[h] EXCEPT !.phase = "announce"])
      BY <1>b, <1>11 DEF Enqueue, HandlerState, Sound, WorksOn, Saving, AfterSave
    <3>2. QED
      BY <1>c, <2>1, <3>1
  <2>3. \A o \in Orders : Recorded(o)'
    <3>1. PICK p \in Orders : p = handler[h].order
      BY <1>11 DEF Enqueue, TypeOK, Saving, AfterSave
    <3> DEFINE job == WalletJob(handler[h].op, handler[h].to, handler[h].loaded[p])
    <3>2. /\ Lawful(handler[h].op, handler[h].by, handler[h].loaded[p].status, handler[h].to)
          /\ "paid" \in handler[h].loaded[p].stamps => "paid" \in Reached(p)
          /\ Entity(handler[h].op, handler[h].to, handler[h].loaded[p]).status \in Reached(p)
      BY <1>b, <1>11, <3>1 DEF Enqueue, Sound, WorksOn, Saving, AfterSave
    <3>3. job = "credit" => "completed" \in Reached(p)
      BY <3>2 DEF WalletJob, Entity
    <3>4. job = "refund" => {"paid", "cancelled"} \subseteq Reached(p)
      BY <3>2 DEF WalletJob, Entity
    <3>5. \A o \in Orders : /\ credits'[o] # credits[o] => o = p /\ job = "credit"
                            /\ refunds'[o] # refunds[o] => o = p /\ job = "refund"
      BY <1>11, <3>1 DEF Enqueue, TypeOK
    <3>6. row' = row /\ history' = history /\ disputes' = disputes
      BY <1>11 DEF Enqueue
    <3>7. \A o \in Orders : Reached(o)' = Reached(o) /\ Recorded(o)
      BY <3>6 DEF Reached, CustodyInv
    <3>. HIDE DEF job
    <3>8. QED
      BY <3>3, <3>4, <3>5, <3>6, <3>7 DEF Recorded
  <2>4. QED
    BY <1>11, <2>1, <2>2, <2>3, LocalStep DEF Enqueue, Assign
<1>12. ASSUME NEW h \in Handlers, InsertDispute(h) PROVE CustodyInv'
  <2>1. \A o \in Orders : Recorded(o)'
    <3>1. PICK p \in Orders : p = handler[h].order
      BY <1>12 DEF InsertDispute, TypeOK, Saving, AfterSave
    <3>2. "disputed" \in Reached(p)
      <4>1. /\ Lawful(handler[h].op, handler[h].by, handler[h].loaded[p].status, handler[h].to)
            /\ Entity(handler[h].op, handler[h].to, handler[h].loaded[p]).status \in Reached(p)
        BY <1>b, <1>12, <3>1 DEF InsertDispute, Sound, WorksOn, Saving, AfterSave
      <4>2. handler[h].op = "dispute"
        BY <1>b, <1>12, <3>1 DEF InsertDispute, Sound, WorksOn
      <4>3. QED
        BY <4>1, <4>2 DEF Lawful, Entity
    <3>3. \A o \in Orders : disputes'[o] # disputes[o] => o = p
      BY <1>12, <3>1 DEF InsertDispute, TypeOK
    <3>4. UNCHANGED <<row, history, credits, refunds>>
      BY <1>12 DEF InsertDispute
    <3>5. \A o \in Orders : Reached(o)' = Reached(o) /\ Recorded(o)
      BY <3>4 DEF Reached, CustodyInv
    <3>6. QED
      BY <3>2, <3>3, <3>4, <3>5 DEF Recorded
  <2>2. QED
    BY <1>12, <2>1, SoundIdle, LocalStep DEF InsertDispute, Assign
<1>13. ASSUME NEW h \in Handlers, Fail(h) PROVE CustodyInv'
  <2>1. \A o \in Orders : Recorded(o)'
    BY <1>13, RecordedUnchanged DEF Fail
  <2>2. QED
    BY <1>13, <2>1, SoundIdle, LocalStep DEF Fail, Assign
<1>14. CASE UNCHANGED vars
  <2>1. \A o \in Orders : Reached(o)' = Reached(o)
    BY <1>14 DEF vars, Reached
  <2>2. QED
    BY <1>14, <2>1 DEF vars, CustodyInv, Lineage, Recorded, Sound
<1>15. QED
  BY <1>1, <1>2, <1>3, <1>4, <1>5, <1>6, <1>7, <1>8, <1>9, <1>10, <1>11, <1>12, <1>13, <1>14,
     JobCases DEF Next, RequestStep, HandlerStep

\* Custody holds in every behaviour, whatever the interleaving: a traveler is
\* credited only for an order that was paid, that the traveler bought and
\* shipped and whose delivery was confirmed; a refund is queued only for an
\* order that was paid.
THEOREM CustodyHolds == Spec => []Custody
<1>1. TypeOK /\ CustodyInv => Custody
  <2> SUFFICES ASSUME TypeOK, CustodyInv, NEW o \in Orders
               PROVE  /\ credits[o] > 0 => "completed" \in Reached(o)
                      /\ "completed" \in Reached(o) =>
                           /\ Wrote(o, "delivered", {"requester", "system"})
                           /\ Wrote(o, "shipped", {"traveler"})
                           /\ Wrote(o, "purchased", {"traveler"})
                           /\ "paid" \in Reached(o)
                      /\ refunds[o] > 0 => {"paid", "cancelled"} \subseteq Reached(o)
                      /\ disputes[o] > 0 => "disputed" \in Reached(o)
    BY DEF Custody
  <2>1. Lineage(o) /\ Recorded(o)
    BY DEF CustodyInv
  <2>2. ASSUME "completed" \in Reached(o)
        PROVE  /\ Wrote(o, "delivered", {"requester", "system"})
               /\ Wrote(o, "shipped", {"traveler"})
               /\ Wrote(o, "purchased", {"traveler"})
               /\ "paid" \in Reached(o)
    <3>1. PICK c \in history[o] : c.status = "completed"
      BY <2>2 DEF Reached
    <3>2. PICK d \in history[o] : d.status = "delivered"
      BY <2>1, <3>1 DEF Lineage, Reached
    <3>3. PICK s \in history[o] : s.status = "shipped"
      BY <2>1, <3>2 DEF Lineage, Reached
    <3>4. PICK p \in history[o] : p.status = "purchased"
      BY <2>1, <3>3 DEF Lineage, Reached
    <3>5. QED
      BY <2>1, <3>2, <3>3, <3>4 DEF Lineage, Wrote
  <2>3. QED
    BY <2>1, <2>2 DEF Recorded
<1>2. QED
  BY <1>1, TypeInit, TypeStep, CustodyInit, CustodyStep, PTL DEF Spec

-----------------------------------------------------------------------------
(***************************************************************************)
(* Settlement.  On an order that no stale save has hit, the row only       *)
(* advances; so a handler whose loaded row is still the stored one has     *)
(* compared its entity with that very row, and its save stores the entity. *)
(***************************************************************************)
LEMMA StageType == \A status : Stage(status) \in 0..5
BY DEF Stage

LEMMA PrecedesReflexive == \A r : Precedes(r, r)
BY DEF Precedes

LEMMA PrecedesTransitive ==
  ASSUME NEW r, NEW s, NEW t, Precedes(r, s), Precedes(s, t)
  PROVE  Precedes(r, t)
BY StageType DEF Precedes

LEMMA PrecedesAntisymmetric ==
  ASSUME NEW r \in OrderRow, NEW s \in OrderRow, Precedes(r, s), Precedes(s, r)
  PROVE  r = s
<1>1. r.status = s.status /\ r.stamps = s.stamps
  BY StageType DEF Precedes
<1>2. QED
  BY <1>1 DEF OrderRow, Row

\* What a handler lawfully writes comes after what it loaded.
LEMMA EntityAdvances ==
  ASSUME NEW r \in OrderRow, NEW op \in Op, NEW to \in Status, NEW by,
         Lawful(op, by, r.status, to)
  PROVE  Precedes(r, Entity(op, to, r))
<1>1. CASE op = "pay"
  <2>1. Entity(op, to, r).status = r.status /\ r.stamps \subseteq Entity(op, to, r).stamps
    BY <1>1 DEF Entity, OrderRow, Row
  <2>2. QED
    BY <2>1 DEF Precedes
<1>2. CASE op = "update"
  <2>1. PICK t \in Transitions : t[1] = r.status /\ t[2] = to
    BY <1>2 DEF Lawful, MayMove
  <2>2. Entity(op, to, r).status = to
    BY <1>2 DEF Entity
  <2>3. Stage(r.status) < Stage(to)
    BY <2>1 DEF Transitions, Stage
  <2>4. QED
    BY <2>2, <2>3 DEF Precedes
<1>3. CASE op \in {"dispute", "confirm", "complete", "expire"}
  <2>1. Entity(op, to, r).status = to
    BY <1>3 DEF Entity
  <2>2. Stage(r.status) < Stage(to)
    BY <1>3 DEF Lawful, Stage
  <2>3. QED
    BY <2>1, <2>2 DEF Precedes
<1>4. QED
  BY <1>1, <1>2, <1>3 DEF Op, ScheduledJobs

\* Nothing lawful starts from a completed or a cancelled order.
LEMMA FinalStatus ==
  ASSUME NEW op \in Op, NEW to, NEW by, NEW from, Lawful(op, by, from, to)
  PROVE  from \notin {"completed", "cancelled", "disputed"}
<1>1. CASE op = "update"
  <2>1. PICK t \in Transitions : t[1] = from
    BY <1>1 DEF Lawful, MayMove
  <2>2. QED
    BY <2>1 DEF Transitions
<1>2. CASE op # "update"
  BY <1>2 DEF Lawful, Op, ScheduledJobs
<1>3. QED
  BY <1>1, <1>2

\* The wallet job that a handler owes fits the entity it has saved.
LEMMA JobFitsEntity ==
  ASSUME NEW op \in Op, NEW to \in Status, NEW r \in OrderRow
  PROVE  /\ WalletJob(op, to, r) = "credit" => Entity(op, to, r).status = "completed"
         /\ WalletJob(op, to, r) = "refund" =>
              /\ Entity(op, to, r).status = "cancelled"
              /\ "paid" \in Entity(op, to, r).stamps
         /\ WalletJob(op, to, r) \in {"credit", "refund", "none"}
BY DEF WalletJob, Entity, OrderRow, Row

LEMMA IdleSettled == \A o \in Orders : UpToDate(Idle, o) /\ ~Owes(Idle, o)
BY OrdersAssumption DEF UpToDate, Owes, WorksOn, Idle

LEMMA StartSettled ==
  ASSUME NEW phase \in {"begun", "ready"}, NEW op, NEW to, NEW by,
         NEW batch \in SUBSET Orders, NEW o \in Orders
  PROVE  /\ UpToDate(Start(phase, op, to, by, batch), o)
         /\ ~Owes(Start(phase, op, to, by, batch), o)
<1> DEFINE x == Start(phase, op, to, by, batch)
<1>1. /\ x.phase = phase /\ x.todo = batch /\ x.order = NoOrder
      /\ x.loaded = [p \in Orders |-> IF p \in batch THEN row[p] ELSE NewOrder]
  BY DEF Start, Idle
<1>2. UpToDate(x, o) /\ ~Owes(x, o)
  <2>. HIDE DEF x
  <2>1. QED
    BY <1>1, PrecedesReflexive, OrdersAssumption DEF UpToDate, Owes, WorksOn
<1>3. QED
  BY <1>2

\* A handler that goes on with its batch has nothing left to pay, and knows of
\* the orders to come what it knew before.
LEMMA ContinueSettled ==
  ASSUME NEW h \in Handlers, handler[h] \in HandlerState, NEW o \in Orders
  PROVE  /\ ~Owes(Continue(h), o)
         /\ Continue(h).phase # "selected"
         /\ WorksOn(Continue(h), o) =>
              WorksOn(handler[h], o) /\ Continue(h).loaded = handler[h].loaded
<1>1. CASE handler[h].todo = {}
  BY <1>1, OrdersAssumption DEF Continue, Idle, Owes, WorksOn
<1>2. CASE handler[h].todo # {}
  <2> DEFINE x == Continue(h)
  <2>1. /\ x.phase = "ready" /\ x.todo = handler[h].todo /\ x.order = NoOrder
        /\ x.loaded = handler[h].loaded
    BY <1>2 DEF Continue, HandlerState
  <2>2. QED
    BY <2>1, OrdersAssumption DEF Owes, WorksOn
<1>3. QED
  BY <1>1, <1>2

\* A step of one handler that leaves the orders and the counters alone.
LEMMA SettledLocal ==
  ASSUME TypeOK, SettledInv, NEW h \in Handlers, NEW x,
         handler' = [handler EXCEPT ![h] = x],
         UNCHANGED <<row, credits, refunds, stale>>,
         \A o \in Intact :
           /\ UpToDate(x, o)
           /\ Owes(x, o) => /\ Owes(handler[h], o) /\ x.op = handler[h].op
                            /\ x.to = handler[h].to /\ x.loaded = handler[h].loaded
  PROVE  SettledInv'
<1>1. Intact' = Intact
  BY DEF Intact
<1>2. handler'[h] = x /\ \A g \in Handlers \ {h} : handler'[g] = handler[g]
  BY DEF TypeOK
<1>3. SUFFICES ASSUME NEW o \in Intact
               PROVE  /\ \A g \in Handlers :
                           /\ UpToDate(handler[g], o)'
                           /\ Owes(handler'[g], o) =>
                                /\ row[o] = Entity(handler'[g].op, handler'[g].to, handler'[g].loaded[o])
                                /\ credits[o] = 0 /\ refunds[o] = 0
                                /\ \A f \in Handlers : Owes(handler'[f], o) => f = g
                      /\ credits[o] + refunds[o] <= 1
                      /\ credits[o] > 0 => row[o].status = "completed"
                      /\ refunds[o] > 0 => row[o].status = "cancelled" /\ "paid" \in row[o].stamps
  BY <1>1 DEF SettledInv, Owes
<1>4. \A g \in Handlers : Owes(handler'[g], o) => Owes(handler[g], o)
  BY <1>2
<1>5. ASSUME NEW g \in Handlers PROVE UpToDate(handler[g], o)'
  BY <1>2 DEF SettledInv, UpToDate
<1>6. QED
  BY <1>2, <1>4, <1>5 DEF SettledInv

LEMMA SettledInit == Init => SettledInv
<1> SUFFICES ASSUME Init PROVE SettledInv
  OBVIOUS
<1>1. Intact \subseteq Orders
  BY DEF Intact
<1>2. QED
  BY <1>1, IdleSettled DEF Init, SettledInv

\* The UPDATE of a save on an order that stays undisturbed: nobody owes the
\* order anything yet, and what is stored afterwards is the handler's entity.
LEMMA SettledSaveUpdate ==
  ASSUME TypeOK, CustodyInv, SettledInv, NEW h \in Handlers, SaveUpdate(h)
  PROVE  SettledInv'
<1> DEFINE x == handler[h]
<1>0. PICK o \in Orders : o = x.order
  BY DEF SaveUpdate, TypeOK, Saving
<1> DEFINE from == x.loaded[o]
           entity == Entity(x.op, x.to, from)
<1>1. /\ x \in HandlerState /\ x.phase = "selected" /\ x.order = o
      /\ from \in OrderRow /\ x.op \in Op /\ x.to \in Status
      /\ row[o] \in OrderRow
  BY <1>0 DEF SaveUpdate, TypeOK, HandlerState
<1>2. /\ row' = [row EXCEPT ![o] = Saved(row[o], entity, x.dirty)]
      /\ stale' = IF row[o] = from THEN stale ELSE [stale EXCEPT ![o] = @ + 1]
      /\ handler' = [handler EXCEPT ![h] = AfterUpdate(h)]
      /\ UNCHANGED <<credits, refunds>>
  BY <1>0 DEF SaveUpdate, EntityOf, Assign
<1>3. Intact' \subseteq Intact
  <2>1. \A p \in Orders : stale[p] \in Nat /\ (stale'[p] = stale[p] \/ stale'[p] = stale[p] + 1)
    BY <1>2 DEF TypeOK
  <2>2. QED
    BY <2>1 DEF Intact
<1>4. o \in Intact' => row[o] = from
  BY <1>2 DEF Intact, TypeOK
<1>5. Lawful(x.op, x.by, from.status, x.to)
  BY <1>1 DEF CustodyInv, Sound, WorksOn
<1>6. entity \in OrderRow
  BY <1>1, EntityType
<1>7. \A g \in Handlers \ {h} : handler'[g] = handler[g]
  BY <1>2 DEF TypeOK
<1>8. \A p \in Orders \ {o} : row'[p] = row[p]
  BY <1>2 DEF TypeOK
<1>9. /\ handler'[h].phase # "selected"
      /\ \A p \in Orders : WorksOn(handler'[h], p) =>
           WorksOn(x, p) /\ handler'[h].loaded = x.loaded
      /\ \A p \in Orders : Owes(handler'[h], p) =>
           /\ p = o
           /\ handler'[h].op = x.op /\ handler'[h].to = x.to /\ handler'[h].loaded = x.loaded
  <2>1. handler'[h] = AfterUpdate(h)
    BY <1>2 DEF TypeOK
  <2>2. CASE x.op = "pay"
    <3>1. handler'[h] = Continue(h)
      BY <1>1, <2>1, <2>2 DEF AfterUpdate, HandlerState
    <3>2. QED
      BY <1>1, <3>1, ContinueSettled
  <2>3. CASE x.op # "pay"
    <3>1. /\ handler'[h].op = x.op /\ handler'[h].to = x.to
          /\ handler'[h].loaded = x.loaded
          /\ handler'[h].todo = x.todo /\ handler'[h].order = o
          /\ handler'[h].phase \in AfterSave
      BY <1>1, <2>1, <2>3 DEF AfterUpdate, HandlerState, AfterSave
    <3>. HIDE DEF x
    <3>2. QED
      BY <1>1, <3>1 DEF WorksOn, Owes, AfterSave
  <2>4. QED
    BY <2>2, <2>3
<1>10. ASSUME NEW p \in Intact', p # o
       PROVE  /\ \A g \in Handlers :
                   /\ UpToDate(handler[g], p)'
                   /\ Owes(handler'[g], p) => g # h /\ Owes(handler[g], p)
              /\ p \in Intact /\ p \in Orders /\ row'[p] = row[p]
  <2>1. p \in Intact /\ p \in Orders
    BY <1>3, <1>10 DEF Intact
  <2>2. \A g \in Handlers : UpToDate(handler[g], p)
    BY <2>1 DEF SettledInv
  <2>3. ASSUME NEW g \in Handlers PROVE UpToDate(handler[g], p)'
    <3>1. CASE g = h
      BY <1>8, <1>9, <1>10, <2>1, <2>2, <3>1 DEF UpToDate
    <3>2. CASE g # h
      BY <1>7, <1>8, <1>10, <2>1, <2>2, <3>2 DEF UpToDate
    <3>3. QED
      BY <3>1, <3>2
  <2>4. QED
    BY <1>7, <1>8, <1>9, <1>10, <2>1, <2>3
<1>11. ASSUME o \in Intact'
       PROVE  /\ row'[o] = entity
              /\ credits[o] = 0 /\ refunds[o] = 0
              /\ \A g \in Handlers :
                   /\ UpToDate(handler[g], o)'
                   /\ Owes(handler'[g], o) => g = h
  <2>1. o \in Intact /\ row[o] = from
    BY <1>3, <1>4, <1>11
  <2>2. \A g \in Handlers : UpToDate(handler[g], o)
    BY <2>1 DEF SettledInv
  <2>3. row'[o] = entity
    <3>1. x.dirty = Dirty(entity, row[o])
      BY <1>1, <2>1, <2>2 DEF UpToDate, WorksOn
    <3>2. QED
      BY <1>1, <1>2, <1>6, <3>1, SavedIsEntity DEF TypeOK
  <2>4. from.status \notin {"completed", "cancelled", "disputed"}
    BY <1>1, <1>5, FinalStatus
  <2>5. credits[o] = 0 /\ refunds[o] = 0
    BY <2>1, <2>4 DEF SettledInv, TypeOK
  <2>6. \A g \in Handlers : ~Owes(handler[g], o)
    <3>1. SUFFICES ASSUME NEW g \in Handlers, Owes(handler[g], o) PROVE FALSE
      OBVIOUS
    <3>2. row[o] = Entity(handler[g].op, handler[g].to, handler[g].loaded[o])
      BY <2>1, <3>1 DEF SettledInv
    <3>3. handler[g].op \in Op /\ handler[g].to \in Status /\ handler[g].loaded[o] \in OrderRow
      BY DEF TypeOK, HandlerState
    <3>4. row[o].status \in {"completed", "cancelled"}
      BY <3>1, <3>2, <3>3, JobFitsEntity DEF Owes
    <3>5. QED
      BY <2>1, <2>4, <3>4
  <2>7. Precedes(row[o], entity)
    BY <1>1, <1>5, <2>1, EntityAdvances
  <2>8. ASSUME NEW g \in Handlers PROVE UpToDate(handler[g], o)'
    <3>1. CASE g = h
      <4>1. Precedes(from, row'[o])
        BY <2>1, <2>3, <2>7
      <4>2. QED
        BY <1>9, <3>1, <4>1 DEF UpToDate
    <3>2. CASE g # h
      <4> DEFINE y == handler[g]
      <4>1. y.loaded[o] \in OrderRow /\ handler'[g] = y
        BY <1>7, <3>2 DEF TypeOK, HandlerState
      <4>2. CASE WorksOn(y, o)
        <5>1. Precedes(y.loaded[o], row[o])
          BY <2>2, <4>2 DEF UpToDate
        <5>2. Precedes(y.loaded[o], row'[o])
          BY <2>3, <2>7, <5>1, PrecedesTransitive
        <5>3. row'[o] = y.loaded[o] => row'[o] = row[o]
          BY <1>1, <1>6, <2>3, <2>7, <5>1, PrecedesAntisymmetric
        <5>4. QED
          BY <2>2, <4>1, <5>2, <5>3 DEF UpToDate
      <4>3. CASE ~WorksOn(y, o)
        BY <4>1, <4>3 DEF UpToDate
      <4>4. QED
        BY <4>2, <4>3
    <3>3. QED
      BY <3>1, <3>2
  <2>9. QED
    BY <1>7, <2>3, <2>5, <2>6, <2>8
<1>12. SUFFICES ASSUME NEW p \in Intact'
                PROVE  /\ \A g \in Handlers :
                            /\ UpToDate(handler[g], p)'
                            /\ Owes(handler'[g], p) =>
                                 /\ row'[p] = Entity(handler'[g].op, handler'[g].to, handler'[g].loaded[p])
                                 /\ credits[p] = 0 /\ refunds[p] = 0
                                 /\ \A f \in Handlers : Owes(handler'[f], p) => f = g
                       /\ credits[p] + refunds[p] <= 1
                       /\ credits[p] > 0 => row'[p].status = "completed"
                       /\ refunds[p] > 0 => row'[p].status = "cancelled" /\ "paid" \in row'[p].stamps
  BY <1>2 DEF SettledInv, Owes
<1>13. CASE p = o
  BY <1>9, <1>11, <1>13
<1>14. CASE p # o
  <2>1. p \in Intact /\ p \in Orders /\ row'[p] = row[p]
    BY <1>10, <1>14
  <2>a. \A g \in Handlers : UpToDate(handler[g], p)'
    BY <1>10, <1>14
  <2>b. \A g \in Handlers : Owes(handler'[g], p) => g # h /\ Owes(handler[g], p)
    BY <1>10, <1>14
  <2>2. /\ credits[p] + refunds[p] <= 1
        /\ credits[p] > 0 => row[p].status = "completed"
        /\ refunds[p] > 0 => row[p].status = "cancelled" /\ "paid" \in row[p].stamps
    BY <2>1 DEF SettledInv
  <2>3. ASSUME NEW g \in Handlers, Owes(handler'[g], p)
        PROVE  /\ row'[p] = Entity(handler'[g].op, handler'[g].to, handler'[g].loaded[p])
               /\ credits[p] = 0 /\ refunds[p] = 0
               /\ \A f \in Handlers : Owes(handler'[f], p) => f = g
    <3>1. g # h /\ Owes(handler[g], p) /\ handler'[g] = handler[g]
      BY <1>7, <2>b, <2>3
    <3>2. /\ row[p] = Entity(handler[g].op, handler[g].to, handler[g].loaded[p])
          /\ credits[p] = 0 /\ refunds[p] = 0
          /\ \A f \in Handlers : Owes(handler[f], p) => f = g
      BY <2>1, <3>1 DEF SettledInv
    <3>3. \A f \in Handlers : Owes(handler'[f], p) => f = g
      BY <2>b, <3>2
    <3>4. QED
      BY <2>1, <3>1, <3>2, <3>3
  <2>4. QED
    BY <2>1, <2>2, <2>3, <2>a
<1>15. QED
  BY <1>13, <1>14

\* Queueing a wallet job: the handler owed it, nobody else does, and nothing was
\* queued for the order before.
LEMMA SettledEnqueue ==
  ASSUME TypeOK, CustodyInv, SettledInv, NEW h \in Handlers, Enqueue(h)
  PROVE  SettledInv'
<1> DEFINE x == handler[h]
<1>0. PICK o \in Orders : o = x.order
  BY DEF Enqueue, TypeOK, Saving, AfterSave
<1> DEFINE job == WalletJob(x.op, x.to, x.loaded[o])
<1>1. /\ x \in HandlerState /\ x.phase = "enqueue" /\ x.order = o
      /\ x.loaded[o] \in OrderRow /\ x.op \in Op /\ x.to \in Status
  BY <1>0 DEF Enqueue, TypeOK, HandlerState
<1>2. /\ credits' = IF job = "credit" THEN [credits EXCEPT ![o] = @ + 1] ELSE credits
      /\ refunds' = IF job = "refund" THEN [refunds EXCEPT ![o] = @ + 1] ELSE refunds
      /\ handler' = [handler EXCEPT ![h] = IF x.op = "complete"
                                           THEN [x EXCEPT !.phase = "announce"]
                                           ELSE Continue(h)]
      /\ row' = row /\ stale' = stale
  BY <1>0 DEF Enqueue, Assign
<1>3. Intact' = Intact /\ Intact \subseteq Orders
  BY <1>2 DEF Intact
<1>4. \A g \in Handlers \ {h} : handler'[g] = handler[g]
  BY <1>2 DEF TypeOK
<1>5. \A p \in Orders : /\ ~Owes(handler'[h], p)
                        /\ WorksOn(handler'[h], p) =>
                             WorksOn(x, p) /\ handler'[h].loaded = x.loaded
                        /\ handler'[h].phase # "selected"
  <2>1. CASE x.op = "complete"
    <3>1. handler'[h] = [x EXCEPT !.phase = "announce"]
      BY <1>2, <2>1 DEF TypeOK
    <3>2. QED
      BY <1>1, <2>1, <3>1 DEF HandlerState, Owes, WorksOn
  <2>2. CASE x.op # "complete"
    <3>1. handler'[h] = Continue(h)
      BY <1>2, <2>2 DEF TypeOK
    <3>2. QED
      BY <1>1, <3>1, ContinueSettled
  <2>3. QED
    BY <2>1, <2>2
<1>6. \A p \in Intact : \A g \in Handlers : UpToDate(handler[g], p)'
  <2>1. SUFFICES ASSUME NEW p \in Intact, NEW g \in Handlers PROVE UpToDate(handler[g], p)'
    OBVIOUS
  <2>2. UpToDate(handler[g], p) /\ p \in Orders
    BY <1>3 DEF SettledInv
  <2>3. CASE g = h
    BY <1>2, <1>5, <2>2, <2>3 DEF UpToDate
  <2>4. CASE g # h
    BY <1>2, <1>4, <2>2, <2>4 DEF UpToDate
  <2>5. QED
    BY <2>3, <2>4
<1>7. ASSUME NEW p \in Intact, NEW g \in Handlers, Owes(handler'[g], p)
      PROVE  /\ row[p] = Entity(handler'[g].op, handler'[g].to, handler'[g].loaded[p])
             /\ credits'[p] = 0 /\ refunds'[p] = 0
             /\ \A f \in Handlers : Owes(handler'[f], p) => f = g
  <2>1. g # h /\ handler'[g] = handler[g] /\ Owes(handler[g], p)
    BY <1>3, <1>4, <1>5, <1>7
  <2>2. /\ row[p] = Entity(handler[g].op, handler[g].to, handler[g].loaded[p])
        /\ credits[p] = 0 /\ refunds[p] = 0
        /\ \A f \in Handlers : Owes(handler[f], p) => f = g
    BY <2>1 DEF SettledInv
  <2>3. \A f \in Handlers : Owes(handler'[f], p) => f = g
    BY <1>3, <1>4, <1>5, <2>2
  <2>4. ~Owes(x, p)
    BY <2>1, <2>2
  <2>5. p = o => job = "none"
    BY <1>1, <2>4 DEF Owes
  <2>6. credits'[p] = credits[p] /\ refunds'[p] = refunds[p]
    BY <1>2, <1>3, <2>5 DEF TypeOK
  <2>7. QED
    BY <2>1, <2>2, <2>3, <2>6
<1>8. ASSUME NEW p \in Intact
      PROVE  /\ credits'[p] + refunds'[p] <= 1
             /\ credits'[p] > 0 => row[p].status = "completed"
             /\ refunds'[p] > 0 => row[p].status = "cancelled" /\ "paid" \in row[p].stamps
  <2>1. /\ credits[p] + refunds[p] <= 1
        /\ credits[p] > 0 => row[p].status = "completed"
        /\ refunds[p] > 0 => row[p].status = "cancelled" /\ "paid" \in row[p].stamps
    BY DEF SettledInv
  <2>2. CASE p # o \/ job = "none"
    <3>1. credits'[p] = credits[p] /\ refunds'[p] = refunds[p]
      BY <1>2, <1>3, <2>2 DEF TypeOK
    <3>2. QED
      BY <2>1, <3>1
  <2>3. CASE p = o /\ job # "none"
    <3>1. Owes(x, o)
      BY <1>1, <2>3 DEF Owes
    <3>2. row[o] = Entity(x.op, x.to, x.loaded[o]) /\ credits[o] = 0 /\ refunds[o] = 0
      BY <2>3, <3>1 DEF SettledInv
    <3>3. /\ job = "credit" => row[o].status = "completed"
          /\ job = "refund" => row[o].status = "cancelled" /\ "paid" \in row[o].stamps
      BY <1>1, <3>2, JobFitsEntity
    <3>4. /\ credits'[o] = IF job = "credit" THEN 1 ELSE 0
          /\ refunds'[o] = IF job = "refund" THEN 1 ELSE 0
      BY <1>2, <3>2 DEF TypeOK
    <3>5. QED
      BY <2>3, <3>3, <3>4
  <2>4. QED
    BY <2>2, <2>3
<1>9. QED
  BY <1>2, <1>3, <1>6, <1>7, <1>8 DEF SettledInv

LEMMA SettledStep ==
  TypeOK /\ CustodyInv /\ SettledInv /\ [Next]_vars => SettledInv'
<1> SUFFICES ASSUME TypeOK, CustodyInv, SettledInv, [Next]_vars PROVE SettledInv'
  OBVIOUS
<1>a. ASSUME NEW h \in Handlers, NEW x, Assign(h, x), UNCHANGED Tables,
             \A o \in Intact : UpToDate(x, o) /\ ~Owes(x, o)
      PROVE  SettledInv'
  BY <1>a, SettledLocal DEF Assign, Tables
<1>b. Intact \subseteq Orders
  BY DEF Intact
<1>c. ASSUME NEW h \in Handlers, NEW phase \in {"begun", "ready"}, NEW op, NEW to, NEW by,
             NEW batch \in SUBSET Orders, UNCHANGED Tables,
             Assign(h, Start(phase, op, to, by, batch))
      PROVE  SettledInv'
  <2>1. \A o \in Intact : /\ UpToDate(Start(phase, op, to, by, batch), o)
                          /\ ~Owes(Start(phase, op, to, by, batch), o)
    BY <1>b, StartSettled
  <2>2. QED
    BY <1>a, <1>c, <2>1
<1>d. \A h \in Handlers : handler[h] \in HandlerState
  BY DEF TypeOK
<1>1. ASSUME NEW r \in Requests, UpdateStatus(r) PROVE SettledInv'
  BY <1>1, <1>c DEF UpdateStatus, Handlers
<1>2. ASSUME NEW r \in Requests, InitiatePayment(r) PROVE SettledInv'
  BY <1>2, <1>c DEF InitiatePayment, Handlers
<1>3. ASSUME NEW r \in Requests, OpenDispute(r) PROVE SettledInv'
  BY <1>3, <1>c DEF OpenDispute, Handlers
<1>4. CASE JobStep
  <2>1. PICK job \in Jobs, to \in Status, batch \in SUBSET Orders :
          Assign(job, Start("ready", job, to, "system", batch)) /\ UNCHANGED Tables
    BY <1>4, JobsAssumption DEF JobStep, LoadBatch, Target, ScheduledJobs, Status
  <2>2. QED
    BY <1>c, <2>1 DEF Handlers
<1>5. ASSUME NEW h \in Handlers, CheckDispute(h) PROVE SettledInv'
  <2>1. PICK x \in {[handler[h] EXCEPT !.phase = "ready"], Idle} : Assign(h, x) /\ UNCHANGED Tables
    BY <1>5 DEF CheckDispute
  <2>2. \A o \in Intact : /\ UpToDate([handler[h] EXCEPT !.phase = "ready"], o)
                          /\ ~Owes([handler[h] EXCEPT !.phase = "ready"], o)
    BY <1>d DEF SettledInv, UpToDate, Owes, WorksOn, HandlerState
  <2>3. \A o \in Intact : UpToDate(x, o) /\ ~Owes(x, o)
    BY <1>b, <2>1, <2>2, IdleSettled
  <2>4. QED
    BY <1>a, <2>1, <2>3
<1>6. ASSUME NEW h \in Handlers, SaveSelect(h) PROVE SettledInv'
  <2>1. PICK o \in handler[h].todo :
          Assign(h, [handler[h] EXCEPT !.phase = "selected", !.order = o, !.todo = @ \ {o},
                                       !.dirty = Dirty(EntityOf(h, o), row[o])])
    BY <1>6 DEF SaveSelect
  <2> DEFINE x == [handler[h] EXCEPT !.phase = "selected", !.order = o, !.todo = @ \ {o},
                                     !.dirty = Dirty(EntityOf(h, o), row[o])]
  <2>2. /\ x.op = handler[h].op /\ x.to = handler[h].to
        /\ x.loaded = handler[h].loaded /\ x.order = o /\ x.todo = handler[h].todo \ {o}
        /\ x.phase = "selected"
        /\ x.dirty = Dirty(Entity(handler[h].op, handler[h].to, handler[h].loaded[o]), row[o])
    BY <1>d DEF HandlerState, EntityOf
  <2>3. \A p \in Intact : UpToDate(x, p) /\ ~Owes(x, p)
    <3>1. \A p \in Intact : UpToDate(handler[h], p)
      BY DEF SettledInv
    <3>. HIDE DEF x
    <3>2. QED
      BY <2>2, <3>1 DEF UpToDate, Owes, WorksOn
  <2>4. QED
    BY <1>6, <1>a, <2>1, <2>3 DEF SaveSelect
<1>7. ASSUME NEW h \in Handlers, SaveUpdate(h) PROVE SettledInv'
  BY <1>7, SettledSaveUpdate
<1>8. ASSUME NEW h \in Handlers, Announce(h) PROVE SettledInv'
  <2>1. PICK x : /\ Assign(h, x)
                 /\ \/ x = Continue(h)
                    \/ \E rest : x = [handler[h] EXCEPT !.due = rest]
                    \/ /\ x = [handler[h] EXCEPT !.phase = "enqueue", !.due = {}]
                       /\ handler[h].op = "update"
    BY <1>8 DEF Announce
  <2>2. handler[h].phase = "announce" /\ UNCHANGED <<row, credits, refunds, stale>>
    BY <1>8 DEF Announce
  <2>3. ASSUME NEW o \in Intact
        PROVE  /\ UpToDate(x, o)
               /\ Owes(x, o) => /\ Owes(handler[h], o) /\ x.op = handler[h].op
                                /\ x.to = handler[h].to /\ x.loaded = handler[h].loaded
    <3>1. UpToDate(handler[h], o) /\ o \in Orders
      BY <1>b DEF SettledInv
    <3>2. CASE x = Continue(h)
      BY <1>d, <3>1, <3>2, ContinueSettled DEF UpToDate
    <3>3. CASE \E rest : x = [handler[h] EXCEPT !.due = rest]
      BY <1>d, <3>1, <3>3 DEF UpToDate, Owes, WorksOn, HandlerState
    <3>4. CASE /\ x = [handler[h] EXCEPT !.phase = "enqueue", !.due = {}]
               /\ handler[h].op = "update"
      BY <1>d, <2>2, <3>1, <3>4 DEF UpToDate, Owes, WorksOn, HandlerState
    <3>5. QED
      BY <2>1, <3>2, <3>3, <3>4
  <2>4. QED
    BY <2>1, <2>2, <2>3, SettledLocal DEF Assign
<1>9. ASSUME NEW h \in Handlers, Enqueue(h) PROVE SettledInv'
  BY <1>9, SettledEnqueue
<1>10. ASSUME NEW h \in Handlers, InsertDispute(h) \/ Fail(h) PROVE SettledInv'
  <2>1. \A o \in Intact : UpToDate(Idle, o) /\ ~Owes(Idle, o)
    BY <1>b, IdleSettled
  <2>2. handler' = [handler EXCEPT ![h] = Idle] /\ UNCHANGED <<row, credits, refunds, stale>>
    BY <1>10 DEF InsertDispute, Fail, Assign
  <2>3. QED
    BY <2>1, <2>2, SettledLocal
<1>11. CASE UNCHANGED vars
  BY <1>11 DEF vars, SettledInv, Intact, UpToDate
<1>12. QED
  BY <1>1, <1>2, <1>3, <1>4, <1>5, <1>6, <1>7, <1>8, <1>9, <1>10, <1>11
     DEF Next, RequestStep, HandlerStep

\* As long as no stale save has hit an order it is settled at most once: one
\* credit, and then it is completed, or one refund, and then it is cancelled
\* and was paid; whoever races with whom, and whichever handler dies.
THEOREM SettledOnceHolds == Spec => []SettledOnce
<1>1. TypeOK /\ SettledInv => SettledOnce
  <2> SUFFICES ASSUME TypeOK, SettledInv, NEW o \in Intact
               PROVE  /\ credits[o] + refunds[o] <= 1
                      /\ credits[o] = 1 => row[o].status = "completed"
                      /\ refunds[o] = 1 => row[o].status = "cancelled" /\ "paid" \in row[o].stamps
    BY DEF SettledOnce
  <2>1. QED
    BY DEF SettledInv
<1>2. QED
  BY <1>1, TypeInit, TypeStep, CustodyInit, CustodyStep, SettledInit, SettledStep, PTL DEF Spec

-----------------------------------------------------------------------------
(***************************************************************************)
(* What a save does to an order that did not change since it was loaded.   *)
(***************************************************************************)
LEMMA UndisturbedSave ==
  ASSUME TypeOK, CustodyInv, SettledInv, NEW h \in Handlers, SaveUpdate(h)
  PROVE  LET x == handler[h]
             o == x.order
         IN /\ x \in HandlerState /\ o \in Orders /\ row[o] \in OrderRow
            /\ \A p \in Orders \ {o} : row'[p] = row[p] /\ stale'[p] = stale[p]
            /\ \A p \in Orders \ {o} : history'[p] = history[p]
            /\ stale[o] \in Nat
            /\ stale'[o] # 0 \/ stale'[o] = stale[o]
            /\ o \in Intact' =>
                 /\ o \in Intact /\ row[o] = x.loaded[o]
                 /\ row'[o] = Entity(x.op, x.to, row[o])
                 /\ Lawful(x.op, x.by, row[o].status, x.to)
                 /\ x.dirty = Dirty(Entity(x.op, x.to, row[o]), row[o])
                 /\ history'[o] = IF Entity(x.op, x.to, row[o]).status # row[o].status
                                  THEN history[o] \cup {[status |-> x.to, by |-> x.by]}
                                  ELSE history[o]
<1> DEFINE x == handler[h]
<1>0. PICK o \in Orders : o = x.order
  BY DEF SaveUpdate, TypeOK, Saving
<1> DEFINE entity == Entity(x.op, x.to, x.loaded[o])
<1>1. /\ x \in HandlerState /\ x.phase = "selected" /\ x.order = o
      /\ x.loaded[o] \in OrderRow /\ x.op \in Op /\ x.to \in Status
      /\ row[o] \in OrderRow /\ stale[o] \in Nat
  BY <1>0 DEF SaveUpdate, TypeOK, HandlerState
<1>2. /\ row' = [row EXCEPT ![o] = Saved(row[o], entity, x.dirty)]
      /\ stale' = IF row[o] = x.loaded[o] THEN stale ELSE [stale EXCEPT ![o] = @ + 1]
      /\ history' = IF "status" \in x.dirty
                    THEN [history EXCEPT ![o] = @ \cup {[status |-> entity.status, by |-> x.by]}]
                    ELSE history
  BY <1>0 DEF SaveUpdate, EntityOf
<1>3. \A p \in Orders \ {o} : row'[p] = row[p] /\ stale'[p] = stale[p] /\ history'[p] = history[p]
  BY <1>2 DEF TypeOK
<1>4. stale'[o] # 0 \/ stale'[o] = stale[o]
  BY <1>1, <1>2 DEF TypeOK
<1>5. ASSUME o \in Intact'
      PROVE  /\ o \in Intact /\ row[o] = x.loaded[o]
             /\ row'[o] = entity
             /\ Lawful(x.op, x.by, row[o].status, x.to)
             /\ x.dirty = Dirty(entity, row[o])
             /\ history'[o] = IF entity.status # row[o].status
                              THEN history[o] \cup {[status |-> x.to, by |-> x.by]}
                              ELSE history[o]
  <2>1. o \in Intact /\ row[o] = x.loaded[o]
    BY <1>1, <1>2, <1>5 DEF Intact, TypeOK
  <2>2. x.dirty = Dirty(entity, row[o])
    BY <1>1, <2>1 DEF SettledInv, UpToDate, WorksOn
  <2>3. entity \in OrderRow
    BY <1>1, EntityType
  <2>4. row'[o] = entity
    BY <1>1, <1>2, <2>2, <2>3, SavedIsEntity DEF TypeOK
  <2>5. Lawful(x.op, x.by, row[o].status, x.to)
    BY <1>1, <2>1 DEF CustodyInv, Sound, WorksOn
  <2>6. "status" \in x.dirty <=> entity.status # row[o].status
    <3>1. "status" \notin Stamp
      BY DEF Stamp
    <3>2. entity.stamps \subseteq Stamp /\ row[o].stamps \subseteq Stamp
      BY <1>1, <2>3 DEF OrderRow, Row
    <3>. HIDE DEF entity
    <3>3. QED
      BY <2>2, <3>1, <3>2 DEF Dirty
  <2>7. entity.status # row[o].status => entity.status = x.to
    BY <2>1, <1>1 DEF Entity, OrderRow, Row
  <2>8. history'[o] = IF entity.status # row[o].status
                      THEN history[o] \cup {[status |-> x.to, by |-> x.by]}
                      ELSE history[o]
    <3>. HIDE DEF entity
    <3>1. QED
      BY <1>2, <2>6, <2>7 DEF TypeOK
  <2>9. QED
    BY <2>1, <2>2, <2>4, <2>5, <2>8
<1>6. QED
  BY <1>0, <1>1, <1>3, <1>4, <1>5

-----------------------------------------------------------------------------
(***************************************************************************)
(* The timeline.                                                           *)
(***************************************************************************)
LEMMA Roads ==
  /\ DoneUpTo(1) = {"paid"}
  /\ DoneUpTo(2) = {"paid", "purchased"}
  /\ DoneUpTo(3) = {"paid", "purchased", "shipped"}
  /\ DoneUpTo(4) = {"paid", "purchased", "shipped", "delivered"}
  /\ DoneUpTo(5) = {"paid", "purchased", "shipped", "delivered", "completed"}
<1>1. 1..1 = {1} /\ 1..2 = {1, 2} /\ 1..3 = {1, 2, 3} /\ 1..4 = {1, 2, 3, 4}
      /\ 1..5 = {1, 2, 3, 4, 5}
  OBVIOUS
<1>2. Road[1] = "paid" /\ Road[2] = "purchased" /\ Road[3] = "shipped"
      /\ Road[4] = "delivered" /\ Road[5] = "completed"
  BY DEF Road
<1>3. QED
  BY <1>1, <1>2 DEF DoneUpTo

\* What Agrees says, status by status.
LEMMA AgreesCases ==
  ASSUME NEW r \in OrderRow
  PROVE  LET done == r.stamps \ {"method"} IN
         /\ r.status = "pending" => (Agrees(r) <=> done = {})
         /\ r.status = "paid" => (Agrees(r) <=> done = {"paid"})
         /\ r.status = "purchased" => (Agrees(r) <=> done = {"paid", "purchased"})
         /\ r.status = "shipped" => (Agrees(r) <=> done = {"paid", "purchased", "shipped"})
         /\ r.status = "delivered" =>
              (Agrees(r) <=> done = {"paid", "purchased", "shipped", "delivered"})
         /\ r.status = "completed" =>
              (Agrees(r) <=> done = {"paid", "purchased", "shipped", "delivered", "completed"})
         /\ r.status = "cancelled" =>
              (Agrees(r) <=> done \in {{"cancelled"}, {"paid", "cancelled"}})
         /\ r.status = "disputed" =>
              (Agrees(r) <=> done \in {{"paid", "purchased"}, {"paid", "purchased", "shipped"},
                                       {"paid", "purchased", "shipped", "delivered"}})
<1> DEFINE done == r.stamps \ {"method"}
<1>1. Road[1] = "paid" /\ Road[2] = "purchased" /\ Road[3] = "shipped"
      /\ Road[4] = "delivered" /\ Road[5] = "completed"
  BY DEF Road
<1>2. 1..5 = {1, 2, 3, 4, 5} /\ 2..4 = {2, 3, 4}
  OBVIOUS
<1>3. ASSUME r.status \in {"paid", "purchased", "shipped", "delivered", "completed"}
      PROVE  Agrees(r) <=> \E n \in {1, 2, 3, 4, 5} : r.status = Road[n] /\ done = DoneUpTo(n)
  BY <1>2, <1>3 DEF Agrees
<1>4. r.status = "disputed" => (Agrees(r) <=> \E n \in {2, 3, 4} : done = DoneUpTo(n))
  BY <1>2 DEF Agrees
<1>5. r.status = "pending" => (Agrees(r) <=> done = {})
  BY DEF Agrees
<1>6. r.status = "cancelled" => (Agrees(r) <=> done \in {{"cancelled"}, {"paid", "cancelled"}})
  BY DEF Agrees
<1>. HIDE DEF done
<1>7. QED
  BY <1>1, <1>3, <1>4, <1>5, <1>6, Roads DEF done

\* An entity that a handler may save agrees if the row it was loaded from did.
LEMMA EntityAgrees ==
  ASSUME NEW op \in Op, NEW by, NEW from \in OrderRow, NEW to \in Status,
         Lawful(op, by, from.status, to), Agrees(from)
  PROVE  Agrees(Entity(op, to, from))
<1> DEFINE e == Entity(op, to, from)
           d == e.stamps \ {"method"}
<1> SUFFICES Agrees(e)
  OBVIOUS
<1>1. e \in OrderRow
  BY EntityType
<1>2. CASE op = "pay"
  <2>1. from.status = "pending" /\ e.status = "pending" /\ e.stamps = from.stamps \cup {"method"}
    BY <1>2 DEF Lawful, Entity, OrderRow, Row
  <2>2. from.stamps \ {"method"} = {}
    BY <2>1, AgreesCases
  <2>3. d = {}
    BY <2>1, <2>2
  <2>. HIDE DEF e
  <2>4. QED
    BY <1>1, <2>1, <2>3, AgreesCases
<1>3. CASE op = "dispute"
  <2>1. /\ from.status \in {"purchased", "shipped", "delivered"}
        /\ e.status = "disputed" /\ e.stamps = from.stamps
    BY <1>3 DEF Lawful, Entity, OrderRow, Row
  <2>2. d \in {{"paid", "purchased"}, {"paid", "purchased", "shipped"},
              {"paid", "purchased", "shipped", "delivered"}}
    BY <2>1, AgreesCases
  <2>. HIDE DEF e
  <2>3. QED
    BY <1>1, <2>1, <2>2, AgreesCases
<1>4. CASE op \notin {"pay", "dispute"}
  <2>1. e.status = to /\ e.stamps = from.stamps \cup ({to} \cap Stamp)
    BY <1>4 DEF Entity, StampsOf
  <2>2. <<from.status, to>> \in
          {<<"pending", "paid">>, <<"pending", "cancelled">>, <<"paid", "purchased">>,
           <<"paid", "cancelled">>, <<"purchased", "shipped">>, <<"purchased", "disputed">>,
           <<"shipped", "delivered">>, <<"shipped", "disputed">>, <<"delivered", "completed">>}
    BY <1>4 DEF Lawful, MayMove, Transitions, Op, ScheduledJobs
  <2> DEFINE done == from.stamps \ {"method"}
  <2>3. d = done \cup ({to} \cap Stamp)
    BY <2>1, <2>2
  <2>4. /\ from.status = "pending" => done = {}
        /\ from.status = "paid" => done = {"paid"}
        /\ from.status = "purchased" => done = {"paid", "purchased"}
        /\ from.status = "shipped" => done = {"paid", "purchased", "shipped"}
        /\ from.status = "delivered" => done = {"paid", "purchased", "shipped", "delivered"}
    BY AgreesCases
  <2>. HIDE DEF e, d, done
  <2>5. CASE to \in {"paid", "purchased", "shipped", "delivered", "completed"}
    <3>1. /\ to = "paid" => d = {"paid"}
          /\ to = "purchased" => d = {"paid", "purchased"}
          /\ to = "shipped" => d = {"paid", "purchased", "shipped"}
          /\ to = "delivered" => d = {"paid", "purchased", "shipped", "delivered"}
          /\ to = "completed" =>
               d = {"paid", "purchased", "shipped", "delivered", "completed"}
      BY <2>2, <2>3, <2>4 DEF Stamp
    <3>2. QED
      BY <1>1, <2>1, <2>5, <3>1, AgreesCases DEF d
  <2>6. CASE to = "cancelled"
    <3>1. d \in {{"cancelled"}, {"paid", "cancelled"}}
      <4>1. done = {} \/ done = {"paid"}
        BY <2>2, <2>4, <2>6
      <4>2. d = done \cup {"cancelled"}
        BY <2>3, <2>6 DEF Stamp
      <4>3. QED
        BY <4>1, <4>2
    <3>2. QED
      BY <1>1, <2>1, <2>6, <3>1, AgreesCases DEF d
  <2>7. CASE to = "disputed"
    <3>1. done \in {{"paid", "purchased"}, {"paid", "purchased", "shipped"}}
      BY <2>2, <2>4, <2>7
    <3>2. d = done
      BY <2>3, <2>7 DEF Stamp
    <3>3. QED
      BY <1>1, <2>1, <2>7, <3>1, <3>2, AgreesCases DEF d
  <2>8. QED
    BY <2>2, <2>5, <2>6, <2>7
<1>5. QED
  BY <1>2, <1>3, <1>4

\* Nothing but a save writes the orders table.
LEMMA OnlySavesWrite ==
  ASSUME [Next]_vars
  PROVE  UNCHANGED <<row, stale, history>> \/ \E h \in Handlers : SaveUpdate(h)
<1>1. ASSUME NEW r \in Requests, RequestStep(r) PROVE UNCHANGED Tables
  BY <1>1 DEF RequestStep, UpdateStatus, InitiatePayment, OpenDispute
<1>2. CASE JobStep
  BY <1>2 DEF JobStep, LoadBatch, Tables
<1>3. ASSUME NEW h \in Handlers, HandlerStep(h) \/ Fail(h), ~SaveUpdate(h)
      PROVE  UNCHANGED <<row, stale, history>>
  <2>1. CASE CheckDispute(h) \/ SaveSelect(h)
    BY <2>1 DEF CheckDispute, SaveSelect, Tables
  <2>2. CASE Announce(h) \/ Enqueue(h)
    BY <2>2 DEF Announce, Enqueue
  <2>3. CASE InsertDispute(h) \/ Fail(h)
    BY <2>3 DEF InsertDispute, Fail
  <2>4. QED
    BY <1>3, <2>1, <2>2, <2>3 DEF HandlerStep
<1>4. CASE UNCHANGED vars
  BY <1>4 DEF vars
<1>5. QED
  BY <1>1, <1>2, <1>3, <1>4 DEF Next, Tables

LEMMA TimelineInit == Init => TimelineAgrees
BY NewOrderType, AgreesCases DEF Init, TimelineAgrees, NewOrder, Intact

LEMMA TimelineStep ==
  TypeOK /\ CustodyInv /\ SettledInv /\ TimelineAgrees /\ [Next]_vars => TimelineAgrees'
<1> SUFFICES ASSUME TypeOK, CustodyInv, SettledInv, TimelineAgrees, [Next]_vars
             PROVE  TimelineAgrees'
  OBVIOUS
<1>1. CASE UNCHANGED <<row, stale, history>>
  BY <1>1 DEF TimelineAgrees, Intact
<1>2. ASSUME NEW h \in Handlers, SaveUpdate(h) PROVE TimelineAgrees'
  <2> DEFINE x == handler[h]
             o == x.order
  <2>1. SUFFICES ASSUME NEW p \in Intact' PROVE Agrees(row'[p])
    BY DEF TimelineAgrees
  <2>2. CASE p = o
    <3>1. /\ o \in Intact /\ row[o] \in OrderRow /\ x \in HandlerState
          /\ row'[o] = Entity(x.op, x.to, row[o])
          /\ Lawful(x.op, x.by, row[o].status, x.to)
      BY <1>2, <2>2, UndisturbedSave
    <3>2. Agrees(row[o]) /\ x.op \in Op /\ x.to \in Status
      BY <3>1 DEF TimelineAgrees, HandlerState
    <3>3. Agrees(Entity(x.op, x.to, row[o]))
      BY <3>1, <3>2, EntityAgrees
    <3>4. QED
      BY <2>2, <3>1, <3>3
  <2>3. CASE p # o
    <3>1. p \in Orders \ {o}
      BY <2>1, <2>3 DEF Intact
    <3>2. row'[p] = row[p] /\ stale'[p] = stale[p]
      BY <1>2, <3>1, UndisturbedSave
    <3>3. p \in Intact
      BY <2>1, <3>1, <3>2 DEF Intact
    <3>4. QED
      BY <3>2, <3>3 DEF TimelineAgrees
  <2>4. QED
    BY <2>2, <2>3
<1>3. QED
  BY <1>1, <1>2, OnlySavesWrite

\* On an order that no stale save has hit, the timestamps that are set are the
\* steps of the road that lead to its status, at every moment.
THEOREM TimelineAgreesHolds == Spec => []TimelineAgrees
<1>1. QED
  BY TypeInit, TypeStep, CustodyInit, CustodyStep, SettledInit, SettledStep,
     TimelineInit, TimelineStep, PTL DEF Spec

-----------------------------------------------------------------------------
(***************************************************************************)
(* Orders move forward only.                                               *)
(***************************************************************************)
\* The edges of the table, the payment that changes no status, and the dispute
\* that DisputeService allows on a delivered order.
MovesOn(from, to) ==
  \/ to = from /\ from = "pending"
  \/ \E t \in Transitions : t[1] = from /\ t[2] = to
  \/ from = "delivered" /\ to = "disputed"

LEMMA EntityMoves ==
  ASSUME NEW op \in Op, NEW by, NEW from \in OrderRow, NEW to \in Status,
         Lawful(op, by, from.status, to)
  PROVE  MovesOn(from.status, Entity(op, to, from).status)
<1>1. CASE op = "pay"
  BY <1>1 DEF Lawful, Entity, OrderRow, Row, MovesOn
<1>2. CASE op # "pay"
  <2>1. Entity(op, to, from).status = to
    BY <1>2 DEF Entity, Lawful
  <2>2. (\E t \in Transitions : t[1] = from.status /\ t[2] = to)
        \/ (from.status = "delivered" /\ to = "disputed")
    BY <1>2 DEF Lawful, MayMove, Transitions, Op, ScheduledJobs
  <2>3. QED
    BY <2>1, <2>2 DEF MovesOn
<1>3. QED
  BY <1>1, <1>2

\* The status of an order moves along the table's edges, or by the dispute that
\* DisputeService allows on a delivered order, until a stale save hits it.
THEOREM ForwardOnlyHolds == Spec => ForwardOnly
<1>1. ASSUME TypeOK, CustodyInv, SettledInv, [Next]_vars, NEW o \in Orders,
             o \in Intact', row'[o] # row[o]
      PROVE  \/ row'[o].status = row[o].status /\ row[o].status = "pending"
             \/ \E t \in Transitions : t[1] = row[o].status /\ t[2] = row'[o].status
             \/ row[o].status = "delivered" /\ row'[o].status = "disputed"
  <2>1. PICK h \in Handlers : SaveUpdate(h)
    BY <1>1, OnlySavesWrite
  <2>2. o = handler[h].order
    BY <1>1, <2>1, UndisturbedSave
  <2>3. /\ handler[h] \in HandlerState /\ row[o] \in OrderRow
        /\ row'[o] = Entity(handler[h].op, handler[h].to, row[o])
        /\ Lawful(handler[h].op, handler[h].by, row[o].status, handler[h].to)
    BY <1>1, <2>1, <2>2, UndisturbedSave
  <2>4. handler[h].op \in Op /\ handler[h].to \in Status
    BY <2>3 DEF HandlerState
  <2>5. MovesOn(row[o].status, row'[o].status)
    BY <2>3, <2>4, EntityMoves
  <2>6. QED
    BY <2>5 DEF MovesOn
<1>2. TypeOK /\ CustodyInv /\ SettledInv /\ [Next]_vars =>
        [\A o \in Orders :
           (o \in Intact' /\ row'[o] # row[o]) =>
             \/ row'[o].status = row[o].status /\ row[o].status = "pending"
             \/ \E t \in Transitions : t[1] = row[o].status /\ t[2] = row'[o].status
             \/ row[o].status = "delivered" /\ row'[o].status = "disputed"]_vars
  BY <1>1
<1>3. QED
  BY <1>2, TypeInit, TypeStep, CustodyInit, CustodyStep, SettledInit, SettledStep,
     PTL DEF Spec, ForwardOnly

-----------------------------------------------------------------------------
(***************************************************************************)
(* The steps, seen from what follows a save: a quiet step is one of a      *)
(* handler that neither is past its save nor gets there.                   *)
(***************************************************************************)
Quiet(h) ==
  /\ handler[h].phase \notin AfterSave
  /\ \E x : x.phase \notin AfterSave /\ handler' = [handler EXCEPT ![h] = x]
  /\ UNCHANGED Tables

LEMMA StepCases ==
  ASSUME TypeOK, [Next]_vars
  PROVE  \/ UNCHANGED vars
         \/ \E h \in Handlers : \/ Quiet(h) \/ SaveUpdate(h) \/ Announce(h)
                                \/ Enqueue(h) \/ InsertDispute(h) \/ Fail(h)
<1>1. ASSUME NEW h \in Handlers, Waiting(h), NEW phase \in {"begun", "ready"},
             NEW op, NEW to, NEW by, NEW batch,
             Assign(h, Start(phase, op, to, by, batch)), UNCHANGED Tables
      PROVE  Quiet(h)
  <2>1. Start(phase, op, to, by, batch).phase \notin AfterSave
    BY StartPhase DEF Saving
  <2>2. QED
    BY <1>1, <2>1 DEF Quiet, Assign, Waiting, AfterSave
<1>2. ASSUME NEW r \in Requests, RequestStep(r) PROVE \E h \in Handlers : Quiet(h)
  BY <1>1, <1>2 DEF RequestStep, UpdateStatus, InitiatePayment, OpenDispute, Handlers
<1>3. CASE JobStep
  <2>1. PICK job \in Jobs : \E to, batch :
          Waiting(job) /\ Assign(job, Start("ready", job, to, "system", batch))
    BY <1>3 DEF JobStep, LoadBatch
  <2>2. UNCHANGED Tables
    BY <1>3 DEF JobStep, LoadBatch
  <2>3. QED
    BY <1>1, <2>1, <2>2 DEF Handlers
<1>4. ASSUME NEW h \in Handlers, CheckDispute(h) PROVE Quiet(h)
  <2>1. [handler[h] EXCEPT !.phase = "ready"].phase \notin AfterSave
    BY DEF TypeOK, HandlerState, AfterSave
  <2>2. Idle.phase \notin AfterSave
    BY DEF Idle, AfterSave
  <2>3. QED
    BY <1>4, <2>1, <2>2 DEF CheckDispute, Quiet, Assign, AfterSave
<1>5. ASSUME NEW h \in Handlers, SaveSelect(h) PROVE Quiet(h)
  <2>1. PICK o \in handler[h].todo :
          Assign(h, [handler[h] EXCEPT !.phase = "selected", !.order = o, !.todo = @ \ {o},
                                       !.dirty = Dirty(EntityOf(h, o), row[o])])
    BY <1>5 DEF SaveSelect
  <2>2. [handler[h] EXCEPT !.phase = "selected", !.order = o, !.todo = @ \ {o},
                           !.dirty = Dirty(EntityOf(h, o), row[o])].phase \notin AfterSave
    BY DEF TypeOK, HandlerState, AfterSave
  <2>3. QED
    BY <1>5, <2>1, <2>2 DEF SaveSelect, Quiet, Assign, AfterSave
<1>6. QED
  BY <1>2, <1>3, <1>4, <1>5 DEF Next, HandlerStep

\* Where a handler is once the row is written.
LEMMA AfterUpdateCases ==
  ASSUME TypeOK, NEW h \in Handlers
  PROVE  LET x == handler[h]
             y == AfterUpdate(h)
         IN \/ y = Continue(h) /\ x.op = "pay" /\ y.phase \notin AfterSave
            \/ /\ y.op = x.op /\ y.to = x.to /\ y.order = x.order /\ y.loaded = x.loaded
               /\ y.by = x.by /\ y.due = Recipients(x.op, x.by)
               /\ y.phase = CASE x.op = "dispute"  -> "insert"
                              [] x.op = "complete" -> "enqueue"
                              [] OTHER             -> "announce"
<1>1. handler[h] \in HandlerState
  BY DEF TypeOK
<1>2. Continue(h).phase \notin AfterSave
  BY <1>1, ContinuePhase DEF Saving
<1> DEFINE x == handler[h]
           z == [x EXCEPT !.dirty = {}, !.due = Recipients(x.op, x.by)]
<1>3. /\ z.op = x.op /\ z.to = x.to /\ z.order = x.order /\ z.loaded = x.loaded
      /\ z.by = x.by /\ z.due = Recipients(x.op, x.by) /\ DOMAIN z = DOMAIN x
  BY <1>1 DEF HandlerState
<1>4. \A phase : LET y == [z EXCEPT !.phase = phase] IN
        /\ y.op = x.op /\ y.to = x.to /\ y.order = x.order /\ y.loaded = x.loaded
        /\ y.by = x.by /\ y.due = Recipients(x.op, x.by) /\ y.phase = phase
  BY <1>1 DEF HandlerState
<1>5. /\ z.op = "pay" => AfterUpdate(h) = Continue(h)
      /\ z.op = "dispute" => AfterUpdate(h) = [z EXCEPT !.phase = "insert"]
      /\ z.op = "complete" => AfterUpdate(h) = [z EXCEPT !.phase = "enqueue"]
      /\ z.op \notin {"pay", "dispute", "complete"} => AfterUpdate(h) = [z EXCEPT !.phase = "announce"]
  BY DEF AfterUpdate
<1>. HIDE DEF x, z
<1>6. CASE x.op = "pay"
  BY <1>2, <1>3, <1>5, <1>6 DEF x
<1>7. CASE x.op # "pay"
  <2> DEFINE phase == CASE x.op = "dispute"  -> "insert"
                        [] x.op = "complete" -> "enqueue"
                        [] OTHER             -> "announce"
  <2>1. AfterUpdate(h) = [z EXCEPT !.phase = phase]
    BY <1>3, <1>5, <1>7
  <2>. HIDE DEF phase
  <2>2. LET y == AfterUpdate(h) IN
        /\ y.op = x.op /\ y.to = x.to /\ y.order = x.order /\ y.loaded = x.loaded
        /\ y.by = x.by /\ y.due = Recipients(x.op, x.by) /\ y.phase = phase
    BY <1>4, <2>1
  <2>3. QED
    BY <2>2 DEF x, phase
<1>8. QED
  BY <1>6, <1>7

-----------------------------------------------------------------------------
(***************************************************************************)
(* Disputes.                                                               *)
(***************************************************************************)
LEMMA DisputeInit == Init => DisputeInv
BY DEF Init, DisputeInv, Intact, Reached, Inserting, Idle, NewOrder

\* A step that neither saves nor inserts, and lets nobody be about to insert.
LEMMA DisputeLocal ==
  ASSUME TypeOK, DisputeInv, NEW h \in Handlers, NEW x, x.phase # "insert",
         handler' = [handler EXCEPT ![h] = x],
         UNCHANGED <<row, stale, history, disputes>>
  PROVE  DisputeInv'
<1>1. Intact' = Intact /\ \A o \in Orders : Reached(o)' = Reached(o)
  BY DEF Intact, Reached
<1>2. \A g \in Handlers : handler'[g] = IF g = h THEN x ELSE handler[g]
  BY DEF TypeOK
<1>3. \A g \in Handlers, o \in Orders :
        Inserting(handler'[g], o) => Inserting(handler[g], o)
  BY <1>2 DEF Inserting
<1>4. Intact \subseteq Orders
  BY DEF Intact
<1>5. SUFFICES ASSUME NEW o \in Intact
               PROVE  /\ "disputed" \in Reached(o) => row[o].status = "disputed"
                      /\ disputes[o] <= 1
                      /\ disputes[o] > 0 => row[o].status = "disputed"
                      /\ \A f \in Handlers : Inserting(handler'[f], o) =>
                           /\ row[o].status = "disputed" /\ disputes[o] = 0
                           /\ \A g \in Handlers : Inserting(handler'[g], o) => g = f
  BY <1>1, <1>4 DEF DisputeInv, Inserting
<1>6. QED
  BY <1>3, <1>4 DEF DisputeInv

LEMMA DisputeSaveUpdate ==
  ASSUME TypeOK, CustodyInv, SettledInv, DisputeInv, NEW h \in Handlers, SaveUpdate(h)
  PROVE  DisputeInv'
<1> DEFINE x == handler[h]
<1>0. PICK o \in Orders : o = x.order
  BY DEF SaveUpdate, TypeOK, Saving
<1>1. /\ x \in HandlerState /\ x.op \in Op /\ x.to \in Status /\ row[o] \in OrderRow
      /\ x.phase = "selected"
  BY DEF TypeOK, HandlerState, SaveUpdate
<1>2. disputes' = disputes /\ handler' = [handler EXCEPT ![h] = AfterUpdate(h)]
  BY DEF SaveUpdate, Assign
<1>3. \A g \in Handlers : handler'[g] = IF g = h THEN AfterUpdate(h) ELSE handler[g]
  BY <1>2 DEF TypeOK
<1>4. \A p \in Orders : Inserting(AfterUpdate(h), p) => p = o /\ x.op = "dispute"
  BY <1>0, AfterUpdateCases DEF Inserting, AfterSave
<1>5. SUFFICES ASSUME NEW p \in Intact'
               PROVE  /\ "disputed" \in Reached(p)' => row'[p].status = "disputed"
                      /\ disputes[p] <= 1
                      /\ disputes[p] > 0 => row'[p].status = "disputed"
                      /\ \A f \in Handlers : Inserting(handler'[f], p) =>
                           /\ row'[p].status = "disputed" /\ disputes[p] = 0
                           /\ \A g \in Handlers : Inserting(handler'[g], p) => g = f
  BY <1>2 DEF DisputeInv, Inserting
<1>6. p \in Orders
  BY <1>5 DEF Intact
<1>7. CASE p = o
  <2>1. /\ o \in Intact
        /\ row'[o] = Entity(x.op, x.to, row[o])
        /\ Lawful(x.op, x.by, row[o].status, x.to)
        /\ history'[o] = IF Entity(x.op, x.to, row[o]).status # row[o].status
                         THEN history[o] \cup {[status |-> x.to, by |-> x.by]}
                         ELSE history[o]
    BY <1>0, <1>5, <1>7, UndisturbedSave
  <2>2. row[o].status \notin {"completed", "cancelled", "disputed"}
    BY <1>1, <2>1, FinalStatus
  <2>3. "disputed" \notin Reached(o) /\ disputes[o] = 0
        /\ \A g \in Handlers : ~Inserting(handler[g], o)
    BY <2>1, <2>2 DEF DisputeInv, TypeOK
  <2>4. x.op # "pay" => row'[o].status = x.to
    BY <2>1 DEF Entity, Lawful
  <2>5. x.op = "pay" => row'[o].status = row[o].status
    BY <1>1, <2>1 DEF Entity, Lawful, OrderRow, Row
  <2>6. "disputed" \in Reached(o)' => row'[o].status = "disputed"
    BY <2>1, <2>3, <2>4, <2>5 DEF Reached
  <2>7. x.op = "dispute" => row'[o].status = "disputed"
    BY <2>1, <2>4 DEF Lawful
  <2>8. \A g \in Handlers : Inserting(handler'[g], o) => g = h /\ x.op = "dispute"
    BY <1>3, <1>4, <2>3
  <2>9. QED
    BY <1>7, <2>3, <2>6, <2>7, <2>8
<1>8. CASE p # o
  <2>1. /\ row'[p] = row[p] /\ stale'[p] = stale[p] /\ history'[p] = history[p]
    BY <1>0, <1>6, <1>8, UndisturbedSave
  <2>2. p \in Intact /\ Reached(p)' = Reached(p)
    BY <1>5, <1>6, <2>1 DEF Intact, Reached
  <2>3. \A g \in Handlers : Inserting(handler'[g], p) => Inserting(handler[g], p)
    BY <1>3, <1>4, <1>6, <1>8
  <2>4. QED
    BY <2>1, <2>2, <2>3 DEF DisputeInv
<1>9. QED
  BY <1>7, <1>8

LEMMA DisputeInsert ==
  ASSUME TypeOK, DisputeInv, NEW h \in Handlers, InsertDispute(h)
  PROVE  DisputeInv'
<1>0. PICK o \in Orders : o = handler[h].order
  BY DEF InsertDispute, TypeOK, Saving, AfterSave
<1>1. /\ Inserting(handler[h], o)
      /\ disputes' = [disputes EXCEPT ![o] = @ + 1]
      /\ handler' = [handler EXCEPT ![h] = Idle]
      /\ UNCHANGED <<row, stale, history>>
  BY <1>0 DEF InsertDispute, Inserting, Assign
<1>2. Intact' = Intact /\ Intact \subseteq Orders
      /\ \A p \in Orders : Reached(p)' = Reached(p)
  BY <1>1 DEF Intact, Reached
<1>3. \A g \in Handlers, p \in Orders :
        Inserting(handler'[g], p) => g # h /\ Inserting(handler[g], p)
  BY <1>1 DEF TypeOK, Inserting, Idle
<1>4. SUFFICES ASSUME NEW p \in Intact
               PROVE  /\ "disputed" \in Reached(p) => row[p].status = "disputed"
                      /\ disputes'[p] <= 1
                      /\ disputes'[p] > 0 => row[p].status = "disputed"
                      /\ \A f \in Handlers : Inserting(handler'[f], p) =>
                           /\ row[p].status = "disputed" /\ disputes'[p] = 0
                           /\ \A g \in Handlers : Inserting(handler'[g], p) => g = f
  BY <1>1, <1>2 DEF DisputeInv, Inserting
<1>5. CASE p = o
  <2>1. row[o].status = "disputed" /\ disputes[o] = 0
        /\ \A g \in Handlers : Inserting(handler[g], o) => g = h
    BY <1>1, <1>4, <1>5 DEF DisputeInv
  <2>2. disputes'[o] = 1
    BY <1>1, <2>1 DEF TypeOK
  <2>3. \A g \in Handlers : ~Inserting(handler'[g], o)
    BY <1>3, <2>1
  <2>4. QED
    BY <1>5, <2>1, <2>2, <2>3
<1>6. CASE p # o
  <2>1. disputes'[p] = disputes[p]
    BY <1>1, <1>2, <1>6 DEF TypeOK
  <2>2. QED
    BY <1>2, <1>3, <1>4, <2>1 DEF DisputeInv
<1>7. QED
  BY <1>5, <1>6

LEMMA DisputeStep ==
  TypeOK /\ CustodyInv /\ SettledInv /\ DisputeInv /\ [Next]_vars => DisputeInv'
<1> SUFFICES ASSUME TypeOK, CustodyInv, SettledInv, DisputeInv, [Next]_vars
             PROVE  DisputeInv'
  OBVIOUS
<1>1. CASE UNCHANGED vars
  BY <1>1 DEF vars, DisputeInv, Intact, Reached
<1>2. ASSUME NEW h \in Handlers, Quiet(h) PROVE DisputeInv'
  BY <1>2, DisputeLocal DEF Quiet, AfterSave, Tables
<1>3. ASSUME NEW h \in Handlers, SaveUpdate(h) PROVE DisputeInv'
  BY <1>3, DisputeSaveUpdate
<1>4. ASSUME NEW h \in Handlers, NEW x, Assign(h, x), x.phase # "insert",
             UNCHANGED <<row, stale, history, disputes>>
      PROVE  DisputeInv'
  BY <1>4, DisputeLocal DEF Assign
<1>5. \A h \in Handlers : handler[h] \in HandlerState /\ Continue(h).phase # "insert"
  BY ContinuePhase DEF TypeOK, Saving, AfterSave
<1>6. ASSUME NEW h \in Handlers, Announce(h) PROVE DisputeInv'
  <2>1. PICK x : /\ Assign(h, x)
                 /\ \/ x = Continue(h)
                    \/ \E rest : x = [handler[h] EXCEPT !.due = rest]
                    \/ x = [handler[h] EXCEPT !.phase = "enqueue", !.due = {}]
    BY <1>6 DEF Announce
  <2>2. handler[h].phase = "announce" /\ UNCHANGED <<row, stale, history, disputes>>
    BY <1>6 DEF Announce
  <2>3. x.phase # "insert"
    BY <1>5, <2>1, <2>2 DEF HandlerState
  <2>4. QED
    BY <1>4, <2>1, <2>2, <2>3
<1>7. ASSUME NEW h \in Handlers, Enqueue(h) PROVE DisputeInv'
  <2>1. PICK x : /\ Assign(h, x)
                 /\ x = Continue(h) \/ x = [handler[h] EXCEPT !.phase = "announce"]
    BY <1>7 DEF Enqueue
  <2>2. x.phase # "insert"
    BY <1>5, <2>1 DEF HandlerState
  <2>3. UNCHANGED <<row, stale, history, disputes>>
    BY <1>7 DEF Enqueue
  <2>4. QED
    BY <1>4, <2>1, <2>2, <2>3
<1>8. ASSUME NEW h \in Handlers, InsertDispute(h) PROVE DisputeInv'
  BY <1>8, DisputeInsert
<1>9. ASSUME NEW h \in Handlers, Fail(h) PROVE DisputeInv'
  <2>1. Idle.phase # "insert"
    BY DEF Idle
  <2>2. QED
    BY <1>4, <1>9, <2>1 DEF Fail
<1>10. QED
  BY <1>1, <1>2, <1>3, <1>6, <1>7, <1>8, <1>9, StepCases

\* A disputed order stays disputed and pays out nothing, and it has one dispute
\* at most, as long as no stale save has hit it.
THEOREM DisputeFreezesHolds == Spec => []DisputeFreezes
<1>1. TypeOK /\ SettledInv /\ DisputeInv => DisputeFreezes
  <2> SUFFICES ASSUME TypeOK, SettledInv, DisputeInv, NEW o \in Intact
               PROVE  /\ disputes[o] <= 1
                      /\ "disputed" \in Reached(o) =>
                           row[o].status = "disputed" /\ credits[o] + refunds[o] = 0
    BY DEF DisputeFreezes
  <2>1. credits[o] \in Nat /\ refunds[o] \in Nat
    BY DEF TypeOK, Intact
  <2>2. QED
    BY <2>1 DEF SettledInv, DisputeInv
<1>2. QED
  BY <1>1, TypeInit, TypeStep, CustodyInit, CustodyStep, SettledInit, SettledStep,
     DisputeInit, DisputeStep, PTL DEF Spec

-----------------------------------------------------------------------------
(***************************************************************************)
(* The escrow.  Handlers that still have to queue a wallet job keep an     *)
(* order released or returned; the lemmas follow them through the steps.   *)
(***************************************************************************)
LEMMA PaidFirstInit == Init => PaidFirst
BY DEF Init, PaidFirst, Idle

LEMMA PaidFirstStep ==
  TypeOK /\ CustodyInv /\ PaidFirst /\ [Next]_vars => PaidFirst'
<1> SUFFICES ASSUME TypeOK, CustodyInv, PaidFirst, [Next]_vars PROVE PaidFirst'
  OBVIOUS
<1>1. ASSUME NEW h \in Handlers, NEW x, handler' = [handler EXCEPT ![h] = x],
             \A o \in Orders : credits[o] > 0 => credits'[o] > 0,
             x.phase = "announce" /\ x.op = "complete"
               => \/ x.order \in Orders /\ credits'[x.order] > 0
                  \/ /\ handler[h].phase = "announce" /\ handler[h].op = "complete"
                     /\ handler[h].order = x.order
      PROVE  PaidFirst'
  <2>1. \A g \in Handlers : handler'[g] = IF g = h THEN x ELSE handler[g]
    BY <1>1 DEF TypeOK
  <2>2. \A g \in Handlers : handler[g].phase = "announce" => handler[g].order \in Orders
    BY DEF TypeOK, Saving, AfterSave
  <2>4. ASSUME NEW g \in Handlers, handler'[g].phase = "announce", handler'[g].op = "complete"
        PROVE  credits'[handler'[g].order] > 0
    <3>1. \/ handler'[g].order \in Orders /\ credits'[handler'[g].order] > 0
          \/ \E f \in Handlers : /\ handler[f].phase = "announce" /\ handler[f].op = "complete"
                                 /\ handler[f].order = handler'[g].order
      BY <1>1, <2>1, <2>4
    <3>2. ASSUME NEW f \in Handlers, handler[f].phase = "announce", handler[f].op = "complete",
                 handler[f].order = handler'[g].order
          PROVE  credits'[handler'[g].order] > 0
      <4>1. PICK o \in Orders : o = handler'[g].order
        BY <2>2, <3>2
      <4>2. credits[o] > 0
        BY <3>2, <4>1 DEF PaidFirst
      <4>3. QED
        BY <1>1, <4>1, <4>2
    <3>3. QED
      BY <3>1, <3>2
  <2>5. QED
    BY <2>4 DEF PaidFirst
<1>a. \A o \in Orders : credits[o] \in Nat
  BY DEF TypeOK
<1>2. ASSUME NEW h \in Handlers, NEW x, handler' = [handler EXCEPT ![h] = x],
             credits' = credits,
             x.phase = "announce" /\ x.op = "complete"
               => /\ handler[h].phase = "announce" /\ handler[h].op = "complete"
                  /\ handler[h].order = x.order
      PROVE  PaidFirst'
  <2>1. \A o \in Orders : credits[o] > 0 => credits'[o] > 0
    BY <1>2
  <2>2. QED
    BY <1>1, <1>2, <2>1
<1>3. CASE UNCHANGED vars
  BY <1>3 DEF vars, PaidFirst
<1>4. ASSUME NEW h \in Handlers, Quiet(h) PROVE PaidFirst'
  BY <1>2, <1>4 DEF Quiet, AfterSave, Tables
<1>5. ASSUME NEW h \in Handlers, SaveUpdate(h) PROVE PaidFirst'
  <2>1. AfterUpdate(h).phase = "announce" => AfterUpdate(h).op # "complete"
    BY AfterUpdateCases DEF AfterSave
  <2>2. QED
    BY <1>2, <1>5, <2>1 DEF SaveUpdate, Assign
<1>b. \A h \in Handlers : handler[h] \in HandlerState /\ Continue(h).phase # "announce"
  BY ContinuePhase DEF TypeOK, Saving, AfterSave
<1>6. ASSUME NEW h \in Handlers, Announce(h) PROVE PaidFirst'
  <2>1. PICK x : /\ Assign(h, x)
                 /\ \/ x = Continue(h)
                    \/ \E rest : x = [handler[h] EXCEPT !.due = rest]
                    \/ x = [handler[h] EXCEPT !.phase = "enqueue", !.due = {}]
    BY <1>6 DEF Announce
  <2>2. handler[h].phase = "announce" /\ credits' = credits
    BY <1>6 DEF Announce
  <2>3. x.phase = "announce" => x.op = handler[h].op /\ x.order = handler[h].order
    BY <1>b, <2>1, <2>2 DEF HandlerState
  <2>4. QED
    BY <1>2, <2>1, <2>2, <2>3 DEF Assign
<1>7. ASSUME NEW h \in Handlers, Enqueue(h) PROVE PaidFirst'
  <2>0. PICK o \in Orders : o = handler[h].order
    BY <1>7 DEF Enqueue, TypeOK, Saving, AfterSave
  <2> DEFINE y == handler[h]
             job == WalletJob(y.op, y.to, y.loaded[o])
             x == IF y.op = "complete" THEN [y EXCEPT !.phase = "announce"] ELSE Continue(h)
  <2>1. /\ handler' = [handler EXCEPT ![h] = x]
        /\ credits' = IF job = "credit" THEN [credits EXCEPT ![o] = @ + 1] ELSE credits
    BY <1>7, <2>0 DEF Enqueue, Assign
  <2>2. \A p \in Orders : credits[p] > 0 => credits'[p] > 0
    BY <1>a, <2>1 DEF TypeOK
  <2>3. ASSUME x.phase = "announce"
        PROVE  x.order = o /\ credits'[o] > 0
    <3>1. y.op = "complete" /\ x = [y EXCEPT !.phase = "announce"]
      BY <1>b, <2>3
    <3>2. x.order = o
      BY <1>b, <2>0, <3>1 DEF HandlerState
    <3>3. y.to = "completed"
      BY <2>0, <3>1 DEF CustodyInv, Sound, WorksOn, Lawful
    <3>4. job = "credit"
      BY <3>1, <3>3 DEF WalletJob
    <3>5. QED
      BY <1>a, <2>1, <3>2, <3>4 DEF TypeOK
  <2>. HIDE DEF x
  <2>4. QED
    BY <1>1, <2>1, <2>2, <2>3
<1>8. ASSUME NEW h \in Handlers, InsertDispute(h) \/ Fail(h) PROVE PaidFirst'
  BY <1>2, <1>8 DEF InsertDispute, Fail, Assign, Idle
<1>9. QED
  BY <1>3, <1>4, <1>5, <1>6, <1>7, <1>8, StepCases

\* Who still has to queue a job for an order, after a step of one handler.
LEMMA PayingAfter ==
  ASSUME TypeOK, NEW h \in Handlers, NEW x, handler' = [handler EXCEPT ![h] = x],
         NEW o, NEW job
  PROVE  /\ (Pays(x, o, job) <=> Pays(handler[h], o, job))
              => Paying(o, job)' = Paying(o, job)
         /\ Pays(x, o, job) => h \in Paying(o, job)'
         /\ ~Pays(x, o, job) => Paying(o, job)' \subseteq Paying(o, job)
<1>1. \A g \in Handlers : handler'[g] = IF g = h THEN x ELSE handler[g]
  BY DEF TypeOK
<1>2. Paying(o, job)' = {g \in Handlers : Pays(handler'[g], o, job)}
  BY DEF Paying, Pays
<1>3. QED
  BY <1>1, <1>2 DEF Paying

LEMMA StageSame ==
  ASSUME NEW o \in Orders,
         row'[o] = row[o], stale'[o] = stale[o],
         credits'[o] = credits[o], refunds'[o] = refunds[o],
         credits[o] > 0 \/ Paying(o, "credit")' = Paying(o, "credit"),
         Paying(o, "refund")' = Paying(o, "refund")
  PROVE  StageOf(o)' = StageOf(o)
BY DEF StageOf

LEMMA StageUnchanged ==
  ASSUME \A o \in Orders : StageOf(o)' = StageOf(o)
  PROVE  stage' = stage
BY DEF stage

LEMMA StageMoves ==
  ASSUME NEW o \in Orders, NEW s, StageOf(o)' = s,
         \A p \in Orders \ {o} : StageOf(p)' = StageOf(p)
  PROVE  stage' = [stage EXCEPT ![o] = s]
BY DEF stage

LEMMA DepositedUnchanged ==
  ASSUME history' = history
  PROVE  deposited' = deposited
BY DEF deposited, Reached

\* A step of one handler that writes no order and queues no job.
LEMMA StageLocal ==
  ASSUME TypeOK, NEW h \in Handlers, NEW x,
         handler' = [handler EXCEPT ![h] = x],
         UNCHANGED <<row, stale, credits, refunds>>,
         \A o \in Orders, job \in {"credit", "refund"} :
           \/ Pays(x, o, job) <=> Pays(handler[h], o, job)
           \/ job = "credit" /\ credits[o] > 0
  PROVE  \A o \in Orders : StageOf(o)' = StageOf(o)
<1>1. SUFFICES ASSUME NEW o \in Orders PROVE StageOf(o)' = StageOf(o)
  OBVIOUS
<1>2. ASSUME NEW job, Pays(x, o, job) <=> Pays(handler[h], o, job)
      PROVE  Paying(o, job)' = Paying(o, job)
  BY <1>2, PayingAfter
<1>3. credits[o] > 0 \/ Paying(o, "credit")' = Paying(o, "credit")
  BY <1>2
<1>4. Paying(o, "refund")' = Paying(o, "refund")
  BY <1>2
<1>5. QED
  BY <1>3, <1>4, StageSame

LEMMA AnnounceKeepsStage ==
  ASSUME TypeOK, PaidFirst, NEW h \in Handlers, Announce(h)
  PROVE  \A o \in Orders : StageOf(o)' = StageOf(o)
<1> DEFINE x == handler[h]
           hasJob == x.op = "update" /\ WalletJob(x.op, x.to, x.loaded[x.order]) # "none"
<1>1. x \in HandlerState /\ x.phase = "announce"
      /\ UNCHANGED <<row, stale, credits, refunds>>
  BY DEF TypeOK, Announce
<1>2. PICK rest : handler' = [handler EXCEPT ![h] =
                    CASE rest # {} -> [x EXCEPT !.due = rest]
                      [] rest = {} /\ hasJob -> [x EXCEPT !.phase = "enqueue", !.due = {}]
                      [] OTHER -> Continue(h)]
  BY DEF Announce, Assign
<1>3. PICK y : /\ handler' = [handler EXCEPT ![h] = y]
               /\ \/ y = [x EXCEPT !.due = rest]
                  \/ y = [x EXCEPT !.phase = "enqueue", !.due = {}]
                  \/ y = Continue(h) /\ ~hasJob
  <2>1. CASE rest # {}
    BY <1>2, <2>1
  <2>2. CASE rest = {} /\ hasJob
    BY <1>2, <2>2
  <2>3. CASE rest = {} /\ ~hasJob
    BY <1>2, <2>3
  <2>4. QED
    BY <2>1, <2>2, <2>3
<1>4. ASSUME NEW o \in Orders, NEW job \in {"credit", "refund"}
      PROVE  \/ Pays(y, o, job) <=> Pays(x, o, job)
             \/ job = "credit" /\ credits[o] > 0
  <2>1. CASE y = [x EXCEPT !.due = rest]
    BY <1>1, <2>1 DEF Pays, HandlerState
  <2>2. CASE y = [x EXCEPT !.phase = "enqueue", !.due = {}]
    BY <1>1, <2>2 DEF Pays, HandlerState
  <2>3. CASE y = Continue(h) /\ ~hasJob
    <3>1. ~Pays(y, o, job)
      BY <1>1, <2>3, ContinuePhase DEF Pays, Saving, AfterSave
    <3>2. ASSUME Pays(x, o, job) PROVE job = "credit" /\ credits[o] > 0
      <4>1. x.order = o /\ WalletJob(x.op, x.to, x.loaded[o]) = job /\ job # "none"
        BY <3>2 DEF Pays
      <4>2. x.op # "update"
        BY <2>3, <4>1
      <4>3. x.op = "complete" /\ job = "credit"
        BY <4>1, <4>2 DEF WalletJob
      <4>4. QED
        BY <1>1, <4>1, <4>3 DEF PaidFirst
    <3>3. QED
      BY <3>1, <3>2
  <2>4. QED
    BY <1>3, <2>1, <2>2, <2>3
<1>5. QED
  BY <1>1, <1>3, <1>4, StageLocal

\* What a saved change does to the place of the money.
LEMMA EscrowSaveUpdate ==
  ASSUME TypeOK, CustodyInv, SettledInv, TimelineAgrees, NEW h \in Handlers, SaveUpdate(h)
  PROVE  \E o \in Orders : \/ Money!Pay(o) \/ Money!Decide(o) \/ Money!Void(o)
                           \/ UNCHANGED Money!vars
<1> DEFINE x == handler[h]
<1>0. PICK o \in Orders : o = x.order
  BY DEF SaveUpdate, TypeOK, Saving
<1>1. /\ x \in HandlerState /\ x.op \in Op /\ x.to \in Status /\ row[o] \in OrderRow
      /\ x.phase = "selected" /\ x.loaded[o] \in OrderRow
  BY DEF TypeOK, HandlerState, SaveUpdate
<1>2. /\ UNCHANGED <<credits, refunds, failures>>
      /\ handler' = [handler EXCEPT ![h] = AfterUpdate(h)]
  BY DEF SaveUpdate, Assign
<1>3. \A p \in Orders, job \in {"credit", "refund"} :
        ~Pays(x, p, job) /\ (p # o => ~Pays(AfterUpdate(h), p, job))
  BY <1>0, <1>1, AfterUpdateCases DEF Pays, AfterSave
<1>4. \A p \in Orders \ {o} : StageOf(p)' = StageOf(p)
  <2>1. SUFFICES ASSUME NEW p \in Orders \ {o} PROVE StageOf(p)' = StageOf(p)
    OBVIOUS
  <2>2. ASSUME NEW job \in {"credit", "refund"} PROVE Paying(p, job)' = Paying(p, job)
    <3>1. ~Pays(x, p, job) /\ ~Pays(AfterUpdate(h), p, job)
      BY <1>3
    <3>2. QED
      BY <1>2, <3>1, PayingAfter DEF Paying
  <2>3. row'[p] = row[p] /\ stale'[p] = stale[p]
    BY <1>0, UndisturbedSave
  <2>4. QED
    BY <1>2, <2>2, <2>3, StageSame
<1>5. \A p \in Orders \ {o} : Reached(p)' = Reached(p)
  BY <1>0, UndisturbedSave DEF Reached
<1>6. CASE o \notin Intact'
  <2>1. StageOf(o)' = "void"
    <3>1. stale'[o] \in Nat /\ stale'[o] # 0
      BY <1>0, <1>6 DEF Intact, SaveUpdate, TypeOK
    <3>2. stale'[o] > 0
      BY <3>1
    <3>3. QED
      BY <3>2 DEF StageOf
  <2>2. Reached(o) \subseteq Reached(o)'
    BY <1>0 DEF Reached, SaveUpdate, TypeOK
  <2>3. deposited' = deposited \/ deposited' = deposited \cup {o}
    BY <1>5, <2>2 DEF deposited
  <2>4. Money!Void(o)
    BY <1>2, <1>4, <2>1, <2>3, StageMoves DEF Money!Void
  <2>5. QED
    BY <2>4
<1>7. CASE o \in Intact'
  <2> DEFINE from == row[o]
             e == Entity(x.op, x.to, from)
  <2>1. /\ o \in Intact /\ x.loaded[o] = from /\ row'[o] = e
        /\ Lawful(x.op, x.by, from.status, x.to)
        /\ history'[o] = IF e.status # from.status
                         THEN history[o] \cup {[status |-> x.to, by |-> x.by]}
                         ELSE history[o]
        /\ stale'[o] = 0 /\ stale[o] = 0
    BY <1>0, <1>7, UndisturbedSave DEF Intact
  <2>2. Agrees(from) /\ Agrees(e) /\ e \in OrderRow
    BY <1>1, <2>1, EntityAgrees, EntityType DEF TimelineAgrees
  <2>3. MovesOn(from.status, e.status)
    BY <1>1, <2>1, EntityMoves
  <2>4. e.status = from.status \/ e.status = x.to
    BY <1>1 DEF Entity, OrderRow, Row
  <2>5. from.status = e.status => from.status = "pending"
    BY <2>3 DEF MovesOn, Transitions
  <2>6. ~(credits[o] > 0) /\ ~(refunds[o] > 0)
    BY <1>1, <2>1, FinalStatus DEF SettledInv
  <2>7. StageOf(o) = CASE from.status = "pending" -> "open"
                       [] from.status \in {"paid", "purchased", "shipped", "delivered"} -> "held"
    <3>1. from.status \in {"pending", "paid", "purchased", "shipped", "delivered"}
      BY <1>1, <2>1, FinalStatus DEF OrderRow, Row, Status
    <3>2. QED
      BY <2>1, <3>1 DEF StageOf
  <2>8. /\ e.status # from.status /\ x.to = "paid" => deposited' = deposited \cup {o}
        /\ e.status = from.status \/ x.to # "paid" => deposited' = deposited
    <3>1. "paid" \in Reached(o)' <=> \/ "paid" \in Reached(o)
                                     \/ e.status # from.status /\ x.to = "paid"
      <4> DEFINE new == [status |-> x.to, by |-> x.by]
      <4>1. "paid" \in Reached(o) <=> \E c \in history[o] : c.status = "paid"
        BY DEF Reached
      <4>2. "paid" \in Reached(o)' <=> \E c \in history'[o] : c.status = "paid"
        BY DEF Reached
      <4>3. new.status = x.to
        OBVIOUS
      <4>4. history'[o] = IF e.status # from.status THEN history[o] \cup {new} ELSE history[o]
        BY <2>1
      <4>. HIDE DEF e, from, new
      <4>5. QED
        BY <4>1, <4>2, <4>3, <4>4
    <3>2. QED
      BY <1>5, <3>1 DEF deposited
  <2> HIDE DEF e, from
  <2>9. CASE e.status = from.status
    <3>1. StageOf(o)' = "open" /\ StageOf(o) = "open"
      BY <2>1, <2>5, <2>7, <2>9 DEF StageOf
    <3>2. \A p \in Orders : StageOf(p)' = StageOf(p)
      BY <1>4, <3>1
    <3>3. QED
      BY <1>2, <2>8, <2>9, <3>2, StageUnchanged DEF Money!vars
  <2>10. CASE e.status = "paid" /\ e.status # from.status
    <3>1. from.status = "pending"
      BY <2>3, <2>10 DEF MovesOn, Transitions
    <3>2. StageOf(o) = "open" /\ StageOf(o)' = "held"
      BY <2>1, <2>7, <2>10, <3>1 DEF StageOf
    <3>3. stage[o] = "open" /\ stage' = [stage EXCEPT ![o] = "held"]
      BY <1>4, <3>2, StageMoves DEF stage
    <3>4. Money!Pay(o)
      BY <1>2, <2>4, <2>8, <2>10, <3>3 DEF Money!Pay, Money!Move
    <3>5. QED
      BY <3>4
  <2>11. ASSUME e.status # from.status, e.status # "paid", NEW s, NEW t,
                StageOf(o) = s, StageOf(o)' = t,
                s = t \/ <<s, t>> \in {<<"open", "closed">>, <<"held", "frozen">>,
                                       <<"held", "released">>, <<"held", "returned">>}
         PROVE  Money!Decide(o) \/ UNCHANGED Money!vars
    <3>1. deposited' = deposited
      BY <2>4, <2>8, <2>11
    <3>2. CASE s = t
      BY <1>2, <1>4, <2>11, <3>1, <3>2, StageUnchanged DEF Money!vars
    <3>3. CASE s # t
      <4>1. stage[o] = s /\ stage' = [stage EXCEPT ![o] = t]
        BY <1>4, <2>11, StageMoves DEF stage
      <4>2. QED
        BY <1>2, <2>11, <3>1, <3>3, <4>1 DEF Money!Decide, Money!Move
    <3>4. QED
      BY <3>2, <3>3
  <2>12. CASE e.status \in {"purchased", "shipped", "delivered"} /\ e.status # from.status
    <3>1. from.status \in {"paid", "purchased", "shipped"}
      BY <2>3, <2>12 DEF MovesOn, Transitions
    <3>2. StageOf(o) = "held" /\ StageOf(o)' = "held"
      BY <2>1, <2>7, <2>12, <3>1 DEF StageOf
    <3>3. QED
      BY <2>11, <2>12, <3>2
  <2>13. CASE e.status = "disputed" /\ e.status # from.status
    <3>1. from.status \in {"purchased", "shipped", "delivered"}
      BY <2>3, <2>13 DEF MovesOn, Transitions
    <3>2. StageOf(o) = "held" /\ StageOf(o)' = "frozen"
      BY <2>1, <2>7, <2>13, <3>1 DEF StageOf
    <3>3. QED
      BY <2>11, <2>13, <3>2
  <2>14. ASSUME NEW job \in {"credit", "refund"}, x.op \in {"update", "complete"},
                WalletJob(x.op, x.to, x.loaded[o]) = job
         PROVE  Paying(o, job)' # {}
    <3>1. Pays(AfterUpdate(h), o, job)
      BY <1>0, <2>14, AfterUpdateCases DEF Pays, AfterSave
    <3>2. h \in Paying(o, job)'
      BY <1>2, <3>1, PayingAfter
    <3>3. QED
      BY <3>2
  <2>15. CASE e.status = "completed" /\ e.status # from.status
    <3>1. from.status = "delivered" /\ x.to = "completed"
      BY <2>3, <2>4, <2>15 DEF MovesOn, Transitions
    <3>2. x.op \in {"update", "complete"}
      BY <1>1, <2>1, <3>1, <2>15 DEF Lawful, Op, ScheduledJobs, e, Entity
    <3>3. Paying(o, "credit")' # {}
      BY <2>14, <3>1, <3>2 DEF WalletJob
    <3>4. StageOf(o) = "held" /\ StageOf(o)' = "released"
      BY <1>2, <2>1, <2>6, <2>7, <2>15, <3>1, <3>3 DEF StageOf
    <3>5. QED
      BY <2>11, <2>15, <3>4
  <2>16. CASE e.status = "cancelled" /\ e.status # from.status
    <3>1. from.status \in {"pending", "paid"} /\ x.to = "cancelled"
      BY <2>3, <2>4, <2>16 DEF MovesOn, Transitions
    <3>2. x.op \in {"update", "expire"} /\ e.stamps = from.stamps \cup {"cancelled"}
      BY <1>1, <2>1, <3>1, <2>16 DEF Lawful, Op, ScheduledJobs, e, Entity, StampsOf, Stamp
    <3>3. CASE from.status = "pending"
      <4>1. "paid" \notin from.stamps
        BY <1>1, <2>2, <3>3, AgreesCases DEF from
      <4>2. StageOf(o) = "open" /\ StageOf(o)' = "closed"
        BY <2>1, <2>7, <2>16, <3>2, <3>3, <4>1 DEF StageOf
      <4>3. QED
        BY <2>11, <2>16, <4>2
    <3>4. CASE from.status = "paid"
      <4>1. "paid" \in from.stamps
        BY <1>1, <2>2, <3>4, AgreesCases DEF from
      <4>2. x.op = "update"
        BY <2>1, <3>2, <3>4 DEF Lawful
      <4>3. Paying(o, "refund")' # {}
        BY <2>1, <2>14, <3>1, <4>1, <4>2 DEF WalletJob
      <4>4. StageOf(o) = "held" /\ StageOf(o)' = "returned"
        BY <1>2, <2>1, <2>6, <2>7, <2>16, <3>2, <3>4, <4>1, <4>3 DEF StageOf
      <4>5. QED
        BY <2>11, <2>16, <4>4
    <3>5. QED
      BY <3>1, <3>3, <3>4
  <2>17. e.status \in {"pending", "paid", "purchased", "shipped", "delivered",
                       "completed", "cancelled", "disputed"}
    BY <2>2 DEF OrderRow, Row, Status
  <2>18. e.status = "pending" => e.status = from.status
    BY <2>3 DEF MovesOn, Transitions
  <2>19. QED
    BY <2>9, <2>10, <2>12, <2>13, <2>15, <2>16, <2>17, <2>18
<1>8. QED
  BY <1>6, <1>7

\* A wallet job is queued for money that is due, unless the order is void.
LEMMA EscrowEnqueue ==
  ASSUME TypeOK, CustodyInv, CustodyInv', SettledInv, NEW h \in Handlers, Enqueue(h)
  PROVE  \E o \in Orders : \/ Money!Credit(o) \/ Money!Refund(o)
                           \/ UNCHANGED Money!vars
<1> DEFINE x == handler[h]
<1>0. PICK o \in Orders : o = x.order
  BY DEF Enqueue, TypeOK, Saving, AfterSave
<1> DEFINE job == WalletJob(x.op, x.to, x.loaded[o])
<1>1. /\ x \in HandlerState /\ x.phase = "enqueue" /\ x.order = o
      /\ x.loaded[o] \in OrderRow /\ x.op \in Op /\ x.to \in Status
  BY <1>0 DEF Enqueue, TypeOK, HandlerState
<1>2. /\ credits' = IF job = "credit" THEN [credits EXCEPT ![o] = @ + 1] ELSE credits
      /\ refunds' = IF job = "refund" THEN [refunds EXCEPT ![o] = @ + 1] ELSE refunds
      /\ UNCHANGED <<row, history, stale, failures>>
  BY <1>0 DEF Enqueue
<1>3. PICK y : /\ handler' = [handler EXCEPT ![h] = y]
               /\ y = Continue(h) \/ y = [x EXCEPT !.phase = "announce"]
  BY DEF Enqueue, Assign
<1>4. \A p \in Orders, j \in {"credit", "refund"} :
        Pays(y, p, j) => p = o /\ job = j
  <2>1. CASE y = Continue(h)
    BY <1>1, <2>1, ContinuePhase DEF Pays, Saving, AfterSave
  <2>2. CASE y = [x EXCEPT !.phase = "announce"]
    BY <1>1, <2>2 DEF Pays, HandlerState
  <2>3. QED
    BY <1>3, <2>1, <2>2
<1>5. \A p \in Orders, j \in {"credit", "refund"} :
        Pays(x, p, j) <=> p = o /\ job = j
  BY <1>1 DEF Pays
<1>6. ASSUME NEW p \in Orders, p # o \/ job \notin {"credit", "refund"}
      PROVE  StageOf(p)' = StageOf(p)
  <2>1. ASSUME NEW j \in {"credit", "refund"} PROVE Paying(p, j)' = Paying(p, j)
    <3>1. ~Pays(x, p, j) /\ ~Pays(y, p, j)
      BY <1>4, <1>5, <1>6
    <3>2. QED
      BY <1>3, <3>1, PayingAfter
  <2>2. credits'[p] = credits[p] /\ refunds'[p] = refunds[p]
    BY <1>2, <1>6 DEF TypeOK
  <2>3. QED
    BY <1>2, <2>1, <2>2, StageSame
<1>7. job \in {"credit", "refund", "none"}
  BY DEF WalletJob
<1>8. deposited' = deposited
  BY <1>2, DepositedUnchanged
<1>9. CASE job = "none"
  <2>1. \A p \in Orders : StageOf(p)' = StageOf(p)
    BY <1>6, <1>9
  <2>2. QED
    BY <1>2, <1>8, <1>9, <2>1, StageUnchanged DEF Money!vars
<1>10. CASE job # "none"
  <2>1. /\ job = "credit" => credits' = [credits EXCEPT ![o] = @ + 1] /\ refunds' = refunds
        /\ job = "refund" => refunds' = [refunds EXCEPT ![o] = @ + 1] /\ credits' = credits
    BY <1>2
  <2>2. credits[o] \in Nat /\ refunds[o] \in Nat
    BY DEF TypeOK
  <2>3. /\ job = "credit" => credits'[o] > 0
        /\ job = "refund" => refunds'[o] > 0
    BY <2>1, <2>2 DEF TypeOK
  <2>4. o \in deposited
    <3>1. Lineage(o)' /\ Recorded(o)'
      BY DEF CustodyInv
    <3>2. Reached(o)' = Reached(o) /\ history' = history
      BY <1>2 DEF Reached
    <3>3. CASE job = "credit"
      <4>1. "completed" \in Reached(o)
        BY <2>3, <3>1, <3>2, <3>3 DEF Recorded
      <4>2. PICK c \in history[o] : c.status = "completed"
        BY <4>1 DEF Reached
      <4>3. PICK d \in history[o] : d.status = "delivered"
        BY <3>1, <3>2, <4>2 DEF Lineage, Reached
      <4>4. PICK s \in history[o] : s.status = "shipped"
        BY <3>1, <3>2, <4>3 DEF Lineage, Reached
      <4>5. PICK b \in history[o] : b.status = "purchased"
        BY <3>1, <3>2, <4>4 DEF Lineage, Reached
      <4>6. QED
        BY <3>1, <3>2, <4>5 DEF Lineage, Reached, deposited
    <3>4. CASE job = "refund"
      BY <2>3, <3>1, <3>2, <3>4 DEF Recorded, deposited
    <3>5. QED
      BY <1>7, <1>10, <3>3, <3>4
  <2>5. CASE stale[o] > 0
    <3>1. StageOf(o) = "void" /\ StageOf(o)' = "void"
      BY <1>2, <2>5 DEF StageOf
    <3>2. \A p \in Orders : StageOf(p)' = StageOf(p)
      BY <1>6, <3>1
    <3>3. stage[o] = "void" /\ stage' = stage
      BY <3>1, <3>2, StageUnchanged DEF stage
    <3>4. Money!Credit(o) \/ Money!Refund(o)
      BY <1>2, <1>7, <1>8, <1>10, <2>1, <2>4, <3>3 DEF Money!Credit, Money!Refund
    <3>5. QED
      BY <3>4
  <2>6. CASE ~(stale[o] > 0)
    <3>1. o \in Intact
      BY <2>6 DEF Intact, TypeOK
    <3>2. Owes(x, o)
      BY <1>1, <1>10 DEF Owes
    <3>3. row[o] = Entity(x.op, x.to, x.loaded[o]) /\ credits[o] = 0 /\ refunds[o] = 0
      BY <3>1, <3>2 DEF SettledInv
    <3>4. /\ job = "credit" => row[o].status = "completed"
          /\ job = "refund" => row[o].status = "cancelled" /\ "paid" \in row[o].stamps
      BY <1>1, <3>3, JobFitsEntity
    <3>5. h \in Paying(o, job)
      BY <1>5, <1>7, <1>10 DEF Paying
    <3>. HIDE DEF job
    <3>6. CASE job = "credit"
      <4>1. StageOf(o) = "released" /\ StageOf(o)' = "settled"
        BY <1>2, <2>3, <2>6, <3>3, <3>4, <3>5, <3>6 DEF StageOf
      <4>2. stage[o] = "released" /\ stage' = [stage EXCEPT ![o] = "settled"]
        BY <1>6, <4>1, StageMoves DEF stage
      <4>3. Money!Credit(o)
        BY <1>2, <1>8, <2>1, <2>4, <3>6, <4>2 DEF Money!Credit, Money!Move
      <4>4. QED
        BY <4>3
    <3>7. CASE job = "refund"
      <4>1. StageOf(o) = "returned" /\ StageOf(o)' = "settled"
        BY <1>2, <2>3, <2>6, <3>3, <3>4, <3>5, <3>7 DEF StageOf
      <4>2. stage[o] = "returned" /\ stage' = [stage EXCEPT ![o] = "settled"]
        BY <1>6, <4>1, StageMoves DEF stage
      <4>3. Money!Refund(o)
        BY <1>2, <1>8, <2>1, <2>4, <3>7, <4>2 DEF Money!Refund, Money!Move
      <4>4. QED
        BY <4>3
    <3>8. QED
      BY <1>7, <1>10, <3>6, <3>7
  <2>7. QED
    BY <2>5, <2>6
<1>11. QED
  BY <1>9, <1>10

\* The death of a handler loses the money of one order at most, and of none
\* that is not noted in cut.
LEMMA EscrowFail ==
  ASSUME TypeOK, NEW h \in Handlers, Fail(h)
  PROVE  /\ Money!Crash
         /\ \A o \in Orders : StageOf(o)' = StageOf(o) \/ o \in cut'
<1> DEFINE x == handler[h]
<1>1. /\ handler' = [handler EXCEPT ![h] = Idle]
      /\ failures' = failures + 1
      /\ UNCHANGED <<row, credits, refunds, stale, history>>
      /\ cut' = IF x.phase \in AfterSave THEN cut \cup {x.order} ELSE cut
  BY DEF Fail, Assign
<1>2. \A p, j : ~Pays(Idle, p, j)
  BY DEF Pays, Idle
<1>3. \A p, j : Paying(p, j)' \subseteq Paying(p, j)
  BY <1>1, <1>2, PayingAfter
<1>4. ASSUME NEW p \in Orders, x.phase \notin AfterSave \/ p # x.order
      PROVE  StageOf(p)' = StageOf(p)
  <2>1. \A j : ~Pays(x, p, j)
    BY <1>4 DEF Pays, AfterSave
  <2>2. \A j : Paying(p, j)' = Paying(p, j)
    BY <1>1, <1>2, <2>1, PayingAfter
  <2>3. QED
    BY <1>1, <2>2, StageSame
<1>5. \A p \in Orders : StageOf(p)' = StageOf(p) \/ p \in cut'
  BY <1>1, <1>4
<1>6. deposited' = deposited
  BY <1>1, DepositedUnchanged
<1>7. stage' = stage \/ \E o \in Orders : stage[o] \in Money!Due /\ Money!Move(o, stage[o], "lost")
  <2>1. CASE \A p \in Orders : StageOf(p)' = StageOf(p)
    BY <2>1, StageUnchanged
  <2>2. CASE ~(\A p \in Orders : StageOf(p)' = StageOf(p))
    <3>1. PICK o \in Orders : StageOf(o)' # StageOf(o) /\ o = x.order
      BY <1>4, <2>2
    <3>2. StageOf(o) \in {"released", "returned"} /\ StageOf(o)' = "lost"
      <4>1. \A j : Paying(o, j)' # {} => Paying(o, j) # {}
        BY <1>3
      <4>2. QED
        BY <1>1, <3>1, <4>1 DEF StageOf
    <3>3. stage[o] = StageOf(o) /\ stage' = [stage EXCEPT ![o] = "lost"]
      BY <1>4, <3>1, <3>2, StageMoves DEF stage
    <3>4. QED
      BY <3>2, <3>3 DEF Money!Due, Money!Move
  <2>3. QED
    BY <2>1, <2>2
<1>8. Money!Crash
  BY <1>1, <1>6, <1>7 DEF Money!Crash
<1>9. QED
  BY <1>5, <1>8

OrderInv ==
  TypeOK /\ CustodyInv /\ SettledInv /\ TimelineAgrees /\ DisputeInv /\ PaidFirst

LEMMA OrderInvHolds == Spec => []OrderInv
<1>1. Init => OrderInv
  BY TypeInit, CustodyInit, SettledInit, TimelineInit, DisputeInit, PaidFirstInit DEF OrderInv
<1>2. OrderInv /\ [Next]_vars => OrderInv'
  BY TypeStep, CustodyStep, SettledStep, TimelineStep, DisputeStep, PaidFirstStep DEF OrderInv
<1>3. QED
  BY <1>1, <1>2, PTL DEF Spec

LEMMA EscrowInit == Init => Money!Init
<1> SUFFICES ASSUME Init PROVE Money!Init
  OBVIOUS
<1>1. \A o \in Orders : StageOf(o) = "open"
  BY DEF Init, StageOf, NewOrder
<1>2. deposited = {}
  BY DEF Init, deposited, Reached
<1>3. QED
  BY <1>1, <1>2 DEF Init, Money!Init, stage

\* Every step of a handler is a step of the escrow, or none.
LEMMA EscrowStep == OrderInv /\ OrderInv' /\ [Next]_vars => [Money!Next]_(Money!vars)
<1> SUFFICES ASSUME OrderInv, OrderInv', [Next]_vars
             PROVE  Money!Next \/ UNCHANGED Money!vars
  OBVIOUS
<1>0. /\ TypeOK /\ CustodyInv /\ SettledInv /\ TimelineAgrees /\ PaidFirst /\ CustodyInv'
  BY DEF OrderInv
<1>1. ASSUME UNCHANGED <<credits, refunds, failures, history>>,
             \A o \in Orders : StageOf(o)' = StageOf(o)
      PROVE  UNCHANGED Money!vars
  BY <1>1, StageUnchanged, DepositedUnchanged DEF Money!vars
<1>2. CASE UNCHANGED vars
  <2>1. UNCHANGED <<row, stale, credits, refunds, failures, history, handler>>
    BY <1>2 DEF vars
  <2>2. \A o, job : Paying(o, job)' = Paying(o, job)
    BY <2>1 DEF Paying, Pays
  <2>3. \A o \in Orders : StageOf(o)' = StageOf(o)
    BY <2>1, <2>2, StageSame
  <2>4. QED
    BY <1>1, <2>1, <2>3
<1>3. ASSUME NEW h \in Handlers, Quiet(h) PROVE UNCHANGED Money!vars
  <2>1. PICK x : x.phase \notin AfterSave /\ handler' = [handler EXCEPT ![h] = x]
    BY <1>3 DEF Quiet
  <2>2. UNCHANGED <<row, stale, credits, refunds, failures, history>>
    BY <1>3 DEF Quiet, Tables
  <2>3. \A o, job : ~Pays(x, o, job) /\ ~Pays(handler[h], o, job)
    BY <1>3, <2>1 DEF Quiet, Pays, AfterSave
  <2>4. \A o \in Orders : StageOf(o)' = StageOf(o)
    BY <1>0, <2>1, <2>2, <2>3, StageLocal
  <2>5. QED
    BY <1>1, <2>2, <2>4
<1>4. ASSUME NEW h \in Handlers, SaveUpdate(h) PROVE Money!Next \/ UNCHANGED Money!vars
  BY <1>0, <1>4, EscrowSaveUpdate DEF Money!Next
<1>5. ASSUME NEW h \in Handlers, Announce(h) PROVE UNCHANGED Money!vars
  <2>1. UNCHANGED <<credits, refunds, failures, history>>
    BY <1>5 DEF Announce
  <2>2. QED
    BY <1>0, <1>1, <1>5, <2>1, AnnounceKeepsStage
<1>6. ASSUME NEW h \in Handlers, Enqueue(h) PROVE Money!Next \/ UNCHANGED Money!vars
  BY <1>0, <1>6, EscrowEnqueue DEF Money!Next
<1>7. ASSUME NEW h \in Handlers, InsertDispute(h) PROVE UNCHANGED Money!vars
  <2>1. /\ handler' = [handler EXCEPT ![h] = Idle]
        /\ UNCHANGED <<row, stale, credits, refunds, failures, history>>
    BY <1>7 DEF InsertDispute, Assign
  <2>2. \A o, job : ~Pays(Idle, o, job) /\ ~Pays(handler[h], o, job)
    BY <1>7 DEF InsertDispute, Pays, Idle
  <2>3. \A o \in Orders : StageOf(o)' = StageOf(o)
    BY <1>0, <2>1, <2>2, StageLocal
  <2>4. QED
    BY <1>1, <2>1, <2>3
<1>8. ASSUME NEW h \in Handlers, Fail(h) PROVE Money!Next
  BY <1>0, <1>8, EscrowFail DEF Money!Next
<1>9. QED
  BY <1>0, <1>2, <1>3, <1>4, <1>5, <1>6, <1>7, <1>8, StepCases

\* OrderLifecycle implements Escrow: whatever the requests and the jobs do to an
\* order, its money moves as the escrow allows, for every number of orders,
\* requests and failures.
THEOREM OrdersAreEscrow == Spec => ImplementsEscrow
<1>1. QED
  BY OrderInvHolds, EscrowInit, EscrowStep, PTL DEF Spec, ImplementsEscrow, Money!Spec

-----------------------------------------------------------------------------
(***************************************************************************)
(* Money is lost only by the death of the handler that had to queue it.    *)
(***************************************************************************)
NoneLost == \A o \in Orders \ cut : StageOf(o) # "lost"

LEMMA NoneLostStep == OrderInv /\ OrderInv' /\ NoneLost /\ [Next]_vars => NoneLost'
<1> SUFFICES ASSUME OrderInv, OrderInv', NoneLost, [Next]_vars, NEW o \in Orders, o \notin cut'
             PROVE  StageOf(o)' # "lost"
  BY DEF NoneLost
<1>0. TypeOK
  BY DEF OrderInv
<1>1. CASE \E h \in Handlers : Fail(h)
  <2>1. PICK h \in Handlers : Fail(h)
    BY <1>1
  <2>2. cut \subseteq cut' /\ StageOf(o)' = StageOf(o)
    BY <1>0, <2>1, EscrowFail DEF Fail
  <2>3. QED
    BY <2>2 DEF NoneLost
<1>2. CASE ~(\E h \in Handlers : Fail(h))
  <2>1. cut' = cut /\ failures' = failures
    <3>1. CASE UNCHANGED vars
      BY <3>1 DEF vars
    <3>2. ASSUME NEW h \in Handlers, Quiet(h) \/ SaveUpdate(h) \/ Announce(h)
                                     \/ Enqueue(h) \/ InsertDispute(h)
          PROVE  cut' = cut /\ failures' = failures
      BY <3>2 DEF Quiet, Tables, SaveUpdate, Announce, Enqueue, InsertDispute
    <3>3. QED
      BY <1>0, <1>2, <3>1, <3>2, StepCases
  <2>2. ~Money!Crash
    BY <1>0, <2>1 DEF Money!Crash, TypeOK
  <2>3. stage[o] # "lost"
    BY <2>1 DEF NoneLost, stage
  <2>4. Money!Next \/ UNCHANGED Money!vars
    BY EscrowStep
  <2>5. stage \in [Orders -> {stage[p] : p \in Orders}]
    BY DEF stage
  <2>. HIDE DEF stage, deposited
  <2>6. stage'[o] # "lost"
    <3>1. CASE UNCHANGED Money!vars
      BY <2>3, <3>1 DEF Money!vars
    <3>2. ASSUME NEW p \in Orders, Money!Pay(p) \/ Money!Decide(p)
          PROVE  stage'[o] # "lost"
      BY <2>3, <2>5, <3>2 DEF Money!Pay, Money!Decide, Money!Move
    <3>3. ASSUME NEW p \in Orders, Money!Credit(p) \/ Money!Refund(p)
          PROVE  stage'[o] # "lost"
      BY <2>3, <2>5, <3>3 DEF Money!Credit, Money!Refund, Money!Move
    <3>4. ASSUME NEW p \in Orders, Money!Void(p) PROVE stage'[o] # "lost"
      BY <2>3, <2>5, <3>4 DEF Money!Void
    <3>5. QED
      BY <2>2, <2>4, <3>1, <3>2, <3>3, <3>4 DEF Money!Next
  <2>7. QED
    BY <2>6 DEF stage
<1>3. QED
  BY <1>1, <1>2

\* No credit and no refund is forgotten: on an order that no stale save has hit,
\* it is queued or a handler is about to, unless one died there.
THEOREM NothingForgottenHolds == Spec => []NothingForgotten
<1>1. Init => NoneLost
  BY DEF Init, NoneLost, StageOf, NewOrder
<1>2. OrderInv /\ NoneLost => NothingForgotten
  <2> SUFFICES ASSUME OrderInv, NoneLost, NEW o \in Intact \ cut
               PROVE  /\ row[o].status = "completed" =>
                           credits[o] = 1 \/ Paying(o, "credit") # {}
                      /\ row[o].status = "cancelled" /\ "paid" \in row[o].stamps =>
                           refunds[o] = 1 \/ Paying(o, "refund") # {}
    BY DEF NothingForgotten
  <2>1. o \in Orders /\ stale[o] = 0 /\ credits[o] \in Nat /\ refunds[o] \in Nat
    BY DEF OrderInv, TypeOK, Intact
  <2>2. credits[o] + refunds[o] <= 1
    BY DEF OrderInv, SettledInv
  <2>3. StageOf(o) # "lost"
    BY <2>1 DEF NoneLost
  <2>4. credits[o] > 0 => credits[o] = 1
    BY <2>1, <2>2
  <2>5. refunds[o] > 0 => refunds[o] = 1
    BY <2>1, <2>2
  <2>6. ~(stale[o] > 0)
    BY <2>1
  <2>7. QED
    BY <2>3, <2>4, <2>5, <2>6 DEF StageOf
<1>3. QED
  BY <1>1, <1>2, NoneLostStep, OrderInvHolds, PTL DEF Spec

-----------------------------------------------------------------------------
(***************************************************************************)
(* Announcements.                                                          *)
(***************************************************************************)
LEMMA DueStep == TypeOK /\ DueInv /\ [Next]_vars => DueInv'
<1> SUFFICES ASSUME TypeOK, DueInv, [Next]_vars PROVE DueInv'
  OBVIOUS
<1>1. ASSUME NEW h \in Handlers, NEW x, handler' = [handler EXCEPT ![h] = x],
             x.op = "expire" => x.by = "system",
             x.phase = "enqueue" => x.op = "complete" \/ x.due = {},
             x.phase = "insert" => x.due = {}
      PROVE  DueInv'
  <2>1. \A g \in Handlers : handler'[g] = IF g = h THEN x ELSE handler[g]
    BY <1>1 DEF TypeOK
  <2>2. QED
    BY <1>1, <2>1 DEF DueInv
<1>a. \A h \in Handlers : handler[h] \in HandlerState
  BY DEF TypeOK
<1>2. CASE UNCHANGED vars
  BY <1>2 DEF vars, DueInv
<1>3. ASSUME NEW r \in Requests, RequestStep(r) PROVE DueInv'
  BY <1>1, <1>3 DEF RequestStep, UpdateStatus, InitiatePayment, OpenDispute, Assign, Start, Idle,
                    Handlers
<1>4. CASE JobStep
  BY <1>1, <1>4 DEF JobStep, LoadBatch, Assign, Start, Idle, Handlers
<1>5. ASSUME NEW h \in Handlers, CheckDispute(h) PROVE DueInv'
  <2>1. PICK x \in {[handler[h] EXCEPT !.phase = "ready"], Idle} :
          handler' = [handler EXCEPT ![h] = x]
    BY <1>5 DEF CheckDispute, Assign
  <2>2. /\ x.op = "expire" => x.by = "system"
        /\ x.phase \notin {"enqueue", "insert"}
    BY <1>a, <2>1 DEF DueInv, HandlerState, Idle
  <2>3. QED
    BY <1>1, <2>1, <2>2
<1>6. ASSUME NEW h \in Handlers, SaveSelect(h) PROVE DueInv'
  <2>1. PICK o \in handler[h].todo :
          handler' = [handler EXCEPT ![h] =
                        [handler[h] EXCEPT !.phase = "selected", !.order = o,
                                           !.todo = @ \ {o},
                                           !.dirty = Dirty(EntityOf(h, o), row[o])]]
    BY <1>6 DEF SaveSelect, Assign
  <2> DEFINE x == [handler[h] EXCEPT !.phase = "selected", !.order = o, !.todo = @ \ {o},
                                     !.dirty = Dirty(EntityOf(h, o), row[o])]
  <2>2. x.phase = "selected" /\ x.op = handler[h].op /\ x.by = handler[h].by
    BY <1>a DEF HandlerState
  <2>. HIDE DEF x
  <2>3. QED
    BY <1>1, <2>1, <2>2 DEF DueInv, x
<1>b. ASSUME NEW h \in Handlers
      PROVE  /\ Continue(h).phase \notin {"enqueue", "insert"}
             /\ Continue(h).op = "expire" => Continue(h).by = "system"
  BY <1>a DEF Continue, Idle, DueInv, HandlerState
<1>7. ASSUME NEW h \in Handlers, SaveUpdate(h) PROVE DueInv'
  <2> DEFINE y == AfterUpdate(h)
  <2>1. handler' = [handler EXCEPT ![h] = y]
    BY <1>7 DEF SaveUpdate, Assign
  <2>2. y.op = "expire" => y.by = "system"
    BY <1>b, AfterUpdateCases DEF DueInv
  <2>3. y.phase = "enqueue" => y.op = "complete"
    BY AfterUpdateCases DEF AfterSave
  <2>4. y.phase = "insert" => y.due = {}
    BY AfterUpdateCases DEF AfterSave, Recipients, ScheduledJobs
  <2>. HIDE DEF y
  <2>5. QED
    BY <1>1, <2>1, <2>2, <2>3, <2>4
<1>8. ASSUME NEW h \in Handlers, Announce(h) PROVE DueInv'
  <2>1. PICK x : /\ handler' = [handler EXCEPT ![h] = x]
                 /\ \/ x = Continue(h)
                    \/ \E rest : x = [handler[h] EXCEPT !.due = rest]
                    \/ x = [handler[h] EXCEPT !.phase = "enqueue", !.due = {}]
    BY <1>8 DEF Announce, Assign
  <2>2. handler[h].phase = "announce"
    BY <1>8 DEF Announce
  <2>3. /\ x.op = "expire" => x.by = "system"
        /\ x.phase = "enqueue" => x.due = {}
        /\ x.phase # "insert"
    BY <1>a, <1>b, <2>1, <2>2 DEF DueInv, HandlerState
  <2>4. QED
    BY <1>1, <2>1, <2>3
<1>9. ASSUME NEW h \in Handlers, Enqueue(h) PROVE DueInv'
  <2>1. PICK x : /\ handler' = [handler EXCEPT ![h] = x]
                 /\ x = Continue(h) \/ x = [handler[h] EXCEPT !.phase = "announce"]
    BY <1>9 DEF Enqueue, Assign
  <2>2. /\ x.op = "expire" => x.by = "system"
        /\ x.phase \notin {"enqueue", "insert"}
    BY <1>a, <1>b, <2>1 DEF DueInv, HandlerState
  <2>3. QED
    BY <1>1, <2>1, <2>2
<1>10. ASSUME NEW h \in Handlers, InsertDispute(h) \/ Fail(h) PROVE DueInv'
  BY <1>1, <1>10 DEF InsertDispute, Fail, Assign, Idle
<1>11. QED
  BY <1>2, <1>3, <1>4, <1>5, <1>6, <1>7, <1>8, <1>9, <1>10 DEF Next, HandlerStep

\* A step of one handler that keeps whom the orders were told of, and leaves to
\* the handler what it still has to tell.
LEMMA ToldLocal ==
  ASSUME TypeOK, ToldInv, NEW h \in Handlers, NEW x,
         handler' = [handler EXCEPT ![h] = x],
         UNCHANGED <<stale, history>>,
         cut \subseteq cut',
         \A o \in Orders : told[o] \subseteq told'[o],
         \A o \in Orders \ cut' : \A e \in history[o] : \A party \in Party \ {e.by} :
           Tells(handler[h], o, e, party) => Told(o, e, party)' \/ Tells(x, o, e, party)
  PROVE  ToldInv'
<1>1. Intact' = Intact /\ Intact \subseteq Orders
  BY DEF Intact
<1>2. \A g \in Handlers : handler'[g] = IF g = h THEN x ELSE handler[g]
  BY DEF TypeOK
<1>3. \A o \in Orders : \A e, party : Told(o, e, party) => Told(o, e, party)'
  BY DEF Told
<1>4. SUFFICES ASSUME NEW o \in Intact \ cut', NEW e \in history[o],
                      NEW party \in Party \ {e.by}, e.status # "disputed"
               PROVE  \/ Told(o, e, party)'
                      \/ \E g \in Handlers : Tells(handler'[g], o, e, party)
  BY <1>1 DEF ToldInv, Tells
<1>5. o \in Intact \ cut /\ o \in Orders \ cut'
  BY <1>1, <1>4
<1>6. Told(o, e, party) \/ \E g \in Handlers : Tells(handler[g], o, e, party)
  BY <1>4, <1>5 DEF ToldInv
<1>7. CASE Told(o, e, party)
  BY <1>3, <1>5, <1>7
<1>8. ASSUME NEW g \in Handlers, Tells(handler[g], o, e, party)
      PROVE  \/ Told(o, e, party)'
             \/ \E f \in Handlers : Tells(handler'[f], o, e, party)
  <2>1. CASE g # h
    BY <1>2, <1>8, <2>1
  <2>2. CASE g = h
    BY <1>2, <1>4, <1>5, <1>8, <2>2
  <2>3. QED
    BY <2>1, <2>2
<1>9. QED
  BY <1>6, <1>7, <1>8

LEMMA ToldSaveUpdate ==
  ASSUME TypeOK, CustodyInv, SettledInv, ToldInv, NEW h \in Handlers, SaveUpdate(h)
  PROVE  ToldInv'
<1> DEFINE x == handler[h]
           y == AfterUpdate(h)
<1>0. PICK o \in Orders : o = x.order
  BY DEF SaveUpdate, TypeOK, Saving
<1>1. /\ x \in HandlerState /\ x.op \in Op /\ x.to \in Status /\ row[o] \in OrderRow
      /\ x.phase = "selected"
  BY DEF TypeOK, HandlerState, SaveUpdate
<1>2. /\ told' = told /\ cut' = cut
      /\ handler' = [handler EXCEPT ![h] = y]
  BY DEF SaveUpdate, Assign
<1>3. \A g \in Handlers : handler'[g] = IF g = h THEN y ELSE handler[g]
  BY <1>2 DEF TypeOK
<1>4. SUFFICES ASSUME NEW p \in Intact' \ cut, NEW e \in history'[p],
                      NEW party \in Party \ {e.by}, e.status # "disputed"
               PROVE  \/ Told(p, e, party)
                      \/ \E g \in Handlers : Tells(handler'[g], p, e, party)
  BY <1>2 DEF ToldInv, Told, Tells
<1>5. p \in Orders
  BY <1>4 DEF Intact
<1>6. CASE p \in Intact /\ e \in history[p]
  <2>1. Told(p, e, party) \/ \E g \in Handlers : Tells(handler[g], p, e, party)
    BY <1>4, <1>6 DEF ToldInv
  <2>2. ~Tells(x, p, e, party)
    BY <1>1 DEF Tells, AfterSave
  <2>3. QED
    BY <1>3, <2>1, <2>2
<1>7. CASE p # o
  <2>1. history'[p] = history[p] /\ stale'[p] = stale[p]
    BY <1>0, <1>5, <1>7, UndisturbedSave
  <2>2. p \in Intact /\ e \in history[p]
    BY <1>4, <1>5, <2>1 DEF Intact
  <2>3. QED
    BY <1>6, <2>2
<1>8. CASE p = o /\ e \notin history[o]
  <2>1. /\ o \in Intact /\ row'[o] = Entity(x.op, x.to, row[o])
        /\ Lawful(x.op, x.by, row[o].status, x.to)
        /\ history'[o] = IF Entity(x.op, x.to, row[o]).status # row[o].status
                         THEN history[o] \cup {[status |-> x.to, by |-> x.by]}
                         ELSE history[o]
    BY <1>0, <1>4, <1>8, UndisturbedSave
  <2>2. /\ Entity(x.op, x.to, row[o]).status # row[o].status
        /\ e = [status |-> x.to, by |-> x.by]
    BY <1>4, <1>8, <2>1
  <2>3. x.op # "pay"
    BY <1>1, <2>2 DEF Entity, OrderRow, Row
  <2>4. x.op # "dispute"
    BY <1>4, <2>1, <2>2 DEF Lawful
  <2>5. party \in Recipients(x.op, x.by)
    <3>1. party \in Party /\ party # x.by
      BY <1>4, <2>2
    <3>2. CASE x.op = "update"
      BY <2>1, <3>1, <3>2 DEF Recipients, Lawful, Party, Other
    <3>3. CASE x.op \in ScheduledJobs
      BY <3>1, <3>3 DEF Recipients, ScheduledJobs
    <3>4. QED
      BY <1>1, <2>3, <2>4, <3>2, <3>3 DEF Op
  <2>6. /\ y.to = x.to /\ y.order = o /\ y.by = x.by /\ y.due = Recipients(x.op, x.by)
        /\ y.phase \in AfterSave
    BY <1>0, <2>3, AfterUpdateCases DEF AfterSave
  <2>. HIDE DEF y
  <2>7. Tells(y, o, e, party)
    BY <2>2, <2>5, <2>6 DEF Tells
  <2>8. QED
    BY <1>3, <1>8, <2>7
<1>9. CASE p = o /\ e \in history[o]
  <2>1. o \in Intact
    BY <1>0, <1>4, <1>9, UndisturbedSave
  <2>2. QED
    BY <1>6, <1>9, <2>1
<1>10. QED
  BY <1>7, <1>8, <1>9

LEMMA ToldAnnounce ==
  ASSUME TypeOK, DueInv, ToldInv, NEW h \in Handlers, Announce(h)
  PROVE  ToldInv'
<1> DEFINE x == handler[h]
           first == IF "requester" \in x.due THEN "requester" ELSE "traveler"
           rest == x.due \ {first}
           message == [to |-> first, label |-> Label(h)]
<1>0. PICK o \in Orders : o = x.order
  BY DEF Announce, TypeOK, Saving, AfterSave
<1>1. x \in HandlerState /\ x.phase = "announce"
  BY DEF TypeOK, Announce
<1>2. /\ told' = [told EXCEPT ![o] = @ \cup {message}]
      /\ UNCHANGED <<stale, history, cut>>
  BY <1>0 DEF Announce
<1>3. PICK y : /\ handler' = [handler EXCEPT ![h] = y]
               /\ y = [x EXCEPT !.due = rest] \/ rest = {}
  BY DEF Announce, Assign
<1>4. \A p \in Orders : told[p] \subseteq told'[p]
  BY <1>2 DEF TypeOK
<1>5. ASSUME NEW p \in Orders \ cut', NEW e \in history[p], NEW party \in Party \ {e.by},
             Tells(x, p, e, party)
      PROVE  Told(p, e, party)' \/ Tells(y, p, e, party)
  <2>1. p = o /\ x.to = e.status /\ x.by = e.by /\ party \in x.due
    BY <1>0, <1>5 DEF Tells
  <2>2. CASE party = first
    <3>1. message \in told'[o] /\ message.to = party
      BY <1>2, <2>2 DEF TypeOK
    <3>2. message.label = e.status \/ (message.label = "expired" /\ e.by = "system")
      BY <2>1 DEF Label, DueInv
    <3>. HIDE DEF message
    <3>3. QED
      BY <2>1, <3>1, <3>2 DEF Told
  <2>3. CASE party # first
    <3>1. party \in rest
      BY <2>1, <2>3
    <3>2. y = [x EXCEPT !.due = rest]
      BY <1>3, <3>1
    <3>3. /\ y.phase = x.phase /\ y.order = x.order /\ y.to = x.to /\ y.by = x.by
          /\ y.due = rest
      BY <1>1, <3>2 DEF HandlerState
    <3>. HIDE DEF rest
    <3>4. QED
      BY <1>5, <3>1, <3>3 DEF Tells
  <2>4. QED
    BY <2>2, <2>3
<1>. HIDE DEF rest, message
<1>6. QED
  BY <1>2, <1>3, <1>4, <1>5, ToldLocal

LEMMA ToldStep ==
  OrderInv /\ DueInv /\ ToldInv /\ [Next]_vars => ToldInv'
<1> SUFFICES ASSUME OrderInv, DueInv, ToldInv, [Next]_vars PROVE ToldInv'
  OBVIOUS
<1>0. TypeOK /\ CustodyInv /\ SettledInv
  BY DEF OrderInv
<1>1. CASE UNCHANGED vars
  BY <1>1 DEF vars, ToldInv, Intact, Told, Tells
<1>2. ASSUME NEW h \in Handlers, NEW x, handler' = [handler EXCEPT ![h] = x],
             UNCHANGED <<stale, history, told>>, cut \subseteq cut',
             \A o \in Orders \ cut' : \A e, party :
               ~Tells(handler[h], o, e, party) \/ Tells(x, o, e, party)
      PROVE  ToldInv'
  BY <1>0, <1>2, ToldLocal
<1>3. ASSUME NEW h \in Handlers, Quiet(h) PROVE ToldInv'
  <2>1. \A o, e, party : ~Tells(handler[h], o, e, party)
    BY <1>3 DEF Quiet, Tells
  <2>2. QED
    BY <1>2, <1>3, <2>1 DEF Quiet, Tables
<1>4. ASSUME NEW h \in Handlers, SaveUpdate(h) PROVE ToldInv'
  BY <1>0, <1>4, ToldSaveUpdate
<1>5. ASSUME NEW h \in Handlers, Announce(h) PROVE ToldInv'
  BY <1>0, <1>5, ToldAnnounce
<1>6. ASSUME NEW h \in Handlers, Enqueue(h) PROVE ToldInv'
  <2>1. PICK x : /\ handler' = [handler EXCEPT ![h] = x]
                 /\ \/ handler[h].op # "complete"
                    \/ x = [handler[h] EXCEPT !.phase = "announce"]
    BY <1>6 DEF Enqueue, Assign
  <2>2. handler[h] \in HandlerState /\ handler[h].phase = "enqueue"
        /\ UNCHANGED <<stale, history, told, cut>>
    BY <1>0, <1>6 DEF Enqueue, TypeOK
  <2>3. ASSUME NEW o, NEW e, NEW party, Tells(handler[h], o, e, party)
        PROVE  Tells(x, o, e, party)
    <3>1. handler[h].due # {}
      BY <2>3 DEF Tells
    <3>2. x = [handler[h] EXCEPT !.phase = "announce"]
      BY <2>1, <2>2, <3>1 DEF DueInv
    <3>3. QED
      BY <2>2, <2>3, <3>2 DEF Tells, HandlerState, AfterSave
  <2>4. QED
    BY <1>2, <2>1, <2>2, <2>3
<1>7. ASSUME NEW h \in Handlers, InsertDispute(h) PROVE ToldInv'
  <2>1. \A o, e, party : ~Tells(handler[h], o, e, party)
    BY <1>7 DEF InsertDispute, Tells, DueInv
  <2>2. QED
    BY <1>2, <1>7, <2>1 DEF InsertDispute, Assign
<1>8. ASSUME NEW h \in Handlers, Fail(h) PROVE ToldInv'
  <2>1. /\ handler' = [handler EXCEPT ![h] = Idle]
        /\ UNCHANGED <<stale, history, told>> /\ cut \subseteq cut'
        /\ handler[h].phase \in AfterSave => handler[h].order \in cut'
    BY <1>8 DEF Fail, Assign
  <2>2. \A o \in Orders \ cut' : \A e, party : ~Tells(handler[h], o, e, party)
    BY <2>1 DEF Tells
  <2>3. QED
    BY <1>2, <2>1, <2>2
<1>9. QED
  BY <1>0, <1>1, <1>3, <1>4, <1>5, <1>6, <1>7, <1>8, StepCases

\* Every change of status but a dispute reaches the parties that did not make it,
\* unless the handler died that was to tell them, or a stale save hit the order.
THEOREM EveryChangeAnnouncedHolds == Spec => []EveryChangeAnnounced
<1>1. Init => DueInv /\ ToldInv
  BY DEF Init, DueInv, ToldInv, Idle, Intact
<1>2. ToldInv => EveryChangeAnnounced
  <2> SUFFICES ASSUME ToldInv, NEW o \in Intact \ cut, NEW e \in history[o],
                      e.status # "disputed", ~Announcing(o, e.status),
                      NEW party \in Party \ {e.by}
               PROVE  \E n \in told[o] : /\ n.to = party
                                         /\ \/ n.label = e.status
                                            \/ n.label = "expired" /\ e.by = "system"
    BY DEF EveryChangeAnnounced
  <2>1. \A h \in Handlers : ~Tells(handler[h], o, e, party)
    BY DEF Tells, Announcing
  <2>2. Told(o, e, party)
    BY <2>1 DEF ToldInv
  <2>3. QED
    BY <2>2 DEF Told
<1>3. OrderInv => TypeOK
  BY DEF OrderInv
<1>4. QED
  BY <1>1, <1>2, <1>3, OrderInvHolds, DueStep, ToldStep, PTL DEF Spec

=============================================================================
