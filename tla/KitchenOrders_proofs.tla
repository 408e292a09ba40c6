------------------------ MODULE KitchenOrders_proofs ------------------------
(***************************************************************************)
(* Proofs about KitchenOrders, for any orders, tenants, requests and kinds *)
(* of order.                                                               *)
(***************************************************************************)
EXTENDS KitchenOrders, TLAPS

-----------------------------------------------------------------------------
(* What the pure functions of OrderLifecycle return. *)

LEMMA NewOrderType ==
  ASSUME NEW t \in Tenant, NEW f \in Fulfillment, NEW c \in Channel
  PROVE  NewOrder(t, f, c) \in OrderRow
BY DEF NewOrder, OrderRow, Status, Arrival, Stamp

LEMMA DemoRowType ==
  ASSUME NEW t \in Tenant, NEW o
  PROVE  DemoRow(t, o) \in OrderRow
<1>1. /\ NewOrder(t, "pickup", "remote") \in OrderRow
      /\ NewOrder(t, "pickup", "tablet") \in OrderRow
      /\ NewOrder(t, "delivery", "remote") \in OrderRow
  BY NewOrderType DEF Fulfillment, Channel
<1>2. QED BY <1>1 DEF DemoRow, OrderRow, Status, Stamp

LEMMA NoOrderIsNoRow == NoOrder \notin OrderRow
BY DEF NoOrder, OrderRow, Status

LEMMA NextStatusType ==
  ASSUME NEW row \in OrderRow, NEW requested \in Requested
  PROVE  ComputeNextStatus(row, requested) \in Status \cup {Conflict}
BY DEF ComputeNextStatus, ReadyTarget, Requested, Status

LEMMA StampsType == \A target : StampsOf(target) \in SUBSET Stamp
BY DEF StampsOf

LEMMA CourierRowType ==
  ASSUME NEW row \in OrderRow, NEW event
  PROVE  CourierRow(row, event) \in OrderRow
<1>1. event \in StatusEvent => CourierTarget(event) \in Status
  BY DEF StatusEvent, CourierTarget, Status
<1>2. QED BY <1>1 DEF CourierRow, OrderRow, Stamp

-----------------------------------------------------------------------------
(* Every action but the creations and refire is a step of one handler.     *)

LEMMA UpsertType ==
  ASSUME TypeOK, NEW rows, DOMAIN rows \subseteq Order,
         \A o \in DOMAIN rows : rows[o] \in OrderRow, Upsert(rows)
  PROVE  TypeOK'
<1>1. orders' \in [Order -> OrderRow \cup {NoOrder}]
  BY DEF TypeOK, Upsert
<1>2. audit' \in [Order -> SUBSET AuditAction]
  BY DEF TypeOK, Upsert, AuditAction
<1>3. view' \in [Req -> {"current", "overtaken", "recreated"}]
  BY DEF TypeOK, Upsert
<1>4. QED BY <1>1, <1>2, <1>3 DEF TypeOK, Upsert

LEMMA BeginType ==
  ASSUME TypeOK, NEW r \in Req, NEW op, NEW t, NEW o, NEW aim,
         [pc |-> "write", op |-> op, tenant |-> t, order |-> o, aim |-> aim] \in Handler,
         Begin(r, op, t, o, aim)
  PROVE  TypeOK'
BY DEF TypeOK, Begin

LEMMA ApplyType ==
  ASSUME TypeOK, NEW r \in Req, reqs[r] \in Handler, NEW row, NEW next,
         Matches(reqs[r].tenant, reqs[r].order) => row \in OrderRow,
         next \in Handler \cup {Idle, Done}, Apply(r, row, next)
  PROVE  /\ orders' \in [Order -> OrderRow \cup {NoOrder}]
         /\ reqs' \in [Req -> Handler \cup {Idle, Done}]
         /\ view' \in [Req -> {"current", "overtaken", "recreated"}]
         /\ mixed' \subseteq Order
<1>1. reqs[r].order \in Order BY DEF Handler, HandlerOf
<1>2. orders' \in [Order -> OrderRow \cup {NoOrder}]
  BY <1>1 DEF TypeOK, Apply
<1>3. reqs' \in [Req -> Handler \cup {Idle, Done}]
  BY DEF TypeOK, Apply
<1>4. view' \in [Req -> {"current", "overtaken", "recreated"}]
  BY DEF TypeOK, Apply
<1>5. mixed' \subseteq Order
  BY <1>1 DEF TypeOK, Apply
<1>6. QED BY <1>2, <1>3, <1>4, <1>5

-----------------------------------------------------------------------------
(***************************************************************************)
(* Type correctness.  In particular a request that computeNextStatus       *)
(* refuses is never written to the row.                                    *)
(***************************************************************************)
LEMMA ReadType ==
  ASSUME TypeOK, NEW r \in Req, Read(r)
  PROVE  TypeOK'
<1> SUFFICES ASSUME NEW t \in Tenant, NEW o \in Order,
                    \/ \E s \in Requested : ReadStatus(r, t, o, s)
                    \/ ReadArrival(r, t, o)
                    \/ \E e \in CourierEvent : ReadCourier(r, t, o, e)
                    \/ ReadPickup(r, t, o)
                    \/ ReadEdit(r, t, o)
             PROVE  TypeOK'
  BY DEF Read
<1>1. Visible(t, o) => orders[o] \in OrderRow
  BY DEF Visible, Present, TypeOK
<1>2. ASSUME NEW s \in Requested, ReadStatus(r, t, o, s) PROVE TypeOK'
  <2>1. ComputeNextStatus(orders[o], s) \in Status
    BY <1>1, <1>2, NextStatusType DEF ReadStatus, Accepts
  <2>2. QED BY <2>1, <1>2, BeginType DEF ReadStatus, Handler, HandlerOf
<1>3. CASE ReadArrival(r, t, o)
  <2>1. (IF orders[o].status = "ready_waiting_arrival" THEN "ready_for_handoff"
                                                       ELSE orders[o].status) \in Status
    BY <1>1, <1>3 DEF ReadArrival, OrderRow, Status
  <2>2. QED BY <2>1, <1>3, BeginType DEF ReadArrival, Handler, HandlerOf
<1>4. ASSUME NEW e \in CourierEvent, ReadCourier(r, t, o, e) PROVE TypeOK'
  BY <1>4, BeginType DEF ReadCourier, Handler, HandlerOf
<1>5. CASE ReadPickup(r, t, o)
  BY <1>5, BeginType DEF ReadPickup, Handler, HandlerOf
<1>6. CASE ReadEdit(r, t, o)
  BY <1>6, BeginType DEF ReadEdit, Handler, HandlerOf
<1>7. QED BY <1>2, <1>3, <1>4, <1>5, <1>6

LEMMA HandlerFields ==
  ASSUME TypeOK, NEW r \in Req, reqs[r].pc \in {"write", "audit", "lost"}
  PROVE  /\ reqs[r] \in Handler
         /\ reqs[r].order \in Order
         /\ reqs[r].op \in {"status", "arrival"} => reqs[r].aim \in Status
         /\ reqs[r].op = "courier" => reqs[r].aim \in CourierEvent
         /\ reqs[r].op # "edit" => [reqs[r] EXCEPT !.pc = "audit"] \in Handler
BY DEF TypeOK, Handler, HandlerOf, Idle, Done

LEMMA WriteType ==
  ASSUME TypeOK, NEW r \in Req, Write(r)
  PROVE  TypeOK'
<1> DEFINE o == reqs[r].order
           Row(row) == Matches(reqs[r].tenant, o) => row \in OrderRow
<1>1. reqs[r].pc = "write"
  BY DEF Write, WriteStatus, WriteArrival, WriteCourier, WritePickup, EditTx, At
<1>2. reqs[r] \in Handler /\ o \in Order /\ Row(orders[o])
  BY <1>1, HandlerFields DEF Matches, Present, TypeOK
<1>3. reqs[r].op # "edit" => Audits(r) \in Handler
  BY <1>1, HandlerFields DEF Audits
<1>4. CASE WriteStatus(r)
  <2> DEFINE row == [orders[o] EXCEPT !.status = reqs[r].aim,
                                      !.stamps = @ \cup StampsOf(reqs[r].aim)]
  <2>1. reqs[r].op = "status" /\ reqs[r].aim \in Status
    BY <1>1, <1>4, HandlerFields DEF WriteStatus, At
  <2>2. Row(row)
    BY <1>2, <2>1, StampsType DEF OrderRow
  <2>3. Apply(r, row, Audits(r)) /\ UNCHANGED audit
    BY <1>4 DEF WriteStatus
  <2> HIDE DEF row
  <2>4. QED BY <1>2, <1>3, <2>1, <2>2, <2>3, ApplyType DEF TypeOK
<1>5. CASE WriteArrival(r)
  <2> DEFINE row == [orders[o] EXCEPT !.arrival = "arrived", !.status = reqs[r].aim]
  <2>1. reqs[r].op = "arrival" /\ reqs[r].aim \in Status
    BY <1>1, <1>5, HandlerFields DEF WriteArrival, At
  <2>2. Row(row)
    BY <1>2, <2>1 DEF OrderRow, Arrival
  <2>3. Apply(r, row, Audits(r)) /\ UNCHANGED audit
    BY <1>5 DEF WriteArrival
  <2> HIDE DEF row
  <2>4. QED BY <1>2, <1>3, <2>1, <2>2, <2>3, ApplyType DEF TypeOK
<1>6. CASE WriteCourier(r)
  <2> DEFINE row == CourierRow(orders[o], reqs[r].aim)
  <2>1. reqs[r].op = "courier"
    BY <1>6 DEF WriteCourier, At
  <2>2. Row(row)
    BY <1>2, CourierRowType
  <2>3. Apply(r, row, Audits(r)) /\ UNCHANGED audit
    BY <1>6 DEF WriteCourier
  <2> HIDE DEF row
  <2>4. QED BY <1>2, <1>3, <2>1, <2>2, <2>3, ApplyType DEF TypeOK
<1>7. CASE WritePickup(r)
  <2> DEFINE row == [orders[o] EXCEPT !.code = TRUE]
  <2>1. reqs[r].op = "pickup"
    BY <1>7 DEF WritePickup, At
  <2>2. Row(row)
    BY <1>2 DEF OrderRow
  <2>3. Apply(r, row, Audits(r)) /\ UNCHANGED audit
    BY <1>7 DEF WritePickup
  <2> HIDE DEF row
  <2>4. QED BY <1>2, <1>3, <2>1, <2>2, <2>3, ApplyType DEF TypeOK
<1>8. CASE EditTx(r)
  <2> DEFINE row == [orders[o] EXCEPT !.edited = TRUE]
  <2>1. Row(row)
    BY <1>2 DEF OrderRow
  <2>2. Apply(r, row, Done)
    BY <1>8 DEF EditTx
  <2>3. audit' \in [Order -> SUBSET AuditAction]
    BY <1>2, <1>8 DEF EditTx, TypeOK, AuditAction
  <2> HIDE DEF row
  <2>4. QED BY <1>2, <2>1, <2>2, <2>3, ApplyType DEF TypeOK
<1>9. QED BY <1>4, <1>5, <1>6, <1>7, <1>8 DEF Write

LEMMA NextType == TypeOK /\ [Next]_vars => TypeOK'
<1> SUFFICES ASSUME TypeOK, [Next]_vars PROVE TypeOK'
  OBVIOUS
<1>1. ASSUME NEW t \in Tenant, NEW o \in Order, NEW k \in Kinds, Create(t, o, k[1], k[2])
      PROVE  TypeOK'
  <2>1. k[1] \in Fulfillment /\ k[2] \in Channel
    BY KindsAssumption
  <2>2. QED BY <1>1, <2>1, NewOrderType, UpsertType DEF Create
<1>2. ASSUME NEW t \in Tenant, DemoSeed(t) PROVE TypeOK'
  BY <1>2, DemoRowType, UpsertType DEF DemoSeed
<1>3. ASSUME NEW o \in Order, Refire(o) PROVE TypeOK'
  BY <1>3 DEF Refire, TypeOK, AuditAction
<1>4. ASSUME NEW r \in Req, AppendAudit(r) PROVE TypeOK'
  <2>1. reqs[r].op # "edit" /\ AuditOf(reqs[r]) \in AuditAction
    BY <1>4 DEF AppendAudit, TypeOK, Handler, HandlerOf, AuditOf, AuditAction, Idle, Done
  <2>2. QED BY <1>4, <2>1, HandlerFields DEF AppendAudit, TypeOK
<1>5. ASSUME NEW r \in Req, Die(r) PROVE TypeOK'
  <2>1. reqs[r].pc = "audit" => [reqs[r] EXCEPT !.pc = "lost"] \in Handler
    BY DEF TypeOK, Handler, HandlerOf, Idle, Done
  <2>2. QED BY <1>5, <2>1 DEF Die, TypeOK
<1>6. CASE UNCHANGED vars
  BY <1>6 DEF vars, TypeOK
<1>7. QED
  BY <1>1, <1>2, <1>3, <1>4, <1>5, <1>6, ReadType, WriteType DEF Next, Creation

THEOREM TypeCorrect == Spec => []TypeOK
<1>1. Init => TypeOK
  BY DEF Init, TypeOK
<1>2. QED BY <1>1, NextType, PTL DEF Spec

-----------------------------------------------------------------------------
(***************************************************************************)
(* What a write does, in the terms the invariants need.  A handler writes  *)
(* its own order only; if the row changes, it is its own tenant's, keeps   *)
(* its identity, and gets the status Target(r).                            *)
(***************************************************************************)
Target(r) ==
  IF reqs[r].op \in {"status", "arrival"} THEN reqs[r].aim
  ELSE IF reqs[r].op = "courier" /\ reqs[r].aim \in StatusEvent
  THEN CourierTarget(reqs[r].aim) ELSE orders[reqs[r].order].status

WriteEffect(r) ==
  LET o == reqs[r].order
      changed == orders'[o] # orders[o]
  IN /\ reqs[r].pc = "write"
     /\ o \in Order
     /\ \A x \in Order : x # o => orders'[x] = orders[x]
     /\ \A x \in Req : x # r => reqs'[x] = reqs[x]
     /\ changed =>
          /\ Matches(reqs[r].tenant, o)
          /\ orders[o] \in OrderRow
          /\ orders'[o] \in OrderRow
          /\ orders'[o].tenant = orders[o].tenant
          /\ orders'[o].fulfillment = orders[o].fulfillment
          /\ orders'[o].channel = orders[o].channel
          /\ orders'[o].status = Target(r)
          /\ orders'[o].arrival = IF reqs[r].op = "arrival" THEN "arrived"
                                                           ELSE orders[o].arrival
          /\ orders[o].stamps \subseteq orders'[o].stamps
          /\ reqs[r].op \in {"status", "courier"} =>
               StampsOf(Target(r)) \subseteq orders'[o].stamps
          /\ orders'[o].edited # orders[o].edited => reqs[r].op = "edit"
     /\ mixed' = IF changed /\ view[r] = "recreated" THEN mixed \cup {o} ELSE mixed
     /\ view' = [x \in Req |->
                   IF x = r THEN "current"
                   ELSE IF changed /\ x \in Writing(o) /\ view[x] = "current"
                        THEN "overtaken" ELSE view[x]]
     /\ reqs'[r] = IF reqs[r].op = "edit" THEN Done ELSE [reqs[r] EXCEPT !.pc = "audit"]
     /\ \A x \in Order : audit[x] \subseteq audit'[x]

LEMMA ApplyEffect ==
  ASSUME TypeOK, NEW r \in Req, reqs[r] \in Handler, NEW row, NEW next,
         Apply(r, row, next)
  PROVE  LET o == reqs[r].order
             changed == orders'[o] # orders[o]
         IN /\ \A x \in Order : x # o => orders'[x] = orders[x]
            /\ \A x \in Req : x # r => reqs'[x] = reqs[x]
            /\ reqs'[r] = next
            /\ changed => Matches(reqs[r].tenant, o) /\ orders'[o] = row
            /\ mixed' = IF changed /\ view[r] = "recreated" THEN mixed \cup {o} ELSE mixed
            /\ view' = [x \in Req |->
                          IF x = r THEN "current"
                          ELSE IF changed /\ x \in Writing(o) /\ view[x] = "current"
                               THEN "overtaken" ELSE view[x]]
<1> DEFINE o == reqs[r].order
<1>1. o \in Order BY DEF Handler, HandlerOf
<1>2. orders' = IF Matches(reqs[r].tenant, o) /\ row # orders[o]
                THEN [orders EXCEPT ![o] = row] ELSE orders
  BY DEF Apply
<1>3. (orders'[o] # orders[o]) <=> (Matches(reqs[r].tenant, o) /\ row # orders[o])
  BY <1>1, <1>2 DEF TypeOK
<1>4. /\ \A x \in Order : x # o => orders'[x] = orders[x]
      /\ orders'[o] # orders[o] => orders'[o] = row
  BY <1>1, <1>2 DEF TypeOK
<1>5. /\ \A x \in Req : x # r => reqs'[x] = reqs[x]
      /\ reqs'[r] = next
  BY DEF TypeOK, Apply
<1>6. QED BY <1>3, <1>4, <1>5 DEF Apply

LEMMA WriteIsEffect ==
  ASSUME TypeOK, NEW r \in Req, Write(r)
  PROVE  WriteEffect(r)
<1> DEFINE o == reqs[r].order
<1>1. reqs[r].pc = "write"
  BY DEF Write, WriteStatus, WriteArrival, WriteCourier, WritePickup, EditTx, At
<1>2. /\ reqs[r] \in Handler
      /\ o \in Order
      /\ Matches(reqs[r].tenant, o) => orders[o] \in OrderRow
      /\ reqs[r].op \in {"status", "arrival"} => reqs[r].aim \in Status
  BY <1>1, HandlerFields DEF Matches, Present, TypeOK
<1>3. CASE WriteStatus(r)
  <2> DEFINE row == [orders[o] EXCEPT !.status = reqs[r].aim,
                                      !.stamps = @ \cup StampsOf(reqs[r].aim)]
  <2>1. Apply(r, row, Audits(r)) /\ UNCHANGED audit /\ reqs[r].op = "status"
    BY <1>3 DEF WriteStatus, At
  <2>2. orders[o] \in OrderRow =>
          /\ row \in OrderRow
          /\ row.tenant = orders[o].tenant
          /\ row.fulfillment = orders[o].fulfillment
          /\ row.channel = orders[o].channel
          /\ row.status = reqs[r].aim
          /\ row.arrival = orders[o].arrival
          /\ orders[o].stamps \subseteq row.stamps
          /\ StampsOf(reqs[r].aim) \subseteq row.stamps
          /\ row.edited = orders[o].edited
    BY <1>2, <2>1, StampsType DEF OrderRow, Arrival
  <2> HIDE DEF row
  <2>3. QED BY <1>1, <1>2, <2>1, <2>2, ApplyEffect DEF WriteEffect, Target, Audits
<1>4. CASE WriteArrival(r)
  <2> DEFINE row == [orders[o] EXCEPT !.arrival = "arrived", !.status = reqs[r].aim]
  <2>1. Apply(r, row, Audits(r)) /\ UNCHANGED audit /\ reqs[r].op = "arrival"
    BY <1>4 DEF WriteArrival, At
  <2>2. orders[o] \in OrderRow =>
          /\ row \in OrderRow
          /\ row.tenant = orders[o].tenant
          /\ row.fulfillment = orders[o].fulfillment
          /\ row.channel = orders[o].channel
          /\ row.status = reqs[r].aim
          /\ row.arrival = "arrived"
          /\ orders[o].stamps \subseteq row.stamps
          /\ row.edited = orders[o].edited
    BY <1>2, <2>1, StampsType DEF OrderRow, Arrival
  <2> HIDE DEF row
  <2>3. QED BY <1>1, <1>2, <2>1, <2>2, ApplyEffect DEF WriteEffect, Target, Audits
<1>5. CASE WriteCourier(r)
  <2> DEFINE row == CourierRow(orders[o], reqs[r].aim)
  <2>1. Apply(r, row, Audits(r)) /\ UNCHANGED audit /\ reqs[r].op = "courier"
    BY <1>5 DEF WriteCourier, At
  <2>2. reqs[r].aim \in StatusEvent =>
          StampsOf(CourierTarget(reqs[r].aim)) \subseteq
            (IF reqs[r].aim = "delivered" THEN {"deliveredAt"} ELSE {})
    BY DEF StatusEvent, CourierTarget, StampsOf, StatusStamp
  <2>3. orders[o] \in OrderRow =>
          /\ row \in OrderRow
          /\ row.tenant = orders[o].tenant
          /\ row.fulfillment = orders[o].fulfillment
          /\ row.channel = orders[o].channel
          /\ row.status = Target(r)
          /\ row.arrival = orders[o].arrival
          /\ orders[o].stamps \subseteq row.stamps
          /\ row # orders[o] => StampsOf(Target(r)) \subseteq row.stamps
          /\ row.edited = orders[o].edited
    BY <2>1, <2>2, CourierRowType DEF CourierRow, OrderRow, Target
  <2> HIDE DEF row
  <2>4. QED BY <1>1, <1>2, <2>1, <2>3, ApplyEffect DEF WriteEffect, Audits
<1>6. CASE WritePickup(r)
  <2> DEFINE row == [orders[o] EXCEPT !.code = TRUE]
  <2>1. Apply(r, row, Audits(r)) /\ UNCHANGED audit /\ reqs[r].op = "pickup"
    BY <1>6 DEF WritePickup, At
  <2>2. orders[o] \in OrderRow =>
          /\ row \in OrderRow
          /\ row.tenant = orders[o].tenant
          /\ row.fulfillment = orders[o].fulfillment
          /\ row.channel = orders[o].channel
          /\ row.status = orders[o].status
          /\ row.arrival = orders[o].arrival
          /\ orders[o].stamps \subseteq row.stamps
          /\ row.edited = orders[o].edited
    BY <1>2, <2>1, StampsType DEF OrderRow, Arrival
  <2> HIDE DEF row
  <2>3. QED BY <1>1, <1>2, <2>1, <2>2, ApplyEffect DEF WriteEffect, Target, Audits
<1>7. CASE EditTx(r)
  <2> DEFINE row == [orders[o] EXCEPT !.edited = TRUE]
  <2>1. Apply(r, row, Done) /\ reqs[r].op = "edit"
    BY <1>7 DEF EditTx, At
  <2>2. \A x \in Order : audit[x] \subseteq audit'[x]
    BY <1>2, <1>7 DEF EditTx, TypeOK
  <2>3. orders[o] \in OrderRow =>
          /\ row \in OrderRow
          /\ row.tenant = orders[o].tenant
          /\ row.fulfillment = orders[o].fulfillment
          /\ row.channel = orders[o].channel
          /\ row.status = orders[o].status
          /\ row.arrival = orders[o].arrival
          /\ orders[o].stamps \subseteq row.stamps
    BY DEF OrderRow
  <2> HIDE DEF row
  <2>4. QED BY <1>1, <1>2, <2>1, <2>2, <2>3, ApplyEffect DEF WriteEffect, Target
<1>8. QED BY <1>3, <1>4, <1>5, <1>6, <1>7 DEF Write

-----------------------------------------------------------------------------
(***************************************************************************)
(* The other steps in the same terms: a creation, a handler's read, and    *)
(* the steps that leave every row and every pending write alone.           *)
(***************************************************************************)
Fresh(o, row) ==
  /\ row \in OrderRow
  /\ row.status \in Initially(o)
  /\ StampsOf(row.status) \subseteq row.stamps
  /\ row.edited = FALSE

CreationEffect ==
  /\ UNCHANGED reqs
  /\ \A o \in Order : audit[o] \subseteq audit'[o]
  /\ \A r \in Req : view'[r] \in {view[r], "recreated"}
  /\ \A o \in Order :
       \/ orders'[o] = orders[o] /\ (o \in mixed => o \in mixed')
       \/ Fresh(o, orders'[o]) /\ \A r \in Writing(o) : view'[r] = "recreated"

Decided(req, row) ==
  /\ req.op = "status" =>
       \E s \in Requested : Accepts(row, s) /\ req.aim = ComputeNextStatus(row, s)
  /\ req.op = "arrival" =>
       /\ row.arrival = "waiting"
       /\ req.aim = IF row.status = "ready_waiting_arrival" THEN "ready_for_handoff"
                                                            ELSE row.status
  /\ req.op = "edit" => Editable(row)
  /\ req.op = "pickup" => row.fulfillment = "pickup"

ReadEffect(r) ==
  /\ UNCHANGED <<orders, audit, mixed>>
  /\ \A x \in Req : x # r => reqs'[x] = reqs[x] /\ view'[x] = view[x]
  /\ reqs[r] = Idle
  /\ reqs'[r].order \in Order
  /\ Visible(reqs'[r].tenant, reqs'[r].order)
  /\ Decided(reqs'[r], orders[reqs'[r].order])

NoEffect ==
  /\ UNCHANGED <<orders, mixed>>
  /\ \A o \in Order : audit[o] \subseteq audit'[o]
  /\ \A r \in Req : reqs'[r].pc = "write" => reqs'[r] = reqs[r] /\ view'[r] = view[r]

LEMMA NewOrderFresh ==
  ASSUME NEW t \in Tenant, NEW o, NEW f \in Fulfillment, NEW c \in Channel
  PROVE  Fresh(o, NewOrder(t, f, c))
<1>1. NewOrder(t, f, c) \in OrderRow
  BY NewOrderType
<1>2. QED BY <1>1 DEF Fresh, NewOrder, Initially, StampsOf, StatusStamp

LEMMA DemoRowFresh ==
  ASSUME NEW t \in Tenant, NEW o \in {Demo1, Demo2, Demo3}
  PROVE  Fresh(o, DemoRow(t, o))
<1>1. DemoRow(t, o) \in OrderRow
  BY DemoRowType
<1>2. /\ NewOrder(t, "pickup", "remote") \in OrderRow
      /\ NewOrder(t, "pickup", "tablet") \in OrderRow
      /\ NewOrder(t, "delivery", "remote") \in OrderRow
  BY NewOrderType DEF Fulfillment, Channel
<1>3. /\ o = Demo1 => DemoRow(t, o).status = "queued"
      /\ o = Demo2 => /\ DemoRow(t, o).status = "in_prep"
                      /\ DemoRow(t, o).stamps = {"startedAt"}
      /\ o = Demo3 => DemoRow(t, o).status = "out_for_delivery"
      /\ DemoRow(t, o).edited = FALSE
  BY <1>2, DemoIdsDistinct DEF DemoRow, NewOrder
<1>4. QED BY <1>1, <1>3 DEF Fresh, Initially, StampsOf, StatusStamp

LEMMA UpsertEffect ==
  ASSUME TypeOK, NEW rows, DOMAIN rows \subseteq Order,
         \A o \in DOMAIN rows : Fresh(o, rows[o]), Upsert(rows)
  PROVE  CreationEffect
<1>1. \A o \in Order : audit[o] \subseteq audit'[o]
  BY DEF Upsert
<1>2. \A r \in Req : view'[r] \in {view[r], "recreated"}
  BY DEF Upsert
<1>3. ASSUME NEW o \in Order, o \notin DOMAIN rows
      PROVE  orders'[o] = orders[o] /\ (o \in mixed => o \in mixed')
  BY <1>3 DEF Upsert
<1>4. ASSUME NEW o \in DOMAIN rows
      PROVE  Fresh(o, orders'[o]) /\ \A r \in Writing(o) : view'[r] = "recreated"
  BY <1>4 DEF Upsert, Writing
<1>5. QED BY <1>1, <1>2, <1>3, <1>4 DEF CreationEffect, Upsert

LEMMA BeginEffect ==
  ASSUME TypeOK, NEW r \in Req, NEW op, NEW t, NEW o \in Order, NEW aim,
         Visible(t, o), Begin(r, op, t, o, aim),
         Decided([pc |-> "write", op |-> op, tenant |-> t, order |-> o, aim |-> aim],
                 orders[o])
  PROVE  ReadEffect(r)
<1>1. reqs'[r] = [pc |-> "write", op |-> op, tenant |-> t, order |-> o, aim |-> aim]
  BY DEF Begin, TypeOK
<1>2. reqs'[r].tenant = t /\ reqs'[r].order = o
  BY <1>1
<1>3. /\ UNCHANGED <<orders, audit, mixed>>
      /\ \A x \in Req : x # r => reqs'[x] = reqs[x] /\ view'[x] = view[x]
      /\ reqs[r] = Idle
  BY DEF Begin, TypeOK
<1>4. Decided(reqs'[r], orders[o])
  BY <1>1
<1>5. QED BY <1>2, <1>3, <1>4 DEF ReadEffect

LEMMA ReadIsEffect ==
  ASSUME TypeOK, NEW r \in Req, Read(r)
  PROVE  ReadEffect(r)
<1>1. ASSUME NEW t \in Tenant, NEW o \in Order, NEW s \in Requested, ReadStatus(r, t, o, s)
      PROVE  ReadEffect(r)
  BY <1>1, BeginEffect DEF ReadStatus, Decided
<1>2. ASSUME NEW t \in Tenant, NEW o \in Order, ReadArrival(r, t, o)
      PROVE  ReadEffect(r)
  BY <1>2, BeginEffect DEF ReadArrival, Decided
<1>3. ASSUME NEW t \in Tenant, NEW o \in Order, NEW e \in CourierEvent,
             ReadCourier(r, t, o, e)
      PROVE  ReadEffect(r)
  BY <1>3, BeginEffect DEF ReadCourier, Decided
<1>4. ASSUME NEW t \in Tenant, NEW o \in Order, ReadPickup(r, t, o)
      PROVE  ReadEffect(r)
  BY <1>4, BeginEffect DEF ReadPickup, Decided
<1>5. ASSUME NEW t \in Tenant, NEW o \in Order, ReadEdit(r, t, o)
      PROVE  ReadEffect(r)
  BY <1>5, BeginEffect DEF ReadEdit, Decided
<1>6. QED BY <1>1, <1>2, <1>3, <1>4, <1>5 DEF Read

LEMMA StepEffect ==
  ASSUME TypeOK, [Next]_vars
  PROVE  \/ CreationEffect
         \/ \E r \in Req : ReadEffect(r)
         \/ \E r \in Req : WriteEffect(r)
         \/ NoEffect
<1>1. ASSUME NEW t \in Tenant, NEW o \in Order, NEW k \in Kinds, Create(t, o, k[1], k[2])
      PROVE  CreationEffect
  <2>1. k[1] \in Fulfillment /\ k[2] \in Channel
    BY KindsAssumption
  <2>2. QED BY <1>1, <2>1, NewOrderFresh, UpsertEffect DEF Create
<1>2. ASSUME NEW t \in Tenant, DemoSeed(t) PROVE CreationEffect
  BY <1>2, DemoRowFresh, UpsertEffect DEF DemoSeed
<1>3. ASSUME NEW o \in Order, Refire(o) PROVE NoEffect
  BY <1>3 DEF Refire, NoEffect, TypeOK
<1>4. ASSUME NEW r \in Req, AppendAudit(r) PROVE NoEffect
  BY <1>4, HandlerFields DEF AppendAudit, NoEffect, TypeOK, Done
<1>5. ASSUME NEW r \in Req, Die(r) PROVE NoEffect
  <2>1. reqs'[r].pc # "write"
    BY <1>5, HandlerFields DEF Die, TypeOK, Done, Handler, HandlerOf
  <2>2. QED BY <1>5, <2>1 DEF Die, NoEffect, TypeOK
<1>6. CASE UNCHANGED vars
  BY <1>6 DEF vars, NoEffect
<1>7. QED
  BY <1>1, <1>2, <1>3, <1>4, <1>5, <1>6, ReadIsEffect, WriteIsEffect DEF Next, Creation

-----------------------------------------------------------------------------
(***************************************************************************)
(* A decision that no other handler has overtaken is still the decision    *)
(* for the row as it is: the invariant behind the three action properties  *)
(* about a handler's stale view.                                           *)
(***************************************************************************)
CurrentDecision ==
  \A r \in Req :
    reqs[r].pc = "write" /\ view[r] = "current" =>
      /\ Visible(reqs[r].tenant, reqs[r].order)
      /\ Decided(reqs[r], orders[reqs[r].order])

LEMMA CurrentDecisionStays ==
  TypeOK /\ CurrentDecision /\ [Next]_vars => CurrentDecision'
<1> SUFFICES ASSUME TypeOK, CurrentDecision, [Next]_vars,
                    NEW r \in Req, reqs'[r].pc = "write", view'[r] = "current"
             PROVE  /\ Visible(reqs[r].tenant, reqs[r].order)'
                    /\ Decided(reqs'[r], orders'[reqs'[r].order])
  BY DEF CurrentDecision
<1>1. ASSUME reqs'[r] = reqs[r], view[r] = "current",
             orders'[reqs[r].order] = orders[reqs[r].order]
      PROVE  /\ Visible(reqs[r].tenant, reqs[r].order)'
             /\ Decided(reqs'[r], orders'[reqs'[r].order])
  BY <1>1 DEF CurrentDecision, Visible, Present
<1>2. CASE CreationEffect
  <2>1. reqs[r].order \in Order /\ r \in Writing(reqs[r].order)
    BY <1>2, HandlerFields DEF CreationEffect, Writing
  <2>2. view[r] = "current" /\ orders'[reqs[r].order] = orders[reqs[r].order]
    BY <1>2, <2>1 DEF CreationEffect
  <2>3. QED BY <1>1, <1>2, <2>2 DEF CreationEffect
<1>3. ASSUME NEW q \in Req, ReadEffect(q)
      PROVE  /\ Visible(reqs[r].tenant, reqs[r].order)'
             /\ Decided(reqs'[r], orders'[reqs'[r].order])
  <2>1. CASE r = q
    BY <1>3, <2>1 DEF ReadEffect, Visible, Present
  <2>2. CASE r # q
    BY <1>1, <1>3, <2>2 DEF ReadEffect
  <2>3. QED BY <2>1, <2>2
<1>4. ASSUME NEW q \in Req, WriteEffect(q)
      PROVE  /\ Visible(reqs[r].tenant, reqs[r].order)'
             /\ Decided(reqs'[r], orders'[reqs'[r].order])
  <2>1. r # q
    BY <1>4, HandlerFields DEF WriteEffect, Done, Handler, HandlerOf
  <2>2. reqs'[r] = reqs[r] /\ reqs[r].order \in Order
    BY <1>4, <2>1, HandlerFields DEF WriteEffect
  <2>3. view[r] = "current" /\ orders'[reqs[r].order] = orders[reqs[r].order]
    BY <1>4, <2>1, <2>2 DEF WriteEffect, Writing
  <2>4. QED BY <1>1, <2>2, <2>3
<1>5. CASE NoEffect
  BY <1>1, <1>5 DEF NoEffect
<1>6. QED BY <1>2, <1>3, <1>4, <1>5, StepEffect

THEOREM CurrentDecisionHolds == Spec => []CurrentDecision
<1>1. Init => CurrentDecision
  BY DEF Init, CurrentDecision, Idle
<1>2. QED BY <1>1, CurrentDecisionStays, TypeCorrect, PTL DEF Spec

(* A row that changes in a handler's step is changed by that handler's write. *)
LEMMA ActingWrites ==
  ASSUME TypeOK, [Next]_vars, NEW o \in Order, orders'[o] # orders[o]
  PROVE  \/ UNCHANGED reqs /\ Fresh(o, orders'[o])
         \/ \E r \in Req : Acting(r) /\ WriteEffect(r) /\ reqs[r].order = o
<1>1. CASE CreationEffect
  BY <1>1 DEF CreationEffect
<1>2. ASSUME NEW r \in Req, ReadEffect(r) PROVE FALSE
  BY <1>2 DEF ReadEffect
<1>3. ASSUME NEW r \in Req, WriteEffect(r)
      PROVE  Acting(r) /\ reqs[r].order = o
  BY <1>3, HandlerFields DEF WriteEffect, Acting, Done, Handler, HandlerOf
<1>4. CASE NoEffect
  BY <1>4 DEF NoEffect
<1>5. QED BY <1>1, <1>2, <1>3, <1>4, StepEffect

(***************************************************************************)
(* A handler never changes an order of another restaurant, whatever        *)
(* happened to the order since the handler read it.                        *)
(***************************************************************************)
THEOREM TenantIsolationHolds == Spec => TenantIsolation
<1>1. ASSUME TypeOK, [Next]_vars, NEW o \in Order, NEW r \in Req,
             Acting(r), orders'[o] # orders[o]
      PROVE  reqs[r].tenant = orders[o].tenant /\ orders'[o].tenant = orders[o].tenant
  <2>1. PICK q \in Req : WriteEffect(q) /\ reqs[q].order = o
    BY <1>1, ActingWrites DEF Acting
  <2>2. q = r
    BY <1>1, <2>1 DEF WriteEffect, Acting
  <2>3. QED BY <1>1, <2>1, <2>2 DEF WriteEffect, Matches
<1>2. TypeOK /\ [Next]_vars =>
        [\A o \in Order, r \in Req :
           Acting(r) /\ orders'[o] # orders[o]
             => /\ reqs[r].tenant = orders[o].tenant
                /\ orders'[o].tenant = orders[o].tenant]_vars
  BY <1>1
<1>3. QED BY <1>2, TypeCorrect, PTL DEF Spec, TenantIsolation

-----------------------------------------------------------------------------
(* What a decision that is still current can do to the row. *)

LEMMA CurrentStatus ==
  ASSUME NEW row \in OrderRow, NEW req, Decided(req, row), req.op = "status"
  PROVE  \/ req.aim = ReadyTarget(row)
         \/ /\ <<row.status, req.aim>> \in Allowed
            /\ req.aim # "ready_waiting_arrival"
<1>1. PICK s \in Requested : Accepts(row, s) /\ req.aim = ComputeNextStatus(row, s)
  BY DEF Decided
<1>2. s # "ready_for_handoff"
  BY DEF Requested
<1>3. QED BY <1>1, <1>2 DEF ComputeNextStatus, Accepts, Permits

LEMMA NothingAllowedFromTerminal ==
  ASSUME NEW from \in Terminal, NEW to
  PROVE  <<from, to>> \notin Allowed
BY DEF Terminal, Allowed

(* A step of CurrentWrite(r, o) writes o on a decision that is current. *)
CurrentWrite(r, o) ==
  /\ WriteEffect(r)
  /\ reqs[r].order = o
  /\ view[r] = "current"
  /\ orders[o] \in OrderRow
  /\ Decided(reqs[r], orders[o])

LEMMA ChangedBy ==
  ASSUME TypeOK, CurrentDecision, [Next]_vars, NEW o \in Order, orders'[o] # orders[o]
  PROVE  \/ UNCHANGED reqs /\ Fresh(o, orders'[o])
         \/ \E r \in Req : /\ Acting(r)
                           /\ WriteEffect(r) /\ reqs[r].order = o
                           /\ view[r] = "current" => CurrentWrite(r, o)
<1>1. ASSUME NEW r \in Req, WriteEffect(r), reqs[r].order = o, view[r] = "current"
      PROVE  CurrentWrite(r, o)
  <2>1. reqs[r].pc = "write" /\ orders[o] \in OrderRow
    BY <1>1 DEF WriteEffect
  <2>2. QED BY <1>1, <2>1 DEF CurrentDecision, CurrentWrite
<1>2. QED BY <1>1, ActingWrites

(***************************************************************************)
(* An order leaves a terminal status only by re-creation, by a courier     *)
(* event, by "ready", or by an overtaken decision.                         *)
(***************************************************************************)
THEOREM TerminalLeftHolds == Spec => TerminalLeft
<1> DEFINE Left(o, r) == /\ Acting(r)
                         /\ \/ reqs[r].op = "courier"
                            \/ view[r] # "current"
                            \/ /\ reqs[r].op = "status"
                               /\ reqs[r].aim = ReadyTarget(orders[o])
<1>1. ASSUME TypeOK, CurrentDecision, [Next]_vars, NEW o \in Order,
             orders[o].status \in Terminal, orders'[o].status # orders[o].status
      PROVE  UNCHANGED reqs \/ \E r \in Req : Left(o, r)
  <2>1. orders'[o] # orders[o]
    BY <1>1
  <2>2. ASSUME NEW r \in Req, Acting(r), CurrentWrite(r, o) PROVE Left(o, r)
    <3>1. orders'[o].status = Target(r) /\ Decided(reqs[r], orders[o])
      BY <2>1, <2>2 DEF CurrentWrite, WriteEffect
    <3>2. orders[o].status # "ready_waiting_arrival"
      BY <1>1 DEF Terminal
    <3>3. reqs[r].op # "arrival"
      BY <1>1, <2>2, <3>1, <3>2 DEF Target, Decided
    <3>4. reqs[r].op \in {"courier", "status"}
      BY <1>1, <2>2, <3>1, <3>3 DEF Target, CurrentWrite
    <3>5. reqs[r].op = "status" => reqs[r].aim = ReadyTarget(orders[o])
      BY <1>1, <2>2, CurrentStatus, NothingAllowedFromTerminal DEF CurrentWrite
    <3>6. QED BY <2>2, <3>4, <3>5
  <2>3. QED BY <1>1, <2>1, <2>2, ChangedBy
<1>2. TypeOK /\ CurrentDecision /\ [Next]_vars =>
        [\A o \in Order :
           /\ orders[o].status \in Terminal
           /\ orders'[o].status # orders[o].status
           => \/ UNCHANGED reqs
              \/ \E r \in Req :
                   /\ Acting(r)
                   /\ \/ reqs[r].op = "courier"
                      \/ view[r] # "current"
                      \/ /\ reqs[r].op = "status"
                         /\ reqs[r].aim = ReadyTarget(orders[o])]_vars
  BY <1>1
<1>3. QED BY <1>2, TypeCorrect, CurrentDecisionHolds, PTL DEF Spec, TerminalLeft

(***************************************************************************)
(* Unless the arrival has overtaken the decision, an order is put to wait  *)
(* only for a customer who is still to arrive.                             *)
(***************************************************************************)
THEOREM NoFalseWaitingHolds == Spec => NoFalseWaiting
<1> DEFINE Waits(o) == \/ orders'[o].arrival = "waiting"
                       \/ \E r \in Req : Acting(r) /\ view[r] # "current"
<1>1. ASSUME TypeOK, CurrentDecision, [Next]_vars, NEW o \in Order,
             orders'[o].status = "ready_waiting_arrival",
             orders[o].status # "ready_waiting_arrival"
      PROVE  Waits(o)
  <2>1. orders'[o] # orders[o]
    BY <1>1
  <2>2. ~Fresh(o, orders'[o])
    BY <1>1 DEF Fresh, Initially
  <2>3. ASSUME NEW r \in Req, CurrentWrite(r, o) PROVE Waits(o)
    <3>1. /\ orders'[o].status = Target(r) /\ Decided(reqs[r], orders[o])
          /\ orders'[o].arrival = IF reqs[r].op = "arrival" THEN "arrived"
                                                           ELSE orders[o].arrival
      BY <2>1, <2>3 DEF CurrentWrite, WriteEffect
    <3>2. reqs[r].op # "arrival"
      BY <1>1, <3>1 DEF Target, Decided
    <3>3. CourierTarget(reqs[r].aim) = "ready_waiting_arrival" =>
            reqs[r].aim \notin StatusEvent
      BY DEF CourierTarget, StatusEvent
    <3>4. reqs[r].op = "status" /\ reqs[r].aim = "ready_waiting_arrival"
      BY <1>1, <2>3, <3>1, <3>2, <3>3 DEF Target, CurrentWrite
    <3>5. ReadyTarget(orders[o]) = "ready_waiting_arrival"
      BY <2>3, <3>1, <3>4, CurrentStatus DEF CurrentWrite
    <3>6. orders[o].arrival = "waiting"
      BY <3>5 DEF ReadyTarget
    <3>7. QED BY <3>1, <3>2, <3>6
  <2>4. QED BY <1>1, <2>1, <2>2, <2>3, ChangedBy
<1>2. TypeOK /\ CurrentDecision /\ [Next]_vars =>
        [\A o \in Order :
           /\ orders'[o].status = "ready_waiting_arrival"
           /\ orders[o].status # "ready_waiting_arrival"
           => Waits(o)]_vars
  BY <1>1
<1>3. QED BY <1>2, TypeCorrect, CurrentDecisionHolds, PTL DEF Spec, NoFalseWaiting

(***************************************************************************)
(* Unless another handler has overtaken the edit's check, the items of an  *)
(* order that was served or delivered do not change.                       *)
(***************************************************************************)
THEOREM ServedItemsFrozenHolds == Spec => ServedItemsFrozen
<1>1. ASSUME TypeOK, CurrentDecision, [Next]_vars, NEW o \in Order,
             orders[o].status \in {"served", "delivered"},
             orders'[o].edited, ~orders[o].edited
      PROVE  \E r \in Req : Acting(r) /\ view[r] # "current"
  <2>1. orders'[o] # orders[o]
    BY <1>1
  <2>2. ~Fresh(o, orders'[o])
    BY <1>1 DEF Fresh
  <2>3. ASSUME NEW r \in Req, CurrentWrite(r, o) PROVE FALSE
    BY <1>1, <2>1, <2>3 DEF CurrentWrite, WriteEffect, Decided, Editable
  <2>4. QED BY <1>1, <2>1, <2>2, <2>3, ChangedBy
<1>2. TypeOK /\ CurrentDecision /\ [Next]_vars =>
        [\A o \in Order :
           /\ orders[o].status \in {"served", "delivered"}
           /\ orders'[o].edited /\ ~orders[o].edited
           => \E r \in Req : Acting(r) /\ view[r] # "current"]_vars
  BY <1>1
<1>3. QED BY <1>2, TypeCorrect, CurrentDecisionHolds, PTL DEF Spec, ServedItemsFrozen

-----------------------------------------------------------------------------
(***************************************************************************)
(* Sound rows.  ServedAfterArrival and StampedStatus are not inductive: a  *)
(* pending write must be known to keep them, whatever was written since    *)
(* its handler read the row.  That holds because arrivals are never        *)
(* undone and timestamps never cleared, except by a re-creation, which     *)
(* view and mixed record.                                                  *)
(***************************************************************************)
SoundRow(row) ==
  /\ row.status = "served" => HandoffPossible(row, "served")
  /\ StampsOf(row.status) \subseteq row.stamps

Harmless(req, row) ==
  /\ req.op = "status" => HandoffPossible(row, req.aim)
  /\ req.op = "arrival" => StampsOf(req.aim) \subseteq row.stamps

Sound ==
  \A o \in Order \ mixed :
    Present(o) =>
      /\ SoundRow(orders[o])
      /\ \A r \in Writing(o) : view[r] # "recreated" => Harmless(reqs[r], orders[o])

LEMMA FreshIsSound ==
  ASSUME NEW o, NEW row, Fresh(o, row)
  PROVE  SoundRow(row)
BY DEF Fresh, SoundRow, Initially

LEMMA DecidedIsHarmless ==
  ASSUME NEW row \in OrderRow, SoundRow(row), NEW req, Decided(req, row)
  PROVE  Harmless(req, row)
<1>1. req.op = "status" => HandoffPossible(row, req.aim)
  BY DEF Decided, Accepts
<1>2. StampsOf("ready_for_handoff") = StampsOf("ready_waiting_arrival")
  BY DEF StampsOf, StatusStamp
<1>3. req.op = "arrival" => StampsOf(req.aim) \subseteq row.stamps
  BY <1>2 DEF Decided, SoundRow
<1>4. QED BY <1>1, <1>3 DEF Harmless

(* A harmless write leaves the row sound and every other write harmless. *)
LEMMA WriteKeepsSound ==
  ASSUME NEW r \in Req, WriteEffect(r), NEW o, o = reqs[r].order,
         orders'[o] # orders[o], SoundRow(orders[o]), Harmless(reqs[r], orders[o])
  PROVE  /\ SoundRow(orders'[o])
         /\ \A req : Harmless(req, orders[o]) => Harmless(req, orders'[o])
<1>1. /\ orders'[o].fulfillment = orders[o].fulfillment
      /\ orders'[o].channel = orders[o].channel
      /\ orders'[o].status = Target(r)
      /\ orders'[o].arrival = IF reqs[r].op = "arrival" THEN "arrived"
                                                       ELSE orders[o].arrival
      /\ orders[o].stamps \subseteq orders'[o].stamps
      /\ reqs[r].op \in {"status", "courier"} =>
           StampsOf(Target(r)) \subseteq orders'[o].stamps
  BY DEF WriteEffect
<1>2. \A target : HandoffPossible(orders[o], target) => HandoffPossible(orders'[o], target)
  BY <1>1 DEF HandoffPossible
<1>3. Target(r) = "served" => HandoffPossible(orders'[o], "served")
  <2>1. CASE reqs[r].op = "arrival"
    BY <1>1, <2>1 DEF HandoffPossible
  <2>2. CASE reqs[r].op = "status"
    BY <1>2, <2>2 DEF Target, Harmless
  <2>3. CASE reqs[r].op \notin {"arrival", "status"}
    <3>1. reqs[r].aim \in StatusEvent => CourierTarget(reqs[r].aim) # "served"
      BY DEF StatusEvent, CourierTarget
    <3>2. QED BY <1>2, <2>3, <3>1 DEF Target, SoundRow
  <2>4. QED BY <2>1, <2>2, <2>3
<1>4. StampsOf(Target(r)) \subseteq orders'[o].stamps
  <2>1. CASE reqs[r].op = "arrival"
    BY <1>1, <2>1 DEF Target, Harmless
  <2>2. CASE reqs[r].op \in {"status", "courier"}
    BY <1>1, <2>2
  <2>3. CASE reqs[r].op \notin {"arrival", "status", "courier"}
    BY <1>1, <2>3 DEF Target, SoundRow
  <2>4. QED BY <2>1, <2>2, <2>3
<1>5. QED BY <1>1, <1>2, <1>3, <1>4 DEF SoundRow, Harmless

LEMMA SoundStays == TypeOK /\ Sound /\ [Next]_vars => Sound'
<1> SUFFICES ASSUME TypeOK, Sound, [Next]_vars,
                    NEW o \in Order, o \notin mixed', orders'[o] # NoOrder
             PROVE  /\ SoundRow(orders'[o])
                    /\ \A r \in Req :
                         reqs'[r].pc = "write" /\ reqs'[r].order = o
                           /\ view'[r] # "recreated"
                           => Harmless(reqs'[r], orders'[o])
  BY DEF Sound, Present, Writing
<1> DEFINE Kept(r) == reqs'[r] = reqs[r] /\ view'[r] = view[r]
           HarmlessNext(r) == reqs'[r].pc = "write" /\ reqs'[r].order = o
                                /\ view'[r] # "recreated"
                              => Harmless(reqs'[r], orders'[o])
<1>1. ASSUME orders'[o] = orders[o], o \notin mixed
      PROVE  /\ SoundRow(orders'[o])
             /\ \A r \in Req : Kept(r) => HarmlessNext(r)
  BY <1>1 DEF Sound, Present, Writing
<1>2. CASE CreationEffect
  <2>1. CASE orders'[o] = orders[o] /\ (o \in mixed => o \in mixed')
    <3>1. ASSUME NEW r \in Req PROVE HarmlessNext(r)
      BY <1>1, <1>2, <2>1 DEF CreationEffect
    <3>2. QED BY <1>1, <2>1, <3>1
  <2>2. CASE Fresh(o, orders'[o]) /\ \A r \in Writing(o) : view'[r] = "recreated"
    BY <1>2, <2>2, FreshIsSound DEF CreationEffect, Writing
  <2>3. QED BY <1>2, <2>1, <2>2 DEF CreationEffect
<1>3. ASSUME NEW q \in Req, ReadEffect(q)
      PROVE  SoundRow(orders'[o]) /\ \A r \in Req : HarmlessNext(r)
  <2>1. orders'[o] = orders[o] /\ o \notin mixed /\ orders[o] \in OrderRow
    BY <1>3 DEF ReadEffect, TypeOK
  <2>2. reqs'[q].order = o => Harmless(reqs'[q], orders[o])
    BY <1>1, <1>3, <2>1, DecidedIsHarmless DEF ReadEffect
  <2>3. QED BY <1>1, <1>3, <2>1, <2>2 DEF ReadEffect
<1>4. ASSUME NEW q \in Req, WriteEffect(q)
      PROVE  SoundRow(orders'[o]) /\ \A r \in Req : HarmlessNext(r)
  <2>1. mixed \subseteq mixed' /\ o \notin mixed
    BY <1>4 DEF WriteEffect
  <2>2. reqs'[q].pc # "write"
    BY <1>4, HandlerFields DEF WriteEffect, Done, Handler, HandlerOf
  <2>3. \A r \in Req \ {q} : reqs'[r] = reqs[r]
    BY <1>4 DEF WriteEffect
  <2>4. \A r \in Req \ {q} : view'[r] # "recreated" => view[r] # "recreated"
    BY <1>4 DEF WriteEffect
  <2>5. CASE orders'[o] = orders[o]
    BY <2>1, <2>2, <2>3, <2>4, <2>5 DEF Sound, Present, Writing
  <2>6. CASE orders'[o] # orders[o]
    <3>1. /\ o = reqs[q].order
          /\ view[q] # "recreated"
          /\ orders[o] \in OrderRow
          /\ reqs[q].pc = "write"
      BY <1>4, <2>6 DEF WriteEffect
    <3>2. orders[o] # NoOrder
      BY <3>1, NoOrderIsNoRow
    <3>3. SoundRow(orders[o]) /\ Harmless(reqs[q], orders[o])
      BY <2>1, <3>1, <3>2 DEF Sound, Present, Writing
    <3>4. /\ SoundRow(orders'[o])
          /\ \A req : Harmless(req, orders[o]) => Harmless(req, orders'[o])
      BY <1>4, <2>6, <3>1, <3>3, WriteKeepsSound
    <3>5. ASSUME NEW r \in Req \ {q}, reqs'[r].pc = "write", reqs'[r].order = o,
                 view'[r] # "recreated"
          PROVE  Harmless(reqs[r], orders[o])
      BY <2>1, <2>3, <2>4, <3>2, <3>5 DEF Sound, Present, Writing
    <3>6. QED BY <2>2, <2>3, <3>4, <3>5
  <2>7. QED BY <2>5, <2>6
<1>5. CASE NoEffect
  <2>1. orders'[o] = orders[o] /\ o \notin mixed
    BY <1>5 DEF NoEffect
  <2>2. QED BY <1>1, <1>5, <2>1 DEF NoEffect
<1>6. QED BY <1>2, <1>3, <1>4, <1>5, StepEffect

THEOREM SoundHolds == Spec => []Sound
<1>1. Init => Sound
  BY DEF Init, Sound, Present
<1>2. QED BY <1>1, SoundStays, TypeCorrect, PTL DEF Spec

(***************************************************************************)
(* No remote pickup order is served before its customer arrived, although  *)
(* the guard is evaluated one round trip before the write.                 *)
(***************************************************************************)
THEOREM ServedAfterArrivalHolds == Spec => []ServedAfterArrival
<1>1. Sound => ServedAfterArrival
  <2> SUFFICES ASSUME Sound, NEW o \in Order \ mixed, orders[o].status = "served"
               PROVE  HandoffPossible(orders[o], "served")
    BY DEF ServedAfterArrival
  <2>1. Present(o)
    BY DEF Present, NoOrder
  <2>2. QED BY <2>1 DEF Sound, SoundRow
<1>2. QED BY <1>1, SoundHolds, PTL

(***************************************************************************)
(* No order has a status whose timestamp is missing.                       *)
(***************************************************************************)
THEOREM StampedStatusHolds == Spec => []StampedStatus
<1>1. Sound => StampedStatus
  BY DEF Sound, SoundRow, StampedStatus
<1>2. QED BY <1>1, SoundHolds, PTL

-----------------------------------------------------------------------------
(***************************************************************************)
(* The audit trail.  What explains a status is never lost: entries stay,   *)
(* and a handler that owes an entry appends it or is counted as lost.      *)
(***************************************************************************)
Owes(r) == reqs[r].pc \in {"audit", "lost"}

LEMMA DebtsStay ==
  ASSUME TypeOK, [Next]_vars, NEW r \in Req, Owes(r)
  PROVE  \/ /\ reqs'[r].pc \in {"audit", "lost"}
            /\ reqs'[r].order = reqs[r].order
            /\ AuditOf(reqs'[r]) = AuditOf(reqs[r])
         \/ AuditOf(reqs[r]) \in audit'[reqs[r].order]
<1> DEFINE Stays == /\ reqs'[r].pc \in {"audit", "lost"}
                    /\ reqs'[r].order = reqs[r].order
                    /\ AuditOf(reqs'[r]) = AuditOf(reqs[r])
<1>1. reqs[r] \in Handler /\ reqs[r].order \in Order /\ reqs[r].pc \in {"audit", "lost"}
  BY HandlerFields DEF Owes
<1>2. reqs'[r] = reqs[r] => Stays
  BY <1>1
<1>3. ASSUME NEW q \in Req, Read(q) PROVE Stays
  <2>1. q # r
    BY <1>1, <1>3, ReadIsEffect DEF ReadEffect, Idle
  <2>2. QED BY <1>2, <1>3, <2>1, ReadIsEffect DEF ReadEffect
<1>4. ASSUME NEW q \in Req, Write(q) PROVE Stays
  <2>1. q # r
    BY <1>1, <1>4, WriteIsEffect DEF WriteEffect
  <2>2. QED BY <1>2, <1>4, <2>1, WriteIsEffect DEF WriteEffect
<1>5. ASSUME NEW q \in Req, AppendAudit(q)
      PROVE  Stays \/ AuditOf(reqs[r]) \in audit'[reqs[r].order]
  <2>1. CASE q = r
    BY <1>1, <1>5, <2>1 DEF AppendAudit, TypeOK
  <2>2. CASE q # r
    BY <1>2, <1>5, <2>2 DEF AppendAudit, TypeOK
  <2>3. QED BY <2>1, <2>2
<1>6. ASSUME NEW q \in Req, Die(q) PROVE Stays
  <2>1. CASE q = r
    <3>1. reqs'[r] = [reqs[r] EXCEPT !.pc = "lost"]
      BY <1>1, <1>6, <2>1 DEF Die, TypeOK
    <3>2. QED BY <1>1, <3>1 DEF AuditOf, Handler, HandlerOf
  <2>2. CASE q # r
    BY <1>2, <1>6, <2>2 DEF Die, TypeOK
  <2>3. QED BY <2>1, <2>2
<1>7. CASE UNCHANGED reqs
  BY <1>2, <1>7
<1>8. QED
  BY <1>3, <1>4, <1>5, <1>6, <1>7
  DEF Next, Creation, Create, DemoSeed, Upsert, Refire, vars

LEMMA AuditGrows ==
  ASSUME TypeOK, [Next]_vars, NEW o \in Order
  PROVE  audit[o] \subseteq audit'[o]
BY StepEffect DEF CreationEffect, ReadEffect, WriteEffect, NoEffect

LEMMA ExplainedStays ==
  ASSUME TypeOK, [Next]_vars, NEW o \in Order, NEW s, Explained(o, s)
  PROVE  Explained(o, s)'
<1>1. CASE s \in Initially(o)
  BY <1>1 DEF Explained
<1>2. CASE \E a \in audit[o] : StatusOf(a) = s
  BY <1>2, AuditGrows DEF Explained
<1>3. ASSUME NEW r \in Req, Owes(r), reqs[r].order = o, StatusOf(AuditOf(reqs[r])) = s
      PROVE  Explained(o, s)'
  BY <1>3, DebtsStay DEF Explained
<1>4. QED BY <1>1, <1>2, <1>3 DEF Explained, Owes

(***************************************************************************)
(* updateArrival writes back a status that it read: the invariant is       *)
(* inductive only if that status, too, stays explained.                    *)
(***************************************************************************)
ArrivalExplained ==
  \A r \in Req :
    At(r, "write", "arrival") =>
      reqs[r].aim = "ready_for_handoff" \/ Explained(reqs[r].order, reqs[r].aim)

LEMMA ArrivalExplainedStays ==
  TypeOK /\ StatusExplained /\ ArrivalExplained /\ [Next]_vars => ArrivalExplained'
<1> SUFFICES ASSUME TypeOK, StatusExplained, ArrivalExplained, [Next]_vars,
                    NEW r \in Req, reqs'[r].pc = "write", reqs'[r].op = "arrival",
                    reqs'[r].aim # "ready_for_handoff"
             PROVE  Explained(reqs[r].order, reqs[r].aim)'
  BY DEF ArrivalExplained, At
<1>1. CASE reqs'[r] = reqs[r]
  <2>1. Explained(reqs[r].order, reqs[r].aim) /\ reqs[r].order \in Order
    BY <1>1, HandlerFields DEF ArrivalExplained, At
  <2>2. ASSUME NEW o \in Order, NEW s, o = reqs[r].order, s = reqs[r].aim
        PROVE  Explained(o, s)'
    BY <2>1, <2>2, ExplainedStays
  <2>3. QED BY <1>1, <2>1, <2>2
<1>2. CASE ReadEffect(r)
  <2>1. /\ reqs'[r].order \in Order
        /\ Present(reqs'[r].order)
        /\ reqs'[r].aim = orders[reqs'[r].order].status
    BY <1>2 DEF ReadEffect, Decided, Visible
  <2>2. Explained(reqs'[r].order, reqs'[r].aim)
    BY <2>1 DEF StatusExplained
  <2>3. ASSUME NEW o \in Order, NEW s, Explained(o, s) PROVE Explained(o, s)'
    BY <2>3, ExplainedStays
  <2>4. QED BY <2>1, <2>2, <2>3
<1>3. ASSUME NEW q \in Req, WriteEffect(q) PROVE reqs'[r] = reqs[r]
  BY <1>3, HandlerFields DEF WriteEffect, Done, Handler, HandlerOf
<1>4. ASSUME NEW q \in Req, ReadEffect(q), q # r PROVE reqs'[r] = reqs[r]
  BY <1>4 DEF ReadEffect
<1>5. QED
  BY <1>1, <1>2, <1>3, <1>4, StepEffect DEF CreationEffect, NoEffect

LEMMA WriteExplained ==
  ASSUME TypeOK, StatusExplained, ArrivalExplained, [Next]_vars,
         NEW r \in Req, WriteEffect(r), NEW o \in Order, o = reqs[r].order,
         orders'[o] # orders[o], NEW s, s = orders'[o].status
  PROVE  Explained(o, s)'
<1>1. /\ s = Target(r)
      /\ Present(o)
      /\ reqs[r].pc = "write"
      /\ reqs'[r] = IF reqs[r].op = "edit" THEN Done ELSE [reqs[r] EXCEPT !.pc = "audit"]
  BY DEF WriteEffect, Matches
<1>2. /\ reqs[r] \in Handler
      /\ reqs[r].op \in {"status", "arrival"} => reqs[r].aim \in Status
  BY <1>1, HandlerFields
<1>3. ASSUME reqs[r].op # "edit", StatusOf(AuditOf(reqs[r])) = s
      PROVE  Explained(o, s)'
  <2>1. /\ reqs'[r].pc = "audit"
        /\ reqs'[r].order = o
        /\ AuditOf(reqs'[r]) = AuditOf(reqs[r])
    BY <1>1, <1>2, <1>3 DEF Handler, HandlerOf, AuditOf
  <2>2. QED BY <1>3, <2>1 DEF Explained
<1>4. CASE reqs[r].op = "status"
  <2>1. reqs[r].aim \notin {"arrival", "picked_up"} /\ AuditOf(reqs[r]) = reqs[r].aim
    BY <1>2, <1>4 DEF Status, AuditOf
  <2>2. StatusOf(AuditOf(reqs[r])) = s
    BY <1>1, <1>4, <2>1 DEF Target, StatusOf, CourierTarget
  <2>3. QED BY <1>3, <1>4, <2>2
<1>5. CASE reqs[r].op = "courier" /\ reqs[r].aim \in StatusEvent
  <2>1. StatusOf(AuditOf(reqs[r])) = s
    BY <1>1, <1>5 DEF Target, AuditOf, StatusOf, StatusEvent
  <2>2. QED BY <1>3, <1>5, <2>1
<1>6. CASE reqs[r].op = "arrival" /\ reqs[r].aim = "ready_for_handoff"
  <2>1. StatusOf(AuditOf(reqs[r])) = s
    BY <1>1, <1>6 DEF Target, AuditOf, StatusOf
  <2>2. QED BY <1>3, <1>6, <2>1
<1>7. CASE reqs[r].op = "arrival" /\ reqs[r].aim # "ready_for_handoff"
  <2>1. Explained(o, s)
    BY <1>1, <1>7 DEF ArrivalExplained, At, Target
  <2>2. QED BY <2>1, ExplainedStays
<1>8. CASE s = orders[o].status
  <2>1. Explained(o, s)
    BY <1>1, <1>8 DEF StatusExplained
  <2>2. QED BY <2>1, ExplainedStays
<1>9. QED BY <1>1, <1>4, <1>5, <1>6, <1>7, <1>8 DEF Target

LEMMA StatusExplainedStays ==
  TypeOK /\ StatusExplained /\ ArrivalExplained /\ [Next]_vars => StatusExplained'
<1> SUFFICES ASSUME TypeOK, StatusExplained, ArrivalExplained, [Next]_vars,
                    NEW o \in Order, orders'[o] # NoOrder,
                    NEW s, s = orders'[o].status
             PROVE  Explained(o, s)'
  BY DEF StatusExplained, Present
<1>1. CASE orders'[o] = orders[o]
  <2>1. Explained(o, s)
    BY <1>1 DEF StatusExplained, Present
  <2>2. QED BY <2>1, ExplainedStays
<1>2. CASE Fresh(o, orders'[o])
  BY <1>2 DEF Fresh, Explained
<1>3. ASSUME NEW r \in Req, WriteEffect(r), orders'[o] # orders[o], reqs[r].order = o
      PROVE  Explained(o, s)'
  BY <1>3, WriteExplained
<1>4. QED BY <1>1, <1>2, <1>3, ActingWrites

(***************************************************************************)
(* Every status can be told from the audit trail and the lost handlers.    *)
(***************************************************************************)
THEOREM StatusExplainedHolds == Spec => []StatusExplained
<1>1. Init => StatusExplained /\ ArrivalExplained
  BY DEF Init, StatusExplained, ArrivalExplained, Present, At, Idle
<1>2. TypeOK /\ (StatusExplained /\ ArrivalExplained) /\ [Next]_vars =>
        (StatusExplained /\ ArrivalExplained)'
  BY StatusExplainedStays, ArrivalExplainedStays
<1>3. QED BY <1>1, <1>2, TypeCorrect, PTL DEF Spec

-----------------------------------------------------------------------------
(***************************************************************************)
(* The refinement of AtomicKitchen.  A write on a current decision is what *)
(* an atomic handler makes of the row, by CurrentDecision; another one is  *)
(* an Overwrite; and the handlers that have yet to write an order in       *)
(* "Raced" change only with the orders they are about to write.            *)
(***************************************************************************)

(* AtomicKitchen means by the names of OrderLifecycle what this module does. *)
LEMMA AtomicNames ==
  /\ Atomic!NoOrder = NoOrder /\ Atomic!OrderRow = OrderRow
  /\ Atomic!Fulfillment = Fulfillment /\ Atomic!Channel = Channel
  /\ Atomic!Requested = Requested /\ Atomic!Conflict = Conflict
  /\ Atomic!StatusEvent = StatusEvent
  /\ \A t, f, c : Atomic!NewOrder(t, f, c) = NewOrder(t, f, c)
  /\ \A row, s : Atomic!ComputeNextStatus(row, s) = ComputeNextStatus(row, s)
  /\ \A row, s : Atomic!HandoffPossible(row, s) = HandoffPossible(row, s)
  /\ \A s : Atomic!StampsOf(s) = StampsOf(s)
  /\ \A row, e : Atomic!CourierRow(row, e) = CourierRow(row, e)
<1>1. Atomic!NoOrder = NoOrder /\ Atomic!OrderRow = OrderRow
  BY DEF Atomic!NoOrder, NoOrder, Atomic!OrderRow, OrderRow, Atomic!Fulfillment, Fulfillment,
         Atomic!Channel, Channel, Atomic!Status, Status, Atomic!Arrival, Arrival,
         Atomic!Stamp, Stamp
<1>2. /\ Atomic!Fulfillment = Fulfillment /\ Atomic!Channel = Channel
      /\ Atomic!Requested = Requested /\ Atomic!Conflict = Conflict
      /\ Atomic!StatusEvent = StatusEvent
  BY DEF Atomic!Fulfillment, Fulfillment, Atomic!Channel, Channel, Atomic!Requested, Requested,
         Atomic!Conflict, Conflict, Atomic!StatusEvent, StatusEvent
<1>3. \A t, f, c : Atomic!NewOrder(t, f, c) = NewOrder(t, f, c)
  BY DEF Atomic!NewOrder, NewOrder
<1>4. \A row, s : Atomic!ComputeNextStatus(row, s) = ComputeNextStatus(row, s)
  BY DEF Atomic!ComputeNextStatus, ComputeNextStatus, Atomic!ReadyTarget, ReadyTarget,
         Atomic!Permits, Permits, Atomic!Allowed, Allowed, Atomic!Conflict, Conflict
<1>5. \A row, s : Atomic!HandoffPossible(row, s) = HandoffPossible(row, s)
  BY DEF Atomic!HandoffPossible, HandoffPossible
<1>6. \A s : Atomic!StampsOf(s) = StampsOf(s)
  BY DEF Atomic!StampsOf, StampsOf, Atomic!Stamp, Stamp, Atomic!StatusStamp, StatusStamp
<1>7. \A row, e : Atomic!CourierRow(row, e) = CourierRow(row, e)
  BY DEF Atomic!CourierRow, CourierRow, Atomic!StatusEvent, StatusEvent,
         Atomic!CourierTarget, CourierTarget
<1>8. QED BY <1>1, <1>2, <1>3, <1>4, <1>5, <1>6, <1>7

(* The row that a handler writes. *)
Written(r) ==
  LET row == orders[reqs[r].order]
      aim == reqs[r].aim
  IN CASE reqs[r].op = "status" -> [row EXCEPT !.status = aim, !.stamps = @ \cup StampsOf(aim)]
       [] reqs[r].op = "arrival" -> [row EXCEPT !.arrival = "arrived", !.status = aim]
       [] reqs[r].op = "courier" -> CourierRow(row, aim)
       [] reqs[r].op = "pickup" -> [row EXCEPT !.code = TRUE]
       [] OTHER -> [row EXCEPT !.edited = TRUE]

(* It is what the order gets. *)
LEMMA WriteWrites ==
  ASSUME TypeOK, NEW r \in Req, Write(r),
         orders'[reqs[r].order] # orders[reqs[r].order]
  PROVE  orders'[reqs[r].order] = Written(r)
<1>1. reqs[r] \in Handler
  BY HandlerFields DEF Write, WriteStatus, WriteArrival, WriteCourier, WritePickup, EditTx, At
<1>2. CASE WriteStatus(r)
  BY <1>1, <1>2, ApplyEffect DEF WriteStatus, At, Written
<1>3. CASE WriteArrival(r)
  BY <1>1, <1>3, ApplyEffect DEF WriteArrival, At, Written
<1>4. CASE WriteCourier(r)
  BY <1>1, <1>4, ApplyEffect DEF WriteCourier, At, Written
<1>5. CASE WritePickup(r)
  BY <1>1, <1>5, ApplyEffect DEF WritePickup, At, Written
<1>6. CASE EditTx(r)
  BY <1>1, <1>6, ApplyEffect DEF EditTx, At, Written
<1>7. QED BY <1>2, <1>3, <1>4, <1>5, <1>6 DEF Write

(* On a current decision this is the row of an atomic handler. *)
LEMMA CurrentIsAtomic ==
  ASSUME TypeOK, NEW r \in Req, reqs[r].pc = "write",
         orders[reqs[r].order] \in OrderRow, Decided(reqs[r], orders[reqs[r].order]),
         Written(r) # orders[reqs[r].order]
  PROVE  LET row == orders[reqs[r].order]
         IN \/ Atomic!StatusSet(row, Written(r)) \/ Atomic!CustomerArrived(row, Written(r))
            \/ Atomic!CourierMoved(row, Written(r)) \/ Atomic!CodeGenerated(row, Written(r))
            \/ Atomic!ItemsEdited(row, Written(r))
<1> DEFINE row == orders[reqs[r].order]
           aim == reqs[r].aim
<1>1. CASE reqs[r].op = "status"
  <2>1. PICK s \in Requested : Accepts(row, s) /\ aim = ComputeNextStatus(row, s)
    BY <1>1 DEF Decided
  <2>2. Written(r) = [row EXCEPT !.status = aim, !.stamps = @ \cup StampsOf(aim)]
    BY <1>1 DEF Written
  <2>3. Atomic!StatusSet(row, Written(r))
    BY <2>1, <2>2, AtomicNames DEF Atomic!StatusSet, Accepts
  <2>4. QED BY <2>3
<1>2. CASE reqs[r].op = "arrival"
  <2>1. row.arrival = "waiting"
    BY <1>2 DEF Decided
  <2>2. Written(r) = [row EXCEPT !.arrival = "arrived",
                                 !.status = IF row.status = "ready_waiting_arrival"
                                            THEN "ready_for_handoff" ELSE row.status]
    BY <1>2 DEF Written, Decided
  <2>3. Atomic!CustomerArrived(row, Written(r))
    BY <2>1, <2>2 DEF Atomic!CustomerArrived, OrderRow
  <2>4. QED BY <2>3
<1>3. CASE reqs[r].op = "courier"
  <2>1. Written(r) = CourierRow(row, aim)
    BY <1>3 DEF Written
  <2>2. aim \in StatusEvent
    BY <2>1 DEF CourierRow
  <2>3. Atomic!CourierMoved(row, Written(r))
    BY <2>1, <2>2, AtomicNames DEF Atomic!CourierMoved
  <2>4. QED BY <2>3
<1>4. CASE reqs[r].op = "pickup"
  <2>1. Atomic!CodeGenerated(row, Written(r))
    BY <1>4 DEF Written, Decided, Atomic!CodeGenerated
  <2>2. QED BY <2>1
<1>5. CASE reqs[r].op = "edit"
  <2>1. Atomic!ItemsEdited(row, Written(r))
    BY <1>5 DEF Written, Decided, Atomic!ItemsEdited, Editable
  <2>2. QED BY <2>1
<1>6. QED BY <1>1, <1>2, <1>3, <1>4, <1>5, HandlerFields DEF Handler, HandlerOf

(* On any other it keeps what Overwrite keeps. *)
LEMMA WrittenKeeps ==
  ASSUME TypeOK, NEW r \in Req, reqs[r].pc = "write", orders[reqs[r].order] \in OrderRow
  PROVE  Atomic!Keeps(orders[reqs[r].order], Written(r))
<1> DEFINE row == orders[reqs[r].order]
           aim == reqs[r].aim
<1>1. CASE reqs[r].op = "status"
  <2>1. Written(r) = [row EXCEPT !.status = aim, !.stamps = @ \cup StampsOf(aim)]
    BY <1>1 DEF Written
  <2>2. aim \in Status /\ StampsOf(aim) \in SUBSET Stamp
    BY <1>1, HandlerFields, StampsType
  <2>3. QED BY <2>1, <2>2, AtomicNames DEF OrderRow, Atomic!Keeps
<1>2. CASE reqs[r].op = "arrival"
  <2>1. Written(r) = [row EXCEPT !.arrival = "arrived", !.status = aim]
    BY <1>2 DEF Written
  <2>2. aim \in Status
    BY <1>2, HandlerFields
  <2>3. QED BY <2>1, <2>2, AtomicNames DEF OrderRow, Arrival, Atomic!Keeps
<1>3. CASE reqs[r].op = "courier"
  <2>1. Written(r) = CourierRow(row, aim)
    BY <1>3 DEF Written
  <2>2. CourierRow(row, aim) \in OrderRow
    BY CourierRowType
  <2>3. /\ CourierRow(row, aim).tenant = row.tenant
        /\ CourierRow(row, aim).fulfillment = row.fulfillment
        /\ CourierRow(row, aim).channel = row.channel
        /\ CourierRow(row, aim).arrival = row.arrival
        /\ row.stamps \subseteq CourierRow(row, aim).stamps
        /\ CourierRow(row, aim).code = row.code
        /\ CourierRow(row, aim).edited = row.edited
    BY DEF CourierRow, OrderRow
  <2>4. QED BY <2>1, <2>2, <2>3, AtomicNames DEF Atomic!Keeps
<1>4. CASE reqs[r].op = "pickup"
  BY <1>4, AtomicNames DEF Written, OrderRow, Atomic!Keeps
<1>5. CASE reqs[r].op = "edit"
  BY <1>5, AtomicNames DEF Written, OrderRow, Atomic!Keeps
<1>6. QED BY <1>1, <1>2, <1>3, <1>4, <1>5, HandlerFields DEF Handler, HandlerOf

(* What a write does to the races: none ends before an overtaken handler writes, *)
(* and none begins unless the row changes.                                       *)
LEMMA WriteRaces ==
  ASSUME TypeOK, NEW r \in Req, WriteEffect(r), NEW o, o = reqs[r].order
  PROVE  /\ \A x \in Order : x # o => (x \in Raced' <=> x \in Raced)
         /\ view[r] = "current" /\ o \in Raced => o \in Raced'
         /\ orders'[o] = orders[o] /\ o \in Raced' => o \in Raced
         /\ view[r] # "current" => o \in Raced
<1>1. o \in Order /\ reqs[r].pc = "write" /\ reqs'[r].pc # "write"
  BY HandlerFields DEF WriteEffect, Done, Handler, HandlerOf
<1>2. \A x \in Req : x # r => reqs'[x] = reqs[x]
  BY DEF WriteEffect
<1>3. ASSUME NEW x \in Order, x # o PROVE x \in Raced' <=> x \in Raced
  <2>1. \A q \in Req : q \in Writing(x)' <=> q \in Writing(x)
    BY <1>1, <1>2, <1>3 DEF Writing
  <2>2. \A q \in Req : q \in Writing(x) => q # r /\ view'[q] = view[q]
    BY <1>1, <1>3 DEF Writing, WriteEffect
  <2>3. QED BY <2>1, <2>2 DEF Raced, Writing
<1>4. ASSUME view[r] = "current", o \in Raced PROVE o \in Raced'
  <2>1. PICK q \in Req : q \in Writing(o) /\ view[q] # "current"
    BY <1>4 DEF Raced, Writing
  <2>2. q # r /\ q \in Writing(o)' /\ view'[q] # "current"
    BY <1>2, <1>4, <2>1 DEF Writing, WriteEffect
  <2>3. QED BY <1>1, <2>2 DEF Raced
<1>5. ASSUME orders'[o] = orders[o], o \in Raced' PROVE o \in Raced
  <2>1. PICK q \in Req : q \in Writing(o)' /\ view'[q] # "current"
    BY <1>5 DEF Raced, Writing
  <2>2. q # r /\ q \in Writing(o) /\ view[q] # "current"
    BY <1>1, <1>2, <1>5, <2>1 DEF Writing, WriteEffect
  <2>3. QED BY <1>1, <2>2 DEF Raced
<1>6. view[r] # "current" => o \in Raced
  BY <1>1 DEF Raced, Writing
<1>7. QED BY <1>3, <1>4, <1>5, <1>6

(* The other orders stay as they are. *)
LEMMA OnlyOne ==
  ASSUME TypeOK, TypeOK', NEW o \in Order, \A x \in Order : x # o => orders'[x] = orders[x]
  PROVE  Atomic!Only(o)
<1>1. /\ orders \in [Order -> OrderRow \cup {NoOrder}]
      /\ orders' \in [Order -> OrderRow \cup {NoOrder}]
  BY DEF TypeOK
<1>2. QED BY <1>1 DEF Atomic!Only

(* So a write handles, overwrites, or only settles. *)
LEMMA WriteIsAtomic ==
  ASSUME TypeOK, TypeOK', CurrentDecision, NEW r \in Req, Write(r)
  PROVE  Atomic!Next \/ UNCHANGED Atomic!vars
<1> DEFINE o == reqs[r].order
           row == orders[o]
<1>1. WriteEffect(r)
  BY WriteIsEffect
<1>2. o \in Order /\ reqs[r].pc = "write"
  BY <1>1 DEF WriteEffect
<1>3. Raced \subseteq Order /\ Raced' \subseteq Order
  BY DEF Raced
<1>4. CASE orders'[o] = row
  <2>1. UNCHANGED orders
    BY <1>1, <1>4 DEF WriteEffect, TypeOK
  <2>2. \A x \in Order : x # o => (x \in Raced' <=> x \in Raced)
    BY <1>1, WriteRaces
  <2>3. o \in Raced' => o \in Raced
    BY <1>1, <1>4, WriteRaces
  <2>4. Raced' \in {Raced, Raced \ {o}}
    BY <1>3, <2>2, <2>3
  <2>5. Atomic!Settle(o) \/ UNCHANGED Atomic!vars
    BY <2>1, <2>4 DEF Atomic!Settle, Atomic!vars
  <2>6. QED BY <1>2, <2>5 DEF Atomic!Next
<1>5. CASE orders'[o] # row /\ view[r] = "current"
  <2>1. row \in OrderRow /\ Decided(reqs[r], row)
    BY <1>1, <1>2, <1>5 DEF CurrentDecision, WriteEffect
  <2>2. orders'[o] = Written(r)
    BY <1>5, WriteWrites
  <2>3. \/ Atomic!StatusSet(row, orders'[o]) \/ Atomic!CustomerArrived(row, orders'[o])
        \/ Atomic!CourierMoved(row, orders'[o]) \/ Atomic!CodeGenerated(row, orders'[o])
        \/ Atomic!ItemsEdited(row, orders'[o])
    BY <1>2, <1>5, <2>1, <2>2, CurrentIsAtomic
  <2>4. \A x \in Order : x # o => (x \in Raced' <=> x \in Raced)
    BY <1>1, WriteRaces
  <2>5. o \in Raced => o \in Raced'
    BY <1>1, <1>5, WriteRaces
  <2>6. Raced' \in {Raced, Raced \cup {o}}
    BY <1>3, <2>4, <2>5
  <2>7. row # Atomic!NoOrder
    BY <2>1, AtomicNames, NoOrderIsNoRow
  <2>8. Atomic!Only(o)
    BY <1>1, <1>2, OnlyOne DEF WriteEffect
  <2>9. Atomic!Handle(o)
    BY <2>3, <2>6, <2>7, <2>8 DEF Atomic!Handle
  <2>10. QED BY <1>2, <2>9 DEF Atomic!Next
<1>6. CASE orders'[o] # row /\ view[r] # "current"
  <2>1. row \in OrderRow /\ orders'[o] = Written(r)
    BY <1>1, <1>6, WriteWrites DEF WriteEffect
  <2>2. Atomic!Keeps(row, orders'[o])
    BY <1>2, <2>1, WrittenKeeps
  <2>3. \A x \in Order : x # o => (x \in Raced' <=> x \in Raced)
    BY <1>1, WriteRaces
  <2>4. o \in Raced
    BY <1>1, <1>6, WriteRaces
  <2>5. Raced' \in {Raced, Raced \ {o}}
    BY <1>3, <2>3, <2>4
  <2>6. row # Atomic!NoOrder
    BY <2>1, AtomicNames, NoOrderIsNoRow
  <2>7. Atomic!Only(o)
    BY <1>1, <1>2, OnlyOne DEF WriteEffect
  <2>8. Atomic!Overwrite(o)
    BY <2>2, <2>4, <2>5, <2>6, <2>7 DEF Atomic!Overwrite
  <2>9. QED BY <1>2, <2>8 DEF Atomic!Next
<1>7. QED BY <1>4, <1>5, <1>6

(* Creations, of one order or of the three of demoSeed. *)
LEMMA UpsertIsAtomic ==
  ASSUME TypeOK, NEW rows, DOMAIN rows \subseteq Order,
         \A o \in DOMAIN rows : Atomic!IsNew(o, rows[o]), Upsert(rows)
  PROVE  Atomic!Next
<1> DEFINE S == DOMAIN rows
<1>1. orders' = [o \in Order |-> IF o \in S THEN orders'[o] ELSE orders[o]]
  BY DEF Upsert
<1>2. \A o \in S : Atomic!IsNew(o, orders'[o])
  BY DEF Upsert
<1>3. UNCHANGED reqs /\ \A x \in Order : Writing(x)' = Writing(x)
  BY DEF Upsert, Writing
<1>4. ASSUME NEW x \in Raced PROVE x \in Raced'
  <2>1. PICK q \in Req : q \in Writing(x) /\ view[q] # "current" /\ x \in Order
    BY DEF Raced, Writing
  <2>2. view'[q] \in {"recreated", view[q]}
    BY DEF Upsert
  <2>3. QED BY <1>3, <2>1, <2>2 DEF Raced
<1>5. ASSUME NEW x \in Raced', x \notin S PROVE x \in Raced
  <2>1. PICK q \in Req : q \in Writing(x) /\ view'[q] # "current" /\ x \in Order
    BY <1>3 DEF Raced, Writing
  <2>2. \A y \in S : q \notin Writing(y)
    BY <1>5, <2>1 DEF Writing
  <2>3. view'[q] = view[q]
    BY <2>2 DEF Upsert
  <2>4. QED BY <2>1, <2>3 DEF Raced
<1>6. Atomic!Create(S)
  BY <1>1, <1>2, <1>4, <1>5 DEF Atomic!Create
<1>7. QED BY <1>6 DEF Atomic!Next

(* What is created is new. *)
LEMMA BeginningIsNew ==
  ASSUME NEW t \in Tenant, NEW o, NEW f \in Fulfillment, NEW c \in Channel,
         NEW b \in Atomic!Beginning(o)
  PROVE  Atomic!IsNew(o, Atomic!BegunAt(NewOrder(t, f, c), b))
BY AtomicNames DEF Atomic!IsNew

LEMMA NewIsNew ==
  ASSUME NEW t \in Tenant, NEW o, NEW f \in Fulfillment, NEW c \in Channel
  PROVE  Atomic!IsNew(o, NewOrder(t, f, c))
<1> DEFINE b == <<"queued", {}>>
           row == NewOrder(t, f, c)
<1>1. b \in Atomic!Beginning(o) /\ b[1] = "queued" /\ b[2] = {}
  BY DEF Atomic!Beginning
<1>2. row \in OrderRow /\ row.status = "queued" /\ row.stamps = {}
  BY NewOrderType DEF NewOrder
<1> HIDE DEF b, row
<1>3. row = Atomic!BegunAt(row, b)
  BY <1>1, <1>2 DEF OrderRow, Atomic!BegunAt
<1>4. QED BY <1>1, <1>3, BeginningIsNew DEF row

LEMMA DemoIsNew ==
  ASSUME NEW t \in Tenant, NEW o \in {Demo1, Demo2, Demo3}
  PROVE  Atomic!IsNew(o, DemoRow(t, o))
<1>1. /\ "pickup" \in Fulfillment /\ "delivery" \in Fulfillment
      /\ "tablet" \in Channel /\ "remote" \in Channel
  BY DEF Fulfillment, Channel
<1>2. CASE o = Demo1
  BY <1>1, <1>2, NewIsNew DEF DemoRow
<1>3. CASE o = Demo2
  <2> DEFINE b == <<"in_prep", {"startedAt"}>>
  <2>1. b \in Atomic!Beginning(o) /\ b[1] = "in_prep" /\ b[2] = {"startedAt"}
    BY DEF Atomic!Beginning
  <2>2. DemoRow(t, o) = Atomic!BegunAt(NewOrder(t, "pickup", "tablet"), b)
    BY <1>3, <2>1, DemoIdsDistinct DEF DemoRow, Atomic!BegunAt
  <2> HIDE DEF b
  <2>3. QED BY <1>1, <2>1, <2>2, BeginningIsNew
<1>4. CASE o = Demo3
  <2> DEFINE b == <<"out_for_delivery", {"readyAt"}>>
  <2>1. b \in Atomic!Beginning(o) /\ b[1] = "out_for_delivery" /\ b[2] = {"readyAt"}
    BY DEF Atomic!Beginning
  <2>2. DemoRow(t, o) = Atomic!BegunAt(NewOrder(t, "delivery", "remote"), b)
    BY <1>4, <2>1, DemoIdsDistinct DEF DemoRow, Atomic!BegunAt
  <2> HIDE DEF b
  <2>3. QED BY <1>1, <2>1, <2>2, BeginningIsNew
<1>5. QED BY <1>2, <1>3, <1>4

(* Steps that change no order and leave the other handlers their views. *)
LEMMA QuietIsAtomic ==
  ASSUME TypeOK, NEW r \in Req, UNCHANGED orders,
         \A x \in Req : x # r => reqs'[x] = reqs[x] /\ view'[x] = view[x],
         reqs'[r].pc = "write" => view'[r] = "current",
         NEW o, reqs[r].pc = "write" => reqs[r].order = o
  PROVE  Atomic!Next \/ UNCHANGED Atomic!vars
<1>1. \A x \in Order : x \in Raced' => x \in Raced
  BY DEF Raced, Writing
<1>2. \A x \in Order : x \in Raced /\ x # o => x \in Raced'
  BY DEF Raced, Writing
<1>3. Raced \subseteq Order /\ Raced' \subseteq Order
  BY DEF Raced
<1>4. Raced' = Raced \/ (o \in Order /\ Raced' = Raced \ {o})
  BY <1>1, <1>2, <1>3
<1>5. (o \in Order /\ Atomic!Settle(o)) \/ UNCHANGED Atomic!vars
  BY <1>4 DEF Atomic!Settle, Atomic!vars
<1>6. QED BY <1>5 DEF Atomic!Next

(* Every step is one of AtomicKitchen, or a stutter. *)
LEMMA AtomicStep ==
  TypeOK /\ TypeOK' /\ CurrentDecision /\ [Next]_vars => [Atomic!Next]_(Atomic!vars)
<1> SUFFICES ASSUME TypeOK, TypeOK', CurrentDecision, [Next]_vars
             PROVE  Atomic!Next \/ UNCHANGED Atomic!vars
  OBVIOUS
<1>1. ASSUME NEW t \in Tenant, NEW o \in Order, NEW k \in Kinds, Create(t, o, k[1], k[2])
      PROVE  Atomic!Next
  <2>1. k[1] \in Fulfillment /\ k[2] \in Channel
    BY KindsAssumption
  <2>2. QED BY <1>1, <2>1, NewIsNew, UpsertIsAtomic DEF Create
<1>2. ASSUME NEW t \in Tenant, DemoSeed(t) PROVE Atomic!Next
  BY <1>2, DemoIsNew, UpsertIsAtomic DEF DemoSeed
<1>3. ASSUME NEW o \in Order, Refire(o) PROVE UNCHANGED Atomic!vars
  <2>1. UNCHANGED <<orders, reqs, view>>
    BY <1>3 DEF Refire
  <2>2. QED BY <2>1 DEF Raced, Writing, Atomic!vars
<1>4. ASSUME NEW r \in Req, Read(r) PROVE Atomic!Next \/ UNCHANGED Atomic!vars
  <2>1. ReadEffect(r) /\ reqs[r].pc # "write"
    BY <1>4, ReadIsEffect DEF ReadEffect, Idle
  <2>2. view'[r] = "current"
    BY <1>4 DEF Read, ReadStatus, ReadArrival, ReadCourier, ReadPickup, ReadEdit, Begin, TypeOK
  <2>3. QED BY <2>1, <2>2, QuietIsAtomic DEF ReadEffect
<1>5. ASSUME NEW r \in Req, Write(r) PROVE Atomic!Next \/ UNCHANGED Atomic!vars
  BY <1>5, WriteIsAtomic
<1>6. ASSUME NEW r \in Req, AppendAudit(r) PROVE Atomic!Next \/ UNCHANGED Atomic!vars
  <2>1. reqs[r].pc # "write" /\ reqs'[r].pc # "write"
    BY <1>6 DEF AppendAudit, TypeOK, Done
  <2>2. /\ UNCHANGED <<orders, view>>
        /\ \A x \in Req : x # r => reqs'[x] = reqs[x]
    BY <1>6 DEF AppendAudit, TypeOK
  <2>3. QED BY <2>1, <2>2, QuietIsAtomic
<1>7. ASSUME NEW r \in Req, Die(r) PROVE Atomic!Next \/ UNCHANGED Atomic!vars
  <2>1. /\ UNCHANGED orders /\ view'[r] = "current"
        /\ \A x \in Req : x # r => reqs'[x] = reqs[x] /\ view'[x] = view[x]
    BY <1>7 DEF Die, TypeOK
  <2>2. QED BY <2>1, QuietIsAtomic
<1>8. CASE UNCHANGED vars
  BY <1>8 DEF vars, Raced, Writing, Atomic!vars
<1>9. QED BY <1>1, <1>2, <1>3, <1>4, <1>5, <1>6, <1>7, <1>8 DEF Next, Creation

(***************************************************************************)
(* Seen through the orders table, the concurrent handlers of the kitchen   *)
(* act one at a time and at once, but for writes that another handler has  *)
(* overtaken, which keep what Overwrite keeps.                             *)
(***************************************************************************)
THEOREM ImplementsAtomicHolds == Spec => ImplementsAtomic
<1>1. Init => Atomic!Init
  BY AtomicNames DEF Init, Atomic!Init, Raced, Writing, Idle
<1>2. QED BY <1>1, AtomicStep, TypeCorrect, CurrentDecisionHolds, PTL
       DEF Spec, ImplementsAtomic, Atomic!Spec
=============================================================================
