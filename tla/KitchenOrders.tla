---------------------------- MODULE KitchenOrders ----------------------------
(***************************************************************************)
(* KitchenService under concurrency.  A request handler of the service is  *)
(* not atomic: it reads the order (getOrder), decides on what it read,     *)
(* writes the row with updateMany in a second round trip to the database   *)
(* and appends the audit entry in a third.  Other handlers, courier        *)
(* webhooks and re-creations of the same order run between any two of      *)
(* these steps, and a handler may die between them (a failed query, a      *)
(* restart of the process).                                                *)
(*                                                                         *)
(* reqs[r] is the handler of request r; a request is made at most once.    *)
(* view and mixed are history variables: they record what happened to the  *)
(* row between a handler's read and its write, and influence nothing.      *)
(***************************************************************************)
EXTENDS OrderLifecycle

CONSTANTS Req,                    \* the requests that may be made
          Ops,                    \* the operations they may be for
          Kinds,                  \* <<fulfillment, channel>> of the orders created
          Demo1, Demo2, Demo3     \* the fixed order ids of demoSeed

Op == {"status", "arrival", "courier", "pickup", "edit", "refire"}

ASSUME OpsAssumption == Ops \subseteq Op
ASSUME KindsAssumption == Kinds \subseteq Fulfillment \X Channel
ASSUME DemoIdsDistinct == Demo1 # Demo2 /\ Demo1 # Demo3 /\ Demo2 # Demo3

VARIABLES orders,  \* the orders table: Order -> OrderRow or NoOrder
          audit,   \* the audit table: the actions recorded for each order
          reqs,    \* the request handlers
          view,    \* history: is the row still the one the handler read?
          mixed    \* history: rows written by a handler that read an older order
                   \* of the same id, since re-created

vars == <<orders, audit, reqs, view, mixed>>

(* Courier events; "other" stands for every event that changes no status. *)
CourierEvent == StatusEvent \cup {"other"}

(* A handler keeps of what it read only its "aim": the status that it will *)
(* write, or the courier event that it handles.                            *)
HandlerOf(ops, aims, pcs) ==
  [pc: pcs, op: ops, tenant: Tenant, order: Order, aim: aims]

Handler ==
  HandlerOf({"status", "arrival"}, Status, {"write", "audit", "lost"})
    \cup HandlerOf({"courier"}, CourierEvent, {"write", "audit", "lost"})
    \cup HandlerOf({"pickup"}, {"none"}, {"write", "audit", "lost"})
    \cup HandlerOf({"edit"}, {"none"}, {"write"})

Idle == [pc |-> "idle"]
Done == [pc |-> "done"]

AuditAction == Status \cup CourierEvent
                 \cup {"paid", "arrival", "pickup_code_generated", "edit_items", "refire"}

Present(o) == orders[o] # NoOrder
At(r, pc, op) == reqs[r].pc = pc /\ reqs[r].op = op
Writing(o) == {r \in Req : reqs[r].pc = "write" /\ reqs[r].order = o}

-----------------------------------------------------------------------------
(***************************************************************************)
(* Creation: the upsert of upsertOrderWithItemsTx is keyed by the order id *)
(* alone, so it also overwrites an existing order, of whatever tenant, and *)
(* clears its timestamps.  Audit entries are only ever added.              *)
(***************************************************************************)
Upsert(rows) ==
  /\ orders' = [o \in Order |-> IF o \in DOMAIN rows THEN rows[o] ELSE orders[o]]
  /\ audit' = [o \in Order |-> IF o \in DOMAIN rows THEN audit[o] \cup {"paid"}
                                                     ELSE audit[o]]
  /\ mixed' = mixed \ DOMAIN rows
  /\ view' = [r \in Req |-> IF r \in UNION {Writing(o) : o \in DOMAIN rows}
                            THEN "recreated" ELSE view[r]]
  /\ UNCHANGED reqs

(* manualCreate, and the order that the Stripe webhook creates. *)
Create(t, o, f, c) == Upsert([x \in {o} |-> NewOrder(t, f, c)])

DemoRow(t, o) ==
  IF o = Demo1 THEN NewOrder(t, "pickup", "remote")
  ELSE IF o = Demo2
  THEN [NewOrder(t, "pickup", "tablet") EXCEPT !.status = "in_prep",
                                               !.stamps = {"startedAt"}]
  ELSE [NewOrder(t, "delivery", "remote") EXCEPT !.status = "out_for_delivery",
                                                 !.stamps = {"readyAt"}]

(* demoSeed: three orders of fixed ids, in one transaction. *)
DemoSeed(t) ==
  Upsert([o \in Order \cap {Demo1, Demo2, Demo3} |-> DemoRow(t, o)])

-----------------------------------------------------------------------------
(***************************************************************************)
(* First round trip: getOrder and the decision taken on what it returned.  *)
(* A rejected request (404 or conflict) changes nothing and is not a step. *)
(***************************************************************************)
Visible(t, o) == Present(o) /\ orders[o].tenant = t

Begin(r, op, t, o, aim) ==
  /\ op \in Ops
  /\ reqs[r] = Idle
  /\ reqs' = [reqs EXCEPT ![r] = [pc |-> "write", op |-> op, tenant |-> t,
                                  order |-> o, aim |-> aim]]
  /\ view' = [view EXCEPT ![r] = "current"]
  /\ UNCHANGED <<orders, audit, mixed>>

AcceptsWithoutNullCheck(row, requested) ==    \* a plausible slip: null not tested
  HandoffPossible(row, ComputeNextStatus(row, requested))

AcceptsWithoutArrival(row, requested) ==      \* a plausible slip: guard dropped
  ComputeNextStatus(row, requested) # Conflict

Accepts(row, requested) ==
  /\ ComputeNextStatus(row, requested) # Conflict
  /\ HandoffPossible(row, ComputeNextStatus(row, requested))

ReadStatus(r, t, o, requested) ==
  /\ Visible(t, o)
  /\ Accepts(orders[o], requested)
  /\ Begin(r, "status", t, o, ComputeNextStatus(orders[o], requested))

(* updateArrival decides the status it will write from the status it read. *)
ReadArrival(r, t, o) ==
  /\ Visible(t, o)
  /\ orders[o].arrival = "waiting"
  /\ Begin(r, "arrival", t, o,
           IF orders[o].status = "ready_waiting_arrival" THEN "ready_for_handoff"
                                                         ELSE orders[o].status)

ReadCourier(r, t, o, event) == Visible(t, o) /\ Begin(r, "courier", t, o, event)

ReadPickup(r, t, o) ==
  /\ Visible(t, o)
  /\ orders[o].fulfillment = "pickup"
  /\ Begin(r, "pickup", t, o, "none")

EditableEvenDelivered(row) == row.status # "served"    \* a plausible slip
Editable(row) == row.status \notin {"served", "delivered"}

ReadEdit(r, t, o) ==
  /\ Visible(t, o)
  /\ Editable(orders[o])
  /\ Begin(r, "edit", t, o, "none")

(***************************************************************************)
(* refire reads nothing: it only appends an audit entry.  The entry's      *)
(* foreign key asks for the order to exist, under any tenant.              *)
(***************************************************************************)
Refire(o) ==
  /\ "refire" \in Ops
  /\ Present(o)
  /\ audit' = [audit EXCEPT ![o] = @ \cup {"refire"}]
  /\ UNCHANGED <<orders, reqs, view, mixed>>

-----------------------------------------------------------------------------
(***************************************************************************)
(* Second round trip: updateMany where id and tenantId match.  It does not *)
(* look at the status the row has by now; no match is not an error.        *)
(***************************************************************************)
MatchesIdOnly(t, o) == Present(o)        \* a plausible slip: tenantId not in "where"
Matches(t, o) == Present(o) /\ orders[o].tenant = t

Apply(r, row, next) ==
  LET o == reqs[r].order
      changed == Matches(reqs[r].tenant, o) /\ row # orders[o]
  IN /\ orders' = IF changed THEN [orders EXCEPT ![o] = row] ELSE orders
     /\ mixed' = IF changed /\ view[r] = "recreated" THEN mixed \cup {o} ELSE mixed
     /\ view' = [x \in Req |->
                   IF x = r THEN "current"
                   ELSE IF changed /\ x \in Writing(o) /\ view[x] = "current"
                        THEN "overtaken" ELSE view[x]]
     /\ reqs' = [reqs EXCEPT ![r] = next]

Audits(r) == [reqs[r] EXCEPT !.pc = "audit"]

WriteStatus(r) ==
  /\ At(r, "write", "status")
  /\ LET row == orders[reqs[r].order]
         target == reqs[r].aim
     IN Apply(r, [row EXCEPT !.status = target, !.stamps = @ \cup StampsOf(target)],
              Audits(r))
  /\ UNCHANGED audit

WriteArrival(r) ==
  /\ At(r, "write", "arrival")
  /\ LET row == orders[reqs[r].order]
     IN Apply(r, [row EXCEPT !.arrival = "arrived", !.status = reqs[r].aim], Audits(r))
  /\ UNCHANGED audit

WriteCourierUnaudited(r) ==             \* a plausible slip: no audit entry
  /\ At(r, "write", "courier")
  /\ Apply(r, CourierRow(orders[reqs[r].order], reqs[r].aim), Done)
  /\ UNCHANGED audit

WriteCourier(r) ==
  /\ At(r, "write", "courier")
  /\ Apply(r, CourierRow(orders[reqs[r].order], reqs[r].aim), Audits(r))
  /\ UNCHANGED audit

WritePickup(r) ==
  /\ At(r, "write", "pickup")
  /\ Apply(r, [orders[reqs[r].order] EXCEPT !.code = TRUE], Audits(r))
  /\ UNCHANGED audit

(* editItems writes the items and the audit entry in one transaction. *)
EditTx(r) ==
  /\ At(r, "write", "edit")
  /\ Apply(r, [orders[reqs[r].order] EXCEPT !.edited = TRUE], Done)
  /\ audit' = [audit EXCEPT ![reqs[r].order] = @ \cup {"edit_items"}]

-----------------------------------------------------------------------------
(* Third round trip: appendAudit. *)
AuditOf(req) ==
  IF req.op = "arrival" THEN "arrival"
  ELSE IF req.op = "pickup" THEN "pickup_code_generated" ELSE req.aim

AppendAudit(r) ==
  /\ reqs[r].pc = "audit"
  /\ audit' = [audit EXCEPT ![reqs[r].order] = @ \cup {AuditOf(reqs[r])}]
  /\ reqs' = [reqs EXCEPT ![r] = Done]
  /\ UNCHANGED <<orders, view, mixed>>

(* The handler dies: before its write without a trace, after it unaudited. *)
Die(r) ==
  /\ reqs[r].pc \in {"write", "audit"}
  /\ reqs' = [reqs EXCEPT ![r] = IF @.pc = "write" THEN Done ELSE [@ EXCEPT !.pc = "lost"]]
  /\ view' = [view EXCEPT ![r] = "current"]
  /\ UNCHANGED <<orders, audit, mixed>>

-----------------------------------------------------------------------------
Init ==
  /\ orders = [o \in Order |-> NoOrder]
  /\ audit = [o \in Order |-> {}]
  /\ reqs = [r \in Req |-> Idle]
  /\ view = [r \in Req |-> "current"]
  /\ mixed = {}

Creation ==
  \/ \E t \in Tenant, o \in Order, k \in Kinds : Create(t, o, k[1], k[2])
  \/ \E t \in Tenant : DemoSeed(t)

Read(r) ==
  \E t \in Tenant, o \in Order :
    \/ \E s \in Requested : ReadStatus(r, t, o, s)
    \/ ReadArrival(r, t, o)
    \/ \E e \in CourierEvent : ReadCourier(r, t, o, e)
    \/ ReadPickup(r, t, o)
    \/ ReadEdit(r, t, o)

Write(r) ==
  WriteStatus(r) \/ WriteArrival(r) \/ WriteCourier(r) \/ WritePickup(r) \/ EditTx(r)

Next ==
  \/ Creation
  \/ \E o \in Order : Refire(o)
  \/ \E r \in Req : Read(r) \/ Write(r) \/ AppendAudit(r) \/ Die(r)

Spec == Init /\ [][Next]_vars

-----------------------------------------------------------------------------
(***************************************************************************)
(* TypeOK: every row holds one of the statuses of kitchen.types.ts, also   *)
(* after computeNextStatus has refused a request with null.                *)
(***************************************************************************)
TypeOK ==
  /\ orders \in [Order -> OrderRow \cup {NoOrder}]
  /\ audit \in [Order -> SUBSET AuditAction]
  /\ reqs \in [Req -> Handler \cup {Idle, Done}]
  /\ view \in [Req -> {"current", "overtaken", "recreated"}]
  /\ mixed \subseteq Order

(***************************************************************************)
(* ServedAfterArrival: a pickup order that was not placed in the store is  *)
(* never "served" to a customer who has not arrived, although the guard is *)
(* evaluated on a row read one round trip earlier (kitchen.service.ts 78   *)
(* against 94).  Only a handler that read the order before it was          *)
(* re-created under the same id can break this, and mixed names its row.   *)
(***************************************************************************)
ServedAfterArrival ==
  \A o \in Order \ mixed :
    orders[o].status = "served" => HandoffPossible(orders[o], "served")

(***************************************************************************)
(* StampedStatus: a status that has a timestamp of its own is never stored *)
(* without it, although updateArrival (114) writes back a status it read   *)
(* earlier and courier events write statuses on a path of their own.       *)
(***************************************************************************)
StampedStatus ==
  \A o \in Order \ mixed :
    Present(o) => StampsOf(orders[o].status) \subseteq orders[o].stamps

(***************************************************************************)
(* StatusExplained: the status of every order can be told from its audit   *)
(* trail, which order tracking shows to the customer as a timeline: it is  *)
(* a status of creation, or one recorded by an entry, or one whose handler *)
(* has yet to append the entry (95, 117, 139) or died before it could.     *)
(***************************************************************************)
StatusOf(action) ==
  IF action = "arrival" THEN "ready_for_handoff" ELSE CourierTarget(action)

Initially(o) == {"queued"}
  \cup (IF o = Demo2 THEN {"in_prep"} ELSE {})
  \cup (IF o = Demo3 THEN {"out_for_delivery"} ELSE {})

Explained(o, s) ==
  \/ s \in Initially(o)
  \/ \E a \in audit[o] : StatusOf(a) = s
  \/ \E r \in Req : /\ reqs[r].pc \in {"audit", "lost"}
                   /\ reqs[r].order = o
                   /\ StatusOf(AuditOf(reqs[r])) = s

StatusExplained ==
  \A o \in Order : Present(o) => Explained(o, orders[o].status)

-----------------------------------------------------------------------------
(* The handler whose step this is, for the action properties. *)
Acting(r) == reqs'[r] # reqs[r]

(***************************************************************************)
(* TerminalLeft: the table of computeNextStatus lets nothing follow        *)
(* delivered, served or canceled (449-451).  An order still leaves one of  *)
(* these in exactly four ways: it is re-created, a courier event arrives,  *)
(* the kitchen presses "ready", which is answered before the table is      *)
(* consulted, or a handler writes a decision that another one has          *)
(* overtaken.                                                              *)
(***************************************************************************)
TerminalLeft ==
  [][\A o \in Order :
       /\ orders[o].status \in Terminal
       /\ orders'[o].status # orders[o].status
       => \/ UNCHANGED reqs
          \/ \E r \in Req :
               /\ Acting(r)
               /\ \/ reqs[r].op = "courier"
                  \/ view[r] # "current"
                  \/ /\ reqs[r].op = "status"
                     /\ reqs[r].aim = ReadyTarget(orders[o])]_vars

(***************************************************************************)
(* NoFalseWaiting: an order is put in "ready_waiting_arrival" only while   *)
(* its customer is still awaited, so that the arrival will release it.     *)
(* The race of "ready" with the arrival is the one exception.              *)
(***************************************************************************)
NoFalseWaiting ==
  [][\A o \in Order :
       /\ orders'[o].status = "ready_waiting_arrival"
       /\ orders[o].status # "ready_waiting_arrival"
       => \/ orders'[o].arrival = "waiting"
          \/ \E r \in Req : Acting(r) /\ view[r] # "current"]_vars

(***************************************************************************)
(* TenantIsolation: a handler of one restaurant never changes an order     *)
(* that belongs to another by the time of its write, even if it was its    *)
(* own when the handler read it: demoSeed and a manual order with the same *)
(* id may move the row to another tenant in between (356-359).             *)
(***************************************************************************)
TenantIsolation ==
  [][\A o \in Order, r \in Req :
       Acting(r) /\ orders'[o] # orders[o]
         => /\ reqs[r].tenant = orders[o].tenant
            /\ orders'[o].tenant = orders[o].tenant]_vars

(***************************************************************************)
(* ServedItemsFrozen: the items of an order that was served or delivered   *)
(* change only through an edit whose check (224) another handler has       *)
(* overtaken.                                                              *)
(***************************************************************************)
ServedItemsFrozen ==
  [][\A o \in Order :
       /\ orders[o].status \in {"served", "delivered"}
       /\ orders'[o].edited /\ ~orders[o].edited
       => \E r \in Req : Acting(r) /\ view[r] # "current"]_vars

(***************************************************************************)
(* ImplementsAtomic: although every handler decides on a row that it read  *)
(* one round trip before its write (72 against 94, 106 against 110, 157    *)
(* against 161, 222 against 226), the orders change as if handlers were    *)
(* atomic (AtomicKitchen).  Only an overtaken handler may write what no    *)
(* longer suits the order, and it keeps the order's owner, kind, stamps,   *)
(* arrival, code and edits.                                                *)
(***************************************************************************)
Raced == {o \in Order : \E r \in Writing(o) : view[r] # "current"}

Atomic == INSTANCE AtomicKitchen WITH Demo <- {Demo1, Demo2, Demo3}, raced <- Raced

ImplementsAtomic == Atomic!Spec
=============================================================================
