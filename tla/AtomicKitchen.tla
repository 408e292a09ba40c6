--------------------------- MODULE AtomicKitchen ---------------------------
(***************************************************************************)
(* What the kitchen's handlers promise of the orders: each acts at once,   *)
(* on the order as it is, as if no other request were being handled.       *)
(*                                                                         *)
(* That promise ends where a request changes an order while another one    *)
(* has yet to write it.  "raced" names these orders.  What the overtaken   *)
(* handler writes there may no longer suit the order, but it still is the  *)
(* same order, and nothing that happened to it is undone but its status.   *)
(***************************************************************************)
EXTENDS OrderLifecycle

CONSTANT Demo     \* the ids that demoSeed writes

VARIABLES orders, raced

vars == <<orders, raced>>

Init ==
  /\ orders = [o \in Order |-> NoOrder]
  /\ raced = {}

-----------------------------------------------------------------------------
(* A new order is queued; those of demoSeed may be further on. *)
Beginning(o) ==
  {<<"queued", {}>>}
    \cup (IF o \in Demo THEN {<<"in_prep", {"startedAt"}>>, <<"out_for_delivery", {"readyAt"}>>}
                        ELSE {})

BegunAt(row, beginning) == [row EXCEPT !.status = beginning[1], !.stamps = beginning[2]]

IsNew(o, row) ==
  \E t \in Tenant, f \in Fulfillment, c \in Channel, b \in Beginning(o) :
    row = BegunAt(NewOrder(t, f, c), b)

(* What each handler makes of the row of an order. *)
StatusSet(row, next) ==
  \E requested \in Requested :
    LET target == ComputeNextStatus(row, requested)
    IN /\ target # Conflict /\ HandoffPossible(row, target)
       /\ next = [row EXCEPT !.status = target, !.stamps = @ \cup StampsOf(target)]

CustomerArrived(row, next) ==
  /\ row.arrival = "waiting"
  /\ next = [row EXCEPT !.arrival = "arrived",
                        !.status = IF @ = "ready_waiting_arrival" THEN "ready_for_handoff" ELSE @]

CourierMoved(row, next) == \E event \in StatusEvent : next = CourierRow(row, event)

CodeGenerated(row, next) == row.fulfillment = "pickup" /\ next = [row EXCEPT !.code = TRUE]

ItemsEdited(row, next) ==
  row.status \notin {"served", "delivered"} /\ next = [row EXCEPT !.edited = TRUE]

(* What even an overtaken handler keeps. *)
Keeps(row, next) ==
  /\ next \in OrderRow
  /\ next.tenant = row.tenant
  /\ next.fulfillment = row.fulfillment /\ next.channel = row.channel
  /\ next.arrival \in {row.arrival, "arrived"}
  /\ row.stamps \subseteq next.stamps
  /\ next.code \in {row.code, TRUE} /\ next.edited \in {row.edited, TRUE}

-----------------------------------------------------------------------------
Only(o) == orders' = [orders EXCEPT ![o] = orders'[o]]

(* Some orders are created, or re-created under the same ids. *)
Create(S) ==
  /\ orders' = [o \in Order |-> IF o \in S THEN orders'[o] ELSE orders[o]]
  /\ \A o \in S : IsNew(o, orders'[o])
  /\ raced \subseteq raced' /\ raced' \subseteq raced \cup S

(* A handler acts on an order, perhaps ahead of another one. *)
Handle(o) ==
  /\ orders[o] # NoOrder /\ Only(o)
  /\ \/ StatusSet(orders[o], orders'[o])
     \/ CustomerArrived(orders[o], orders'[o])
     \/ CourierMoved(orders[o], orders'[o])
     \/ CodeGenerated(orders[o], orders'[o])
     \/ ItemsEdited(orders[o], orders'[o])
  /\ raced' \in {raced, raced \cup {o}}

(* An overtaken handler acts on an order, perhaps the last one to do so. *)
Overwrite(o) ==
  /\ o \in raced /\ orders[o] # NoOrder /\ Only(o)
  /\ Keeps(orders[o], orders'[o])
  /\ raced' \in {raced, raced \ {o}}

(* The last one had nothing to write, or died. *)
Settle(o) ==
  /\ raced' = raced \ {o}
  /\ UNCHANGED orders

Next ==
  \/ \E S \in SUBSET Order : Create(S)
  \/ \E o \in Order : Handle(o) \/ Overwrite(o) \/ Settle(o)

Spec == Init /\ [][Next]_vars
=============================================================================
