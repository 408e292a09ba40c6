--------------------------- MODULE OrderLifecycle ---------------------------
(***************************************************************************)
(* The row of the "orders" table and the pure functions of KitchenService  *)
(* that decide how it may change.  Timestamps are abstracted to the set of *)
(* those that are not null; the pickup code and the items to whether a     *)
(* code exists and whether the items were edited after creation.  The      *)
(* channels web, phone and ai are one value, "remote": every branch of the *)
(* code that these modules keep treats the three alike.                    *)
(***************************************************************************)
EXTENDS FiniteSets

CONSTANTS Order,   \* the ids of the orders being watched
          Tenant   \* the restaurants

Status == {"queued", "in_prep", "ready_waiting_arrival", "ready_for_handoff",
           "on_hold", "out_for_delivery", "delivered", "served", "canceled"}
Terminal    == {"delivered", "served", "canceled"}
Arrival     == {"waiting", "arrived", "not_required"}
Fulfillment == {"pickup", "delivery", "tablet"}
Channel     == {"tablet", "remote"}
Stamp       == {"startedAt", "readyAt", "servedAt", "deliveredAt"}
Conflict    == "conflict"        \* what the null of computeNextStatus becomes
NoOrder     == [status |-> "absent"]

OrderRow == [tenant: Tenant, fulfillment: Fulfillment, channel: Channel,
             status: Status, arrival: Arrival, stamps: SUBSET Stamp,
             code: BOOLEAN, edited: BOOLEAN]

(***************************************************************************)
(* What manualCreate and the Stripe webhook write for a new order.         *)
(***************************************************************************)
NewOrder(t, f, c) ==
  [tenant |-> t, fulfillment |-> f, channel |-> c, status |-> "queued",
   arrival |-> IF f = "pickup" /\ c # "tablet" THEN "waiting" ELSE "not_required",
   stamps |-> {}, code |-> f = "pickup" /\ c # "tablet", edited |-> FALSE]

(* The statuses that the kitchen's routes request. *)
Requested == {"in_prep", "ready_waiting_arrival", "served", "delivered",
              "on_hold", "canceled"}
(***************************************************************************)
(* computeNextStatus.  "ready" is decided before the table is consulted:   *)
(* its target depends on the fulfilment and on the arrival alone.          *)
(***************************************************************************)
ReadyTarget(row) ==
  IF row.fulfillment = "delivery" THEN "out_for_delivery"
  ELSE IF /\ row.fulfillment = "pickup"
          /\ row.arrival = "waiting"
          /\ row.status # "ready_for_handoff"
       THEN "ready_waiting_arrival" ELSE "ready_for_handoff"

(* The table of the other requests, as a relation. *)
Allowed ==
  ({"queued"} \X {"in_prep", "out_for_delivery", "canceled"})
    \cup ({"in_prep"} \X {"on_hold", "out_for_delivery", "canceled"})
    \cup ({"ready_waiting_arrival", "ready_for_handoff"} \X {"served", "canceled"})
    \cup ({"on_hold"} \X {"in_prep", "canceled"})
    \cup {<<"out_for_delivery", "delivered">>}

PermitsLeavingCanceled(row, requested) ==    \* a plausible slip in the table
  /\ <<row.status, requested>> \in Allowed \cup {<<"canceled", "in_prep">>}
  /\ requested = "delivered" => row.fulfillment = "delivery"
  /\ requested = "served" => row.fulfillment # "delivery"

Permits(row, requested) ==
  /\ <<row.status, requested>> \in Allowed
  /\ requested = "delivered" => row.fulfillment = "delivery"
  /\ requested = "served" => row.fulfillment # "delivery"

ReadyTargetIgnoringArrival(row) ==           \* a plausible slip in "ready"
  IF row.fulfillment = "delivery" THEN "out_for_delivery" ELSE "ready_waiting_arrival"

ComputeNextStatusIgnoringArrival(row, requested) ==
  IF requested = "ready_waiting_arrival" THEN ReadyTargetIgnoringArrival(row)
  ELSE IF Permits(row, requested) THEN requested ELSE Conflict

ComputeNextStatus(row, requested) ==
  IF requested = "ready_waiting_arrival" THEN ReadyTarget(row)
  ELSE IF requested = "ready_for_handoff" \/ Permits(row, requested)
       THEN requested ELSE Conflict

(***************************************************************************)
(* The second guard of updateStatus: a pickup order that did not come from *)
(* the in-store tablet is served only to a customer who has arrived.       *)
(***************************************************************************)
HandoffPossible(row, target) ==
  (target = "served" /\ row.fulfillment = "pickup" /\ row.channel # "tablet")
     => row.arrival = "arrived"

(* The timestamp updateStatus writes together with the status. *)
StatusStamp ==
  {<<"in_prep", "startedAt">>, <<"ready_waiting_arrival", "readyAt">>,
   <<"ready_for_handoff", "readyAt">>, <<"served", "servedAt">>,
   <<"delivered", "deliveredAt">>}

StampsOf(target) == {stamp \in Stamp : <<target, stamp>> \in StatusStamp}

(* The courier events that change the status, and what updateDelivery      *)
(* writes for one.                                                         *)
StatusEvent == {"picked_up", "delivered", "canceled"}
CourierTarget(event) == IF event = "picked_up" THEN "out_for_delivery" ELSE event

CourierRowUnstamped(row, event) ==      \* a plausible slip: deliveredAt not written
  IF event \in StatusEvent THEN [row EXCEPT !.status = CourierTarget(event)] ELSE row

CourierRow(row, event) ==
  IF event \in StatusEvent
  THEN [row EXCEPT !.status = CourierTarget(event),
                   !.stamps = @ \cup (IF event = "delivered" THEN {"deliveredAt"} ELSE {})]
  ELSE row
=============================================================================
