----------------------------- MODULE PaymentFlow -----------------------------
(***************************************************************************)
(* From a cart to a paid order.  PaymentsService keeps one payment_links   *)
(* row per order and opens Stripe Checkout sessions for it; Stripe, which  *)
(* is outside the program, delivers the event of a successful payment at   *)
(* least once, possibly several times at once, until it is answered with   *)
(* a 2xx; WebhooksController turns the event into a kitchen order and, for *)
(* deliveries, into an in-memory job that orders a courier from Uber.      *)
(*                                                                         *)
(* Every await of a handler is a step of its own.  Requests and handlers   *)
(* may fail at any of them, at most MaxFailures times altogether.          *)
(***************************************************************************)
EXTENDS Naturals, FiniteSets

CONSTANTS Order,        \* the ids of the carts
          Req,          \* requests for a checkout session or a payment link;
                        \* also the name of the session that a request opens
          Copy,         \* concurrent deliveries of one and the same event
          Price,        \* the totals that the menu's prices can give a cart
          FailPoints,   \* where a request, a handler or a job may fail
          MaxFailures

ASSUME PriceAssumption == Price \subseteq Nat \ {0}
ASSUME FailuresAssumption == MaxFailures \in Nat

VARIABLES
  price,      \* the current price of the menu
  links,      \* the payment_links table
  reqs,       \* the requests, each made at most once
  paid,       \* Stripe: the sessions whose payment has succeeded
  acked,      \* Stripe: the sessions whose event was answered with a 2xx
  processed,  \* the processed_webhook_events table
  hooks,      \* the handlers of the deliveries of each session's event
  orders,     \* the orders table: has the kitchen begun to work on it?
  audit,      \* the audit table: the number of "paid" entries with the
              \* payment intent of a session
  jobs,       \* enqueued calls of createDeliveryAfterPayment
  couriers,   \* Uber: the deliveries created
  failures

stripe == <<paid, acked>>
kitchen == <<orders, audit>>
vars == <<price, links, reqs, paid, acked, processed, hooks, orders, audit,
          jobs, couriers, failures>>

NoLink == [state |-> "absent"]
(* amount is made from the price "amount"; it is the items' subtotal or the *)
(* total with tax and delivery fee.  fees is the price the fee columns were *)
(* computed from, 0 while they are null or zero.                           *)
Link == [fulfillment: {"pickup", "delivery"}, state: {"AWAITING_PAYMENT", "PAID"},
         amount: Price, basis: {"subtotal", "total"}, fees: Price \cup {0}]

Idle == [pc |-> "idle"]
Request == [pc: {"priced", "session", "stored", "dropped"}, kind: {"checkout", "link"},
            order: Order, price: Price]

Stored(o) == {r \in Req : reqs[r].pc = "stored" /\ reqs[r].order = o}
OrderOf(s) == reqs[s].order

-----------------------------------------------------------------------------
(* createCart and phonePaymentLink: a row of a fresh id, nothing but items. *)
CreateCart(o, f) ==
  /\ links[o] = NoLink
  /\ links' = [links EXCEPT ![o] = [fulfillment |-> f, state |-> "AWAITING_PAYMENT",
                                    amount |-> price, basis |-> "subtotal", fees |-> 0]]
  /\ UNCHANGED <<price, reqs, stripe, processed, hooks, kitchen, jobs, couriers, failures>>

(* The restaurant edits its menu. *)
ChangePrice(p) ==
  /\ price # p
  /\ price' = p
  /\ UNCHANGED <<links, reqs, stripe, processed, hooks, kitchen, jobs, couriers, failures>>

(***************************************************************************)
(* createCheckoutSession and createPaymentLink: read the row, price its    *)
(* items from the menu ...                                                 *)
(***************************************************************************)
BeginRequest(r, kind, o) ==
  /\ reqs[r] = Idle
  /\ links[o] # NoLink
  /\ reqs' = [reqs EXCEPT ![r] = [pc |-> "priced", kind |-> kind, order |-> o,
                                  price |-> price]]
  /\ UNCHANGED <<price, links, stripe, processed, hooks, kitchen, jobs, couriers, failures>>

(* ... call Stripe (or the Make webhook, whose failure is tolerated) ... *)
CallProvider(r) ==
  /\ reqs[r].pc = "priced"
  /\ reqs' = [reqs EXCEPT ![r].pc = "session"]
  /\ UNCHANGED <<price, links, stripe, processed, hooks, kitchen, jobs, couriers, failures>>

(***************************************************************************)
(* ... and write the row, whatever its state has become.  The link is only *)
(* answered after this write, so the customer cannot pay before it.        *)
(***************************************************************************)
StoredLinkRepriced(r) ==      \* a plausible slip: priced anew when it is stored
  [links[OrderOf(r)] EXCEPT !.state = "AWAITING_PAYMENT",
                            !.amount = price,
                            !.basis = IF reqs[r].kind = "checkout" THEN "total" ELSE "subtotal",
                            !.fees = IF reqs[r].kind = "checkout" THEN price ELSE @]

StoredLinkCentsTwice(r) ==    \* a plausible slip: cents converted to cents
  [links[OrderOf(r)] EXCEPT !.state = "AWAITING_PAYMENT", !.amount = 100 * reqs[r].price]

StoredLink(r) ==
  IF reqs[r].kind = "checkout"
  THEN [links[OrderOf(r)] EXCEPT !.state = "AWAITING_PAYMENT", !.amount = reqs[r].price,
                                 !.basis = "total", !.fees = reqs[r].price]
  ELSE [links[OrderOf(r)] EXCEPT !.state = "AWAITING_PAYMENT", !.amount = reqs[r].price,
                                 !.basis = "subtotal"]

StoreLink(r) ==
  /\ reqs[r].pc = "session"
  /\ links' = [links EXCEPT ![OrderOf(r)] = StoredLink(r)]
  /\ reqs' = [reqs EXCEPT ![r].pc = "stored"]
  /\ UNCHANGED <<price, stripe, processed, hooks, kitchen, jobs, couriers, failures>>

-----------------------------------------------------------------------------
(* Stripe, external: the customer pays an open session; the event follows. *)
Payable(s) == reqs[s].pc = "stored" /\ reqs[s].kind = "checkout"

Pay(s) ==
  /\ Payable(s)
  /\ s \notin paid
  /\ paid' = paid \cup {s}
  /\ UNCHANGED <<price, links, reqs, acked, processed, hooks, kitchen, jobs, couriers, failures>>

ReceiveOfAnySession(s, c) ==   \* a plausible slip: the event's type is not tested
  /\ Payable(s)
  /\ hooks[s][c] = "idle"
  /\ hooks' = [hooks EXCEPT ![s][c] = "claim"]
  /\ UNCHANGED <<price, links, reqs, stripe, processed, kitchen, jobs, couriers, failures>>

(***************************************************************************)
(* stripeWebhook.  Receive: verify the signature and find the payment_links*)
(* row of the order.  An event may be delivered again at any time.         *)
(***************************************************************************)
Receive(s, c) ==
  /\ s \in paid
  /\ hooks[s][c] = "idle"
  /\ hooks' = [hooks EXCEPT ![s][c] = "claim"]
  /\ UNCHANGED <<price, links, reqs, stripe, processed, kitchen, jobs, couriers, failures>>

ClaimWithoutUnique(s, c) ==   \* a plausible slip: the unique index is missing
  /\ hooks[s][c] = "claim"
  /\ processed' = processed \cup {s}
  /\ hooks' = [hooks EXCEPT ![s][c] = "apply"]
  /\ UNCHANGED <<price, links, reqs, stripe, kitchen, jobs, couriers, failures>>

ClaimTestInverted(s, c) ==    \* a plausible slip: the first delivery is the duplicate
  /\ hooks[s][c] = "claim"
  /\ \/ /\ s \notin processed
        /\ processed' = processed \cup {s}
        /\ acked' = acked \cup {s}
        /\ hooks' = [hooks EXCEPT ![s][c] = "idle"]
     \/ /\ s \in processed
        /\ hooks' = [hooks EXCEPT ![s][c] = "apply"]
        /\ UNCHANGED <<processed, acked>>
  /\ UNCHANGED <<price, links, reqs, paid, kitchen, jobs, couriers, failures>>

(* markProcessed: insert the event, or learn from the unique index that it *)
(* is a duplicate and answer it.                                           *)
Claim(s, c) ==
  /\ hooks[s][c] = "claim"
  /\ \/ /\ s \notin processed
        /\ processed' = processed \cup {s}
        /\ hooks' = [hooks EXCEPT ![s][c] = "apply"]
        /\ UNCHANGED acked
     \/ /\ s \in processed
        /\ acked' = acked \cup {s}
        /\ hooks' = [hooks EXCEPT ![s][c] = "idle"]
        /\ UNCHANGED processed
  /\ UNCHANGED <<price, links, reqs, paid, kitchen, jobs, couriers, failures>>

(***************************************************************************)
(* One transaction: the link becomes PAID and the order is upserted as     *)
(* "queued" with its audit entry, also if the kitchen already works on it. *)
(***************************************************************************)
Apply(s, c) ==
  /\ hooks[s][c] = "apply"
  /\ links' = [links EXCEPT ![OrderOf(s)].state = "PAID"]
  /\ orders' = [orders EXCEPT ![OrderOf(s)] = "queued"]
  /\ audit' = [audit EXCEPT ![s] = @ + 1]
  /\ hooks' = [hooks EXCEPT ![s][c] = "answer"]
  /\ UNCHANGED <<price, reqs, stripe, processed, jobs, couriers, failures>>

AnswerWithoutCourier(s, c) ==   \* a plausible slip: nothing is enqueued
  /\ hooks[s][c] = "answer"
  /\ acked' = acked \cup {s}
  /\ hooks' = [hooks EXCEPT ![s][c] = "idle"]
  /\ UNCHANGED <<price, links, reqs, paid, processed, kitchen, jobs, couriers, failures>>

(* After the commit: enqueue the courier (setImmediate) and answer 200. *)
Answer(s, c) ==
  /\ hooks[s][c] = "answer"
  /\ jobs' = IF links[OrderOf(s)].fulfillment = "delivery"
             THEN [jobs EXCEPT ![s] = @ + 1] ELSE jobs
  /\ acked' = acked \cup {s}
  /\ hooks' = [hooks EXCEPT ![s][c] = "idle"]
  /\ UNCHANGED <<price, links, reqs, paid, processed, kitchen, couriers, failures>>

(* createDeliveryAfterPayment up to the answer of Uber. *)
OrderCourier(s) ==
  /\ jobs[s] > 0
  /\ jobs' = [jobs EXCEPT ![s] = @ - 1]
  /\ couriers' = [couriers EXCEPT ![s] = @ + 1]
  /\ UNCHANGED <<price, links, reqs, stripe, processed, hooks, kitchen, failures>>

(* The kitchen works on the order (KitchenOrders has the details). *)
KitchenWorks(o) ==
  /\ orders[o] = "queued"
  /\ orders' = [orders EXCEPT ![o] = "worked"]
  /\ UNCHANGED <<price, links, reqs, stripe, processed, hooks, audit, jobs, couriers, failures>>

-----------------------------------------------------------------------------
(***************************************************************************)
(* Failures: a query, a call or the process fails while a handler waits.   *)
(* The handler is gone; Stripe sees no 2xx and will deliver again.         *)
(***************************************************************************)
CountFailure == failures < MaxFailures /\ failures' = failures + 1

FailHook(s, c) ==
  /\ hooks[s][c] \in FailPoints
  /\ CountFailure
  /\ hooks' = [hooks EXCEPT ![s][c] = "idle"]
  /\ UNCHANGED <<price, links, reqs, stripe, processed, kitchen, jobs, couriers>>

FailRequest(r) ==
  /\ reqs[r].pc \in {"priced", "session"} \cap FailPoints
  /\ CountFailure
  /\ reqs' = [reqs EXCEPT ![r].pc = "dropped"]
  /\ UNCHANGED <<price, links, stripe, processed, hooks, kitchen, jobs, couriers>>

LoseJob(s) ==
  /\ "job" \in FailPoints
  /\ jobs[s] > 0
  /\ CountFailure
  /\ jobs' = [jobs EXCEPT ![s] = @ - 1]
  /\ UNCHANGED <<price, links, reqs, stripe, processed, hooks, kitchen, couriers>>

-----------------------------------------------------------------------------
Init ==
  /\ price \in Price
  /\ links = [o \in Order |-> NoLink]
  /\ reqs = [r \in Req |-> Idle]
  /\ paid = {} /\ acked = {} /\ processed = {}
  /\ hooks = [s \in Req |-> [c \in Copy |-> "idle"]]
  /\ orders = [o \in Order |-> "none"]
  /\ audit = [s \in Req |-> 0]
  /\ jobs = [s \in Req |-> 0]
  /\ couriers = [s \in Req |-> 0]
  /\ failures = 0

Customer ==
  \/ \E o \in Order, f \in {"pickup", "delivery"} : CreateCart(o, f)
  \/ \E r \in Req, k \in {"checkout", "link"}, o \in Order : BeginRequest(r, k, o)
  \/ \E s \in Req : Pay(s)

Hook(s, c) == Claim(s, c) \/ Apply(s, c) \/ Answer(s, c)

Failure ==
  \/ \E s \in Req, c \in Copy : FailHook(s, c)
  \/ \E r \in Req : FailRequest(r) \/ LoseJob(r)

Next ==
  \/ Customer
  \/ \E p \in Price : ChangePrice(p)
  \/ \E r \in Req : CallProvider(r) \/ StoreLink(r) \/ OrderCourier(r)
  \/ \E s \in Req, c \in Copy : Receive(s, c) \/ Hook(s, c)
  \/ \E o \in Order : KitchenWorks(o)
  \/ Failure

Spec == Init /\ [][Next]_vars

(***************************************************************************)
(* Stripe delivers an event until it is answered, and the event loop runs  *)
(* every handler and every job whose await has completed.  Nothing is      *)
(* assumed of customers, of the kitchen or of the restaurant.              *)
(***************************************************************************)
Fairness ==
  /\ \A s \in Req : WF_vars(OrderCourier(s))
  /\ \A s \in Req, c \in Copy :
       WF_vars(s \notin acked /\ Receive(s, c)) /\ WF_vars(Hook(s, c))

FairSpec == Spec /\ Fairness

-----------------------------------------------------------------------------
TypeOK ==
  /\ price \in Price
  /\ links \in [Order -> Link \cup {NoLink}]
  /\ reqs \in [Req -> Request \cup {Idle}]
  /\ paid \subseteq Req /\ acked \subseteq Req /\ processed \subseteq Req
  /\ hooks \in [Req -> [Copy -> {"idle", "claim", "apply", "answer"}]]
  /\ orders \in [Order -> {"none", "queued", "worked"}]
  /\ audit \in [Req -> Nat] /\ jobs \in [Req -> Nat] /\ couriers \in [Req -> Nat]
  /\ failures \in 0..MaxFailures

(***************************************************************************)
(* AppliedOnce: however often and however concurrently Stripe delivers an  *)
(* event, and wherever handlers fail, it creates the order at most once    *)
(* (webhooks.controller.ts 135-151) and orders at most one courier (155).  *)
(***************************************************************************)
AppliedOnce == \A s \in Req : audit[s] <= 1 /\ jobs[s] + couriers[s] <= audit[s]

(***************************************************************************)
(* PaidMeansCharged: a link is PAID, an order is in the kitchen, only if   *)
(* Stripe has charged a session that was opened for that very order.       *)
(***************************************************************************)
ChargedFor(o) == \E s \in paid : OrderOf(s) = o
PaidMeansCharged ==
  \A o \in Order :
    (links[o] # NoLink /\ links[o].state = "PAID") \/ orders[o] # "none" => ChargedFor(o)

(***************************************************************************)
(* SettledOnce: once its only request has been paid and applied, the link  *)
(* of an order is PAID and records the amount and the fees of the session  *)
(* that the customer was charged for, even if the menu's prices changed    *)
(* between the creation of the session and the write of the row (551-589). *)
(* A second request for the order may overwrite both, paid or not.         *)
(***************************************************************************)
SettledOnce ==
  \A s \in Req :
    audit[s] > 0 /\ Stored(OrderOf(s)) = {s} =>
      LET link == links[OrderOf(s)]
      IN /\ link.state = "PAID"
         /\ link.basis = "total"
         /\ link.amount = reqs[s].price /\ link.fees = reqs[s].price

(***************************************************************************)
(* KitchenWorkKept: the kitchen's progress on an order is thrown back to   *)
(* "queued" (the upsert, 147) only if the order was charged twice, never   *)
(* by a second delivery of the same event.                                 *)
(***************************************************************************)
KitchenWorkKept ==
  [][\A o \in Order :
       orders[o] = "worked" /\ orders'[o] = "queued"
         => Cardinality({s \in paid : OrderOf(s) = o}) > 1]_vars

(***************************************************************************)
(* AckedIsApplied: when an event has been answered with a 2xx, so that     *)
(* Stripe will not deliver it again, it has updated the order and the      *)
(* payment, or a handler is still about to.                                *)
(***************************************************************************)
AckedIsApplied ==
  \A s \in acked : audit[s] > 0 \/ \E c \in Copy : hooks[s][c] = "apply"

(***************************************************************************)
(* ImplementsIdeal: seen through the sessions, with the audit entries of a *)
(* payment as the witness that it was settled, the carts, the concurrent   *)
(* and repeated deliveries, the claims and the failures never do what      *)
(* IdealPayment does not: no second settlement, no order in the kitchen    *)
(* and no courier without one, whatever is dropped or tried again.         *)
(***************************************************************************)
Ideal == INSTANCE IdealPayment WITH
  Checkout <- Req,
  for <- [r \in {r \in Req : reqs[r] # Idle} |-> reqs[r].order],
  charged <- paid,
  settled <- audit,
  kitchen <- orders,
  sent <- couriers

ImplementsIdeal == Ideal!Spec

(***************************************************************************)
(* PaidGetsOrder, PaidDeliveryGetsCourier: every payment reaches the       *)
(* kitchen, and every paid delivery a courier, as long as no handler fails *)
(* between its claim and its answer and no enqueued job is lost.           *)
(***************************************************************************)
PaidGetsOrder == \A s \in Req : s \in paid ~> audit[s] > 0
PaidDeliveryGetsCourier ==
  \A s \in Req :
    (s \in paid /\ links[OrderOf(s)].fulfillment = "delivery") ~> couriers[s] > 0
=============================================================================
