---------------------------- MODULE CourierDelivery ----------------------------
(***************************************************************************)
(* The courier of a paid order.  DeliveryService quotes a delivery, and    *)
(* orders it from Uber in a job that the Stripe webhook has enqueued; what *)
(* Uber reports of it afterwards reaches WebhooksController as events, in  *)
(* any order, repeatedly and concurrently.  An event is stored in the      *)
(* delivery_requests row and then, in a second step, told to the kitchen.  *)
(*                                                                         *)
(* Of the kitchen's order this module keeps the last courier event that    *)
(* changed it (KitchenOrders has the rest).  Uber is external.             *)
(***************************************************************************)
EXTENDS OrderLifecycle, Naturals

CONSTANTS Job,        \* the jobs; also the name of the delivery a job creates
          Hook,       \* the handlers of deliveryWebhook, each runs once
          MaxQuotes,  \* how often each order may be quoted
          Reported,   \* the statuses that other providers report
          Naming      \* may an event name the order? (createDelivery sends Uber no
                      \* id of the order, but deliveryWebhook looks for one first)

ASSUME JobAssumption == "none" \notin Job     \* a null is no delivery's id
ASSUME QuotesAssumption == MaxQuotes \in [Order -> Nat]
ASSUME ReportedAssumption == Reported \subseteq {"pickup", "delivered", "canceled"}
ASSUME NamingAssumption == Naming \subseteq BOOLEAN

VARIABLES quotes,   \* how often an order's quote and address have been stored
          jobs,
          uber,     \* Uber: the status of the delivery of each job
          events,   \* Uber: the events sent, each delivered any number of times
          rows,     \* the delivery_requests table
          hooks,
          told,     \* the last courier event that the kitchen's order was told
          torn,     \* history: orders whose row and last event come from steps
                    \* that overlapped, died half way or touch only one of them
          claims    \* history: the orders and deliveries that a restaurant has
                    \* linked itself, by POST delivery/webhook

vars == <<quotes, jobs, uber, events, rows, hooks, told, torn, claims>>

UberStatus == {"pending", "pickup", "delivered", "canceled"}
None == "none"
Idle == [pc |-> "idle"]
NoRow == [status |-> "absent"]

Row == [provider: {"manual", "external", "uber_direct"}, delivery: Job \cup {None},
        status: UberStatus \cup {"Preparing"}]
(* quote and address tell which storing of the two the job has read.        *)
JobRow == [pc: {"quoted", "calling", "done", "failed"}, order: Order,
           quote: Nat \ {0}, address: Nat]
HookRow == [pc: {"write", "notify", "done", "dead"}, order: Order, delivery: Job,
            status: UberStatus]

OrderOf(j) == jobs[j].order

(* mapUberStatusToEvent; "none" is its null. *)
EventOf(status) ==
  IF status = "pickup" THEN "picked_up"
  ELSE IF status \in {"delivered", "canceled"} THEN status ELSE None

Notifying(o) == {h \in Hook : hooks[h].pc = "notify" /\ hooks[h].order = o}

(* torn once o's row is written with status: a write mends the order if     *)
(* nobody else is about to tell its kitchen and if the kitchen is told the  *)
(* status next, or has nothing to forget.                                   *)
TornAfter(o, status) ==
  IF Notifying(o) = {} /\ (EventOf(status) = None => told[o] = None)
  THEN torn \ {o} ELSE torn \cup {o}

-----------------------------------------------------------------------------
(* quote: a call of Uber; then both rows are replaced in one transaction.   *)
StoreQuote(o) ==
  /\ quotes[o] < MaxQuotes[o]
  /\ quotes' = [quotes EXCEPT ![o] = @ + 1]
  /\ UNCHANGED <<jobs, uber, events, rows, hooks, told, torn, claims>>

(***************************************************************************)
(* createDeliveryAfterPayment: read the quote, read the address in another *)
(* query, call Uber, and store the answer.                                 *)
(***************************************************************************)
ReadQuoteUnchecked(j, o) ==      \* a plausible slip: no quote, no error
  /\ jobs[j] = Idle
  /\ jobs' = [jobs EXCEPT ![j] = [pc |-> "quoted", order |-> o,
                                  quote |-> quotes[o], address |-> 0]]
  /\ UNCHANGED <<quotes, uber, events, rows, hooks, told, torn, claims>>

ReadBothFromCache(j, o) ==       \* a plausible slip: the address of an earlier quote
  /\ jobs[j] = Idle
  /\ quotes[o] > 0
  /\ \E a \in 1..quotes[o] :
       jobs' = [jobs EXCEPT ![j] = [pc |-> "calling", order |-> o,
                                    quote |-> quotes[o], address |-> a]]
  /\ UNCHANGED <<quotes, uber, events, rows, hooks, told, torn, claims>>

ReadQuote(j, o) ==
  /\ jobs[j] = Idle
  /\ quotes[o] > 0
  /\ jobs' = [jobs EXCEPT ![j] = [pc |-> "quoted", order |-> o,
                                  quote |-> quotes[o], address |-> 0]]
  /\ UNCHANGED <<quotes, uber, events, rows, hooks, told, torn, claims>>

ReadAddress(j) ==
  /\ jobs[j].pc = "quoted"
  /\ jobs' = [jobs EXCEPT ![j].pc = "calling", ![j].address = quotes[OrderOf(j)]]
  /\ UNCHANGED <<quotes, uber, events, rows, hooks, told, torn, claims>>

StoreAnswer(j) ==
  /\ jobs[j].pc = "calling"
  /\ uber[j] # None
  /\ rows' = [rows EXCEPT ![OrderOf(j)] = [provider |-> "uber_direct", delivery |-> j,
                                           status |-> "pending"]]
  /\ jobs' = [jobs EXCEPT ![j].pc = "done"]
  /\ torn' = TornAfter(OrderOf(j), "pending")
  /\ UNCHANGED <<quotes, uber, events, hooks, told, claims>>

(* A query fails, or the call of Uber times out, whether or not Uber acts on *)
(* it; the error is logged and nothing is retried.                          *)
FailJob(j) ==
  /\ jobs[j].pc \in {"quoted", "calling"}
  /\ jobs' = [jobs EXCEPT ![j].pc = "failed"]
  /\ UNCHANGED <<quotes, uber, events, rows, hooks, told, torn, claims>>

-----------------------------------------------------------------------------
(* Uber, external: accepts a call it was sent, and reports every progress.  *)
UberAccepts(j) ==
  /\ jobs[j].pc \in {"calling", "failed"} /\ jobs[j].address > 0
  /\ uber[j] = None
  /\ uber' = [uber EXCEPT ![j] = "pending"]
  /\ events' = events \cup {[delivery |-> j, status |-> "pending"]}
  /\ UNCHANGED <<quotes, jobs, rows, hooks, told, torn, claims>>

UberMoves(j, status) ==
  /\ <<uber[j], status>> \in {<<"pending", "pickup">>, <<"pending", "canceled">>,
                              <<"pickup", "delivered">>, <<"pickup", "canceled">>}
  /\ uber' = [uber EXCEPT ![j] = status]
  /\ events' = events \cup {[delivery |-> j, status |-> status]}
  /\ UNCHANGED <<quotes, jobs, rows, hooks, told, torn, claims>>

-----------------------------------------------------------------------------
(***************************************************************************)
(* deliveryWebhook.  An event that does not name the order is matched by   *)
(* the delivery's id, which the job stores; without a match it is refused  *)
(* (400), which changes nothing.                                           *)
(***************************************************************************)
OrdersMatchingAny(e, named) ==       \* a plausible slip: the id is not compared
  IF named THEN {OrderOf(e.delivery)} ELSE {o \in Order : rows[o] # NoRow}

OrdersMatching(e, named) ==
  IF named THEN {OrderOf(e.delivery)}
           ELSE {o \in Order : rows[o] # NoRow /\ rows[o].delivery = e.delivery}

Receive(h, e, named) ==
  /\ hooks[h] = Idle
  /\ \E o \in OrdersMatching(e, named) :
       hooks' = [hooks EXCEPT ![h] = [pc |-> "write", order |-> o, delivery |-> e.delivery,
                                      status |-> e.status]]
  /\ UNCHANGED <<quotes, jobs, uber, events, rows, told, torn, claims>>

(* The upsert of the row; a status that is mapped to an event goes on.       *)
WriteRow(h) ==
  /\ hooks[h].pc = "write"
  /\ LET o == hooks[h].order
     IN /\ rows' = [rows EXCEPT ![o] = [provider |-> "uber_direct", status |-> hooks[h].status,
                                        delivery |-> hooks[h].delivery]]
        /\ hooks' = [hooks EXCEPT ![h].pc = IF EventOf(hooks[h].status) = None
                                            THEN "done" ELSE "notify"]
        /\ torn' = TornAfter(o, hooks[h].status)
  /\ UNCHANGED <<quotes, jobs, uber, events, told, claims>>

NotifyFirstOnly(h) ==           \* a plausible slip: told orders are left alone
  /\ hooks[h].pc = "notify"
  /\ LET o == hooks[h].order
     IN told' = IF told[o] = None THEN [told EXCEPT ![o] = EventOf(hooks[h].status)] ELSE told
  /\ hooks' = [hooks EXCEPT ![h].pc = "done"]
  /\ UNCHANGED <<quotes, jobs, uber, events, rows, torn, claims>>

(* kitchen.updateDelivery *)
Notify(h) ==
  /\ hooks[h].pc = "notify"
  /\ told' = [told EXCEPT ![hooks[h].order] = EventOf(hooks[h].status)]
  /\ hooks' = [hooks EXCEPT ![h].pc = "done"]
  /\ UNCHANGED <<quotes, jobs, uber, events, rows, torn, claims>>

(* The process stops, a query fails, or updateDelivery finds no order of     *)
(* the restaurant (404).                                                     *)
Die(h) ==
  /\ hooks[h].pc \in {"write", "notify"}
  /\ hooks' = [hooks EXCEPT ![h].pc = "dead"]
  /\ torn' = IF hooks[h].pc = "notify" THEN torn \cup {hooks[h].order} ELSE torn
  /\ UNCHANGED <<quotes, jobs, uber, events, rows, told, claims>>

(* The event of another provider tells the kitchen only ... *)
OtherProvider(o, status) ==
  /\ told' = [told EXCEPT ![o] = EventOf(status)]
  /\ torn' = torn \cup {o}
  /\ UNCHANGED <<quotes, jobs, uber, events, rows, hooks, claims>>

(* ... POST delivery/request and delivery/webhook write only the row: the    *)
(* one with no delivery, the other with the id that the caller gives or     *)
(* none.  An id that Uber has not given out links no event, as none does.   *)
Overwrite(o, provider, delivery, status) ==
  /\ rows' = [rows EXCEPT ![o] = [provider |-> provider, delivery |-> delivery,
                                  status |-> status]]
  /\ torn' = torn \cup {o}
  /\ claims' = IF delivery = None THEN claims ELSE claims \cup {<<o, delivery>>}
  /\ UNCHANGED <<quotes, jobs, uber, events, hooks, told>>

Given == {j \in Job : uber[j] # None}

-----------------------------------------------------------------------------
Init ==
  /\ quotes = [o \in Order |-> 0]
  /\ jobs = [j \in Job |-> Idle]
  /\ uber = [j \in Job |-> None]
  /\ events = {}
  /\ rows = [o \in Order |-> NoRow]
  /\ hooks = [h \in Hook |-> Idle]
  /\ told = [o \in Order |-> None]
  /\ torn = {}
  /\ claims = {}

Working(j) ==
  (\E o \in Order : ReadQuote(j, o)) \/ ReadAddress(j) \/ StoreAnswer(j) \/ FailJob(j)

Uber(j) == UberAccepts(j) \/ \E s \in UberStatus : UberMoves(j, s)

Handling(h) ==
  \/ \E e \in events, named \in Naming : Receive(h, e, named)
  \/ WriteRow(h) \/ Notify(h) \/ Die(h)

ByHand(o) ==
  \/ StoreQuote(o)
  \/ Overwrite(o, "manual", None, "Preparing")
  \/ \E s \in Reported : OtherProvider(o, s)
  \/ \E s \in Reported, d \in Given \cup {None} : Overwrite(o, "external", d, s)

Next ==
  \/ \E j \in Job : Working(j) \/ Uber(j)
  \/ \E h \in Hook : Handling(h)
  \/ \E o \in Order : ByHand(o)

Spec == Init /\ [][Next]_vars

-----------------------------------------------------------------------------
(* TypeOK; no delivery is ordered without a quote (195).                    *)
TypeOK ==
  /\ quotes \in [Order -> Nat]
  /\ jobs \in [Job -> JobRow \cup {Idle}]
  /\ uber \in [Job -> UberStatus \cup {None}]
  /\ events \subseteq [delivery: Job, status: UberStatus]
  /\ rows \in [Order -> Row \cup {NoRow}]
  /\ hooks \in [Hook -> HookRow \cup {Idle}]
  /\ told \in [Order -> StatusEvent \cup {None}]
  /\ torn \subseteq Order
  /\ claims \subseteq Order \X Job

(***************************************************************************)
(* OwnCourier: whatever events arrive, an order's delivery row is linked   *)
(* to, and the kitchen is told of, deliveries of this very order, and of   *)
(* no other unless a restaurant's own POST delivery/webhook has written    *)
(* the other's id into the row (280): only then does findFirst (242) book  *)
(* an event that names no order on the wrong one.                          *)
(***************************************************************************)
Belongs(o, delivery) == OrderOf(delivery) = o \/ <<o, delivery>> \in claims

OwnCourier ==
  /\ \A o \in Order :
       rows[o] # NoRow /\ rows[o].delivery # None => Belongs(o, rows[o].delivery)
  /\ \A h \in Hook : hooks[h] # Idle => Belongs(hooks[h].order, hooks[h].delivery)

(***************************************************************************)
(* RowAndKitchenAgree: the delivery row that the customer is shown and the *)
(* order that the kitchen is shown tell the same once no event is being    *)
(* handled: the kitchen was told last what the row says, and nothing if    *)
(* the row says nothing for it.  Excepted is an order for which            *)
(*  - two events overlapped, or the job's answer and an event,             *)
(*  - a handler died between its two writes (258 and 280),                 *)
(*  - one of the two was written by hand, or                               *)
(*  - "pending", late from the job (delivery.service.ts 247) or from an    *)
(*    event (258), was written over a status the kitchen had been told.    *)
(* The next event for the kitchen that is handled on its own mends it.     *)
(***************************************************************************)
RowAndKitchenAgree ==
  \A o \in Order \ torn : Notifying(o) = {} => told[o] = EventOf(rows[o].status)

(***************************************************************************)
(* AddressOfQuote: the quote and the address of a delivery are read in two *)
(* queries (193, 194), although they are stored together: if the customer  *)
(* asks for another quote in between, Uber is called with the new address, *)
(* never with one that has been replaced already when the quote was given. *)
(***************************************************************************)
AddressOfQuote ==
  \A j \in Job : jobs[j].pc \in {"calling", "done"} => jobs[j].address >= jobs[j].quote

(***************************************************************************)
(* LatestStatus: when Uber has reported all of an order's only delivery,   *)
(* and all reports have been handled, the row has Uber's latest status.    *)
(***************************************************************************)
Handled(e) ==
  \E h \in Hook : /\ hooks[h].pc = "done"
                  /\ hooks[h].delivery = e.delivery /\ hooks[h].status = e.status

Quiet ==
  /\ \A j \in Job : jobs[j].pc \in {"idle", "done", "failed"}
  /\ \A h \in Hook : hooks[h].pc \in {"idle", "done"}
  /\ \A e \in events : Handled(e)

LatestStatus ==
  \A j \in Job :
    Quiet /\ jobs[j].pc = "done" /\ (\A i \in Job \ {j} : jobs[i] = Idle) =>
      LET row == rows[OrderOf(j)]
      IN row.provider = "uber_direct" => row.status = uber[j]
=============================================================================
