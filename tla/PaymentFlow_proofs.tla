------------------------- MODULE PaymentFlow_proofs -------------------------
(***************************************************************************)
(* Proofs about PaymentFlow, for any carts, requests, concurrent           *)
(* deliveries, prices, failures and their number.                          *)
(***************************************************************************)
EXTENDS PaymentFlow, FiniteSetTheorems, TLAPS

(* A request is made for a row that is there, and rows are never removed.  *)
HasRow == \A r \in Req : reqs[r] # Idle => links[reqs[r].order] # NoLink

(* What has been paid is a stored checkout session, for good. *)
PaidIsStored == \A s \in paid : Payable(s)

(* Only events of payments are handled. *)
ReceivedIsPaid == \A s \in Req, c \in Copy : hooks[s][c] # "idle" => s \in paid

(* Types are kept by these three together. *)
Typed == TypeOK /\ HasRow /\ PaidIsStored /\ ReceivedIsPaid

-----------------------------------------------------------------------------
LEMMA NoLinkIsNoRow == NoLink \notin Link
BY DEF NoLink, Link

LEMMA IdleIsNoRequest == Idle \notin Request
BY DEF Idle, Request

LEMMA RequestFields ==
  ASSUME Typed, NEW r \in Req, reqs[r] # Idle
  PROVE  /\ reqs[r] \in Request /\ OrderOf(r) \in Order
         /\ links[OrderOf(r)] \in Link
         /\ \A p \in {"priced", "session", "stored", "dropped"} :
              [reqs[r] EXCEPT !.pc = p] \in Request
<1>1. reqs[r] \in Request
  BY DEF Typed, TypeOK
<1>2. QED BY <1>1 DEF Typed, TypeOK, HasRow, Request, OrderOf

LEMMA StoredLinkType ==
  ASSUME Typed, NEW r \in Req, reqs[r] # Idle
  PROVE  StoredLink(r) \in Link
<1>1. /\ links[OrderOf(r)] \in Link /\ reqs[r].price \in Price
  BY RequestFields DEF Request
<1>2. CASE reqs[r].kind = "checkout"
  BY <1>1, <1>2 DEF StoredLink, Link
<1>3. CASE reqs[r].kind # "checkout"
  BY <1>1, <1>3 DEF StoredLink, Link
<1>4. QED BY <1>2, <1>3

LEMMA TypedStep ==
  ASSUME Typed, [Next]_vars
  PROVE  Typed'
<1> USE DEF Typed, stripe, kitchen
<1>1. ASSUME NEW o \in Order, NEW f \in {"pickup", "delivery"}, CreateCart(o, f)
      PROVE  Typed'
  BY <1>1, NoLinkIsNoRow, RequestFields
     DEF CreateCart, TypeOK, HasRow, PaidIsStored, ReceivedIsPaid, Payable, Link
<1>2. ASSUME NEW r \in Req, NEW k \in {"checkout", "link"}, NEW o \in Order,
             BeginRequest(r, k, o)
      PROVE  Typed'
  <2>1. reqs' \in [Req -> Request \cup {Idle}]
    BY <1>2 DEF BeginRequest, TypeOK, Request
  <2>2. HasRow'
    BY <1>2 DEF BeginRequest, TypeOK, HasRow
  <2>3. PaidIsStored'
    BY <1>2 DEF BeginRequest, TypeOK, PaidIsStored, Payable, Idle
  <2>4. QED BY <1>2, <2>1, <2>2, <2>3 DEF BeginRequest, TypeOK, ReceivedIsPaid
<1>3. ASSUME NEW s \in Req, Pay(s) PROVE Typed'
  BY <1>3 DEF Pay, TypeOK, HasRow, PaidIsStored, ReceivedIsPaid, Payable
<1>4. ASSUME NEW p \in Price, ChangePrice(p) PROVE Typed'
  BY <1>4 DEF ChangePrice, TypeOK, HasRow, PaidIsStored, ReceivedIsPaid, Payable
<1>5. ASSUME NEW r \in Req, CallProvider(r) \/ StoreLink(r) \/ FailRequest(r)
      PROVE  Typed'
  <2>1. reqs[r] # Idle
    BY <1>5 DEF CallProvider, StoreLink, FailRequest, Idle
  <2>2. PICK p \in {"session", "stored", "dropped"} :
          reqs' = [reqs EXCEPT ![r] = [reqs[r] EXCEPT !.pc = p]]
    BY <1>5 DEF CallProvider, StoreLink, FailRequest
  <2>3. reqs' \in [Req -> Request \cup {Idle}]
    BY <2>1, <2>2, RequestFields DEF TypeOK
  <2>4. links' = links \/ links' = [links EXCEPT ![OrderOf(r)] = StoredLink(r)]
    BY <1>5 DEF CallProvider, StoreLink, FailRequest
  <2>5. links' \in [Order -> Link \cup {NoLink}]
    BY <2>1, <2>4, RequestFields, StoredLinkType DEF TypeOK
  <2>6. HasRow'
    <3>1. \A o \in Order : links[o] # NoLink => links'[o] # NoLink
      BY <2>1, <2>4, StoredLinkType, NoLinkIsNoRow, RequestFields DEF TypeOK
    <3>2. \A q \in Req : reqs'[q] # Idle => reqs[q] # Idle /\ reqs'[q].order = reqs[q].order
      BY <2>1, <2>2, RequestFields DEF TypeOK, Request
    <3>3. QED BY <3>1, <3>2, RequestFields DEF HasRow, OrderOf
  <2>7. PaidIsStored'
    <3>1. reqs[r].pc # "stored" /\ paid' = paid
      BY <1>5 DEF CallProvider, StoreLink, FailRequest
    <3>2. QED BY <2>2, <3>1 DEF PaidIsStored, Payable, TypeOK
  <2>8. UNCHANGED <<price, paid, acked, processed, hooks, orders, audit, jobs, couriers>>
    BY <1>5 DEF CallProvider, StoreLink, FailRequest
  <2>9. failures' \in 0..MaxFailures
    BY <1>5, FailuresAssumption DEF CallProvider, StoreLink, FailRequest, CountFailure, TypeOK
  <2>10. QED BY <2>3, <2>5, <2>6, <2>7, <2>8, <2>9 DEF TypeOK, ReceivedIsPaid
<1>6. ASSUME NEW s \in Req, OrderCourier(s) \/ LoseJob(s) PROVE Typed'
  <2>1. jobs' \in [Req -> Nat] /\ couriers' \in [Req -> Nat]
    <3>1. jobs[s] - 1 \in Nat /\ couriers[s] + 1 \in Nat
      BY <1>6 DEF OrderCourier, LoseJob, TypeOK
    <3>2. CASE OrderCourier(s) BY <3>1, <3>2 DEF OrderCourier, TypeOK
    <3>3. CASE LoseJob(s) BY <3>1, <3>3 DEF LoseJob, TypeOK
    <3>4. QED BY <1>6, <3>2, <3>3
  <2>2. failures' \in 0..MaxFailures
    BY <1>6, FailuresAssumption DEF OrderCourier, LoseJob, CountFailure, TypeOK
  <2>3. QED BY <1>6, <2>1, <2>2
              DEF OrderCourier, LoseJob, TypeOK, HasRow, PaidIsStored, ReceivedIsPaid, Payable
<1>7. ASSUME NEW s \in Req, NEW c \in Copy,
             Receive(s, c) \/ Claim(s, c) \/ Answer(s, c) \/ FailHook(s, c)
      PROVE  Typed'
  <2>1. PICK pc \in {"idle", "claim", "apply", "answer"} :
          /\ hooks' = [hooks EXCEPT ![s] = [hooks[s] EXCEPT ![c] = pc]]
          /\ pc # "idle" => s \in paid
    BY <1>7 DEF Receive, Claim, Answer, FailHook, ReceivedIsPaid
  <2>2. hooks' \in [Req -> [Copy -> {"idle", "claim", "apply", "answer"}]]
    BY <2>1 DEF TypeOK
  <2>3. UNCHANGED <<price, links, reqs, paid, orders, audit, couriers>>
    BY <1>7 DEF Receive, Claim, Answer, FailHook
  <2>4. ReceivedIsPaid'
    BY <2>1, <2>3 DEF ReceivedIsPaid, TypeOK
  <2>5. jobs' \in [Req -> Nat] /\ acked' \subseteq Req /\ processed' \subseteq Req
    BY <1>7 DEF Receive, Claim, Answer, FailHook, TypeOK
  <2>6. failures' \in 0..MaxFailures
    BY <1>7, FailuresAssumption DEF Receive, Claim, Answer, FailHook, CountFailure, TypeOK
  <2>7. QED BY <2>2, <2>3, <2>4, <2>5, <2>6 DEF TypeOK, HasRow, PaidIsStored, Payable
<1>8. ASSUME NEW s \in Req, NEW c \in Copy, Apply(s, c) PROVE Typed'
  <2>1. s \in paid /\ reqs[s] # Idle
    BY <1>8 DEF Apply, ReceivedIsPaid, PaidIsStored, Payable, Idle
  <2>2. [links[OrderOf(s)] EXCEPT !.state = "PAID"] \in Link
    BY <2>1, RequestFields DEF Link
  <2>3. /\ links' \in [Order -> Link \cup {NoLink}]
        /\ \A o \in Order : links[o] # NoLink => links'[o] # NoLink
    BY <1>8, <2>1, <2>2, NoLinkIsNoRow, RequestFields DEF Apply, TypeOK
  <2>4. HasRow'
    BY <1>8, <2>3, RequestFields DEF Apply, HasRow, OrderOf
  <2>5. orders' \in [Order -> {"none", "queued", "worked"}] /\ audit' \in [Req -> Nat]
    <3>1. orders' = [orders EXCEPT ![OrderOf(s)] = "queued"] /\ audit' = [audit EXCEPT ![s] = audit[s] + 1]
      BY <1>8 DEF Apply
    <3>2. OrderOf(s) \in Order /\ audit[s] \in Nat
      BY <2>1, RequestFields DEF TypeOK
    <3>3. orders' \in [Order -> {"none", "queued", "worked"}]
      BY <3>1, <3>2 DEF TypeOK
    <3>4. audit' \in [Req -> Nat]
      <4>1. audit[s] + 1 \in Nat
        BY <3>2
      <4>2. QED BY <3>1, <4>1 DEF TypeOK
    <3>5. QED BY <3>3, <3>4
  <2>6. /\ hooks' \in [Req -> [Copy -> {"idle", "claim", "apply", "answer"}]]
        /\ ReceivedIsPaid'
    BY <1>8, <2>1 DEF Apply, TypeOK, ReceivedIsPaid
  <2>7. QED BY <1>8, <2>3, <2>4, <2>5, <2>6 DEF Apply, TypeOK, PaidIsStored, Payable
<1>9. ASSUME NEW o \in Order, KitchenWorks(o) PROVE Typed'
  BY <1>9 DEF KitchenWorks, TypeOK, HasRow, PaidIsStored, ReceivedIsPaid, Payable
<1>10. CASE UNCHANGED vars
  BY <1>10 DEF vars, TypeOK, HasRow, PaidIsStored, ReceivedIsPaid, Payable
<1>11. QED
  BY <1>1, <1>2, <1>3, <1>4, <1>5, <1>6, <1>7, <1>8, <1>9, <1>10
     DEF Next, Customer, Hook, Failure

(***************************************************************************)
(* Type correctness, together with the facts that keep it: requests are    *)
(* for rows that are there, payments for stored sessions, events for       *)
(* payments.                                                               *)
(***************************************************************************)
THEOREM TypedHolds == Spec => []Typed
<1>1. Init => Typed
  BY FailuresAssumption
     DEF Init, Typed, TypeOK, HasRow, PaidIsStored, ReceivedIsPaid, Idle
<1>2. QED BY <1>1, TypedStep, PTL DEF Spec

THEOREM TypeCorrect == Spec => []TypeOK
<1>1. Typed => TypeOK BY DEF Typed
<1>2. QED BY <1>1, TypedHolds, PTL

-----------------------------------------------------------------------------
(* What a step may never take back. *)
LEMMA Persist ==
  ASSUME Typed, [Next]_vars
  PROVE  /\ paid \subseteq paid' /\ processed \subseteq processed'
         /\ \A r \in Req : reqs[r] # Idle =>
              /\ reqs'[r] # Idle
              /\ OrderOf(r)' = OrderOf(r)
              /\ reqs'[r].price = reqs[r].price /\ reqs'[r].kind = reqs[r].kind
<1>1. paid \subseteq paid' /\ processed \subseteq processed'
  BY DEF Next, Customer, Hook, Failure, vars, stripe, CreateCart, ChangePrice,
         BeginRequest, CallProvider, StoreLink, Pay, Receive, Claim, Apply, Answer,
         OrderCourier, KitchenWorks, FailHook, FailRequest, LoseJob
<1>2. \/ reqs' = reqs
      \/ \E r \in Req, k \in {"checkout", "link"}, o \in Order : BeginRequest(r, k, o)
      \/ \E r \in Req : CallProvider(r) \/ StoreLink(r) \/ FailRequest(r)
  BY DEF Next, Customer, Hook, Failure, vars, CreateCart, ChangePrice, Pay, Receive,
         Claim, Apply, Answer, OrderCourier, KitchenWorks, FailHook, LoseJob
<1>3. CASE reqs' = reqs
  BY <1>1, <1>3 DEF OrderOf
<1>4. ASSUME NEW r \in Req, NEW k \in {"checkout", "link"}, NEW o \in Order,
             BeginRequest(r, k, o)
      PROVE  \A q \in Req : reqs[q] # Idle => reqs'[q] = reqs[q]
  BY <1>4 DEF BeginRequest, Typed, TypeOK
<1>5. ASSUME NEW r \in Req, CallProvider(r) \/ StoreLink(r) \/ FailRequest(r)
      PROVE  \E p \in {"session", "stored", "dropped"} :
                reqs' = [reqs EXCEPT ![r] = [reqs[r] EXCEPT !.pc = p]]
  BY <1>5 DEF CallProvider, StoreLink, FailRequest
<1>6. ASSUME NEW r \in Req, NEW p \in {"session", "stored", "dropped"},
             reqs' = [reqs EXCEPT ![r] = [reqs[r] EXCEPT !.pc = p]]
      PROVE  \A q \in Req : reqs[q] # Idle =>
              /\ reqs'[q] # Idle
              /\ OrderOf(q)' = OrderOf(q)
              /\ reqs'[q].price = reqs[q].price /\ reqs'[q].kind = reqs[q].kind
  BY <1>6 DEF Typed, TypeOK, Request, Idle, OrderOf
<1>7. QED
  <2>1. ASSUME NEW r \in Req, NEW k \in {"checkout", "link"}, NEW o \in Order,
               BeginRequest(r, k, o)
        PROVE  \A q \in Req : reqs[q] # Idle =>
              /\ reqs'[q] # Idle
              /\ OrderOf(q)' = OrderOf(q)
              /\ reqs'[q].price = reqs[q].price /\ reqs'[q].kind = reqs[q].kind
    BY <2>1, <1>4 DEF OrderOf
  <2>2. QED BY <1>1, <1>2, <1>3, <2>1, <1>5, <1>6

-----------------------------------------------------------------------------
(* A delivery whose handler has claimed the event and not yet answered it. *)
Past(s, c) == hooks[s][c] \in {"apply", "answer"}

(* Of the deliveries of one event at most one ever gets past the claim.    *)
OneApplier ==
  \A s \in Req, c \in Copy :
    Past(s, c) => s \in processed /\ \A d \in Copy : Past(s, d) => d = c

(***************************************************************************)
(* What is booked for a session: nothing before the claim, one audit entry *)
(* and no courier while its handler has yet to answer, and ever after at   *)
(* most one courier, ordered or enqueued.                                  *)
(***************************************************************************)
Booked ==
  \A s \in Req :
    /\ audit[s] > 0 => s \in paid /\ s \in processed
    /\ audit[s] <= 1 /\ jobs[s] + couriers[s] <= audit[s]
    /\ \A c \in Copy : hooks[s][c] = "apply" => audit[s] = 0
    /\ \A c \in Copy : hooks[s][c] = "answer" => audit[s] = 1 /\ jobs[s] + couriers[s] = 0

(* The actions that touch what these two speak of. *)
LEMMA BookingSteps ==
  ASSUME [Next]_vars
  PROVE  \/ UNCHANGED <<hooks, processed, audit, jobs, couriers>>
         \/ \E s \in Req : OrderCourier(s) \/ LoseJob(s)
         \/ \E s \in Req, c \in Copy :
              Receive(s, c) \/ Claim(s, c) \/ Apply(s, c) \/ Answer(s, c) \/ FailHook(s, c)
BY DEF Next, Customer, Hook, Failure, vars, kitchen, CreateCart, ChangePrice, BeginRequest,
       CallProvider, StoreLink, Pay, KitchenWorks, FailRequest

LEMMA OneApplierStep ==
  ASSUME Typed, OneApplier, [Next]_vars
  PROVE  OneApplier'
<1>1. CASE hooks' = hooks /\ processed \subseteq processed'
  BY <1>1 DEF OneApplier, Past
<1>2. ASSUME NEW s \in Req, NEW c \in Copy,
             Receive(s, c) \/ Answer(s, c) \/ FailHook(s, c)
      PROVE  OneApplier'
  <2>1. PICK pc \in {"idle", "claim"} : hooks' = [hooks EXCEPT ![s] = [hooks[s] EXCEPT ![c] = pc]]
    BY <1>2 DEF Receive, Answer, FailHook
  <2>2. \A t \in Req, d \in Copy : Past(t, d)' => Past(t, d)
    BY <2>1 DEF Past, Typed, TypeOK
  <2>3. QED BY <2>2, Persist DEF OneApplier
<1>3. ASSUME NEW s \in Req, NEW c \in Copy, Claim(s, c) PROVE OneApplier'
  <2>1. CASE s \in processed
    <3>1. \A t \in Req, d \in Copy : Past(t, d)' => Past(t, d)
      BY <1>3, <2>1 DEF Claim, Past, Typed, TypeOK
    <3>2. QED BY <3>1, Persist DEF OneApplier
  <2>2. CASE s \notin processed
    <3>1. s \in processed'
      BY <1>3, <2>2 DEF Claim
    <3>2. \A d \in Copy : ~Past(s, d)
      BY <2>2 DEF OneApplier
    <3>3. \A t \in Req, d \in Copy : Past(t, d)' => Past(t, d) \/ (t = s /\ d = c)
      BY <1>3, <2>2 DEF Claim, Past, Typed, TypeOK
    <3>4. QED BY <3>1, <3>2, <3>3, Persist DEF OneApplier
  <2>3. QED BY <2>1, <2>2
<1>4. ASSUME NEW s \in Req, NEW c \in Copy, Apply(s, c) PROVE OneApplier'
  <2>1. \A t \in Req, d \in Copy : Past(t, d)' => Past(t, d)
    BY <1>4 DEF Apply, Past, Typed, TypeOK
  <2>2. QED BY <2>1, Persist DEF OneApplier
<1>5. QED
  BY <1>1, <1>2, <1>3, <1>4, BookingSteps DEF OrderCourier, LoseJob

LEMMA BookedStep ==
  ASSUME Typed, OneApplier, Booked, [Next]_vars
  PROVE  Booked'
<1> DEFINE At(s) ==
      /\ audit[s] > 0 => s \in paid /\ s \in processed
      /\ audit[s] <= 1 /\ jobs[s] + couriers[s] <= audit[s]
      /\ \A c \in Copy : hooks[s][c] = "apply" => audit[s] = 0
      /\ \A c \in Copy : hooks[s][c] = "answer" => audit[s] = 1 /\ jobs[s] + couriers[s] = 0
<1> SUFFICES ASSUME NEW s \in Req PROVE At(s)'
  BY DEF Booked
<1>1. /\ At(s)
      /\ audit[s] \in Nat /\ jobs[s] \in Nat /\ couriers[s] \in Nat
      /\ paid \subseteq paid' /\ processed \subseteq processed'
  BY Persist DEF Booked, Typed, TypeOK
<1>2. CASE /\ audit'[s] = audit[s] /\ jobs'[s] = jobs[s] /\ couriers'[s] = couriers[s]
           /\ \A d \in Copy : hooks'[s][d] \in {"apply", "answer"} => hooks'[s][d] = hooks[s][d]
  BY <1>1, <1>2
<1>3. CASE \E t \in Req : OrderCourier(t) \/ LoseJob(t)
  <2>1. hooks' = hooks /\ audit' = audit
    BY <1>3 DEF OrderCourier, LoseJob, kitchen
  <2>2. /\ jobs'[s] \in Nat /\ couriers'[s] \in Nat
        /\ jobs'[s] + couriers'[s] <= jobs[s] + couriers[s]
    BY <1>1, <1>3 DEF OrderCourier, LoseJob, Typed, TypeOK
  <2>3. QED BY <1>1, <2>1, <2>2
<1>4. ASSUME NEW c \in Copy, Claim(s, c) PROVE At(s)'
  <2>1. CASE s \in processed
    BY <1>1, <1>2, <1>4, <2>1 DEF Claim, kitchen, Typed, TypeOK
  <2>2. CASE s \notin processed
    <3>1. audit[s] = 0
      BY <1>1, <2>2
    <3>2. \A d \in Copy : hooks[s][d] # "answer"
      BY <2>2 DEF OneApplier, Past
    <3>3. \A d \in Copy : hooks'[s][d] # "answer"
      BY <1>4, <2>2, <3>2 DEF Claim, Typed, TypeOK
    <3>4. UNCHANGED <<audit, jobs, couriers>>
      BY <1>4 DEF Claim, kitchen
    <3>5. QED BY <1>1, <3>1, <3>3, <3>4
  <2>3. QED BY <2>1, <2>2
<1>5. ASSUME NEW c \in Copy, Apply(s, c) PROVE At(s)'
  <2>1. /\ audit[s] = 0 /\ s \in paid /\ s \in processed
        /\ \A d \in Copy : Past(s, d) => d = c
    BY <1>1, <1>5 DEF Apply, OneApplier, Past, Typed, ReceivedIsPaid
  <2>2. audit'[s] = 1 /\ UNCHANGED <<jobs, couriers>>
    BY <1>5, <2>1 DEF Apply, Typed, TypeOK
  <2>3. \A d \in Copy : hooks'[s][d] # "apply"
    BY <1>5, <2>1 DEF Apply, Past, Typed, TypeOK
  <2>4. QED BY <1>1, <2>1, <2>2, <2>3
<1>6. ASSUME NEW c \in Copy, Answer(s, c) PROVE At(s)'
  <2>1. /\ audit[s] = 1 /\ jobs[s] + couriers[s] = 0 /\ s \in paid /\ s \in processed
        /\ \A d \in Copy : Past(s, d) => d = c
    BY <1>1, <1>6 DEF Answer, OneApplier, Past, Typed, ReceivedIsPaid
  <2>2. UNCHANGED <<audit, couriers>> /\ jobs'[s] \in {jobs[s], jobs[s] + 1}
    BY <1>6 DEF Answer, kitchen, Typed, TypeOK
  <2>3. \A d \in Copy : ~Past(s, d)'
    BY <1>6, <2>1 DEF Answer, Past, Typed, TypeOK
  <2>4. QED BY <1>1, <2>1, <2>2, <2>3 DEF Past
<1>7. ASSUME NEW t \in Req, NEW c \in Copy,
             \/ Receive(t, c) \/ FailHook(t, c)
             \/ t # s /\ (Claim(t, c) \/ Apply(t, c) \/ Answer(t, c))
      PROVE  At(s)'
  <2>1. \A d \in Copy : hooks'[s][d] \in {"apply", "answer"} => hooks'[s][d] = hooks[s][d]
    BY <1>7 DEF Receive, FailHook, Claim, Apply, Answer, Typed, TypeOK
  <2>2. audit'[s] = audit[s] /\ jobs'[s] = jobs[s] /\ couriers'[s] = couriers[s]
    BY <1>7 DEF Receive, FailHook, Claim, Apply, Answer, kitchen, Typed, TypeOK
  <2>3. QED BY <1>2, <2>1, <2>2
<1>8. CASE UNCHANGED <<hooks, processed, audit, jobs, couriers>>
  BY <1>2, <1>8
<1> HIDE DEF At
<1>9. QED BY <1>3, <1>4, <1>5, <1>6, <1>7, <1>8, BookingSteps

Applied == Typed /\ OneApplier /\ Booked

LEMMA AppliedHolds == Spec => []Applied
<1>1. Init => OneApplier /\ Booked
  BY DEF Init, OneApplier, Booked, Past
<1>2. Typed /\ (OneApplier /\ Booked) /\ [Next]_vars => (OneApplier /\ Booked)'
  BY OneApplierStep, BookedStep
<1>3. QED BY <1>1, <1>2, TypedHolds, PTL DEF Spec, Applied

(***************************************************************************)
(* However often and however concurrently an event is delivered, and       *)
(* wherever handlers fail, it creates the order and a courier at most once.*)
(***************************************************************************)
THEOREM AppliedOnceHolds == Spec => []AppliedOnce
<1>1. Applied => AppliedOnce BY DEF Applied, Booked, AppliedOnce
<1>2. QED BY <1>1, AppliedHolds, PTL

-----------------------------------------------------------------------------
(***************************************************************************)
(* What a step does to the tables of payment links and orders.             *)
(***************************************************************************)
Untouched(o) == links'[o] = links[o] /\ orders'[o] = orders[o]

LEMMA RowSteps ==
  ASSUME Typed, [Next]_vars, NEW o \in Order
  PROVE  \/ Untouched(o)
         \/ \E f \in {"pickup", "delivery"} : CreateCart(o, f)
         \/ \E r \in Req : StoreLink(r) /\ OrderOf(r) = o
         \/ \E s \in Req, c \in Copy : Apply(s, c) /\ OrderOf(s) = o
         \/ KitchenWorks(o)
<1>1. CASE links' = links /\ orders' = orders
  BY <1>1 DEF Untouched
<1>2. ASSUME NEW q \in Order, q # o,
             (\E f \in {"pickup", "delivery"} : CreateCart(q, f)) \/ KitchenWorks(q)
      PROVE  Untouched(o)
  BY <1>2 DEF CreateCart, KitchenWorks, Untouched, kitchen, Typed, TypeOK
<1>3. ASSUME NEW r \in Req, StoreLink(r), OrderOf(r) # o PROVE Untouched(o)
  BY <1>3 DEF StoreLink, Untouched, kitchen, Typed, TypeOK
<1>4. ASSUME NEW s \in Req, NEW c \in Copy, Apply(s, c), OrderOf(s) # o
      PROVE  Untouched(o)
  BY <1>4 DEF Apply, Untouched, Typed, TypeOK
<1>5. \/ links' = links /\ orders' = orders
      \/ \E q \in Order : (\E f \in {"pickup", "delivery"} : CreateCart(q, f)) \/ KitchenWorks(q)
      \/ \E r \in Req : StoreLink(r)
      \/ \E s \in Req, c \in Copy : Apply(s, c)
  BY DEF Next, Customer, Hook, Failure, vars, kitchen, ChangePrice, BeginRequest,
         CallProvider, Pay, Receive, Claim, Answer, OrderCourier, FailHook, FailRequest, LoseJob
<1>6. QED BY <1>1, <1>2, <1>3, <1>4, <1>5

LEMMA PaidMeansChargedStep ==
  ASSUME Typed, PaidMeansCharged, [Next]_vars
  PROVE  PaidMeansCharged'
<1> DEFINE IsPaid(o) == (links[o] # NoLink /\ links[o].state = "PAID") \/ orders[o] # "none"
<1> SUFFICES ASSUME NEW o \in Order, IsPaid(o)' PROVE ChargedFor(o)'
  BY DEF PaidMeansCharged
<1>1. ChargedFor(o) => ChargedFor(o)'
  <2>1. \A s \in paid : s \in Req /\ reqs[s] # Idle
    BY DEF Typed, TypeOK, PaidIsStored, Payable, Idle
  <2>2. QED BY <2>1, Persist DEF ChargedFor
<1>2. CASE IsPaid(o)
  BY <1>1, <1>2 DEF PaidMeansCharged
<1>3. ASSUME NEW f \in {"pickup", "delivery"}, CreateCart(o, f) PROVE IsPaid(o)
  BY <1>3 DEF CreateCart, kitchen, Typed, TypeOK
<1>4. ASSUME NEW r \in Req, StoreLink(r), OrderOf(r) = o PROVE IsPaid(o)
  <2>1. reqs[r] # Idle
    BY <1>4 DEF StoreLink, Idle
  <2>2. StoredLink(r).state = "AWAITING_PAYMENT" /\ links'[o] = StoredLink(r)
    <3>1. links[o] \in Link BY <1>4, <2>1, RequestFields
    <3>2. StoredLink(r).state = "AWAITING_PAYMENT"
      BY <1>4, <3>1 DEF StoredLink, Link
    <3>3. QED BY <1>4, <3>2 DEF StoreLink, Typed, TypeOK
  <2>3. QED BY <1>4, <2>2 DEF StoreLink, kitchen
<1>5. ASSUME NEW s \in Req, NEW c \in Copy, Apply(s, c), OrderOf(s) = o
      PROVE  ChargedFor(o)
  BY <1>5 DEF Apply, ChargedFor, Typed, ReceivedIsPaid
<1>6. CASE KitchenWorks(o)
  BY <1>2, <1>6 DEF KitchenWorks
<1>7. CASE Untouched(o)
  BY <1>2, <1>7 DEF Untouched
<1> HIDE DEF IsPaid
<1>8. QED BY <1>1, <1>2, <1>3, <1>4, <1>5, <1>6, <1>7, RowSteps

(***************************************************************************)
(* A link is PAID, an order in the kitchen, only if Stripe has charged a   *)
(* session that was opened for that order.                                 *)
(***************************************************************************)
THEOREM PaidMeansChargedHolds == Spec => []PaidMeansCharged
<1>1. Init => PaidMeansCharged
  BY DEF Init, PaidMeansCharged
<1>2. QED BY <1>1, PaidMeansChargedStep, TypedHolds, PTL DEF Spec

-----------------------------------------------------------------------------
(* The link of an order with a single stored session is what that session  *)
(* was opened with, and PAID once the session's payment was applied.       *)
OnlyStored ==
  \A s \in Req :
    Payable(s) /\ Stored(OrderOf(s)) = {s} =>
      LET link == links[OrderOf(s)]
      IN /\ link.basis = "total"
         /\ link.amount = reqs[s].price /\ link.fees = reqs[s].price
         /\ audit[s] > 0 => link.state = "PAID"

(* Sessions stay stored, and only StoreLink stores one. *)
LEMMA StoredSteps ==
  ASSUME Typed, [Next]_vars
  PROVE  \A r \in Req :
           /\ reqs[r].pc = "stored" => reqs'[r] = reqs[r]
           /\ reqs'[r].pc = "stored" => reqs[r].pc = "stored" \/ StoreLink(r)
<1>1. \/ reqs' = reqs
      \/ \E q \in Req : \/ \E k \in {"checkout", "link"}, o \in Order : BeginRequest(q, k, o)
                        \/ CallProvider(q) \/ StoreLink(q) \/ FailRequest(q)
  BY DEF Next, Customer, Hook, Failure, vars, CreateCart, ChangePrice, Pay, Receive,
         Claim, Apply, Answer, OrderCourier, KitchenWorks, FailHook, LoseJob
<1>2. CASE reqs' = reqs
  BY <1>2
<1>3. ASSUME NEW q \in Req, \/ \E k \in {"checkout", "link"}, o \in Order : BeginRequest(q, k, o)
                            \/ CallProvider(q) \/ FailRequest(q)
      PROVE  reqs[q].pc # "stored" /\ \E new : new.pc # "stored" /\ reqs' = [reqs EXCEPT ![q] = new]
  <2>1. ASSUME NEW k \in {"checkout", "link"}, NEW o \in Order, BeginRequest(q, k, o)
        PROVE  \E new : new.pc # "stored" /\ reqs' = [reqs EXCEPT ![q] = new]
    <3> WITNESS [pc |-> "priced", kind |-> k, order |-> o, price |-> price]
    <3>1. QED BY <2>1 DEF BeginRequest
  <2>2. ASSUME NEW p \in {"session", "dropped"}, reqs[q].pc = "priced" \/ reqs[q].pc = "session",
               reqs' = [reqs EXCEPT ![q] = [reqs[q] EXCEPT !.pc = p]]
        PROVE  \E new : new.pc # "stored" /\ reqs' = [reqs EXCEPT ![q] = new]
    <3>1. [reqs[q] EXCEPT !.pc = p].pc = p
      BY <2>2, RequestFields DEF Request, Idle
    <3>2. QED BY <2>2, <3>1
  <2>3. CASE CallProvider(q) \/ FailRequest(q)
    BY <1>3, <2>2, <2>3 DEF CallProvider, FailRequest
  <2>4. QED BY <1>3, <2>1, <2>3 DEF BeginRequest, CallProvider, FailRequest, Idle
<1>4. ASSUME NEW q \in Req, NEW new, new.pc # "stored", reqs[q].pc # "stored",
             reqs' = [reqs EXCEPT ![q] = new]
      PROVE  \A r \in Req : /\ reqs[r].pc = "stored" => reqs'[r] = reqs[r]
                            /\ reqs'[r].pc = "stored" => reqs[r].pc = "stored"
  BY <1>4 DEF Typed, TypeOK
<1>5. ASSUME NEW q \in Req, StoreLink(q)
      PROVE  \A r \in Req : /\ reqs[r].pc = "stored" => reqs'[r] = reqs[r]
                            /\ reqs'[r].pc = "stored" => reqs[r].pc = "stored" \/ r = q
  BY <1>5 DEF StoreLink, Typed, TypeOK
<1>6. QED BY <1>1, <1>2, <1>3, <1>4, <1>5

LEMMA OnlyStoredStep ==
  ASSUME Typed, Booked, OnlyStored, [Next]_vars
  PROVE  OnlyStored'
<1> DEFINE Good(s, link) ==
      /\ link.basis = "total"
      /\ link.amount = reqs[s].price /\ link.fees = reqs[s].price
      /\ audit[s] > 0 => link.state = "PAID"
<1> SUFFICES ASSUME NEW s \in Req, Payable(s)', Stored(OrderOf(s))' = {s}
             PROVE  Good(s, links[OrderOf(s)])'
  BY DEF OnlyStored
<1>1. CASE StoreLink(s)
  <2>1. reqs[s] # Idle /\ links[OrderOf(s)] \in Link /\ OrderOf(s) \in Order
    <3>1. reqs[s] # Idle BY <1>1 DEF StoreLink, Idle
    <3>2. QED BY <3>1, RequestFields
  <2>2. /\ links'[OrderOf(s)] = StoredLink(s)
        /\ reqs'[s].price = reqs[s].price /\ OrderOf(s)' = OrderOf(s)
        /\ reqs[s].kind = "checkout" /\ audit' = audit
    BY <1>1, <2>1, Persist DEF StoreLink, kitchen, Payable, Typed, TypeOK
  <2>3. audit[s] = 0
    <3>1. s \notin paid
      BY <1>1 DEF StoreLink, Typed, PaidIsStored, Payable
    <3>2. QED BY <3>1 DEF Booked, Typed, TypeOK
  <2>4. /\ StoredLink(s).basis = "total"
        /\ StoredLink(s).amount = reqs[s].price /\ StoredLink(s).fees = reqs[s].price
    BY <2>1, <2>2 DEF StoredLink, Link
  <2>5. QED BY <2>2, <2>3, <2>4
<1>2. CASE ~StoreLink(s)
  <2>1. /\ Payable(s) /\ reqs'[s] = reqs[s] /\ OrderOf(s)' = OrderOf(s)
        /\ reqs[s] # Idle /\ OrderOf(s) \in Order /\ links[OrderOf(s)] \in Link
    <3>1. reqs[s].pc = "stored" /\ reqs'[s] = reqs[s]
      BY <1>2, StoredSteps DEF Payable
    <3>2. reqs[s] # Idle
      BY <3>1 DEF Idle
    <3>3. QED BY <3>1, <3>2, RequestFields DEF Payable, OrderOf
  <2>2. /\ Stored(OrderOf(s)) = {s}
        /\ \A r \in Req : StoreLink(r) => OrderOf(r) # OrderOf(s)
    <3>1. \A r \in Req : StoreLink(r) => r # s /\ reqs'[r].pc = "stored" /\ OrderOf(r)' = OrderOf(r)
      <4> SUFFICES ASSUME NEW r \in Req, StoreLink(r)
                   PROVE  r # s /\ reqs'[r].pc = "stored" /\ OrderOf(r)' = OrderOf(r)
        OBVIOUS
      <4>1. reqs[r].pc = "session" /\ reqs[r] # Idle
        BY DEF StoreLink, Idle
      <4>2. reqs'[r].pc = "stored"
        BY <4>1, RequestFields DEF StoreLink, Typed, TypeOK, Request
      <4>3. QED BY <1>2, <4>1, <4>2, Persist
    <3>2. QED BY <2>1, <3>1, StoredSteps DEF Stored, OrderOf, Payable
  <2>3. Good(s, links[OrderOf(s)])
    BY <2>1, <2>2 DEF OnlyStored
  <2>4. ASSUME NEW c \in Copy, NEW t \in Req, Apply(t, c), OrderOf(t) = OrderOf(s)
        PROVE  Good(s, links[OrderOf(s)])'
    <3>1. links'[OrderOf(s)] = [links[OrderOf(s)] EXCEPT !.state = "PAID"]
      BY <2>1, <2>4 DEF Apply, Typed, TypeOK
    <3>2. QED BY <2>1, <2>3, <3>1 DEF Link
  <2>5. ASSUME NEW f \in {"pickup", "delivery"}, CreateCart(OrderOf(s), f) PROVE FALSE
    BY <2>1, <2>5, NoLinkIsNoRow DEF CreateCart
  <2>6. CASE links'[OrderOf(s)] = links[OrderOf(s)] /\ ~ \E c \in Copy : Apply(s, c)
    <3>1. audit'[s] = audit[s]
      BY <2>6, BookingSteps
         DEF Receive, Claim, Apply, Answer, FailHook, OrderCourier, LoseJob, kitchen, Typed, TypeOK
    <3>2. QED BY <2>1, <2>3, <2>6, <3>1
  <2>7. QED
    BY <2>1, <2>2, <2>4, <2>5, <2>6, RowSteps DEF Untouched, KitchenWorks
<1>3. QED BY <1>1, <1>2

LEMMA OnlyStoredHolds == Spec => []OnlyStored
<1>1. Init => OnlyStored
  BY DEF Init, OnlyStored, Payable, Idle
<1>2. Applied /\ OnlyStored /\ [Next]_vars => OnlyStored'
  BY OnlyStoredStep DEF Applied
<1>3. QED BY <1>1, <1>2, AppliedHolds, PTL DEF Spec

(***************************************************************************)
(* A settled order whose only session was paid records what the customer   *)
(* was charged, whatever happened to the menu's prices meanwhile.          *)
(***************************************************************************)
THEOREM SettledOnceHolds == Spec => []SettledOnce
<1>1. Applied /\ OnlyStored => SettledOnce
  BY DEF Applied, Booked, Typed, PaidIsStored, OnlyStored, SettledOnce
<1>2. QED BY <1>1, AppliedHolds, OnlyStoredHolds, PTL

-----------------------------------------------------------------------------
(* An order that the kitchen knows has an audit entry of a payment for it. *)
WorkIsBooked ==
  \A o \in Order : orders[o] # "none" => \E s \in Req : audit[s] > 0 /\ OrderOf(s) = o

LEMMA WorkIsBookedStep ==
  ASSUME Applied, WorkIsBooked, [Next]_vars
  PROVE  WorkIsBooked'
<1> USE DEF Applied
<1> SUFFICES ASSUME NEW o \in Order, orders'[o] # "none"
             PROVE  \E s \in Req : audit'[s] > 0 /\ OrderOf(s)' = o
  BY DEF WorkIsBooked
<1>1. ASSUME NEW s \in Req, audit[s] > 0
      PROVE  audit'[s] > 0 /\ OrderOf(s)' = OrderOf(s)
  <2>1. reqs[s] # Idle
    BY <1>1 DEF Booked, Typed, PaidIsStored, Payable, Idle
  <2>2. audit' = audit \/ \E t \in Req : audit' = [audit EXCEPT ![t] = @ + 1]
    BY BookingSteps
       DEF Receive, Claim, Apply, Answer, FailHook, OrderCourier, LoseJob, kitchen
  <2>3. audit'[s] > 0
    BY <1>1, <2>2 DEF Typed, TypeOK
  <2>4. QED BY <2>1, <2>3, Persist
<1>2. CASE orders[o] # "none"
  BY <1>1, <1>2 DEF WorkIsBooked
<1>3. ASSUME NEW s \in Req, NEW c \in Copy, Apply(s, c), OrderOf(s) = o
      PROVE  audit'[s] > 0 /\ OrderOf(s)' = o
  <2>1. audit[s] = 0 /\ reqs[s] # Idle
    BY <1>3 DEF Apply, Booked, Typed, ReceivedIsPaid, PaidIsStored, Payable, Idle
  <2>2. audit'[s] = 1
    BY <1>3, <2>1 DEF Apply, Typed, TypeOK
  <2>3. QED BY <1>3, <2>1, <2>2, Persist
<1>4. QED
  BY <1>2, <1>3, RowSteps DEF Untouched, CreateCart, StoreLink, KitchenWorks, kitchen

(* Only finitely many payments have been made. *)
LEMMA FinitelyPaid == Spec => []IsFiniteSet(paid)
<1>1. Init => IsFiniteSet(paid)
  BY FS_EmptySet DEF Init
<1>2. IsFiniteSet(paid) /\ [Next]_vars => IsFiniteSet(paid)'
  <2>1. ASSUME [Next]_vars
        PROVE  paid' = paid \/ \E s \in Req : paid' = paid \cup {s}
    BY <2>1
       DEF Next, Customer, Hook, Failure, vars, stripe, CreateCart, ChangePrice, BeginRequest,
           CallProvider, StoreLink, Pay, Receive, Claim, Apply, Answer, OrderCourier,
           KitchenWorks, FailHook, FailRequest, LoseJob
  <2>2. QED BY <2>1, FS_AddElement
<1>3. QED BY <1>1, <1>2, PTL DEF Spec

LEMMA TwoMembers ==
  ASSUME NEW S, IsFiniteSet(S), NEW x \in S, NEW y \in S, x # y
  PROVE  Cardinality(S) > 1
<1>1. IsFiniteSet({x}) /\ Cardinality({x}) = 1
  BY FS_Singleton
<1>2. IsFiniteSet({x} \cup {y}) /\ Cardinality({x} \cup {y}) = 2
  BY <1>1, FS_AddElement
<1>3. {x} \cup {y} \in SUBSET S
  OBVIOUS
<1>4. Cardinality({x} \cup {y}) <= Cardinality(S)
  BY <1>3, FS_Subset
<1>5. Cardinality(S) \in Nat
  BY FS_CardinalityType
<1>6. QED BY <1>2, <1>4, <1>5

(***************************************************************************)
(* The kitchen's progress is thrown back only by a second payment for the  *)
(* order, never by a second delivery of the event of the first one.        *)
(***************************************************************************)
THEOREM KitchenWorkKeptHolds == Spec => KitchenWorkKept
<1> DEFINE Kept == \A o \in Order :
             orders[o] = "worked" /\ orders'[o] = "queued"
               => Cardinality({s \in paid : OrderOf(s) = o}) > 1
<1>1. Init => WorkIsBooked
  BY DEF Init, WorkIsBooked
<1>2. Applied /\ WorkIsBooked /\ [Next]_vars => WorkIsBooked'
  BY WorkIsBookedStep
<1>3. ASSUME Applied, WorkIsBooked, IsFiniteSet(paid), [Next]_vars
      PROVE  Kept
  <2> SUFFICES ASSUME NEW o \in Order, orders[o] = "worked", orders'[o] = "queued"
               PROVE  Cardinality({s \in paid : OrderOf(s) = o}) > 1
    OBVIOUS
  <2>1. PICK s \in Req : \E c \in Copy : Apply(s, c) /\ OrderOf(s) = o
    BY <1>3, RowSteps
       DEF Applied, Untouched, CreateCart, StoreLink, KitchenWorks, kitchen
  <2>2. s \in paid /\ audit[s] = 0
    BY <1>3, <2>1 DEF Apply, Applied, Booked, Typed, ReceivedIsPaid
  <2>3. PICK t \in Req : audit[t] > 0 /\ OrderOf(t) = o
    BY <1>3 DEF WorkIsBooked
  <2>4. t \in paid /\ t # s
    BY <1>3, <2>2, <2>3 DEF Applied, Booked
  <2>5. IsFiniteSet({q \in paid : OrderOf(q) = o})
    BY <1>3, FS_Subset
  <2>6. QED BY <2>1, <2>2, <2>3, <2>4, <2>5, TwoMembers
<1>4. QED
  BY <1>1, <1>2, <1>3, AppliedHolds, FinitelyPaid, PTL DEF Spec, KitchenWorkKept

-----------------------------------------------------------------------------
(* A claimed event is applied, or its handler is about to. *)
ClaimIsWork ==
  \A s \in processed : audit[s] > 0 \/ \E c \in Copy : hooks[s][c] = "apply"

(***************************************************************************)
(* An event that was answered with a 2xx has updated the order, or is      *)
(* about to, provided that no handler fails between its claim and its      *)
(* transaction: the claim is not undone, so without this the next delivery *)
(* is answered as a duplicate and the payment lost.                        *)
(***************************************************************************)
THEOREM AckedIsAppliedHolds ==
  ASSUME "apply" \notin FailPoints
  PROVE  Spec => []AckedIsApplied
<1> DEFINE Inv == ClaimIsWork /\ acked \subseteq processed
<1>1. Init => Inv
  BY DEF Init, ClaimIsWork
<1>2. ASSUME Applied, Inv, [Next]_vars PROVE Inv'
  <2>1. CASE UNCHANGED <<hooks, processed, audit, acked>>
    BY <1>2, <2>1 DEF ClaimIsWork
  <2>2. ASSUME NEW s \in Req, NEW c \in Copy, Receive(s, c) \/ FailHook(s, c)
        PROVE  Inv'
    <3>1. \A t \in Req, d \in Copy : hooks[t][d] = "apply" => hooks'[t][d] = "apply"
      BY <1>2, <2>2 DEF Receive, FailHook, Applied, Typed, TypeOK
    <3>2. QED
      BY <1>2, <2>2, <3>1
         DEF Receive, FailHook, ClaimIsWork, kitchen, stripe, Applied, Typed, TypeOK
  <2>3. ASSUME NEW s \in Req, NEW c \in Copy, Claim(s, c) PROVE Inv'
    <3>1. \A t \in Req, d \in Copy : hooks[t][d] = "apply" => hooks'[t][d] = "apply"
      BY <1>2, <2>3 DEF Claim, Applied, Typed, TypeOK
    <3>2. s \notin processed => hooks'[s][c] = "apply"
      BY <1>2, <2>3 DEF Claim, Applied, Typed, TypeOK
    <3>3. QED
      BY <1>2, <2>3, <3>1, <3>2
         DEF Claim, ClaimIsWork, kitchen, Applied, Typed, TypeOK
  <2>4. ASSUME NEW s \in Req, NEW c \in Copy, Apply(s, c) PROVE Inv'
    <3>1. \A t \in Req \ {s}, d \in Copy : hooks'[t][d] = hooks[t][d]
      BY <1>2, <2>4 DEF Apply, Applied, Typed, TypeOK
    <3>2. audit[s] = 0
      BY <1>2, <2>4 DEF Apply, Applied, Booked
    <3>3. audit'[s] > 0 /\ \A t \in Req \ {s} : audit'[t] = audit[t]
      BY <1>2, <2>4, <3>2 DEF Apply, Applied, Typed, TypeOK
    <3>4. QED
      BY <1>2, <2>4, <3>1, <3>3 DEF Apply, ClaimIsWork, stripe, Applied, Typed, TypeOK
  <2>5. ASSUME NEW s \in Req, NEW c \in Copy, Answer(s, c) PROVE Inv'
    <3>1. \A t \in Req, d \in Copy : hooks[t][d] = "apply" => hooks'[t][d] = "apply"
      BY <1>2, <2>5 DEF Answer, Applied, Typed, TypeOK
    <3>2. s \in processed
      BY <1>2, <2>5 DEF Answer, Applied, OneApplier, Past
    <3>3. QED
      BY <1>2, <2>5, <3>1, <3>2 DEF Answer, ClaimIsWork, kitchen, Applied, Typed, TypeOK
  <2>6. \/ UNCHANGED <<hooks, processed, audit, acked>>
        \/ \E s \in Req, c \in Copy :
              Receive(s, c) \/ Claim(s, c) \/ Apply(s, c) \/ Answer(s, c) \/ FailHook(s, c)
    BY <1>2
       DEF Next, Customer, Hook, Failure, vars, kitchen, stripe, CreateCart, ChangePrice,
           BeginRequest, CallProvider, StoreLink, Pay, KitchenWorks, FailRequest, OrderCourier,
           LoseJob
  <2>7. QED BY <2>1, <2>2, <2>3, <2>4, <2>5, <2>6
<1>3. Inv => AckedIsApplied
  BY DEF ClaimIsWork, AckedIsApplied
<1>4. QED BY <1>1, <1>2, <1>3, AppliedHolds, PTL DEF Spec

-----------------------------------------------------------------------------
(***************************************************************************)
(* The refinement of IdealPayment, action by action: BeginRequest opens,   *)
(* Pay charges, Apply settles, OrderCourier sends, KitchenWorks works, and *)
(* whatever else happens, failures included, is a stuttering step.         *)
(***************************************************************************)
Requested == {r \in Req : reqs[r] # Idle}
OpenedFor == [r \in Requested |-> reqs[r].order]

LEMMA IdealUnmoved ==
  ASSUME UNCHANGED <<reqs, paid, audit, orders, couriers>>
  PROVE  UNCHANGED Ideal!vars
BY DEF Ideal!vars

(* Requests go on without being opened for another order. *)
LEMMA OpenedForStays ==
  ASSUME Typed, NEW r \in Req, CallProvider(r) \/ StoreLink(r) \/ FailRequest(r)
  PROVE  OpenedFor' = OpenedFor
<1>1. reqs[r] # Idle
  BY DEF CallProvider, StoreLink, FailRequest, Idle
<1>2. PICK p \in {"session", "stored", "dropped"} :
        reqs' = [reqs EXCEPT ![r] = [reqs[r] EXCEPT !.pc = p]]
  BY DEF CallProvider, StoreLink, FailRequest
<1>3. \A q \in Req : (reqs'[q] # Idle <=> reqs[q] # Idle)
                     /\ (reqs[q] # Idle => reqs'[q].order = reqs[q].order)
  BY <1>1, <1>2, RequestFields DEF Typed, TypeOK, Request, Idle
<1>4. Requested' = Requested
  BY <1>3 DEF Requested
<1>5. QED BY <1>3, <1>4 DEF OpenedFor, Requested

LEMMA IdealOpen ==
  ASSUME Typed, NEW r \in Req, NEW k \in {"checkout", "link"}, NEW o \in Order,
         BeginRequest(r, k, o)
  PROVE  Ideal!Open(r, o)
<1>1. r \notin Requested
  BY DEF BeginRequest, Requested
<1>2. reqs' = [reqs EXCEPT ![r] = [pc |-> "priced", kind |-> k, order |-> o, price |-> price]]
  BY DEF BeginRequest
<1>3. reqs'[r] # Idle /\ reqs'[r].order = o /\ \A q \in Req : q # r => reqs'[q] = reqs[q]
  BY <1>2 DEF Typed, TypeOK, Idle
<1>4. Requested' = Requested \cup {r}
  BY <1>3 DEF Requested
<1>5. OpenedFor' = [d \in Requested \cup {r} |-> IF d = r THEN o ELSE OpenedFor[d]]
  BY <1>1, <1>3, <1>4 DEF OpenedFor, Requested
<1>6. UNCHANGED <<paid, audit, orders, couriers>>
  BY DEF BeginRequest, stripe, kitchen
<1>7. DOMAIN OpenedFor = Requested
  BY DEF OpenedFor
<1>8. QED BY <1>1, <1>5, <1>6, <1>7 DEF Ideal!Open, OpenedFor, Requested

LEMMA IdealCharge ==
  ASSUME Typed, NEW s \in Req, Pay(s)
  PROVE  Ideal!Charge(s)
<1>1. s \in DOMAIN OpenedFor
  BY DEF Pay, Payable, OpenedFor, Requested, Idle
<1>2. QED BY <1>1 DEF Pay, kitchen, Ideal!Charge, OpenedFor, Requested

LEMMA IdealSettle ==
  ASSUME Applied, NEW s \in Req, NEW c \in Copy, Apply(s, c)
  PROVE  Ideal!Settle(s)
<1>1. s \in paid /\ audit[s] = 0
  BY DEF Apply, Applied, Booked, Typed, ReceivedIsPaid
<1>2. OpenedFor[s] = OrderOf(s)
  BY <1>1 DEF Applied, Typed, PaidIsStored, Payable, OpenedFor, Requested, OrderOf, Idle
<1>3. /\ audit' = [audit EXCEPT ![s] = 1]
      /\ orders' = [orders EXCEPT ![OpenedFor[s]] = "queued"]
      /\ UNCHANGED <<reqs, paid, couriers>>
  BY <1>1, <1>2 DEF Apply, stripe
<1>4. QED BY <1>1, <1>3 DEF Ideal!Settle, OpenedFor, Requested

LEMMA IdealSend ==
  ASSUME Applied, NEW s \in Req, OrderCourier(s)
  PROVE  Ideal!Send(s)
<1>1. audit[s] = 1 /\ couriers[s] = 0
  <2>1. audit[s] \in Nat /\ jobs[s] \in Nat /\ couriers[s] \in Nat
    BY DEF Applied, Typed, TypeOK
  <2>2. jobs[s] > 0 /\ audit[s] <= 1 /\ jobs[s] + couriers[s] <= audit[s]
    BY DEF OrderCourier, Applied, Booked
  <2>3. QED BY <2>1, <2>2
<1>2. couriers' = [couriers EXCEPT ![s] = 1]
  BY <1>1 DEF OrderCourier
<1>3. QED BY <1>1, <1>2 DEF OrderCourier, Ideal!Send, stripe, kitchen

LEMMA IdealStep == Applied /\ [Next]_vars => [Ideal!Next]_Ideal!vars
<1> SUFFICES ASSUME Applied, [Next]_vars PROVE Ideal!Next \/ UNCHANGED Ideal!vars
  OBVIOUS
<1>1. ASSUME NEW r \in Req, CallProvider(r) \/ StoreLink(r) \/ FailRequest(r)
      PROVE  UNCHANGED Ideal!vars
  <2>1. OpenedFor' = OpenedFor
    BY <1>1, OpenedForStays DEF Applied
  <2>2. UNCHANGED <<paid, audit, orders, couriers>>
    BY <1>1 DEF CallProvider, StoreLink, FailRequest, stripe, kitchen
  <2>3. QED BY <2>1, <2>2 DEF Ideal!vars, OpenedFor, Requested
<1>2. ASSUME NEW r \in Req, NEW k \in {"checkout", "link"}, NEW o \in Order,
             BeginRequest(r, k, o)
      PROVE  Ideal!Next
  BY <1>2, IdealOpen DEF Applied, Ideal!Next
<1>3. ASSUME NEW s \in Req, Pay(s) PROVE Ideal!Next
  BY <1>3, IdealCharge DEF Applied, Ideal!Next
<1>4. ASSUME NEW s \in Req, NEW c \in Copy, Apply(s, c) PROVE Ideal!Next
  BY <1>4, IdealSettle DEF Ideal!Next
<1>5. ASSUME NEW s \in Req, OrderCourier(s) PROVE Ideal!Next
  BY <1>5, IdealSend DEF Ideal!Next
<1>6. ASSUME NEW o \in Order, KitchenWorks(o) PROVE Ideal!Next
  <2>1. Ideal!Work(o)
    BY <1>6 DEF KitchenWorks, Ideal!Work, stripe
  <2>2. QED BY <2>1 DEF Ideal!Next
<1>7. CASE UNCHANGED <<reqs, paid, audit, orders, couriers>>
  BY <1>7, IdealUnmoved
<1>8. \/ UNCHANGED <<reqs, paid, audit, orders, couriers>>
      \/ \E r \in Req, k \in {"checkout", "link"}, o \in Order : BeginRequest(r, k, o)
      \/ \E r \in Req : \/ CallProvider(r) \/ StoreLink(r) \/ FailRequest(r)
                        \/ Pay(r) \/ OrderCourier(r)
      \/ \E s \in Req, c \in Copy : Apply(s, c)
      \/ \E o \in Order : KitchenWorks(o)
  BY DEF Next, Customer, Hook, Failure, vars, stripe, kitchen, CreateCart, ChangePrice,
         Receive, Claim, Answer, FailHook, LoseJob
<1>9. QED BY <1>1, <1>2, <1>3, <1>4, <1>5, <1>6, <1>7, <1>8

(***************************************************************************)
(* The payment flow, with its repeated and concurrent deliveries, its      *)
(* duplicate test and its failures, implements IdealPayment.               *)
(***************************************************************************)
THEOREM ImplementsIdealHolds == Spec => ImplementsIdeal
<1>1. Init => Ideal!Init
  <2>1. Init => Requested = {}
    BY DEF Init, Requested
  <2>2. Init => OpenedFor = [c \in {} |-> {}]
    BY <2>1 DEF OpenedFor
  <2>3. QED BY <2>2 DEF Init, Ideal!Init, OpenedFor, Requested
<1>2. QED
  BY <1>1, IdealStep, AppliedHolds, PTL DEF Spec, ImplementsIdeal, Ideal!Spec
=============================================================================
