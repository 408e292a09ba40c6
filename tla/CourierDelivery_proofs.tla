----------------------- MODULE CourierDelivery_proofs -----------------------
(***************************************************************************)
(* Proofs about CourierDelivery, for any orders, jobs, handlers, quotes    *)
(* and statuses of other providers.                                        *)
(***************************************************************************)
EXTENDS CourierDelivery, TLAPS

(* Uber only knows deliveries that a job has ordered, and with them its    *)
(* events, and the rows, handlers and claims that name a delivery.         *)
Known ==
  /\ \A j \in Job : uber[j] # None => jobs[j] # Idle
  /\ \A e \in events : jobs[e.delivery] # Idle
  /\ \A o \in Order : rows[o] # NoRow /\ rows[o].delivery # None => jobs[rows[o].delivery] # Idle
  /\ \A h \in Hook : hooks[h] # Idle => jobs[hooks[h].delivery] # Idle
  /\ \A claim \in claims : jobs[claim[2]] # Idle

(* The kitchen that is still to be told hears what the row says already. *)
Agreed ==
  \A o \in Order \ torn : \A h \in Notifying(o) :
    EventOf(hooks[h].status) = EventOf(rows[o].status)

(* The quote that a job has read is not newer than the order's last one. *)
QuoteIsOld == \A j \in Job : jobs[j] # Idle => jobs[j].quote <= quotes[OrderOf(j)]

-----------------------------------------------------------------------------
LEMMA RowsAreRecords ==
  /\ Idle \notin JobRow /\ Idle \notin HookRow /\ NoRow \notin Row
  /\ \A row \in JobRow : row # Idle /\ row.pc # "idle"
BY DEF Idle, JobRow, HookRow, NoRow, Row, UberStatus, None

LEMMA EventType == \A status \in UberStatus : EventOf(status) \in StatusEvent \cup {None}
BY DEF EventOf, UberStatus, StatusEvent, None

LEMMA ReportedType == \A status \in Reported : status \in UberStatus
BY ReportedAssumption DEF UberStatus

LEMMA JobFields ==
  ASSUME TypeOK, NEW j \in Job, jobs[j] # Idle
  PROVE  jobs[j] \in JobRow /\ OrderOf(j) \in Order
BY DEF TypeOK, JobRow, OrderOf

LEMMA HookFields ==
  ASSUME TypeOK, NEW h \in Hook, hooks[h] # Idle
  PROVE  /\ hooks[h] \in HookRow
         /\ hooks[h].order \in Order /\ hooks[h].delivery \in Job
         /\ hooks[h].status \in UberStatus
BY DEF TypeOK, HookRow

(* A job's step: what it does to the job's record, and to nothing else but *)
(* the row that StoreAnswer writes, which may tear its order.              *)
LEMMA JobStep ==
  ASSUME TypeOK, NEW j \in Job, ReadAddress(j) \/ StoreAnswer(j) \/ FailJob(j)
  PROVE  /\ jobs[j] # Idle /\ jobs'[j] # Idle /\ jobs' \in [Job -> JobRow \cup {Idle}]
         /\ OrderOf(j)' = OrderOf(j) /\ jobs'[j].quote = jobs[j].quote
         /\ \A i \in Job \ {j} : jobs'[i] = jobs[i]
         /\ torn' \subseteq Order
         /\ UNCHANGED <<quotes, uber, events, hooks, told, claims>>
<1>1. jobs[j] # Idle
  BY DEF ReadAddress, StoreAnswer, FailJob, Idle
<1>2. jobs[j] \in JobRow /\ OrderOf(j) \in Order
  BY <1>1, JobFields
<1>3. UNCHANGED <<quotes, uber, events, hooks, told, claims>> /\ torn' \subseteq Order
  BY <1>2 DEF ReadAddress, StoreAnswer, FailJob, TornAfter, TypeOK
<1>4. CASE ReadAddress(j)
  <2>1. jobs' = [jobs EXCEPT ![j] = [jobs[j] EXCEPT !.pc = "calling", !.address = quotes[OrderOf(j)]]]
    BY <1>2, <1>4 DEF ReadAddress, TypeOK
  <2>2. [jobs[j] EXCEPT !.pc = "calling", !.address = quotes[OrderOf(j)]] \in JobRow
    BY <1>2 DEF JobRow, TypeOK
  <2>3. QED BY <1>1, <1>2, <1>3, <2>1, <2>2, RowsAreRecords DEF TypeOK, OrderOf, JobRow
<1>5. CASE StoreAnswer(j) \/ FailJob(j)
  <2>1. PICK pc \in {"done", "failed"} : jobs' = [jobs EXCEPT ![j] = [jobs[j] EXCEPT !.pc = pc]]
    BY <1>5 DEF StoreAnswer, FailJob
  <2>2. [jobs[j] EXCEPT !.pc = pc] \in JobRow
    BY <1>2 DEF JobRow
  <2>3. QED BY <1>1, <1>2, <1>3, <2>1, <2>2, RowsAreRecords DEF TypeOK, OrderOf, JobRow
<1>6. QED BY <1>4, <1>5

(* A handler is told of an event for an order its delivery belongs to.     *)
LEMMA ReceiveMatches ==
  ASSUME TypeOK, Known, OwnCourier, NEW e \in events, NEW named \in BOOLEAN,
         NEW o \in OrdersMatching(e, named)
  PROVE  /\ e.delivery \in Job /\ e.status \in UberStatus
         /\ jobs[e.delivery] # Idle /\ o \in Order /\ Belongs(o, e.delivery)
<1>1. e.delivery \in Job /\ e.status \in UberStatus /\ jobs[e.delivery] # Idle
  BY DEF TypeOK, Known
<1>2. CASE named
  BY <1>1, <1>2, JobFields DEF OrdersMatching, Belongs
<1>3. CASE ~named
  <2>1. o \in Order /\ rows[o] # NoRow /\ rows[o].delivery = e.delivery
    BY <1>3 DEF OrdersMatching
  <2>2. rows[o].delivery # None
    BY <1>1, <2>1, JobAssumption DEF None
  <2>3. QED BY <1>1, <2>1, <2>2 DEF OwnCourier
<1>4. QED BY <1>2, <1>3

-----------------------------------------------------------------------------
(* The type invariant, and with it what is known of deliveries and orders. *)
Linked == TypeOK /\ Known /\ OwnCourier

LEMMA LinkedStep ==
  ASSUME Linked, [Next]_vars
  PROVE  Linked'
<1> USE DEF Linked
<1>1. ASSUME NEW j \in Job, NEW o \in Order, ReadQuote(j, o) PROVE Linked'
  <2>1. [pc |-> "quoted", order |-> o, quote |-> quotes[o], address |-> 0] \in JobRow
    BY <1>1 DEF ReadQuote, TypeOK, JobRow
  <2>2. /\ jobs[j] = Idle /\ jobs'[j] # Idle /\ jobs' \in [Job -> JobRow \cup {Idle}]
        /\ \A i \in Job \ {j} : jobs'[i] = jobs[i]
        /\ UNCHANGED <<quotes, uber, events, rows, hooks, told, torn, claims>>
    BY <1>1, <2>1, RowsAreRecords DEF ReadQuote, TypeOK
  <2>3. \A i \in Job : jobs[i] # Idle => jobs'[i] # Idle /\ OrderOf(i)' = OrderOf(i)
    BY <2>2 DEF OrderOf
  <2>4. TypeOK'
    BY <2>2 DEF TypeOK
  <2>5. Known'
    BY <2>2, <2>3 DEF Known, TypeOK, Row, HookRow
  <2>6. OwnCourier'
    BY <2>2, <2>3 DEF OwnCourier, Belongs, Known, TypeOK, Row, HookRow
  <2>7. QED BY <2>4, <2>5, <2>6
<1>2. ASSUME NEW j \in Job, ReadAddress(j) \/ StoreAnswer(j) \/ FailJob(j) PROVE Linked'
  <2> DEFINE o == OrderOf(j)
             answer == [provider |-> "uber_direct", delivery |-> j, status |-> "pending"]
  <2>1. \A i \in Job : jobs[i] # Idle => jobs'[i] # Idle /\ OrderOf(i)' = OrderOf(i)
    BY <1>2, JobStep DEF OrderOf
  <2>2. rows' = rows \/ rows' = [rows EXCEPT ![o] = answer]
    BY <1>2 DEF ReadAddress, StoreAnswer, FailJob
  <2>3. answer \in Row
    BY DEF Row, UberStatus
  <2>4. o \in Order /\ jobs[j] # Idle /\ jobs' \in [Job -> JobRow \cup {Idle}]
        /\ torn' \subseteq Order
        /\ UNCHANGED <<quotes, uber, events, hooks, told, claims>>
    BY <1>2, JobStep, JobFields
  <2>5. TypeOK'
    BY <2>2, <2>3, <2>4 DEF TypeOK
  <2>6. Known'
    BY <2>1, <2>2, <2>4 DEF Known, TypeOK, Row, HookRow
  <2>7. OwnCourier'
    BY <2>1, <2>2, <2>4 DEF OwnCourier, Belongs, Known, TypeOK, Row, HookRow
  <2>8. QED BY <2>5, <2>6, <2>7
<1>3. ASSUME NEW j \in Job, UberAccepts(j) \/ \E s \in UberStatus : UberMoves(j, s)
      PROVE  Linked'
  <2>1. jobs[j] # Idle
    BY <1>3, RowsAreRecords DEF UberAccepts, UberMoves, Known, TypeOK, Idle, None
  <2>2. /\ uber' \in [Job -> UberStatus \cup {None}]
        /\ \A i \in Job \ {j} : uber'[i] = uber[i]
        /\ UNCHANGED <<quotes, jobs, rows, hooks, told, torn, claims>>
    BY <1>3 DEF UberAccepts, UberMoves, TypeOK, UberStatus
  <2>3. events' \subseteq events \cup [delivery: {j}, status: UberStatus]
    BY <1>3 DEF UberAccepts, UberMoves, UberStatus
  <2>4. TypeOK'
    BY <2>2, <2>3 DEF TypeOK
  <2>5. Known'
    BY <2>1, <2>2, <2>3 DEF Known
  <2>6. OwnCourier'
    BY <2>2 DEF OwnCourier, Belongs, OrderOf
  <2>7. QED BY <2>4, <2>5, <2>6
<1>4. ASSUME NEW h \in Hook, NEW e \in events, NEW named \in Naming, Receive(h, e, named)
      PROVE  Linked'
  <2>1. PICK o \in OrdersMatching(e, named) :
          hooks' = [hooks EXCEPT ![h] = [pc |-> "write", order |-> o, delivery |-> e.delivery,
                                         status |-> e.status]]
    BY <1>4 DEF Receive
  <2>2. /\ e.delivery \in Job /\ e.status \in UberStatus
        /\ jobs[e.delivery] # Idle /\ o \in Order /\ Belongs(o, e.delivery)
    BY NamingAssumption, ReceiveMatches
  <2>3. [pc |-> "write", order |-> o, delivery |-> e.delivery, status |-> e.status] \in HookRow
    BY <2>2 DEF HookRow
  <2>4. UNCHANGED <<quotes, jobs, uber, events, rows, told, torn, claims>>
    BY <1>4 DEF Receive
  <2>5. TypeOK'
    BY <2>1, <2>3, <2>4 DEF TypeOK
  <2>6. Known'
    BY <2>1, <2>2, <2>4 DEF Known, TypeOK
  <2>7. OwnCourier'
    BY <2>1, <2>2, <2>4 DEF OwnCourier, Belongs, TypeOK, OrderOf
  <2>8. QED BY <2>5, <2>6, <2>7
<1>5. ASSUME NEW h \in Hook, WriteRow(h) \/ Notify(h) \/ Die(h) PROVE Linked'
  <2> DEFINE o == hooks[h].order
             row == [provider |-> "uber_direct", status |-> hooks[h].status,
                     delivery |-> hooks[h].delivery]
  <2>1. hooks[h] # Idle
    BY <1>5 DEF WriteRow, Notify, Die, Idle
  <2>2. hooks[h] \in HookRow /\ o \in Order /\ row \in Row
        /\ hooks[h].delivery \in Job /\ EventOf(hooks[h].status) \in StatusEvent \cup {None}
    BY <2>1, HookFields, EventType DEF Row
  <2>3. PICK pc \in {"notify", "done", "dead"} :
          hooks' = [hooks EXCEPT ![h] = [hooks[h] EXCEPT !.pc = pc]]
    BY <1>5 DEF WriteRow, Notify, Die
  <2>4. /\ hooks' \in [Hook -> HookRow \cup {Idle}]
        /\ \A g \in Hook : hooks'[g] # Idle =>
             /\ hooks[g] # Idle
             /\ hooks'[g].delivery = hooks[g].delivery /\ hooks'[g].order = hooks[g].order
    BY <2>1, <2>2, <2>3 DEF TypeOK, HookRow
  <2>5. rows' = rows \/ rows' = [rows EXCEPT ![o] = row]
    BY <1>5 DEF WriteRow, Notify, Die
  <2>6. told' = told \/ told' = [told EXCEPT ![o] = EventOf(hooks[h].status)]
    BY <1>5 DEF WriteRow, Notify, Die
  <2>7. torn' \in {torn, torn \cup {o}, torn \ {o}} /\ UNCHANGED <<quotes, jobs, uber, events, claims>>
    BY <1>5 DEF WriteRow, Notify, Die, TornAfter
  <2>8. Belongs(o, hooks[h].delivery) /\ jobs[hooks[h].delivery] # Idle
    BY <2>1 DEF OwnCourier, Known
  <2>9. TypeOK'
    BY <2>2, <2>4, <2>5, <2>6, <2>7 DEF TypeOK
  <2>10. Known'
    BY <2>2, <2>4, <2>5, <2>7, <2>8 DEF Known, TypeOK
  <2>11. OwnCourier'
    BY <2>2, <2>4, <2>5, <2>7, <2>8 DEF OwnCourier, Belongs, TypeOK, OrderOf
  <2>12. QED BY <2>9, <2>10, <2>11
<1>6. ASSUME NEW o \in Order, StoreQuote(o) PROVE Linked'
  <2>1. quotes' \in [Order -> Nat]
    BY <1>6 DEF StoreQuote, TypeOK
  <2>2. QED BY <1>6, <2>1 DEF StoreQuote, TypeOK, Known, OwnCourier, Belongs, OrderOf
<1>7. ASSUME NEW o \in Order, NEW s \in Reported, OtherProvider(o, s) PROVE Linked'
  <2>1. EventOf(s) \in StatusEvent \cup {None}
    BY ReportedType, EventType
  <2>2. QED BY <1>7, <2>1 DEF OtherProvider, TypeOK, Known, OwnCourier, Belongs, OrderOf
<1>8. ASSUME NEW o \in Order, NEW p \in {"manual", "external"}, NEW d \in Given \cup {None},
             NEW s \in Reported \cup {"Preparing"}, Overwrite(o, p, d, s)
      PROVE  Linked'
  <2> DEFINE row == [provider |-> p, delivery |-> d, status |-> s]
  <2>1. d \in Job \cup {None} /\ (d # None => jobs[d] # Idle)
    BY DEF Given, Known
  <2>2. row \in Row /\ row.delivery = d
    BY <2>1, ReportedType DEF Row
  <2>3. /\ rows' = [rows EXCEPT ![o] = row] /\ torn' = torn \cup {o}
        /\ claims' = IF d = None THEN claims ELSE claims \cup {<<o, d>>}
        /\ UNCHANGED <<quotes, jobs, uber, events, hooks, told>>
    BY <1>8 DEF Overwrite
  <2> HIDE DEF row
  <2>4. TypeOK'
    BY <2>1, <2>2, <2>3 DEF TypeOK
  <2>5. Known'
    BY <2>1, <2>2, <2>3 DEF TypeOK, Known
  <2>6. d # None => Belongs(o, d)'
    BY <2>3 DEF Belongs
  <2>7. \A q \in Order, j \in Job : Belongs(q, j) => Belongs(q, j)'
    BY <2>3 DEF Belongs, OrderOf
  <2>8. OwnCourier'
    BY <2>1, <2>2, <2>3, <2>6, <2>7 DEF OwnCourier, TypeOK, Row, HookRow
  <2>9. QED BY <2>4, <2>5, <2>8
<1>9. CASE UNCHANGED vars
  BY <1>9 DEF vars, TypeOK, Known, OwnCourier, Belongs, OrderOf, Notifying
<1>10. QED
  BY <1>1, <1>2, <1>3, <1>4, <1>5, <1>6, <1>7, <1>8, <1>9
     DEF Next, Working, Uber, Handling, ByHand

LEMMA LinkedHolds == Spec => []Linked
<1>1. Init => Linked
  BY DEF Init, Linked, TypeOK, Known, OwnCourier, None
<1>2. QED BY <1>1, LinkedStep, PTL DEF Spec

(***************************************************************************)
(* Type correctness; in particular no delivery is ordered without a quote. *)
(***************************************************************************)
THEOREM TypeCorrect == Spec => []TypeOK
<1>1. Linked => TypeOK BY DEF Linked
<1>2. QED BY <1>1, LinkedHolds, PTL

(***************************************************************************)
(* An order's row is linked to, and its kitchen told of, deliveries of     *)
(* this very order, or of one whose id its restaurant has given itself,    *)
(* whatever events arrive in whatever order.                               *)
(***************************************************************************)
THEOREM OwnCourierHolds == Spec => []OwnCourier
<1>1. Linked => OwnCourier BY DEF Linked
<1>2. QED BY <1>1, LinkedHolds, PTL

-----------------------------------------------------------------------------
LEMMA QuoteIsOldStep ==
  ASSUME Linked, QuoteIsOld, [Next]_vars
  PROVE  QuoteIsOld'
<1> USE DEF Linked
<1>1. ASSUME NEW j \in Job, NEW o \in Order, ReadQuote(j, o) PROVE QuoteIsOld'
  <2>1. /\ jobs' = [jobs EXCEPT ![j] = [pc |-> "quoted", order |-> o,
                                        quote |-> quotes[o], address |-> 0]]
        /\ quotes' = quotes /\ quotes[o] \in Nat
    BY <1>1 DEF ReadQuote, TypeOK
  <2>2. QED BY <2>1 DEF QuoteIsOld, TypeOK, OrderOf
<1>2. ASSUME NEW j \in Job, ReadAddress(j) \/ StoreAnswer(j) \/ FailJob(j) PROVE QuoteIsOld'
  BY <1>2, JobStep DEF QuoteIsOld, OrderOf
<1>3. ASSUME NEW o \in Order, StoreQuote(o) PROVE QuoteIsOld'
  <2>1. jobs' = jobs /\ \A q \in Order : quotes[q] \in Nat /\ quotes'[q] \in Nat /\ quotes[q] <= quotes'[q]
    BY <1>3 DEF StoreQuote, TypeOK
  <2>2. \A j \in Job : jobs[j] # Idle => OrderOf(j) \in Order /\ jobs[j].quote \in Nat
    BY JobFields DEF JobRow
  <2>3. QED BY <2>1, <2>2 DEF QuoteIsOld, OrderOf
<1>4. CASE UNCHANGED <<jobs, quotes>>
  BY <1>4 DEF QuoteIsOld, OrderOf
<1>5. QED
  BY <1>1, <1>2, <1>3, <1>4
     DEF Next, Working, Uber, Handling, ByHand, vars, UberAccepts, UberMoves, Receive, WriteRow,
         Notify, Die, OtherProvider, Overwrite

LEMMA AddressOfQuoteStep ==
  ASSUME Linked, QuoteIsOld, AddressOfQuote, [Next]_vars
  PROVE  AddressOfQuote'
<1> USE DEF Linked
<1>1. ASSUME NEW j \in Job, NEW o \in Order, ReadQuote(j, o) PROVE AddressOfQuote'
  BY <1>1 DEF ReadQuote, AddressOfQuote, TypeOK
<1>2. ASSUME NEW j \in Job, ReadAddress(j) PROVE AddressOfQuote'
  <2>1. jobs[j] \in JobRow
    BY <1>2, JobStep, JobFields
  <2>2. quotes[OrderOf(j)] \in Nat /\ jobs[j].quote \in Nat /\ jobs[j].quote <= quotes[OrderOf(j)]
    BY <1>2, <2>1, JobStep, JobFields DEF JobRow, TypeOK, QuoteIsOld
  <2>3. jobs'[j].address = quotes[OrderOf(j)] /\ jobs'[j].quote = jobs[j].quote
    BY <1>2, <2>1 DEF ReadAddress, TypeOK, JobRow
  <2>4. QED BY <1>2, <2>2, <2>3, JobStep DEF AddressOfQuote
<1>3. ASSUME NEW j \in Job, StoreAnswer(j) \/ FailJob(j) PROVE AddressOfQuote'
  <2>1. PICK pc \in {"done", "failed"} :
          /\ jobs' = [jobs EXCEPT ![j] = [jobs[j] EXCEPT !.pc = pc]]
          /\ pc = "done" => jobs[j].pc = "calling"
    BY <1>3 DEF StoreAnswer, FailJob
  <2>2. jobs[j] \in JobRow
    BY <1>3, JobStep, JobFields
  <2>3. QED BY <2>1, <2>2 DEF AddressOfQuote, TypeOK, JobRow
<1>4. CASE jobs' = jobs
  BY <1>4 DEF AddressOfQuote
<1>5. QED
  BY <1>1, <1>2, <1>3, <1>4
     DEF Next, Working, Uber, Handling, ByHand, vars, UberAccepts, UberMoves, Receive, WriteRow,
         Notify, Die, OtherProvider, Overwrite, StoreQuote

(***************************************************************************)
(* Uber is called with the address of the quote or of a later one.         *)
(***************************************************************************)
THEOREM AddressOfQuoteHolds == Spec => []AddressOfQuote
<1>1. Init => QuoteIsOld /\ AddressOfQuote
  BY DEF Init, QuoteIsOld, AddressOfQuote, Idle
<1>2. Linked /\ (QuoteIsOld /\ AddressOfQuote) /\ [Next]_vars => (QuoteIsOld /\ AddressOfQuote)'
  BY QuoteIsOldStep, AddressOfQuoteStep
<1>3. QED BY <1>1, <1>2, LinkedHolds, PTL DEF Spec

-----------------------------------------------------------------------------
(***************************************************************************)
(* RowAndKitchenAgree needs to know more of the time between the two       *)
(* writes: for an order that is not torn, the handlers that still have to  *)
(* tell the kitchen agree with the row.                                    *)
(***************************************************************************)
RowSays(o, event) == EventOf(rows[o].status) = event

LEMMA AgreeStep ==
  ASSUME Linked, Agreed, RowAndKitchenAgree, [Next]_vars
  PROVE  Agreed' /\ RowAndKitchenAgree'
<1> USE DEF Linked
<1> DEFINE Fine(o) == /\ \A h \in Notifying(o) : RowSays(o, EventOf(hooks[h].status))
                      /\ Notifying(o) = {} => RowSays(o, told[o])
<1> SUFFICES ASSUME NEW o \in Order, o \notin torn' PROVE Fine(o)'
  BY DEF Agreed, RowAndKitchenAgree, RowSays
<1>1. o \notin torn => Fine(o)
  BY DEF Agreed, RowAndKitchenAgree, RowSays
<1>2. CASE /\ o \notin torn /\ rows'[o] = rows[o] /\ told'[o] = told[o]
           /\ Notifying(o)' = Notifying(o)
           /\ \A h \in Notifying(o) : hooks'[h].status = hooks[h].status
  BY <1>1, <1>2 DEF RowSays
<1> HIDE DEF Fine
<1>3. ASSUME NEW j \in Job, StoreAnswer(j) PROVE Fine(o)'
  <2>1. hooks' = hooks /\ told' = told /\ OrderOf(j) \in Order
    BY <1>3, JobStep, JobFields
  <2>2. CASE OrderOf(j) = o
    <3>1. EventOf(rows'[o].status) = None
      BY <1>3, <2>1, <2>2 DEF StoreAnswer, TypeOK, EventOf, None
    <3>2. Notifying(o) = {} /\ told[o] = None
      BY <1>3, <2>2 DEF StoreAnswer, TornAfter, EventOf, None
    <3>3. QED BY <2>1, <3>1, <3>2 DEF Fine, RowSays, Notifying
  <2>3. CASE OrderOf(j) # o
    <3>1. o \notin torn
      BY <1>3, <2>3 DEF StoreAnswer, TornAfter
    <3>2. QED BY <1>2, <1>3, <2>1, <2>3, <3>1 DEF StoreAnswer, TypeOK, Notifying
  <2>4. QED BY <2>2, <2>3
<1>4. ASSUME NEW h \in Hook, NEW e \in events, NEW named \in Naming, Receive(h, e, named)
      PROVE  Fine(o)'
  <2>1. PICK new : new.pc = "write" /\ hooks' = [hooks EXCEPT ![h] = new]
    <3>1. PICK q \in OrdersMatching(e, named) :
          hooks' = [hooks EXCEPT ![h] = [pc |-> "write", order |-> q, delivery |-> e.delivery,
                                         status |-> e.status]]
      BY <1>4 DEF Receive
    <3>2. QED BY <3>1
  <2>2. hooks[h].pc # "notify"
    BY <1>4 DEF Receive, Idle
  <2>3. Notifying(o)' = Notifying(o) /\ \A g \in Notifying(o) : hooks'[g] = hooks[g]
    BY <2>1, <2>2 DEF Notifying, TypeOK
  <2>4. QED BY <1>2, <1>4, <2>3 DEF Receive
<1>5. ASSUME NEW h \in Hook, WriteRow(h) \/ Notify(h) \/ Die(h) PROVE Fine(o)'
  <2>1. hooks[h] # Idle
    BY <1>5 DEF WriteRow, Notify, Die, Idle
  <2>2. hooks[h] \in HookRow /\ hooks[h].order \in Order
    BY <2>1, HookFields
  <2>3. ASSUME NEW pc \in {"notify", "done", "dead"},
               hooks' = [hooks EXCEPT ![h] = [hooks[h] EXCEPT !.pc = pc]]
        PROVE  /\ \A g \in Hook : /\ hooks'[g].order = hooks[g].order
                                  /\ hooks'[g].status = hooks[g].status
                                  /\ hooks'[g].pc = IF g = h THEN pc ELSE hooks[g].pc
               /\ hooks[h].order # o => Notifying(o)' = Notifying(o)
               /\ hooks[h].order = o /\ pc = "notify" => Notifying(o)' = Notifying(o) \cup {h}
               /\ hooks[h].order = o /\ pc # "notify" => Notifying(o)' = Notifying(o) \ {h}
    <3>1. \A g \in Hook : /\ hooks'[g].order = hooks[g].order
                          /\ hooks'[g].status = hooks[g].status
                          /\ hooks'[g].pc = IF g = h THEN pc ELSE hooks[g].pc
      BY <2>2, <2>3 DEF TypeOK, HookRow
    <3>2. QED BY <3>1 DEF Notifying
  <2>4. CASE hooks[h].order # o
    <3>1. PICK pc \in {"notify", "done", "dead"} :
            hooks' = [hooks EXCEPT ![h] = [hooks[h] EXCEPT !.pc = pc]]
      BY <1>5 DEF WriteRow, Notify, Die
    <3>2. rows'[o] = rows[o] /\ told'[o] = told[o] /\ o \notin torn
      BY <1>5, <2>2, <2>4 DEF WriteRow, Notify, Die, TypeOK, TornAfter
    <3>3. QED BY <1>2, <2>3, <2>4, <3>1, <3>2 DEF Notifying
  <2>5. CASE hooks[h].order = o /\ WriteRow(h)
    <3>1. /\ rows'[o].status = hooks[h].status /\ Notifying(o) = {} /\ told' = told
          /\ EventOf(hooks[h].status) = None => told[o] = None
      BY <2>2, <2>5 DEF WriteRow, TypeOK, TornAfter
    <3>2. CASE EventOf(hooks[h].status) = None
      <4>1. hooks' = [hooks EXCEPT ![h] = [hooks[h] EXCEPT !.pc = "done"]]
        BY <2>5, <3>2 DEF WriteRow
      <4>2. Notifying(o)' = {}
        BY <2>3, <2>5, <3>1, <4>1
      <4>3. QED BY <3>1, <3>2, <4>2 DEF Fine, RowSays
    <3>3. CASE EventOf(hooks[h].status) # None
      <4>1. hooks' = [hooks EXCEPT ![h] = [hooks[h] EXCEPT !.pc = "notify"]]
        BY <2>5, <3>3 DEF WriteRow
      <4>2. Notifying(o)' = {h} /\ hooks'[h].status = hooks[h].status
        BY <2>3, <2>5, <3>1, <4>1
      <4>3. QED BY <3>1, <4>2 DEF Fine, RowSays
    <3>4. QED BY <3>2, <3>3
  <2>6. CASE hooks[h].order = o /\ Notify(h)
    <3>1. hooks' = [hooks EXCEPT ![h] = [hooks[h] EXCEPT !.pc = "done"]]
      BY <2>6 DEF Notify
    <3>2. /\ Notifying(o)' = Notifying(o) \ {h} /\ h \in Notifying(o)
          /\ \A g \in Hook : hooks'[g].status = hooks[g].status
      BY <2>3, <2>6, <3>1 DEF Notify, Notifying
    <3>3. rows' = rows /\ told'[o] = EventOf(hooks[h].status) /\ o \notin torn
      BY <2>2, <2>6 DEF Notify, TypeOK
    <3>4. Fine(o)
      BY <1>1, <3>3
    <3>5. \A g \in Notifying(o)' : RowSays(o, EventOf(hooks[g].status))'
      BY <3>2, <3>3, <3>4 DEF Fine, RowSays, Notifying
    <3>6. RowSays(o, told[o])'
      BY <3>2, <3>3, <3>4 DEF Fine, RowSays
    <3>7. QED BY <3>5, <3>6 DEF Fine
  <2>7. CASE hooks[h].order = o /\ Die(h)
    <3>1. hooks[h].pc = "write" /\ o \notin torn /\ UNCHANGED <<rows, told>>
      BY <2>7 DEF Die
    <3>2. hooks' = [hooks EXCEPT ![h] = [hooks[h] EXCEPT !.pc = "dead"]]
      BY <2>7 DEF Die
    <3>3. /\ Notifying(o)' = Notifying(o)
          /\ \A g \in Hook : hooks'[g].status = hooks[g].status
      BY <2>3, <2>7, <3>1, <3>2 DEF Notifying
    <3>4. QED BY <1>2, <3>1, <3>3 DEF Notifying
  <2>8. QED BY <1>5, <2>4, <2>5, <2>6, <2>7
<1>6. ASSUME NEW q \in Order,
             \/ \E s \in Reported : OtherProvider(q, s)
             \/ \E p, d, s : Overwrite(q, p, d, s)
      PROVE  Fine(o)'
  <2>1. q # o /\ o \notin torn /\ hooks' = hooks
    BY <1>6 DEF OtherProvider, Overwrite
  <2>2. rows'[o] = rows[o] /\ told'[o] = told[o]
    BY <1>6, <2>1 DEF OtherProvider, Overwrite, TypeOK
  <2>3. QED BY <1>2, <2>1, <2>2 DEF Notifying
<1>7. CASE UNCHANGED <<rows, hooks, told, torn>>
  BY <1>2, <1>7 DEF Notifying
<1>8. QED
  BY <1>3, <1>4, <1>5, <1>6, <1>7
     DEF Next, Working, Uber, Handling, ByHand, vars, ReadQuote, ReadAddress, FailJob,
         UberAccepts, UberMoves, StoreQuote

(***************************************************************************)
(* The customer's delivery row and the kitchen's order tell the same, but  *)
(* for what overlapping events, a handler that died half way, a hand or a  *)
(* late "pending" has torn apart.                                          *)
(***************************************************************************)
THEOREM RowAndKitchenAgreeHolds == Spec => []RowAndKitchenAgree
<1>1. Init => Agreed /\ RowAndKitchenAgree
  BY DEF Init, Agreed, RowAndKitchenAgree, Notifying, NoRow, Idle, EventOf, None
<1>2. Linked /\ (Agreed /\ RowAndKitchenAgree) /\ [Next]_vars => (Agreed /\ RowAndKitchenAgree)'
  BY AgreeStep
<1>3. QED BY <1>1, <1>2, LinkedHolds, PTL DEF Spec
=============================================================================
