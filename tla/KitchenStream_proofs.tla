------------------------ MODULE KitchenStream_proofs ------------------------
(***************************************************************************)
(* Proofs about KitchenStream, for any orders, restaurants, handlers and   *)
(* connections.                                                            *)
(***************************************************************************)
EXTENDS KitchenStream, TLAPS

(* Versions of orders that were written for one restaurant only. *)
Own(orders, t) == \A o \in Order : orders[o] # Absent => <<o, orders[o], t>> \in written

(* What is on its way to a screen, or on it, was written for its restaurant. *)
OwnHandlers ==
  \A r \in Req :
    /\ reqs[r].pc = "update" => <<reqs[r].order, reqs[r].version, reqs[r].tenant>> \in written
    /\ reqs[r].pc = "snapshot" => Own(reqs[r].orders, reqs[r].tenant)

OwnScreens ==
  \A c \in Client : /\ Own(clients[c].screen, clients[c].tenant)
                    /\ clients[c].pc = "off" => clients[c].screen = NothingShown
                    /\ clients[c].pc = "listed" => Own(clients[c].orders, clients[c].tenant)

OwnOnly == OwnHandlers /\ OwnScreens

(* The versions that are written, or due to a screen that has been         *)
(* registered, are none but the table's and earlier ones.                  *)
DueIsWritten ==
  /\ \A entry \in written : entry[2] <= table[entry[1]]
  /\ \A c \in Client, o \in Order :
       /\ due[c][o] <= table[o]
       /\ due[c][o] # Absent => clients[c].pc \in {"on", "closed"}

(* A handler of t that will still send a version of the order as new as that. *)
Carries(r, t, o, version) ==
  /\ reqs[r].pc \in {"changed", "update", "list", "snapshot"}
  /\ reqs[r].order = o /\ reqs[r].tenant = t
  /\ reqs[r].pc = "snapshot" => reqs[r].orders[o] >= version

(* What is due has been sent, or a handler of the restaurant carries it. *)
Carried ==
  \A c \in Client, o \in Order \ unsent :
    On(c) /\ OwnedBy(o, clients[c].tenant) =>
      best[c][o] >= due[c][o] \/ \E r \in Req : Carries(r, clients[c].tenant, o, due[c][o])

-----------------------------------------------------------------------------
Requests == {Idle, Done} \cup Changing \cup Updating \cup Listing \cup Listed
Updated(t, o, version) == [type |-> "updated", tenant |-> t, order |-> o, version |-> version]
Snapshot(t, orders) == [type |-> "snapshot", tenant |-> t, orders |-> orders]

LEMMA ListOrdersFacts ==
  ASSUME TypeOK, NEW t
  PROVE  /\ ListOrders(t) \in Versions /\ Own(ListOrders(t), t)
         /\ \A o \in Order : OwnedBy(o, t) => ListOrders(t)[o] = table[o]
BY DEF TypeOK, ListOrders, OwnedBy, Versions, Own, Absent

LEMMA NothingShownFacts == NothingShown \in Versions /\ \A t : Own(NothingShown, t)
BY DEF NothingShown, Versions, Own, Absent

LEMMA NewestFacts ==
  ASSUME NEW known \in Nat, NEW version \in Nat
  PROVE  Newest(known, version) \in Nat /\ Newest(known, version) >= known /\ Newest(known, version) >= version
BY DEF Newest

(* Owning an order's version lasts. *)
LEMMA OwnStays ==
  ASSUME NEW orders, NEW t, Own(orders, t), written \subseteq written'
  PROVE  \A o \in Order : orders[o] # Absent => <<o, orders[o], t>> \in written'
BY DEF Own

(* What a handler's record holds, by the stage it is at. *)
LEMMA HandlerFields ==
  ASSUME TypeOK, NEW r \in Req
  PROVE  /\ reqs[r].pc \in {"changed", "update", "list", "snapshot"} =>
              reqs[r].order \in Order /\ reqs[r].tenant \in Tenant
         /\ reqs[r].pc = "update" => reqs[r].version \in Nat
         /\ reqs[r].pc = "snapshot" => reqs[r].orders \in Versions
         /\ reqs[r] \notin {Idle, Done} => reqs[r].pc \in {"changed", "update", "list", "snapshot"}
BY DEF TypeOK, Idle, Done, Changing, Updating, Listing, Listed

LEMMA HandlerTypes ==
  ASSUME NEW t \in Tenant, NEW o \in Order
  PROVE  /\ [pc |-> "changed", tenant |-> t, order |-> o] \in Requests
         /\ [pc |-> "list", tenant |-> t, order |-> o] \in Requests
         /\ \A version \in Nat :
              [pc |-> "update", tenant |-> t, order |-> o, version |-> version] \in Requests
         /\ \A orders \in Versions :
              [pc |-> "snapshot", tenant |-> t, order |-> o, orders |-> orders] \in Requests
         /\ Done \in Requests
BY DEF Requests, Changing, Updating, Listing, Listed

(***************************************************************************)
(* A broadcast of orders of one restaurant: it changes only screens of     *)
(* that restaurant, which then show those orders, and the history of what  *)
(* they were sent only grows.                                              *)
(***************************************************************************)
LEMMA BroadcastFacts ==
  ASSUME TypeOK, NEW message, Broadcast(message),
         \A screen \in Versions : Shown(screen, message) \in Versions
  PROVE  /\ clients' \in [Client -> Connection] /\ best' \in [Client -> Versions]
         /\ \A c \in Client :
              /\ clients'[c].pc = clients[c].pc /\ clients'[c].tenant = clients[c].tenant
              /\ clients'[c].orders = clients[c].orders
              /\ \/ clients'[c].screen = clients[c].screen
                 \/ /\ On(c) /\ clients[c].tenant = message.tenant
                    /\ clients'[c].screen = Shown(clients[c].screen, message)
              /\ \A o \in Order : best'[c][o] >= best[c][o]
              /\ On(c) /\ clients[c].tenant = message.tenant =>
                   \A o \in Order : best'[c][o] >= Shown(NothingShown, message)[o]
<1> DEFINE reached == {c \in Client : Reaches(c, message)}
<1>1. \A c \in Client : clients[c] \in Connection /\ clients[c].screen \in Versions
  BY DEF TypeOK, Connection
<1>2. clients' = [c \in Client |->
                    IF c \in reached
                    THEN [clients[c] EXCEPT !.screen = Shown(clients[c].screen, message)]
                    ELSE clients[c]]
  BY <1>1 DEF Broadcast
<1>3. ASSUME NEW c \in Client
      PROVE  [clients[c] EXCEPT !.screen = Shown(clients[c].screen, message)] \in Connection
  BY <1>1 DEF Connection
<1>4. clients' \in [Client -> Connection]
  BY <1>1, <1>2, <1>3
<1>5. \A c \in Client :
        /\ clients'[c].pc = clients[c].pc /\ clients'[c].tenant = clients[c].tenant
        /\ clients'[c].orders = clients[c].orders
        /\ \/ clients'[c].screen = clients[c].screen
           \/ /\ On(c) /\ clients[c].tenant = message.tenant
              /\ clients'[c].screen = Shown(clients[c].screen, message)
  BY <1>1, <1>2 DEF Reaches, Connection
<1>6. \A c \in Client :
        IF c \in reached
        THEN best'[c] = [o \in Order |-> Newest(best[c][o], Shown(NothingShown, message)[o])]
        ELSE best'[c] = best[c]
  BY DEF Broadcast
<1>7. \A c \in Client, o \in Order : best[c][o] \in Nat /\ Shown(NothingShown, message)[o] \in Nat
  BY NothingShownFacts DEF TypeOK, Versions
<1>8. ASSUME NEW c \in Client
      PROVE  /\ best'[c] \in Versions
             /\ \A o \in Order : best'[c][o] >= best[c][o]
             /\ c \in reached => \A o \in Order : best'[c][o] >= Shown(NothingShown, message)[o]
  <2> DEFINE sent == Shown(NothingShown, message)
  <2>1. CASE c \in reached
    <3>1. best'[c] = [o \in Order |-> Newest(best[c][o], sent[o])]
      BY <1>6, <2>1
    <3>2. \A o \in Order : /\ Newest(best[c][o], sent[o]) \in Nat
                           /\ Newest(best[c][o], sent[o]) >= best[c][o]
                           /\ Newest(best[c][o], sent[o]) >= sent[o]
      BY <1>7, NewestFacts
    <3> HIDE DEF reached
    <3>3. QED BY <2>1, <3>1, <3>2 DEF Versions
  <2>2. CASE c \notin reached
    <3>1. best'[c] = best[c]
      BY <1>6, <2>2
    <3>2. best[c] \in Versions /\ \A o \in Order : best[c][o] \in Nat
      BY <1>7 DEF TypeOK
    <3> HIDE DEF reached
    <3>3. QED BY <2>2, <3>1, <3>2
  <2>3. QED BY <2>1, <2>2
<1>9. best' \in [Client -> Versions]
  <2>1. best' = [c \in Client |-> best'[c]]
    BY DEF Broadcast
  <2>2. QED BY <1>8, <2>1
<1>10. QED BY <1>4, <1>5, <1>8, <1>9 DEF Reaches

LEMMA UpdatedFacts ==
  ASSUME NEW t, NEW o \in Order, NEW version \in Nat
  PROVE  /\ \A screen \in Versions : /\ Shown(screen, Updated(t, o, version)) \in Versions
                                     /\ Shown(screen, Updated(t, o, version)) = [screen EXCEPT ![o] = version]
         /\ Updated(t, o, version).tenant = t
BY DEF Shown, Updated, Versions

LEMMA SnapshotFacts ==
  ASSUME NEW t, NEW orders \in Versions
  PROVE  /\ \A screen : Shown(screen, Snapshot(t, orders)) = orders
         /\ Snapshot(t, orders).tenant = t
BY DEF Shown, Snapshot

LEMMA SendFacts ==
  ASSUME TypeOK, NEW r \in Req, BroadcastUpdate(r) \/ BroadcastSnapshot(r)
  PROVE  \E message : /\ Broadcast(message)
                      /\ \A screen \in Versions : Shown(screen, message) \in Versions
<1>1. CASE BroadcastUpdate(r)
  <2>1. /\ reqs[r].order \in Order /\ reqs[r].version \in Nat
        /\ Broadcast(Updated(reqs[r].tenant, reqs[r].order, reqs[r].version))
    BY <1>1, HandlerFields DEF BroadcastUpdate, Updated
  <2>2. QED BY <2>1, UpdatedFacts
<1>2. CASE BroadcastSnapshot(r)
  <2>1. reqs[r].orders \in Versions /\ Broadcast(Snapshot(reqs[r].tenant, reqs[r].orders))
    BY <1>2, HandlerFields DEF BroadcastSnapshot, Snapshot
  <2>2. QED BY <2>1, SnapshotFacts
<1>3. QED BY <1>1, <1>2

-----------------------------------------------------------------------------
LEMMA TypeStep ==
  ASSUME TypeOK, [Next]_vars
  PROVE  TypeOK'
<1>1. ASSUME NEW r \in Req, NEW t \in Tenant, NEW o \in Order,
             NEW kind \in {"update", "create", "paid"}, Change(r, t, o, kind)
      PROVE  TypeOK'
  <2>1. table[o] + 1 \in Nat
    BY DEF TypeOK, Versions
  <2>2. Afterwards(kind, t, o, table[o] + 1) \in Requests
    BY <2>1, HandlerTypes DEF Afterwards
  <2>3. table' \in Versions
    BY <1>1, <2>1 DEF Change, TypeOK, Versions
  <2>4. due' \in [Client -> Versions]
    BY <1>1, <2>1 DEF Change, TypeOK, Versions
  <2>5. reqs' \in [Req -> Requests]
    BY <1>1, <2>2 DEF Change, TypeOK, Requests
  <2>6. written' \subseteq Order \X Nat \X Tenant
    BY <1>1, <2>1 DEF Change, TypeOK
  <2>7. QED BY <1>1, <2>3, <2>4, <2>5, <2>6 DEF Change, TypeOK, Requests
<1>2. ASSUME NEW r \in Req, ReadBack(r) PROVE TypeOK'
  <2>1. reqs[r].order \in Order /\ reqs[r].tenant \in Tenant /\ table[reqs[r].order] \in Nat
    BY <1>2, HandlerFields DEF ReadBack, TypeOK, Versions
  <2>2. reqs' \in [Req -> Requests]
    BY <1>2, <2>1, HandlerTypes DEF ReadBack, TypeOK, Requests
  <2>3. QED BY <1>2, <2>2 DEF ReadBack, TypeOK, Requests
<1>3. ASSUME NEW r \in Req, BroadcastUpdate(r) PROVE TypeOK'
  <2>1. /\ reqs[r].order \in Order /\ reqs[r].version \in Nat /\ reqs[r].tenant \in Tenant
        /\ Broadcast(Updated(reqs[r].tenant, reqs[r].order, reqs[r].version))
    BY <1>3, HandlerFields DEF BroadcastUpdate, Updated
  <2>2. clients' \in [Client -> Connection] /\ best' \in [Client -> Versions]
    BY <2>1, UpdatedFacts, BroadcastFacts
  <2>3. reqs' \in [Req -> Requests]
    BY <1>3, <2>1, HandlerTypes DEF BroadcastUpdate, TypeOK, Requests
  <2>4. QED BY <1>3, <2>2, <2>3 DEF BroadcastUpdate, TypeOK, Requests
<1>4. ASSUME NEW r \in Req, List(r) PROVE TypeOK'
  <2>1. reqs' \in [Req -> Requests]
    BY <1>4, HandlerFields, HandlerTypes, ListOrdersFacts DEF List, TypeOK, Requests
  <2>2. QED BY <1>4, <2>1 DEF List, TypeOK, Requests
<1>5. ASSUME NEW r \in Req, BroadcastSnapshot(r) PROVE TypeOK'
  <2>1. reqs[r].orders \in Versions /\ Broadcast(Snapshot(reqs[r].tenant, reqs[r].orders))
    BY <1>5, HandlerFields DEF BroadcastSnapshot, Snapshot
  <2>2. clients' \in [Client -> Connection] /\ best' \in [Client -> Versions]
    BY <2>1, SnapshotFacts, BroadcastFacts
  <2>3. QED BY <1>5, <2>2 DEF BroadcastSnapshot, TypeOK
<1>6. ASSUME NEW r \in Req, Fail(r) PROVE TypeOK'
  BY <1>6, HandlerFields DEF Fail, TypeOK
<1>7. ASSUME NEW c \in Client, NEW t \in Tenant, ConnectList(c, t) PROVE TypeOK'
  <2>1. clients' = [clients EXCEPT ![c] = [clients[c] EXCEPT !.pc = "listed", !.tenant = t,
                                                             !.orders = ListOrders(t)]]
    BY <1>7 DEF ConnectList, TypeOK
  <2>2. [clients[c] EXCEPT !.pc = "listed", !.tenant = t, !.orders = ListOrders(t)] \in Connection
    BY ListOrdersFacts DEF TypeOK, Connection
  <2>3. QED BY <1>7, <2>1, <2>2 DEF ConnectList, TypeOK
<1>8. ASSUME NEW c \in Client, ConnectShow(c) PROVE TypeOK'
  <2>1. clients' = [clients EXCEPT ![c] = [clients[c] EXCEPT !.pc = "shown", !.screen = clients[c].orders]]
    BY <1>8 DEF ConnectShow, TypeOK
  <2>2. /\ [clients[c] EXCEPT !.pc = "shown", !.screen = clients[c].orders] \in Connection
        /\ clients[c].orders \in Versions
    BY DEF TypeOK, Connection
  <2>3. QED BY <1>8, <2>1, <2>2 DEF ConnectShow, TypeOK
<1>9. ASSUME NEW c \in Client, Register(c) \/ Close(c) PROVE TypeOK'
  <2>1. \A pc \in {"on", "closed"} : [clients[c] EXCEPT !.pc = pc] \in Connection
    BY DEF TypeOK, Connection
  <2>2. QED BY <1>9, <2>1 DEF Register, Close, TypeOK
<1>10. ASSUME NEW r \in Req, NEW t \in Tenant, NEW o \in Order, ChangeNothing(r, t, o)
       PROVE  TypeOK'
  <2>1. reqs' \in [Req -> Requests]
    BY <1>10, HandlerTypes DEF ChangeNothing, Afterwards, TypeOK, Requests
  <2>2. QED BY <1>10, <2>1 DEF ChangeNothing, TypeOK, Requests
<1>11. CASE UNCHANGED vars
  BY <1>11 DEF vars, TypeOK
<1>12. QED
  BY <1>1, <1>2, <1>3, <1>4, <1>5, <1>6, <1>7, <1>8, <1>9, <1>10, <1>11 DEF Next, Handler, Screen

(***************************************************************************)
(* Type correctness: messages only ever carry versions of known orders.    *)
(***************************************************************************)
THEOREM TypeCorrect == Spec => []TypeOK
<1>1. Init => TypeOK
  BY NothingShownFacts DEF Init, TypeOK, Connection
<1>2. QED BY <1>1, TypeStep, PTL DEF Spec

-----------------------------------------------------------------------------
LEMMA WrittenStays == [Next]_vars => written \subseteq written'
BY DEF Next, Handler, Screen, vars, Change, ChangeNothing, ReadBack, BroadcastUpdate, List,
       BroadcastSnapshot, Fail, ConnectList, ConnectShow, Register, Close

(* A handler's next stage may hold only what was written for its restaurant. *)
LEMMA OwnHandlerStep ==
  ASSUME TypeOK, OwnHandlers, written \subseteq written', NEW r \in Req, NEW new,
         reqs' = [reqs EXCEPT ![r] = new],
         new.pc = "update" => <<new.order, new.version, new.tenant>> \in written',
         new.pc = "snapshot" =>
           \A o \in Order : new.orders[o] # Absent => <<o, new.orders[o], new.tenant>> \in written'
  PROVE  OwnHandlers'
<1>1. \A q \in Req : reqs'[q] = IF q = r THEN new ELSE reqs[q]
  BY DEF TypeOK
<1>2. \A q \in Req \ {r} : reqs[q].pc = "snapshot" =>
        \A o \in Order : reqs[q].orders[o] # Absent => <<o, reqs[q].orders[o], reqs[q].tenant>> \in written'
  BY OwnStays DEF OwnHandlers
<1>3. QED BY <1>1, <1>2 DEF OwnHandlers, Own

LEMMA OwnHandlersStep ==
  ASSUME TypeOK, OwnHandlers, [Next]_vars
  PROVE  OwnHandlers'
<1>1. written \subseteq written'
  BY WrittenStays
<1>2. ASSUME NEW r \in Req, NEW t \in Tenant, NEW o \in Order,
             NEW kind \in {"update", "create", "paid"}, Change(r, t, o, kind)
      PROVE  OwnHandlers'
  <2> DEFINE new == Afterwards(kind, t, o, table[o] + 1)
  <2>1. reqs' = [reqs EXCEPT ![r] = new] /\ <<o, table[o] + 1, t>> \in written'
    BY <1>2 DEF Change
  <2>2. /\ new.pc # "snapshot"
        /\ new.pc = "update" => new.order = o /\ new.version = table[o] + 1 /\ new.tenant = t
    BY DEF Afterwards
  <2> HIDE DEF new
  <2>3. QED BY <1>1, <2>1, <2>2, OwnHandlerStep
<1>3. ASSUME NEW r \in Req, NEW t \in Tenant, NEW o \in Order, ChangeNothing(r, t, o)
      PROVE  OwnHandlers'
  <2> DEFINE new == Afterwards("update", t, o, table[o])
  <2>1. reqs' = [reqs EXCEPT ![r] = new]
    BY <1>3 DEF ChangeNothing
  <2>2. new.pc = "changed"
    BY DEF Afterwards
  <2> HIDE DEF new
  <2>3. QED BY <1>1, <2>1, <2>2, OwnHandlerStep
<1>4. ASSUME NEW r \in Req, ReadBack(r) PROVE OwnHandlers'
  <2> DEFINE o == reqs[r].order
             t == reqs[r].tenant
             new == IF OwnedBy(o, t)
                    THEN [pc |-> "update", tenant |-> t, order |-> o, version |-> table[o]]
                    ELSE Done
  <2>1. reqs' = [reqs EXCEPT ![r] = new]
    BY <1>4 DEF ReadBack
  <2>2. new.pc # "snapshot"
    BY DEF Done
  <2>3. new.pc = "update" => <<new.order, new.version, new.tenant>> \in written
    BY DEF OwnedBy, Done
  <2> HIDE DEF new
  <2>4. QED BY <1>1, <2>1, <2>2, <2>3, OwnHandlerStep
<1>5. ASSUME NEW r \in Req, BroadcastUpdate(r) \/ BroadcastSnapshot(r) \/ Fail(r)
      PROVE  OwnHandlers'
  <2> DEFINE listing == [pc |-> "list", tenant |-> reqs[r].tenant, order |-> reqs[r].order]
  <2>1. reqs' = [reqs EXCEPT ![r] = listing] \/ reqs' = [reqs EXCEPT ![r] = Done]
    BY <1>5 DEF BroadcastUpdate, BroadcastSnapshot, Fail
  <2>2. listing.pc = "list" /\ Done.pc = "done"
    BY DEF Done
  <2> HIDE DEF listing
  <2>3. QED BY <1>1, <2>1, <2>2, OwnHandlerStep
<1>6. ASSUME NEW r \in Req, List(r) PROVE OwnHandlers'
  <2> DEFINE t == reqs[r].tenant
             new == [pc |-> "snapshot", tenant |-> t, order |-> reqs[r].order,
                     orders |-> ListOrders(t)]
  <2>1. reqs' = [reqs EXCEPT ![r] = new]
    BY <1>6 DEF List
  <2>2. Own(ListOrders(t), t)
    BY ListOrdersFacts
  <2>3. \A o \in Order : ListOrders(t)[o] # Absent => <<o, ListOrders(t)[o], t>> \in written'
    BY <1>1, <2>2, OwnStays
  <2>4. new.pc = "snapshot" /\ new.orders = ListOrders(t) /\ new.tenant = t
    OBVIOUS
  <2> HIDE DEF new
  <2>5. QED BY <1>1, <2>1, <2>3, <2>4, OwnHandlerStep
<1>7. CASE reqs' = reqs
  <2>1. \A q \in Req : reqs[q].pc = "snapshot" =>
          \A o \in Order : reqs[q].orders[o] # Absent => <<o, reqs[q].orders[o], reqs[q].tenant>> \in written'
    BY <1>1, OwnStays DEF OwnHandlers
  <2>2. QED BY <1>1, <1>7, <2>1 DEF OwnHandlers, Own
<1>8. ASSUME NEW c \in Client, Screen(c) PROVE reqs' = reqs
  BY <1>8 DEF Screen, ConnectList, ConnectShow, Register, Close
<1>9. QED
  BY <1>2, <1>3, <1>4, <1>5, <1>6, <1>7, <1>8 DEF Next, Handler, vars

LEMMA OwnScreensStep ==
  ASSUME TypeOK, OwnOnly, [Next]_vars
  PROVE  OwnScreens'
<1>1. OwnScreens /\ written \subseteq written'
  BY WrittenStays DEF OwnOnly
<1> DEFINE Stays(orders, t) == \A o \in Order : orders[o] # Absent => <<o, orders[o], t>> \in written'
<1>2. \A c \in Client : /\ Stays(clients[c].screen, clients[c].tenant)
                        /\ clients[c].pc = "listed" => Stays(clients[c].orders, clients[c].tenant)
  BY <1>1, OwnStays DEF OwnScreens
<1>3. SUFFICES \A c \in Client : /\ Stays(clients'[c].screen, clients'[c].tenant)
                                 /\ clients'[c].pc = "off" => clients'[c].screen = NothingShown
                                 /\ clients'[c].pc = "listed" => Stays(clients'[c].orders, clients'[c].tenant)
  BY DEF OwnScreens, Own
<1> HIDE DEF Stays
<1>4. CASE clients' = clients
  BY <1>1, <1>2, <1>4 DEF OwnScreens
<1>5. ASSUME NEW r \in Req, BroadcastUpdate(r)
      PROVE  \A c \in Client : /\ Stays(clients'[c].screen, clients'[c].tenant)
                               /\ clients'[c].pc = "off" => clients'[c].screen = NothingShown
                               /\ clients'[c].pc = "listed" => Stays(clients'[c].orders, clients'[c].tenant)
  <2>1. /\ reqs[r].order \in Order /\ reqs[r].version \in Nat
        /\ Broadcast(Updated(reqs[r].tenant, reqs[r].order, reqs[r].version))
    BY <1>5, HandlerFields DEF BroadcastUpdate, Updated
  <2>2. <<reqs[r].order, reqs[r].version, reqs[r].tenant>> \in written'
    BY <1>1, <1>5 DEF BroadcastUpdate, OwnOnly, OwnHandlers
  <2>3. \A c \in Client :
          /\ clients'[c].pc = clients[c].pc /\ clients'[c].tenant = clients[c].tenant
          /\ clients'[c].orders = clients[c].orders
          /\ \/ clients'[c].screen = clients[c].screen
             \/ /\ On(c) /\ clients[c].tenant = reqs[r].tenant
                /\ clients'[c].screen = [clients[c].screen EXCEPT ![reqs[r].order] = reqs[r].version]
    <3>1. \A c \in Client : clients[c].screen \in Versions
      BY DEF TypeOK, Connection
    <3> DEFINE message == Updated(reqs[r].tenant, reqs[r].order, reqs[r].version)
    <3>2. /\ \A screen \in Versions : Shown(screen, message) \in Versions
          /\ message.tenant = reqs[r].tenant
          /\ \A c \in Client : Shown(clients[c].screen, message)
                               = [clients[c].screen EXCEPT ![reqs[r].order] = reqs[r].version]
      <4>1. reqs[r].order \in Order /\ reqs[r].version \in Nat
        BY <2>1
      <4>2. /\ \A screen \in Versions : /\ Shown(screen, message) \in Versions
                                        /\ Shown(screen, message) = [screen EXCEPT ![reqs[r].order] = reqs[r].version]
            /\ message.tenant = reqs[r].tenant
        BY <4>1, UpdatedFacts
      <4> HIDE DEF message
      <4>3. QED BY <3>1, <4>2
    <3> HIDE DEF message
    <3>3. Broadcast(message)
      BY <2>1 DEF message
    <3>4. QED BY <3>2, <3>3, BroadcastFacts
  <2>4. ASSUME NEW c \in Client, On(c), clients[c].tenant = reqs[r].tenant
        PROVE  Stays([clients[c].screen EXCEPT ![reqs[r].order] = reqs[r].version], clients[c].tenant)
    <3>1. clients[c].screen \in Versions
      BY DEF TypeOK, Connection
    <3>2. QED BY <1>2, <2>1, <2>2, <2>4, <3>1 DEF Stays, Versions
  <2>5. QED BY <1>1, <1>2, <2>3, <2>4 DEF On, OwnScreens
<1>6. ASSUME NEW r \in Req, BroadcastSnapshot(r)
      PROVE  \A c \in Client : /\ Stays(clients'[c].screen, clients'[c].tenant)
                               /\ clients'[c].pc = "off" => clients'[c].screen = NothingShown
                               /\ clients'[c].pc = "listed" => Stays(clients'[c].orders, clients'[c].tenant)
  <2>1. /\ reqs[r].orders \in Versions /\ Own(reqs[r].orders, reqs[r].tenant)
        /\ Broadcast(Snapshot(reqs[r].tenant, reqs[r].orders))
    BY <1>6, HandlerFields DEF BroadcastSnapshot, Snapshot, OwnOnly, OwnHandlers
  <2>2. Stays(reqs[r].orders, reqs[r].tenant)
    BY <1>1, <2>1, OwnStays DEF Stays
  <2>3. \A c \in Client :
          /\ clients'[c].pc = clients[c].pc /\ clients'[c].tenant = clients[c].tenant
          /\ clients'[c].orders = clients[c].orders
          /\ \/ clients'[c].screen = clients[c].screen
             \/ /\ On(c) /\ clients[c].tenant = reqs[r].tenant
                /\ clients'[c].screen = reqs[r].orders
    BY <2>1, SnapshotFacts, BroadcastFacts
  <2>4. QED BY <1>1, <1>2, <2>2, <2>3 DEF On, OwnScreens
<1>7. ASSUME NEW d \in Client, NEW t \in Tenant, ConnectList(d, t)
      PROVE  \A c \in Client : /\ Stays(clients'[c].screen, clients'[c].tenant)
                               /\ clients'[c].pc = "off" => clients'[c].screen = NothingShown
                               /\ clients'[c].pc = "listed" => Stays(clients'[c].orders, clients'[c].tenant)
  <2>1. clients' = [clients EXCEPT ![d] = [clients[d] EXCEPT !.pc = "listed", !.tenant = t,
                                                             !.orders = ListOrders(t)]]
    BY <1>7 DEF ConnectList, TypeOK
  <2>2. clients[d] \in Connection /\ clients[d].screen = NothingShown
    BY <1>1, <1>7 DEF ConnectList, TypeOK, OwnScreens
  <2>3. Stays(ListOrders(t), t) /\ Stays(NothingShown, t)
    BY <1>1, ListOrdersFacts, NothingShownFacts, OwnStays DEF Stays
  <2>4. QED BY <1>1, <1>2, <2>1, <2>2, <2>3 DEF TypeOK, Connection, OwnScreens
<1>8. ASSUME NEW d \in Client, ConnectShow(d)
      PROVE  \A c \in Client : /\ Stays(clients'[c].screen, clients'[c].tenant)
                               /\ clients'[c].pc = "off" => clients'[c].screen = NothingShown
                               /\ clients'[c].pc = "listed" => Stays(clients'[c].orders, clients'[c].tenant)
  <2>1. clients' = [clients EXCEPT ![d] = [clients[d] EXCEPT !.pc = "shown", !.screen = clients[d].orders]]
    BY <1>8 DEF ConnectShow, TypeOK
  <2>2. Stays(clients[d].orders, clients[d].tenant)
    BY <1>2, <1>8 DEF ConnectShow
  <2>3. QED BY <1>1, <1>2, <2>1, <2>2 DEF TypeOK, Connection, OwnScreens
<1>9. ASSUME NEW d \in Client, Register(d) \/ Close(d)
      PROVE  \A c \in Client : /\ Stays(clients'[c].screen, clients'[c].tenant)
                               /\ clients'[c].pc = "off" => clients'[c].screen = NothingShown
                               /\ clients'[c].pc = "listed" => Stays(clients'[c].orders, clients'[c].tenant)
  <2>1. PICK pc \in {"on", "closed"} : clients' = [clients EXCEPT ![d] = [clients[d] EXCEPT !.pc = pc]]
    BY <1>9 DEF Register, Close
  <2>2. QED BY <1>1, <1>2, <2>1 DEF TypeOK, Connection, OwnScreens
<1>10. ASSUME NEW r \in Req,
              \/ \E t \in Tenant, o \in Order : \/ \E kind \in {"update", "create", "paid"} : Change(r, t, o, kind)
                                                \/ ChangeNothing(r, t, o)
              \/ ReadBack(r) \/ List(r) \/ Fail(r)
       PROVE  clients' = clients
  BY <1>10 DEF Change, ChangeNothing, ReadBack, List, Fail
<1>11. QED
  BY <1>4, <1>5, <1>6, <1>7, <1>8, <1>9, <1>10 DEF Next, Handler, Screen, vars

LEMMA OwnOnlyHolds == Spec => []OwnOnly
<1>1. Init => OwnOnly
  BY NothingShownFacts DEF Init, OwnOnly, OwnHandlers, OwnScreens, Idle
<1>2. TypeOK /\ OwnOnly /\ [Next]_vars => OwnOnly'
  BY OwnHandlersStep, OwnScreensStep DEF OwnOnly
<1>3. QED BY <1>1, <1>2, TypeCorrect, PTL DEF Spec

(***************************************************************************)
(* No screen ever shows a version of an order that was written for another *)
(* restaurant.                                                             *)
(***************************************************************************)
THEOREM NoForeignOrdersHolds == Spec => []NoForeignOrders
<1>1. OwnOnly => NoForeignOrders
  BY DEF OwnOnly, OwnScreens, Own, NoForeignOrders
<1>2. QED BY <1>1, OwnOnlyHolds, PTL

-----------------------------------------------------------------------------
(* A screen that was listed, shown, registered or closed was not there to  *)
(* be sent anything before; its restaurant is settled from then on.        *)
LEMMA ClientSteps ==
  ASSUME TypeOK, [Next]_vars, NEW c \in Client
  PROVE  /\ On(c) => clients'[c].pc \in {"on", "closed"} /\ clients'[c].tenant = clients[c].tenant
         /\ clients[c].pc = "closed" => clients'[c].pc = "closed" /\ clients'[c].tenant = clients[c].tenant
         /\ On(c)' => clients[c].pc \in {"shown", "on"}
<1> DEFINE Goal == /\ On(c) => clients'[c].pc \in {"on", "closed"} /\ clients'[c].tenant = clients[c].tenant
                   /\ clients[c].pc = "closed" => clients'[c].pc = "closed" /\ clients'[c].tenant = clients[c].tenant
                   /\ On(c)' => clients[c].pc \in {"shown", "on"}
<1>1. ASSUME clients'[c].pc = clients[c].pc, clients'[c].tenant = clients[c].tenant
      PROVE  Goal
  BY <1>1 DEF On
<1>2. ASSUME NEW r \in Req, BroadcastUpdate(r) \/ BroadcastSnapshot(r)
      PROVE  clients'[c].pc = clients[c].pc /\ clients'[c].tenant = clients[c].tenant
  BY <1>2, SendFacts, BroadcastFacts
<1>3. ASSUME NEW d \in Client, NEW t \in Tenant, ConnectList(d, t) PROVE Goal
  <2>1. clients' = [clients EXCEPT ![d] = [clients[d] EXCEPT !.pc = "listed", !.tenant = t,
                                                             !.orders = ListOrders(t)]]
    BY <1>3 DEF ConnectList, TypeOK
  <2>2. QED BY <1>3, <2>1 DEF ConnectList, TypeOK, Connection, On
<1>4. ASSUME NEW d \in Client, ConnectShow(d) PROVE Goal
  <2>1. clients' = [clients EXCEPT ![d] = [clients[d] EXCEPT !.pc = "shown", !.screen = clients[d].orders]]
    BY <1>4 DEF ConnectShow, TypeOK
  <2>2. QED BY <1>4, <2>1 DEF ConnectShow, TypeOK, Connection, On
<1>5. ASSUME NEW d \in Client, Register(d) \/ Close(d) PROVE Goal
  <2>1. PICK pc \in {"on", "closed"} :
          /\ clients' = [clients EXCEPT ![d] = [clients[d] EXCEPT !.pc = pc]]
          /\ clients[d].pc = IF pc = "on" THEN "shown" ELSE "on"
    BY <1>5 DEF Register, Close, On
  <2>2. QED BY <2>1 DEF TypeOK, Connection, On
<1>6. ASSUME clients' = clients PROVE Goal
  BY <1>1, <1>6
<1>7. \/ clients' = clients
      \/ \E r \in Req : BroadcastUpdate(r) \/ BroadcastSnapshot(r)
      \/ \E d \in Client : (\E t \in Tenant : ConnectList(d, t)) \/ ConnectShow(d) \/ Register(d) \/ Close(d)
  BY DEF Next, Handler, Screen, vars, Change, ChangeNothing, ReadBack, List, Fail
<1>8. QED BY <1>1, <1>2, <1>3, <1>4, <1>5, <1>6, <1>7

(* What a step adds to the versions written, due and sent.                 *)
LEMMA VersionSteps ==
  ASSUME TypeOK, [Next]_vars
  PROVE  /\ \A c \in Client : On(c) => \A o \in Order : best'[c][o] >= best[c][o]
         /\ \/ table' = table /\ written' = written /\ due' = due /\ unsent \subseteq unsent'
            \/ \E r \in Req, t \in Tenant, o \in Order, kind \in {"update", "create", "paid"} :
                 Change(r, t, o, kind)
<1>1. \/ table' = table /\ written' = written /\ due' = due /\ unsent \subseteq unsent'
      \/ \E r \in Req, t \in Tenant, o \in Order, kind \in {"update", "create", "paid"} :
           Change(r, t, o, kind)
  BY DEF Next, Handler, Screen, vars, ChangeNothing, ReadBack, BroadcastUpdate, List,
         BroadcastSnapshot, Fail, ConnectList, ConnectShow, Register, Close
<1>2. \A c \in Client, o \in Order : best[c][o] \in Nat
  BY DEF TypeOK, Versions
<1>3. ASSUME NEW r \in Req, BroadcastUpdate(r) \/ BroadcastSnapshot(r)
      PROVE  \A c \in Client, o \in Order : best'[c][o] >= best[c][o]
  BY <1>3, SendFacts, BroadcastFacts
<1>4. ASSUME NEW d \in Client, ConnectShow(d)
      PROVE  \A c \in Client : On(c) => best'[c] = best[c]
  BY <1>4 DEF ConnectShow, On, TypeOK
<1>5. \/ best' = best
      \/ \E r \in Req : BroadcastUpdate(r) \/ BroadcastSnapshot(r)
      \/ \E d \in Client : ConnectShow(d)
  BY DEF Next, Handler, Screen, vars, Change, ChangeNothing, ReadBack, List, Fail, ConnectList,
         Register, Close
<1>6. QED BY <1>1, <1>2, <1>3, <1>4, <1>5

LEMMA DueIsWrittenStep ==
  ASSUME TypeOK, DueIsWritten, [Next]_vars
  PROVE  DueIsWritten'
<1> DEFINE Past == \A entry \in written : entry[2] <= table[entry[1]]
           Due(c, o) == due[c][o] <= table[o] /\ (due[c][o] # Absent => clients[c].pc \in {"on", "closed"})
<1>1. Past /\ \A c \in Client, o \in Order : Due(c, o)
  BY DEF DueIsWritten
<1>2. \A c \in Client, o \in Order : due[c][o] \in Nat /\ table[o] \in Nat
  BY DEF TypeOK, Versions
<1>3. CASE table' = table /\ written' = written /\ due' = due
  <2>1. Past'
    BY <1>1, <1>3
  <2>2. \A c \in Client, o \in Order : Due(c, o)'
    BY <1>1, <1>3, ClientSteps DEF On
  <2>3. QED BY <2>1, <2>2 DEF DueIsWritten
<1>4. ASSUME NEW r \in Req, NEW t \in Tenant, NEW q \in Order,
             NEW kind \in {"update", "create", "paid"}, Change(r, t, q, kind)
      PROVE  DueIsWritten'
  <2>1. clients' = clients /\ written' = written \cup {<<q, table[q] + 1, t>>}
    BY <1>4 DEF Change
  <2>2. \A o \in Order : table'[o] = IF o = q THEN table[q] + 1 ELSE table[o]
    BY <1>4 DEF Change, TypeOK, Versions
  <2>3. \A c \in Client, o \in Order :
          due'[c][o] = IF o = q /\ On(c) /\ clients[c].tenant = t THEN table[q] + 1 ELSE due[c][o]
    BY <1>4 DEF Change, TypeOK, Versions
  <2>4. \A o \in Order : table[o] <= table'[o] /\ table'[o] \in Nat
    BY <1>2, <2>2 DEF TypeOK, Versions
  <2>5. Past'
    <3>1. \A entry \in written : entry[1] \in Order /\ entry[2] \in Nat
      BY DEF TypeOK
    <3>2. \A entry \in written : entry[2] <= table'[entry[1]]
      BY <1>1, <1>2, <2>4, <3>1 DEF TypeOK, Versions
    <3>3. QED BY <2>1, <2>2, <2>4, <3>2
  <2>6. \A c \in Client, o \in Order : Due(c, o)'
    BY <1>1, <1>2, <2>1, <2>2, <2>3, <2>4 DEF On, TypeOK, Versions
  <2>7. QED BY <2>5, <2>6 DEF DueIsWritten
<1>5. QED BY <1>3, <1>4, VersionSteps

(* A handler that is at work and none of those that this step ends.        *)
LEMMA HandlersApart ==
  ASSUME TypeOK, [Next]_vars
  PROVE  \/ reqs' = reqs
         \/ \E r \in Req : Handler(r) /\ \A q \in Req \ {r} : reqs'[q] = reqs[q]
<1>1. ASSUME NEW r \in Req, Handler(r) PROVE \A q \in Req \ {r} : reqs'[q] = reqs[q]
  BY <1>1 DEF Handler, Change, ChangeNothing, ReadBack, BroadcastUpdate, List, BroadcastSnapshot,
              Fail, TypeOK
<1>2. ASSUME NEW c \in Client, Screen(c) PROVE reqs' = reqs
  BY <1>2 DEF Screen, ConnectList, ConnectShow, Register, Close
<1>3. QED BY <1>1, <1>2 DEF Next, vars

LEMMA CarriedStep ==
  ASSUME TypeOK, TypeOK', DueIsWritten, Carried, [Next]_vars
  PROVE  Carried'
<1> SUFFICES ASSUME NEW c \in Client, NEW o \in Order, o \notin unsent', On(c)',
                    OwnedBy(o, clients[c].tenant)'
             PROVE  \/ best'[c][o] >= due'[c][o]
                    \/ \E r \in Req : Carries(r, clients[c].tenant, o, due[c][o])'
  BY DEF Carried
<1> DEFINE Goal == \/ best'[c][o] >= due'[c][o]
                   \/ \E r \in Req : Carries(r, clients[c].tenant, o, due[c][o])'
<1>1. /\ best[c][o] \in Nat /\ due[c][o] \in Nat /\ table[o] \in Nat /\ best'[c][o] \in Nat
      /\ due[c][o] <= table[o]
      /\ due[c][o] # Absent => clients[c].pc \in {"on", "closed"}
  BY DEF DueIsWritten, TypeOK, Versions
<1>2. ASSUME NEW r \in Req, NEW t \in Tenant, NEW kind \in {"update", "create", "paid"},
             Change(r, t, o, kind)
      PROVE  Goal
  <2>1. reqs'[r] = Afterwards(kind, t, o, table[o] + 1)
    BY <1>2 DEF Change, TypeOK
  <2>2. reqs'[r].pc \in {"changed", "update", "list"} /\ reqs'[r].order = o /\ reqs'[r].tenant = t
    BY <2>1 DEF Afterwards
  <2>3. clients[c].tenant' = t
    <3>1. /\ <<o, table[o] + 1, clients[c].tenant'>> \in written'
          /\ written' = written \cup {<<o, table[o] + 1, t>>}
      BY <1>2 DEF Change, OwnedBy, TypeOK, Versions
    <3>2. \A u : <<o, table[o] + 1, u>> \notin written
      BY <1>1 DEF DueIsWritten
    <3>3. QED BY <3>1, <3>2
  <2>4. QED BY <2>2, <2>3 DEF Carries
<1>3. CASE ~\E r \in Req, t \in Tenant, kind \in {"update", "create", "paid"} : Change(r, t, o, kind)
  <2>1. /\ due'[c][o] = due[c][o] /\ (o \in unsent => o \in unsent') /\ table'[o] = table[o]
        /\ \A u : <<o, table[o], u>> \in written' => <<o, table[o], u>> \in written
    <3>1. ASSUME NEW r \in Req, NEW t \in Tenant, NEW q \in Order,
                 NEW kind \in {"update", "create", "paid"}, Change(r, t, q, kind)
          PROVE  /\ due'[c][o] = due[c][o] /\ (o \in unsent => o \in unsent') /\ table'[o] = table[o]
                 /\ \A u : <<o, table[o], u>> \in written' => <<o, table[o], u>> \in written
      <4>1. q # o
        BY <1>3, <3>1
      <4>2. due'[c] = due[c] \/ due'[c] = [due[c] EXCEPT ![q] = table[q] + 1]
        BY <3>1 DEF Change
      <4>3. QED BY <3>1, <4>1, <4>2 DEF Change, TypeOK, Versions
    <3>2. QED BY <3>1, VersionSteps
  <2>2. CASE ~On(c)
    BY <1>1, <2>1, <2>2, ClientSteps DEF On, Absent
  <2> DEFINE t == clients[c].tenant
  <2>3. On(c) => clients'[c].tenant = t /\ OwnedBy(o, t)
    BY <2>1, ClientSteps DEF OwnedBy
  <2> HIDE DEF t
  <2>4. CASE On(c) /\ best[c][o] >= due[c][o]
    BY <1>1, <2>1, <2>4, VersionSteps
  <2>5. ASSUME On(c), NEW r \in Req, Carries(r, t, o, due[c][o]), reqs'[r] = reqs[r]
        PROVE  Goal
    BY <2>1, <2>3, <2>5 DEF Carries
  <2>6. ASSUME On(c), NEW r \in Req, Carries(r, t, o, due[c][o]), Handler(r)
        PROVE  Goal
    <3>1. t = reqs[r].tenant /\ reqs[r].order = o /\ clients'[c].tenant = t
      BY <2>3, <2>6 DEF Carries
    <3>2. CASE ReadBack(r)
      <4>1. reqs'[r] = [pc |-> "update", tenant |-> t, order |-> o, version |-> table[o]]
        BY <2>3, <2>6, <3>1, <3>2 DEF ReadBack, TypeOK
      <4>2. QED BY <3>1, <4>1 DEF Carries
    <3>3. CASE BroadcastUpdate(r)
      <4>1. reqs'[r] = [pc |-> "list", tenant |-> t, order |-> o]
        BY <3>1, <3>3 DEF BroadcastUpdate, TypeOK
      <4>2. QED BY <3>1, <4>1 DEF Carries
    <3>4. CASE List(r)
      <4>1. reqs'[r] = [pc |-> "snapshot", tenant |-> t, order |-> o, orders |-> ListOrders(t)]
        BY <3>1, <3>4 DEF List, TypeOK
      <4>2. ListOrders(t)[o] = table[o]
        BY <2>3, <2>6, ListOrdersFacts
      <4>3. QED BY <1>1, <2>1, <3>1, <4>1, <4>2 DEF Carries
    <3>5. CASE BroadcastSnapshot(r)
      <4> DEFINE message == Snapshot(t, reqs[r].orders)
      <4>1. reqs[r].orders \in Versions /\ Broadcast(message)
        BY <3>1, <3>5, HandlerFields DEF BroadcastSnapshot, Snapshot
      <4>2. /\ \A screen \in Versions : Shown(screen, message) \in Versions
            /\ message.tenant = t /\ Shown(NothingShown, message) = reqs[r].orders
        BY <4>1, SnapshotFacts
      <4> HIDE DEF message
      <4>3. best'[c][o] >= reqs[r].orders[o]
        BY <2>6, <4>1, <4>2, BroadcastFacts DEF t
      <4>4. reqs[r].orders[o] >= due[c][o] /\ reqs[r].orders[o] \in Nat
        BY <2>6, <3>5, <4>1 DEF Carries, BroadcastSnapshot, Versions
      <4>5. QED BY <1>1, <2>1, <4>3, <4>4
    <3>6. CASE Fail(r)
      BY <3>1, <3>6 DEF Fail
    <3>7. ASSUME NEW u \in Tenant, NEW q \in Order,
                 (\E kind \in {"update", "create", "paid"} : Change(r, u, q, kind))
                   \/ ChangeNothing(r, u, q)
          PROVE  FALSE
      BY <2>6, <3>7 DEF Change, ChangeNothing, Carries, Idle
    <3>8. QED BY <2>6, <3>2, <3>3, <3>4, <3>5, <3>6, <3>7 DEF Handler
  <2>7. CASE On(c) /\ ~(best[c][o] >= due[c][o])
    <3>1. PICK r \in Req : Carries(r, t, o, due[c][o])
      BY <2>1, <2>3, <2>7 DEF Carried, t
    <3>2. reqs'[r] = reqs[r] \/ Handler(r)
      BY HandlersApart
    <3>3. QED BY <2>5, <2>6, <2>7, <3>1, <3>2
  <2>8. QED BY <2>2, <2>4, <2>7
<1>4. QED BY <1>2, <1>3

(***************************************************************************)
(* Every change reaches every registered screen of the restaurant that has *)
(* the order, in that version or a newer one, once the order's handlers    *)
(* are through, unless a handler's own query failed.                       *)
(***************************************************************************)
THEOREM EveryChangeIsSentHolds == Spec => []EveryChangeIsSent
<1>1. Init => DueIsWritten /\ Carried
  BY DEF Init, DueIsWritten, Carried, NothingShown, Absent, On
<1>2. TypeOK /\ TypeOK' /\ (DueIsWritten /\ Carried) /\ [Next]_vars => (DueIsWritten /\ Carried)'
  BY DueIsWrittenStep, CarriedStep
<1>3. TypeOK /\ Carried => EveryChangeIsSent
  <2> SUFFICES ASSUME TypeOK, Carried, NEW c \in Client, NEW o \in Order, On(c),
                      OwnedBy(o, clients[c].tenant), ~Pending(o), o \notin unsent
               PROVE  best[c][o] >= due[c][o]
    BY DEF EveryChangeIsSent
  <2>1. \A r \in Req : ~Carries(r, clients[c].tenant, o, due[c][o])
    BY DEF Pending, Carries, Idle, Done
  <2>2. QED BY <2>1 DEF Carried
<1>4. QED BY <1>1, <1>2, <1>3, TypeCorrect, PTL DEF Spec
=============================================================================
