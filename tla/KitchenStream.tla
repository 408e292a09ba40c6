---------------------------- MODULE KitchenStream ----------------------------
(***************************************************************************)
(* The screens of the kitchen.  Every handler of KitchenService that has   *)
(* changed an order reads it again, broadcasts it through the stream hub,  *)
(* and then lists and broadcasts all orders of the tenant; a screen gets   *)
(* an initial list and is registered with the hub afterwards.  Queries of  *)
(* handlers and screens interleave; a broadcast is one step, because the   *)
(* hub writes to all clients without awaiting anything.                    *)
(*                                                                         *)
(* The contents of an order are abstracted to the number of changes made   *)
(* to it (KitchenOrders says which changes) and to the restaurant of each; *)
(* a list of orders is read at once (the code reads the rows, then their   *)
(* items).  Messages that carry no order (arrival, delivery_update,        *)
(* refire) are left out, and demoSeed stands for three handlers.           *)
(***************************************************************************)
EXTENDS Naturals

CONSTANTS Order,
          Tenant,
          Req,        \* the handlers that change an order, each runs once
          Client      \* the connections of screens, each opened once

VARIABLES table,    \* the orders table: the version of each order
          written,  \* and the restaurant that each version was written for
          reqs,     \* the handlers
          clients,  \* the connections; those with pc "on" are in the hub
          best,     \* history: the newest version of each order sent to a client
          due,      \* history: the newest version written while the client was on
          unsent    \* history: orders whose last change will not be sent, because
                    \* its handler's query failed

vars == <<table, written, reqs, clients, best, due, unsent>>

Absent == 0               \* the version of an order that is not (known to be) there
Versions == [Order -> Nat]
NothingShown == [o \in Order |-> Absent]

Idle == [pc |-> "idle"]
Done == [pc |-> "done"]
Changing == [pc: {"changed"}, tenant: Tenant, order: Order]
Updating == [pc: {"update"}, tenant: Tenant, order: Order, version: Nat]
Listing  == [pc: {"list"}, tenant: Tenant, order: Order]
Listed   == [pc: {"snapshot"}, tenant: Tenant, order: Order, orders: Versions]

Connection == [pc: {"off", "listed", "shown", "on", "closed"}, tenant: Tenant,
               orders: Versions, screen: Versions]

On(c) == clients[c].pc = "on"

OwnedBy(o, t) == <<o, table[o], t>> \in written

-----------------------------------------------------------------------------
(* listOrders: what a query of a tenant's orders returns. *)
ListOrders(t) == [o \in Order |-> IF OwnedBy(o, t) THEN table[o] ELSE Absent]

(* What a screen makes of a message: order.updated and order.created bring  *)
(* one order, orders.snapshot replaces all of them.                         *)
Shown(screen, message) ==
  IF message.type = "updated" THEN [screen EXCEPT ![message.order] = message.version]
                              ELSE message.orders

Newest(known, version) == IF known >= version THEN known ELSE version

ReachesEveryClient(c, message) == On(c)      \* a plausible slip: no filter
Reaches(c, message) == On(c) /\ clients[c].tenant = message.tenant

(* streamHub.broadcast *)
Broadcast(message) ==
  LET reached == {c \in Client : Reaches(c, message)}
  IN /\ clients' = [c \in Client |->
                      IF c \in reached
                      THEN [clients[c] EXCEPT !.screen = Shown(@, message)] ELSE clients[c]]
     /\ best' = [c \in Client |->
                   IF c \in reached
                   THEN [o \in Order |-> Newest(best[c][o], Shown(NothingShown, message)[o])]
                   ELSE best[c]]

-----------------------------------------------------------------------------
(***************************************************************************)
(* A handler.  First it changes the order.  What follows differs: the      *)
(* updates read the order again, manualCreate and demoSeed broadcast what  *)
(* they have written, and the Stripe webhook only broadcasts the list.     *)
(* These three take an order over, whosever it was; an update changes only *)
(* an order of its restaurant.                                             *)
(***************************************************************************)
AfterwardsUnread(kind, t, o, version) ==   \* a plausible slip: no read before the broadcast
  IF kind = "paid" THEN [pc |-> "list", tenant |-> t, order |-> o]
                   ELSE [pc |-> "update", tenant |-> t, order |-> o]

Afterwards(kind, t, o, version) ==
  IF kind = "update" THEN [pc |-> "changed", tenant |-> t, order |-> o]
  ELSE IF kind = "create" THEN [pc |-> "update", tenant |-> t, order |-> o, version |-> version]
  ELSE [pc |-> "list", tenant |-> t, order |-> o]

Change(r, t, o, kind) ==
  /\ reqs[r] = Idle
  /\ kind = "update" => OwnedBy(o, t)
  /\ table' = [table EXCEPT ![o] = @ + 1]
  /\ written' = written \cup {<<o, table[o] + 1, t>>}
  /\ reqs' = [reqs EXCEPT ![r] = Afterwards(kind, t, o, table[o] + 1)]
  /\ due' = [c \in Client |-> IF On(c) /\ clients[c].tenant = t
                              THEN [due[c] EXCEPT ![o] = table[o] + 1] ELSE due[c]]
  /\ unsent' = unsent \ {o}
  /\ UNCHANGED <<clients, best>>

(* An update whose order another restaurant has taken over since the update *)
(* found it: no row matches (updateMany), and the handler goes on.          *)
ChangeNothing(r, t, o) ==
  /\ reqs[r] = Idle
  /\ ~OwnedBy(o, t) /\ \E v \in 1..table[o] : <<o, v, t>> \in written
  /\ reqs' = [reqs EXCEPT ![r] = Afterwards("update", t, o, table[o])]
  /\ UNCHANGED <<table, written, clients, best, due, unsent>>

(* getOrder, after the audit entry; an order that is no longer one of the   *)
(* restaurant's is not broadcast.                                           *)
ReadBack(r) ==
  /\ reqs[r].pc = "changed"
  /\ LET o == reqs[r].order
         t == reqs[r].tenant
     IN reqs' = [reqs EXCEPT ![r] =
                   IF OwnedBy(o, t)
                   THEN [pc |-> "update", tenant |-> t, order |-> o, version |-> table[o]]
                   ELSE Done]
  /\ UNCHANGED <<table, written, clients, best, due, unsent>>

BroadcastNothing(r) ==          \* a plausible slip: the update is not broadcast
  /\ reqs[r].pc = "update"
  /\ reqs' = [reqs EXCEPT ![r] = Done]
  /\ UNCHANGED <<table, written, clients, best, due, unsent>>

BroadcastUpdate(r) ==
  /\ reqs[r].pc = "update"
  /\ LET o == reqs[r].order
         t == reqs[r].tenant
     IN /\ Broadcast([type |-> "updated", tenant |-> t, order |-> o,
                      version |-> reqs[r].version])
        /\ reqs' = [reqs EXCEPT ![r] = [pc |-> "list", tenant |-> t, order |-> o]]
  /\ UNCHANGED <<table, written, due, unsent>>

(* broadcastOrdersSnapshot, its query and its broadcast. *)
List(r) ==
  /\ reqs[r].pc = "list"
  /\ LET t == reqs[r].tenant
     IN reqs' = [reqs EXCEPT ![r] = [pc |-> "snapshot", tenant |-> t, order |-> reqs[r].order,
                                     orders |-> ListOrders(t)]]
  /\ UNCHANGED <<table, written, clients, best, due, unsent>>

BroadcastSnapshot(r) ==
  /\ reqs[r].pc = "snapshot"
  /\ Broadcast([type |-> "snapshot", tenant |-> reqs[r].tenant,
                orders |-> reqs[r].orders])
  /\ reqs' = [reqs EXCEPT ![r] = Done]
  /\ UNCHANGED <<table, written, due, unsent>>

(* A query fails: the handler's, or the snapshot's, which is caught. *)
Fail(r) ==
  /\ reqs[r].pc \in {"changed", "list"}
  /\ reqs' = [reqs EXCEPT ![r] = Done]
  /\ unsent' = unsent \cup {reqs[r].order}
  /\ UNCHANGED <<table, written, clients, best, due>>

-----------------------------------------------------------------------------
(* GET kitchen/stream: list the orders, write them, import the hub, register. *)
ConnectList(c, t) ==
  /\ clients[c].pc = "off"
  /\ clients' = [clients EXCEPT ![c].pc = "listed", ![c].tenant = t,
                                ![c].orders = ListOrders(t)]
  /\ UNCHANGED <<table, written, reqs, best, due, unsent>>

ConnectShow(c) ==
  /\ clients[c].pc = "listed"
  /\ clients' = [clients EXCEPT ![c].pc = "shown", ![c].screen = clients[c].orders]
  /\ best' = [best EXCEPT ![c] = clients[c].orders]
  /\ UNCHANGED <<table, written, reqs, due, unsent>>

Register(c) ==
  /\ clients[c].pc = "shown"
  /\ clients' = [clients EXCEPT ![c].pc = "on"]
  /\ UNCHANGED <<table, written, reqs, best, due, unsent>>

Close(c) ==
  /\ On(c)
  /\ clients' = [clients EXCEPT ![c].pc = "closed"]
  /\ UNCHANGED <<table, written, reqs, best, due, unsent>>

Init ==
  /\ table = NothingShown
  /\ written = {}
  /\ reqs = [r \in Req |-> Idle]
  /\ clients \in [Client -> {[pc |-> "off", tenant |-> t, orders |-> NothingShown,
                              screen |-> NothingShown] : t \in Tenant}]
  /\ best = [c \in Client |-> NothingShown]
  /\ due = [c \in Client |-> NothingShown]
  /\ unsent = {}

Handler(r) ==
  \/ \E t \in Tenant, o \in Order :
       \/ \E kind \in {"update", "create", "paid"} : Change(r, t, o, kind)
       \/ ChangeNothing(r, t, o)
  \/ ReadBack(r) \/ BroadcastUpdate(r) \/ List(r) \/ BroadcastSnapshot(r) \/ Fail(r)

Screen(c) ==
  (\E t \in Tenant : ConnectList(c, t)) \/ ConnectShow(c) \/ Register(c) \/ Close(c)

Next == (\E r \in Req : Handler(r)) \/ (\E c \in Client : Screen(c))

Spec == Init /\ [][Next]_vars

-----------------------------------------------------------------------------
(* TypeOK, with the life of a connection and the stages of a handler.       *)
TypeOK ==
  /\ table \in Versions
  /\ written \subseteq Order \X Nat \X Tenant
  /\ reqs \in [Req -> {Idle, Done} \cup Changing \cup Updating \cup Listing \cup Listed]
  /\ clients \in [Client -> Connection]
  /\ best \in [Client -> Versions] /\ due \in [Client -> Versions]
  /\ unsent \subseteq Order

(***************************************************************************)
(* NoForeignOrders: whatever connections and changes of the restaurants    *)
(* interleave, and whoever takes an order over meanwhile, a screen never   *)
(* shows a version of an order that was written for another restaurant.    *)
(***************************************************************************)
NoForeignOrders ==
  \A c \in Client, o \in Order :
    clients[c].screen[o] # Absent => <<o, clients[c].screen[o], clients[c].tenant>> \in written

(***************************************************************************)
(* EveryChangeIsSent: a change that is made while a screen is registered   *)
(* reaches the screen, in that version or a newer one, once its handler    *)
(* and those that overlap it are through with the order, unless the        *)
(* handler's own query failed or another restaurant has the order now.     *)
(***************************************************************************)
Pending(o) == \E r \in Req : reqs[r] \notin {Idle, Done} /\ reqs[r].order = o

EveryChangeIsSent ==
  \A c \in Client, o \in Order :
    On(c) /\ OwnedBy(o, clients[c].tenant) /\ ~Pending(o) /\ o \notin unsent
      => best[c][o] >= due[c][o]

(***************************************************************************)
(* QuietScreensCurrent: when all handlers are through and none has failed, *)
(* every registered screen shows the orders of its restaurant as they are. *)
(***************************************************************************)
QuietScreensCurrent ==
  (\A r \in Req : reqs[r] \in {Idle, Done}) /\ unsent = {} =>
    \A c \in Client : On(c) => clients[c].screen = ListOrders(clients[c].tenant)
=============================================================================
