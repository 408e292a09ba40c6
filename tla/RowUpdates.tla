----------------------------- MODULE RowUpdates -----------------------------
(***************************************************************************)
(* The administrator's tables: menu, promotions, reservations, old orders, *)
(* reviews, and the inventory that hangs by the menu.  Every update reads  *)
(* the row, writes it in a second query and reads it again for the answer; *)
(* every removal reads and deletes; no transaction encloses them.  There   *)
(* are two ways to write: a patch of the fields that the request names, or *)
(* all fields, those that it does not name as they were when it read them. *)
(* Handlers of two tables, or of two rows, have nothing in common, so one  *)
(* table is in use, and of it one row; with the menu goes the stock of the *)
(* item.  Every query names the restaurant; requests of another find no    *)
(* row.                                                                    *)
(***************************************************************************)
EXTENDS Naturals

CONSTANTS Table,     \* the tables that are looked at
          Clerk      \* requests

VARIABLES table,     \* the table in use
          row, stock,    \* its row, and the item's row of inventory
          clerks,
          torn       \* has a removal stopped between the menu and the inventory?

vars == <<table, row, stock, clerks, torn>>

Patched == {"menu", "promotions"}

(* Two fields stand for all, a request names one or none; an unnamed one is *)
(* created with its default, 0.                                             *)
Field == {"a", "b"}
Value == 0..1
Default == [f \in Field |-> 0]
Dto == UNION {[S -> Value] : S \in {{}, {"a"}, {"b"}}}
Over(old, dto) == [f \in Field |-> IF f \in DOMAIN dto THEN dto[f] ELSE old[f]]

NotYet == [is |-> "not yet"]
Gone == [is |-> "gone"]
Live(v) == [is |-> "row", v |-> v]
IsLive(r) == r.is = "row"

(* In the inventory a is currentStock and b is minStock.  stray is history: *)
(* was there no such menu item when this row was created?                   *)
InventoryStatus(current, min) ==
  IF current = 0 THEN "out-of-stock" ELSE IF current <= min THEN "low-stock" ELSE "in-stock"
Stock(v, stray) ==
  [is |-> "row", v |-> v, status |-> InventoryStatus(v["a"], v["b"]), stray |-> stray]

Rested == [pc |-> "idle"]
(* overtaken is history: has the row changed since the clerk read it? *)
Clerking == [pc: {"write", "answer", "delete", "delete stock", "write stock"},
             dto: Dto, seen: [Field -> Value], overtaken: BOOLEAN]

Init ==
  /\ table \in Table
  /\ row = NotYet /\ stock = NotYet
  /\ clerks = [c \in Clerk |-> Rested]
  /\ torn = FALSE

(* c goes on to pc; if it has changed the row, the others are overtaken. *)
Go(c, pc, changed) ==
  clerks' = [d \in Clerk |->
    IF d = c THEN IF pc = "idle" THEN Rested ELSE [clerks[c] EXCEPT !.pc = pc]
    ELSE IF changed /\ clerks[d] # Rested THEN [clerks[d] EXCEPT !.overtaken = TRUE]
    ELSE clerks[d]]

Begin(c, pc, r, dto) ==
  /\ clerks[c] = Rested /\ IsLive(r)
  /\ clerks' = [clerks EXCEPT ![c] = [pc |-> pc, dto |-> dto, seen |-> r.v,
                                      overtaken |-> FALSE]]
  /\ UNCHANGED <<table, row, stock, torn>>

-----------------------------------------------------------------------------
(* The creations give a random id, so a row that is gone is gone for ever. *)
Create(t, v) ==
  /\ table = t /\ row = NotYet
  /\ row' = Live(v)
  /\ UNCHANGED <<table, stock, clerks, torn>>

CreateMenuItem(dto) == Create("menu", Over(Default, dto))
CreatePromotion(dto) == Create("promotions", Over(Default, dto))
(* What an update may change later has a fixed value at first. *)
CreateReservation == Create("reservations", Default)
CreateLegacyOrder(dto) == Create("legacyOrders", Over(Default, dto))
CreateReview == Create("reviews", Default)

BeginUpdate(c, dto) == Begin(c, "write", row, dto)

(* updateMany: a row that has gone in between is answered 404. *)
Write(c, t, v) ==
  /\ table = t /\ clerks[c].pc = "write"
  /\ row' = IF IsLive(row) THEN Live(v) ELSE row
  /\ Go(c, IF IsLive(row) THEN "answer" ELSE "idle", row' # row)
  /\ UNCHANGED <<table, stock, torn>>

PatchFromRead(c) == Over(clerks[c].seen, clerks[c].dto)   \* a plausible slip: a merge
Patch(c) == Over(row.v, clerks[c].dto)
Merge(c) == Over(clerks[c].seen, clerks[c].dto)

UpdateMenuItem(c) == Write(c, "menu", Patch(c))
UpdatePromotion(c) == Write(c, "promotions", Patch(c))
UpdateReservation(c) == Write(c, "reservations", Merge(c))
UpdateLegacyOrder(c) == Write(c, "legacyOrders", Merge(c))
UpdateReview(c) == Write(c, "reviews", Merge(c))

(* The answer is what the row is by now, or 404 if it has gone. *)
AnswerUpdate(c) ==
  /\ clerks[c].pc = "answer"
  /\ Go(c, "idle", FALSE)
  /\ UNCHANGED <<table, row, stock, torn>>

BeginRemove(c) == Begin(c, "delete", row, <<>>)

DeleteMenuItemOnly(c) ==     \* a plausible slip: the inventory is forgotten
  /\ table = "menu" /\ clerks[c].pc = "delete"
  /\ row' = Gone
  /\ Go(c, "idle", row # Gone)
  /\ UNCHANGED <<table, stock, torn>>

(* A menu item takes its inventory with it, in a query of its own. *)
DeleteMenuItem(c) ==
  /\ table = "menu" /\ clerks[c].pc = "delete"
  /\ row' = Gone
  /\ Go(c, "delete stock", row # Gone)
  /\ UNCHANGED <<table, stock, torn>>

Delete(c, t) ==
  /\ table = t /\ clerks[c].pc = "delete"
  /\ row' = Gone
  /\ Go(c, "idle", row # Gone)
  /\ UNCHANGED <<table, stock, torn>>

DeletePromotion(c) == Delete(c, "promotions")
DeleteReservation(c) == Delete(c, "reservations")
DeleteLegacyOrder(c) == Delete(c, "legacyOrders")
DeleteReview(c) == Delete(c, "reviews")

-----------------------------------------------------------------------------
(* The inventory.  Any item id will do, but only once. *)
CreateStock(dto) ==
  /\ table = "menu" /\ ~IsLive(stock)
  /\ stock' = Stock(Over(Default, dto), ~IsLive(row))
  /\ UNCHANGED <<table, row, clerks, torn>>

BeginUpdateStock(c, dto) == Begin(c, "write stock", stock, dto)

(* The count of updateMany is not looked at: if the row has gone, it is     *)
(* answered as updated.                                                     *)
UpdateStock(c) ==
  /\ clerks[c].pc = "write stock"
  /\ stock' = IF IsLive(stock) THEN Stock(Merge(c), stock.stray) ELSE stock
  /\ Go(c, "idle", stock' # stock)
  /\ UNCHANGED <<table, row, torn>>

BeginRemoveStock(c) == Begin(c, "delete stock", stock, <<>>)

DeleteStock(c) ==
  /\ clerks[c].pc = "delete stock"
  /\ stock' = IF IsLive(stock) THEN Gone ELSE stock
  /\ Go(c, "idle", stock' # stock)
  /\ UNCHANGED <<table, row, torn>>

(* The database fails, or the process stops. *)
Stop(c) ==
  /\ clerks[c] # Rested
  /\ torn' = (torn \/ (table = "menu" /\ clerks[c].pc = "delete stock" /\ ~IsLive(row)))
  /\ Go(c, "idle", FALSE)
  /\ UNCHANGED <<table, row, stock>>

Next ==
  \/ \E dto \in Dto :
       \/ CreateMenuItem(dto) \/ CreatePromotion(dto) \/ CreateLegacyOrder(dto)
       \/ CreateStock(dto)
       \/ \E c \in Clerk : BeginUpdate(c, dto) \/ BeginUpdateStock(c, dto)
  \/ CreateReservation \/ CreateReview
  \/ \E c \in Clerk :
       \/ UpdateMenuItem(c) \/ UpdatePromotion(c) \/ UpdateReservation(c)
       \/ UpdateLegacyOrder(c) \/ UpdateReview(c) \/ AnswerUpdate(c)
       \/ BeginRemove(c)
       \/ DeleteMenuItem(c) \/ DeletePromotion(c) \/ DeleteReservation(c)
       \/ DeleteLegacyOrder(c) \/ DeleteReview(c)
       \/ UpdateStock(c) \/ BeginRemoveStock(c) \/ DeleteStock(c) \/ Stop(c)

Spec == Init /\ [][Next]_vars

-----------------------------------------------------------------------------
TypeOK ==
  /\ table \in Table
  /\ row \in {Live(v) : v \in [Field -> Value]} \cup {NotYet, Gone}
  /\ stock \in {Stock(v, s) : v \in [Field -> Value], s \in BOOLEAN} \cup {NotYet, Gone}
  /\ clerks \in [Clerk -> Clerking \cup {Rested}]
  /\ torn \in BOOLEAN

(***************************************************************************)
(* UnaskedFieldsKept: nobody's change to a field is undone by a request    *)
(* that did not name the field.  Patches never do it (menu.service.ts      *)
(* 50-64); a merge does only if the row has changed since it was read      *)
(* (reservations.service.ts 73-83, inventory.service.ts 90-112 ...).       *)
(***************************************************************************)
Undone(old, new) ==
  IF IsLive(old) /\ IsLive(new) THEN {f \in Field : new.v[f] # old.v[f]} ELSE {}
Writes(c, pc) == clerks[c].pc = pc /\ clerks'[c] # clerks[c]
UnaskedFieldsKept ==
  [][/\ \A f \in Undone(row, row') : \E c \in Clerk :
          /\ Writes(c, "write")
          /\ f \in DOMAIN clerks[c].dto \/ (table \notin Patched /\ clerks[c].overtaken)
     /\ \A f \in Undone(stock, stock') : \E c \in Clerk :
          Writes(c, "write stock") /\ (f \in DOMAIN clerks[c].dto \/ clerks[c].overtaken)]_vars

(***************************************************************************)
(* OrphanExplained: the inventory keeps the stock of an item that has gone *)
(* from the menu only while its removal is under way, or if the removal    *)
(* stopped half-way (menu.service.ts 73-74), or if it was created for an   *)
(* id that was not on the menu, which nobody tests (inventory.service.ts   *)
(* 50-63).                                                                 *)
(***************************************************************************)
OrphanExplained ==
  row = Gone /\ IsLive(stock) =>
    stock.stray \/ torn \/ \E c \in Clerk : clerks[c].pc = "delete stock"
=============================================================================
