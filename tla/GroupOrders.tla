----------------------------- MODULE GroupOrders -----------------------------
(***************************************************************************)
(* One group order: participants add and remove items until it expires or  *)
(* an administrator closes it.  Every handler reads the row, decides, and  *)
(* acts in a query of its own.  The row keeps its restaurant for ever, and *)
(* a request of another restaurant finds nothing, so requests are those of *)
(* the group's own restaurant.                                             *)
(***************************************************************************)
CONSTANT Joiner     \* requests; also the names of the items they add

VARIABLES status,   \* the row's status, or "none" before it is created
          late,     \* is it past expiresAt?
          items,    \* the rows of group_order_items
          joins     \* the requests

vars == <<status, late, items, joins>>

Status == {"active", "completed", "cancelled", "expired"}
NotBegun == [pc |-> "idle"]
(* overtaken is history: has the status changed since the handler read it? *)
Join == [pc: {"add", "remove", "close", "expire", "answer"}, item: Joiner, to: Status,
         overtaken: BOOLEAN]

Init ==
  /\ status = "none" /\ late = FALSE /\ items = {}
  /\ joins = [r \in Joiner |-> NotBegun]

Create ==
  /\ status = "none"
  /\ status' = "active"
  /\ UNCHANGED <<late, items, joins>>

TimePasses ==
  /\ status # "none" /\ ~late
  /\ late' = TRUE
  /\ UNCHANGED <<status, items, joins>>

Begin(r, pc, item, to) ==
  /\ joins[r] = NotBegun /\ status # "none"
  /\ joins' = [joins EXCEPT ![r] = [pc |-> pc, item |-> item, to |-> to,
                                    overtaken |-> FALSE]]
  /\ UNCHANGED <<status, late, items>>

BeginAddUnchecked(r) ==    \* a plausible slip: the status is not tested
  r \notin items /\ Begin(r, IF late THEN "expire" ELSE "add", r, "expired")

(* addItem: an active group that is late is marked and the item refused.   *)
BeginAdd(r) ==
  /\ status = "active" /\ r \notin items
  /\ Begin(r, IF late THEN "expire" ELSE "add", r, "expired")

(* removeItem does not look at the expiry. *)
BeginRemove(r, i) == status = "active" /\ Begin(r, "remove", i, "expired")

(* updateStatus: any status, from any status. *)
BeginUpdateStatus(r, s) == Begin(r, "close", r, s)

Overtake(to, r, pc) ==
  [q \in Joiner |->
     IF q = r THEN (IF pc = "gone" THEN NotBegun ELSE [joins[r] EXCEPT !.pc = pc])
     ELSE IF joins[q] # NotBegun /\ to # status THEN [joins[q] EXCEPT !.overtaken = TRUE]
     ELSE joins[q]]

AddItem(r) ==
  /\ joins[r].pc = "add"
  /\ items' = items \cup {joins[r].item}
  /\ joins' = [joins EXCEPT ![r] = NotBegun]
  /\ UNCHANGED <<status, late>>

RemoveItem(r) ==
  /\ joins[r].pc = "remove"
  /\ items' = items \ {joins[r].item}
  /\ joins' = [joins EXCEPT ![r] = NotBegun]
  /\ UNCHANGED <<status, late>>

(* addItem's mark on a late group: 404 either way. *)
MarkExpired(r) ==
  /\ joins[r].pc = "expire"
  /\ status' = "expired"
  /\ joins' = Overtake("expired", r, "gone")
  /\ UNCHANGED <<late, items>>

(* updateStatus's write, after which it reads the row again ... *)
WriteStatus(r) ==
  /\ joins[r].pc = "close"
  /\ status' = joins[r].to
  /\ joins' = Overtake(joins[r].to, r, "answer")
  /\ UNCHANGED <<late, items>>

(* ... and answers whatever it then finds. *)
AnswerStatus(r) ==
  /\ joins[r].pc = "answer"
  /\ joins' = [joins EXCEPT ![r] = NotBegun]
  /\ UNCHANGED <<status, late, items>>

Next ==
  \/ Create \/ TimePasses
  \/ \E r \in Joiner :
       \/ BeginAdd(r) \/ AddItem(r) \/ RemoveItem(r)
       \/ MarkExpired(r) \/ WriteStatus(r) \/ AnswerStatus(r)
       \/ \E i \in items : BeginRemove(r, i)
       \/ \E s \in Status : BeginUpdateStatus(r, s)

Spec == Init /\ [][Next]_vars

-----------------------------------------------------------------------------
TypeOK ==
  /\ status \in Status \cup {"none"} /\ late \in BOOLEAN
  /\ items \subseteq Joiner
  /\ joins \in [Joiner -> Join \cup {NotBegun}]

(***************************************************************************)
(* ClosedGroupKept: what an administrator or the expiry has closed stays   *)
(* as it is, whoever is still choosing: its items change, and it becomes   *)
(* "expired" without an administrator, only by a request that read it      *)
(* while it was active and was overtaken by the closing (102-112, 149-151);*)
(* and such requests are the only ones that can.                           *)
(***************************************************************************)
OvertakenStep == \E r \in Joiner : joins[r] # NotBegun /\ joins'[r] = NotBegun /\ joins[r].overtaken
AdminStep == \E r \in Joiner : joins[r].pc = "close" /\ joins'[r] # joins[r]
ClosedGroupKept ==
  [][status \notin {"none", "active"} =>
       /\ items' # items => OvertakenStep
       /\ status' # status => OvertakenStep \/ AdminStep]_vars
=============================================================================
