----------------------------- MODULE BackOffice -----------------------------
(***************************************************************************)
(* The parts of the server around the orders, and the cents of an order.   *)
(* They share no state, so what the server does is what each of them does, *)
(* and its specification is the conjunction of theirs.                     *)
(***************************************************************************)
EXTENDS Integers, FiniteSets, Routes

CONSTANTS Joiner,
          Review, Reply, Reader,
          Issue, Tenant,
          Creator, Refresher, MaxChanges,
          Table, Clerk,
          Caller, Life, Slack, Horizon,
          Item, Mills, Quantity, QuotedFee, TaxBps, FeeBps

(* A null is no id, and a number of changes or of seconds is a number. *)
ASSUME IdAssumption == "none" \notin Creator \cup Tenant \cup Review
ASSUME BoundAssumption ==
  MaxChanges \in Nat /\ Life \in Nat /\ Slack \in Nat /\ Horizon \in Nat
(* The menu is finite, its items are not the two lines that a checkout adds, and *)
(* prices, quantities, quotes and rates are numbers of any sign.                 *)
ASSUME ItemAssumption == IsFiniteSet(Item) /\ {"delivery", "tax"} \cap Item = {}
ASSUME NumberAssumption ==
  /\ Mills \cup Quantity \cup QuotedFee \subseteq Int
  /\ TaxBps \in Int /\ FeeBps \in Int

VARIABLES
  groupStatus, late, items, joins,
  removed, replies, writers, readers, removers,
  reviewToken, issues, mailbox,
  account, creators, refreshers, stripe, claimed, acked, raced,
  table, row, stock, clerks, torn,
  now, cached, callers,
  tenantStatus, role, token, request,
  menu, cart, link, session

groups == <<groupStatus, late, items, joins>>
conversation == <<removed, replies, writers, readers, removers>>
access == <<reviewToken, issues, mailbox>>
connect == <<account, creators, refreshers, stripe, claimed, acked, raced>>
rows == <<table, row, stock, clerks, torn>>
uber == <<now, cached, callers>>
tenants == <<tenantStatus, role, token, request>>
pricing == <<menu, cart, link, session>>

Groups == INSTANCE GroupOrders WITH status <- groupStatus
Conversation == INSTANCE ReviewConversation
Access == INSTANCE ReviewAccess WITH token <- reviewToken
Connect == INSTANCE ConnectOnboarding WITH row <- account
Rows == INSTANCE RowUpdates
Uber == INSTANCE UberToken
Tenants == INSTANCE TenantContext WITH status <- tenantStatus
Pricing == INSTANCE CheckoutPricing WITH row <- link

Spec ==
  /\ Groups!Spec /\ Conversation!Spec /\ Access!Spec /\ Connect!Spec
  /\ Rows!Spec /\ Uber!Spec /\ Tenants!Spec /\ Pricing!Spec

-----------------------------------------------------------------------------
(* The types of all parts. *)
TypeOK ==
  /\ Groups!TypeOK /\ Conversation!TypeOK /\ Access!TypeOK /\ Connect!TypeOK
  /\ Rows!TypeOK /\ Uber!TypeOK /\ Tenants!TypeOK /\ Pricing!TypeOK
(* A closed group order changes only by requests that the closing overtook. *)
ClosedGroupKept == Groups!ClosedGroupKept
(* Only messages that were in the answer are marked read. *)
ReadMeansListed == Conversation!ReadMeansListed
(* The last link mailed to a customer opens the conversation. *)
LatestMailOpens == Access!LatestMailOpens
(* An onboarded account is only replaced by two overlapping creations. *)
OneAccount == Connect!OneAccount
(* Checkouts are opened for accounts that Stripe has reported ready. *)
ReadyWhenCharged == Connect!ReadyWhenCharged
(* The stored status goes back only by an overtaken refresh. *)
StatusMovesOn == Connect!StatusMovesOn
(* A field that no request named changes only by an overtaken merge. *)
UnaskedFieldsKept == Rows!UnaskedFieldsKept
(* Inventory without its menu item comes of a torn removal or a stray id. *)
OrphanExplained == Rows!OrphanExplained
(* A cached Uber token is still honoured when it is used. *)
TokenAlive == Uber!TokenAlive
(* A handler serves the restaurant of its user, and only an active one. *)
ServedForOwnRestaurant == Tenants!ServedForOwnRestaurant
(* What Stripe charges line by line is what the reports show. *)
ChargedIsReported == Pricing!ChargedIsReported
=============================================================================
