--------------------------- MODULE CheckoutPricing ---------------------------
(***************************************************************************)
(* The cents of one order: what its cart, its payment link and its Stripe  *)
(* checkout session make of the prices on the menu, what the session       *)
(* charges line by line, and what the reports add up afterwards.  The      *)
(* requests of an order are taken one after another here; PaymentFlow has  *)
(* their interleavings, with the amounts left out.                         *)
(*                                                                         *)
(* Decimal columns (menu prices, the amount of the row) are in mills,      *)
(* tenths of a cent.                                                       *)
(***************************************************************************)
EXTENDS Integers, Functions

CONSTANTS Item,          \* menu items
          Mills,         \* the prices an item may have, negative if removed
          Quantity,      \* how many of an item a cart may ask for, if only zero
          QuotedFee,     \* the cents that Uber may have quoted
          TaxBps, FeeBps     \* CHECKOUT_TAX_BPS, PLATFORM_FEE_BPS

VARIABLES menu,      \* the price of each item
          cart,      \* the items of the row, with their quantities
          row,       \* the columns of payment_links
          session    \* the last checkout session: its lines, the fee, and
                     \* what is history: whether a link came after it

vars == <<menu, cart, row, session>>

(* Math.round: the nearest integer, the larger one of two. *)
RoundQuotient(n, d) == (2 * n + d) \div (2 * d)
NonNegative(n) == IF n > 0 THEN n ELSE 0
ToCents(mills) == IF mills <= 0 THEN 0 ELSE RoundQuotient(mills, 10)
ToMills(cents) == 10 * cents
Share(cents, bps) == NonNegative(RoundQuotient(cents * bps, 10000))

NoRow == [amount |-> 0]
NoSession == [lines |-> <<>>]
Line(unit, quantity) == [unit |-> unit, quantity |-> quantity]

(* resolveMenuPricedItems refuses a quantity that is not positive, and an item without a price. *)
Resolvable(c) == c # <<>> /\ \A i \in DOMAIN c : c[i] > 0 /\ ToCents(menu[i]) > 0
ResolvedItems(c) == [i \in DOMAIN c |-> Line(ToCents(menu[i]), c[i])]
TotalFrom(lines) ==
  SumFunction([l \in DOMAIN lines |-> lines[l].unit * lines[l].quantity])

Init ==
  /\ menu \in [Item -> Mills]
  /\ cart = <<>> /\ row = NoRow /\ session = NoSession

(* External to payments: the menu is edited. *)
ChangePrice(i, m) ==
  /\ menu[i] # m
  /\ menu' = [menu EXCEPT ![i] = m]
  /\ UNCHANGED <<cart, row, session>>

(* createCart; phonePaymentLink writes the same columns. *)
CreateCart(c, fulfillment) ==
  /\ row = NoRow /\ Resolvable(c)
  /\ LET subtotal == TotalFrom(ResolvedItems(c))
     IN row' = [amount |-> ToMills(subtotal), subtotal |-> subtotal, tax |-> 0, delivery |-> 0,
                fee |-> 0, fulfillment |-> fulfillment]
  /\ cart' = c
  /\ UNCHANGED <<menu, session>>

(* createPaymentLink: the items anew, the other columns as they are. *)
CreatePaymentLink ==
  /\ row # NoRow /\ Resolvable(cart)
  /\ LET subtotal == TotalFrom(ResolvedItems(cart))
     IN row' = [row EXCEPT !.amount = ToMills(subtotal), !.subtotal = subtotal]
  /\ session' = IF session = NoSession THEN session ELSE [session EXCEPT !.linked = TRUE]
  /\ UNCHANGED <<menu, cart>>

(***************************************************************************)
(* createCheckoutSession.  The lines: each item, the delivery fee for a    *)
(* delivery (also if it is zero), the tax if there is any.                 *)
(***************************************************************************)
DeliveryFeeAsQuoted(quoted) ==     \* a plausible slip: it may be negative
  IF row.fulfillment = "delivery" THEN quoted ELSE 0
DeliveryFee(quoted) ==
  IF row.fulfillment = "delivery" THEN NonNegative(quoted) ELSE 0
Tax(lines) == Share(TotalFrom(lines), TaxBps)
LineItemsTaxedByLine(resolved, quoted) ==     \* a plausible slip: every line is rounded
  [l \in DOMAIN resolved
       \cup (IF row.fulfillment = "delivery" THEN {"delivery"} ELSE {}) \cup {"tax"} |->
    CASE l = "delivery" -> Line(DeliveryFee(quoted), 1)
      [] l = "tax" -> Line(SumFunction([i \in DOMAIN resolved |->
                             Share(resolved[i].unit * resolved[i].quantity, TaxBps)]), 1)
      [] OTHER -> resolved[l]]
LineItems(resolved, quoted) ==
  [l \in DOMAIN resolved
       \cup (IF row.fulfillment = "delivery" THEN {"delivery"} ELSE {})
       \cup (IF Tax(resolved) > 0 THEN {"tax"} ELSE {}) |->
    CASE l = "delivery" -> Line(DeliveryFee(quoted), 1)
      [] l = "tax" -> Line(Tax(resolved), 1)
      [] OTHER -> resolved[l]]

CreateCheckoutSession(quoted) ==
  /\ row # NoRow /\ Resolvable(cart)
  /\ LET resolved == ResolvedItems(cart)
         subtotal == TotalFrom(resolved)
         fee == Share(subtotal, FeeBps) + DeliveryFee(quoted)
     IN /\ session' = [lines |-> LineItems(resolved, quoted), fee |-> fee, linked |-> FALSE]
        /\ row' = [row EXCEPT
             !.amount = ToMills(subtotal + Tax(resolved) + DeliveryFee(quoted)),
             !.subtotal = subtotal, !.tax = Tax(resolved),
             !.delivery = DeliveryFee(quoted), !.fee = fee]
  /\ UNCHANGED <<menu, cart>>

Cart == UNION {[S -> Quantity] : S \in (SUBSET Item) \ {{}}}

Next ==
  \/ \E i \in Item, m \in Mills : ChangePrice(i, m)
  \/ \E c \in Cart, f \in {"pickup", "delivery"} : CreateCart(c, f)
  \/ CreatePaymentLink
  \/ \E quoted \in QuotedFee : CreateCheckoutSession(quoted)

Spec == Init /\ [][Next]_vars

-----------------------------------------------------------------------------
(* paymentSummary and paymentTransactions, of the one row. *)
PaymentSummary ==
  LET gross == RoundQuotient(row.amount, 10)
  IN [gross |-> gross, subtotal |-> row.subtotal, tax |-> row.tax, delivery |-> row.delivery,
      fee |-> row.fee, net |-> gross - row.fee]

TypeOK ==
  /\ menu \in [Item -> Mills] /\ cart \in Cart \cup {<<>>}
  /\ row \in {NoRow} \cup
       [amount: Nat, subtotal: Nat \ {0}, tax: Nat, delivery: Nat, fee: Nat,
        fulfillment: {"pickup", "delivery"}]
  /\ session # NoSession =>
       /\ DOMAIN session = {"lines", "fee", "linked"}
       /\ session.fee \in Nat /\ session.linked \in BOOLEAN

(***************************************************************************)
(* ChargedIsReported: the lines that Stripe charges one by one add up to   *)
(* the amount that the reports show for the order, and to its subtotal,    *)
(* tax and delivery fee, and the restaurant's share is what Stripe         *)
(* transfers, whatever is rounded on the way (payments.service.ts 71-75,   *)
(* 527-542, 184, 309); but after createPaymentLink the reports mix its     *)
(* subtotal with the taxes and fees of the session before (395-405).       *)
(***************************************************************************)
ChargedIsReported ==
  session # NoSession =>
    \/ session.linked
    \/ LET charged == TotalFrom(session.lines)
       IN /\ charged = PaymentSummary.gross
          /\ charged = PaymentSummary.subtotal + PaymentSummary.tax + PaymentSummary.delivery
          /\ PaymentSummary.net = charged - session.fee
=============================================================================
