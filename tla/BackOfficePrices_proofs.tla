----------------------- MODULE BackOfficePrices_proofs -----------------------
(***************************************************************************)
(* What BackOffice promises about the cents of an order, for every value   *)
(* of its constants, and the types of all its parts.                       *)
(*                                                                         *)
(* A cart is summed with a fold over the finite set of its items.  What a  *)
(* fold gives is proved by induction over that set, in the form of a set   *)
(* Good of the subsets that a statement is true of: a least subset outside *)
(* it would exist by WFMin.                                                *)
(***************************************************************************)
EXTENDS BackOfficeKeys_proofs, BackOfficeRows_proofs, FiniteSetTheorems, WellFoundedInduction

-----------------------------------------------------------------------------
(* Sums over finite sets. *)

AnyOf(s) == CHOOSE x \in s : TRUE
IsSum(g, S, f) ==
  g = [s \in SUBSET S |-> IF s = {} THEN 0 ELSE f[AnyOf(s)] + g[s \ {AnyOf(s)}]]
Total(S, f) == (CHOOSE g : IsSum(g, S, f))[S]

(* SumFunction of the community modules is Total over the function's domain. *)
LEMMA SumFunctionIsTotal == ASSUME NEW f PROVE Pricing!SumFunction(f) = Total(DOMAIN f, f)
BY DEF Pricing!SumFunction, Pricing!SumFunctionOnSet, Pricing!FoldFunctionOnSet,
       Pricing!MapThenFoldSet, Total, IsSum, AnyOf

(***************************************************************************)
(* Induction over the subsets of a finite set: if a subset belongs to Good *)
(* whenever its strict subsets do, every subset does.                      *)
(***************************************************************************)
LEMMA SetInduction ==
  ASSUME NEW S, IsFiniteSet(S), NEW Good,
         \A T \in SUBSET S : (\A U \in SUBSET T : U # T => U \in Good) => T \in Good
  PROVE  SUBSET S \subseteq Good
<1> SUFFICES ASSUME (SUBSET S) \ Good # {} PROVE FALSE
  OBVIOUS
<1>1. IsWellFoundedOn(StrictSubsetOrdering(S), SUBSET S)
  <2>1. IsWellFoundedOn(StrictSubsetOrdering(S), FiniteSubsetsOf(S))
    BY FS_StrictSubsetOrderingWellFounded
  <2>2. FiniteSubsetsOf(S) = SUBSET S
    BY FS_FiniteSubsetsOfFinite
  <2>. QED BY <2>1, <2>2
<1>2. \E T \in (SUBSET S) \ Good :
        \A U \in (SUBSET S) \ Good : ~ <<U, T>> \in StrictSubsetOrdering(S)
  <2>1. \A R, V, W : IsWellFoundedOn(R, V) /\ W \subseteq V /\ W # {}
          => \E x \in W : \A y \in W : ~ <<y, x>> \in R
    BY WFMin
  <2>2. \A W : W \subseteq SUBSET S /\ W # {}
          => \E x \in W : \A y \in W : ~ <<y, x>> \in StrictSubsetOrdering(S)
    BY <1>1, <2>1
  <2>3. QED BY <2>2
<1>3. QED BY <1>2 DEF StrictSubsetOrdering

(* In particular the set itself does. *)
LEMMA FiniteInduction ==
  ASSUME NEW S, IsFiniteSet(S), NEW Good,
         \A T \in SUBSET S : (\A U \in SUBSET T : U # T => U \in Good) => T \in Good
  PROVE  S \in Good
BY SetInduction

(* What is chosen of a set is in it. *)
LEMMA AnyOfIn == \A s : s # {} => AnyOf(s) \in s
BY DEF AnyOf

(* Functions that satisfy the equation of a sum agree, also over different sets. *)
LEMMA SumUnique ==
  ASSUME NEW f, NEW S, IsFiniteSet(S), NEW T \in SUBSET S, NEW g, NEW h,
         IsSum(g, S, f), IsSum(h, T, f)
  PROVE  g[T] = h[T]
<1> DEFINE Good == {U \in SUBSET T : g[U] = h[U]}
<1>1. IsFiniteSet(T)
  BY FS_Subset
<1>2. ASSUME NEW U \in SUBSET T, \A V \in SUBSET U : V # U => V \in Good
      PROVE  U \in Good
  <2>1. CASE U = {}
    BY <2>1 DEF IsSum
  <2>2. CASE U # {}
    <3>1. AnyOf(U) \in U
      BY <2>2, AnyOfIn
    <3>2. U \ {AnyOf(U)} \in SUBSET U /\ U \ {AnyOf(U)} # U
      BY <3>1
    <3>3. g[U \ {AnyOf(U)}] = h[U \ {AnyOf(U)}]
      BY <1>2, <3>2
    <3>4. g[U] = f[AnyOf(U)] + g[U \ {AnyOf(U)}]
      BY <2>2, <3>1 DEF IsSum
    <3>5. h[U] = f[AnyOf(U)] + h[U \ {AnyOf(U)}]
      BY <2>2, <3>1 DEF IsSum
    <3>6. QED BY <3>3, <3>4, <3>5
  <2>3. QED BY <2>1, <2>2
<1> HIDE DEF Good
<1>3. T \in Good
  BY <1>1, <1>2, FiniteInduction
<1>4. QED BY <1>3 DEF Good

(* Some function does: it takes the totals of the strict subsets. *)
LEMMA SumExists ==
  ASSUME NEW f, NEW S, IsFiniteSet(S)
  PROVE  \E g : IsSum(g, S, f)
<1> DEFINE Good == {T \in SUBSET S : \E g : IsSum(g, T, f)}
<1>1. ASSUME NEW T \in SUBSET S, \A U \in SUBSET T : U # T => U \in Good
      PROVE  T \in Good
  <2> DEFINE g == [U \in SUBSET T |->
               IF U = {} THEN 0 ELSE f[AnyOf(U)] + Total(U \ {AnyOf(U)}, f)]
  <2>1. ASSUME NEW V \in SUBSET T, V # T
        PROVE  IsFiniteSet(V) /\ IsSum(CHOOSE i : IsSum(i, V, f), V, f)
    <3>1. \E i : IsSum(i, V, f)
      BY <1>1, <2>1
    <3>2. QED BY <3>1, FS_Subset
  <2>2. ASSUME NEW V \in SUBSET T, V # T
        PROVE  g[V] = Total(V, f)
    <3> DEFINE k == CHOOSE i : IsSum(i, V, f)
    <3>1. IsFiniteSet(V) /\ IsSum(k, V, f)
      BY <2>1, <2>2
    <3>2. Total(V, f) = k[V]
      BY DEF Total
    <3> HIDE DEF k
    <3>3. CASE V = {}
      BY <3>1, <3>2, <3>3 DEF IsSum
    <3>4. CASE V # {}
      <4> DEFINE W == V \ {AnyOf(V)}
      <4>1. AnyOf(V) \in V
        BY <3>4, AnyOfIn
      <4>2. k[V] = f[AnyOf(V)] + k[W]
        BY <3>1, <3>4 DEF IsSum
      <4>3. W \in SUBSET V /\ W \in SUBSET T /\ W # T
        BY <4>1
      <4>4. IsSum(CHOOSE i : IsSum(i, W, f), W, f)
        BY <2>1, <4>3
      <4>5. k[W] = Total(W, f)
        <5> DEFINE j == CHOOSE i : IsSum(i, W, f)
        <5> HIDE DEF j
        <5>1. IsSum(j, W, f)
          BY <4>4 DEF j
        <5>2. k[W] = j[W]
          <6> HIDE DEF W
          <6> QED BY <3>1, <4>3, <5>1, SumUnique
        <5>3. QED BY <5>2 DEF Total, j
      <4>6. g[V] = f[AnyOf(V)] + Total(W, f)
        BY <3>4
      <4>7. QED BY <3>2, <4>2, <4>5, <4>6
    <3>5. QED BY <3>3, <3>4
  <2>3. \A U \in SUBSET T : U # {} => g[U] = f[AnyOf(U)] + g[U \ {AnyOf(U)}]
    <3> SUFFICES ASSUME NEW U \in SUBSET T, U # {}
                 PROVE  g[U] = f[AnyOf(U)] + g[U \ {AnyOf(U)}]
      OBVIOUS
    <3>1. AnyOf(U) \in U
      BY AnyOfIn
    <3>2. g[U \ {AnyOf(U)}] = Total(U \ {AnyOf(U)}, f)
      <4> HIDE DEF g
      <4> QED BY <2>2, <3>1
    <3>3. QED BY <3>2
  <2>4. IsSum(g, T, f)
    <3> DEFINE h == [U \in SUBSET T |->
                 IF U = {} THEN 0 ELSE f[AnyOf(U)] + g[U \ {AnyOf(U)}]]
    <3>1. \A U \in SUBSET T : g[U] = h[U]
      BY <2>3
    <3>2. g = h
      BY <3>1
    <3>3. QED BY <3>2 DEF IsSum
  <2>5. QED BY <2>4
<1> HIDE DEF Good
<1>2. S \in Good
  BY <1>1, FiniteInduction
<1>3. QED BY <1>2 DEF Good

(* So the one that Total chooses does. *)
LEMMA SumIsSum ==
  ASSUME NEW f, NEW S, IsFiniteSet(S)
  PROVE  IsSum(CHOOSE g : IsSum(g, S, f), S, f)
BY SumExists

(* Total satisfies the recursion of a sum. *)
LEMMA SumRec ==
  ASSUME NEW f, NEW S, IsFiniteSet(S)
  PROVE  Total(S, f) = IF S = {} THEN 0 ELSE f[AnyOf(S)] + Total(S \ {AnyOf(S)}, f)
<1> DEFINE k == CHOOSE i : IsSum(i, S, f)
           W == S \ {AnyOf(S)}
           j == CHOOSE i : IsSum(i, W, f)
<1>0. IsFiniteSet(W) /\ W \in SUBSET S
  BY FS_Subset
<1>1. IsSum(k, S, f) /\ IsSum(j, W, f)
  BY <1>0, SumIsSum
<1>2. Total(S, f) = k[S] /\ Total(W, f) = j[W]
  BY DEF Total
<1> HIDE DEF k, j, W
<1>3. k[W] = j[W]
  BY <1>0, <1>1, SumUnique
<1>4. k[S] = IF S = {} THEN 0 ELSE f[AnyOf(S)] + k[S \ {AnyOf(S)}]
  BY <1>1 DEF IsSum
<1>5. QED BY <1>2, <1>3, <1>4 DEF W

(* A sum of integers is one. *)
LEMMA SumType ==
  ASSUME NEW S, IsFiniteSet(S), NEW f, \A x \in S : f[x] \in Int
  PROVE  Total(S, f) \in Int
<1> DEFINE Good == {T \in SUBSET S : Total(T, f) \in Int}
<1>1. ASSUME NEW T \in SUBSET S, \A U \in SUBSET T : U # T => U \in Good
      PROVE  T \in Good
  <2>1. Total(T, f) = IF T = {} THEN 0 ELSE f[AnyOf(T)] + Total(T \ {AnyOf(T)}, f)
    BY SumRec, FS_Subset
  <2>2. CASE T # {}
    <3>1. AnyOf(T) \in T
      BY <2>2, AnyOfIn
    <3>2. T \ {AnyOf(T)} \in Good
      BY <1>1, <3>1
    <3>3. f[AnyOf(T)] \in Int /\ Total(T \ {AnyOf(T)}, f) \in Int
      BY <3>1, <3>2
    <3>4. QED BY <2>1, <2>2, <3>3
  <2>3. QED BY <2>1, <2>2
<1> HIDE DEF Good
<1>2. S \in Good
  BY <1>1, FiniteInduction
<1>3. QED BY <1>2 DEF Good

(* Any element may be taken out first, not only the chosen one. *)
LEMMA SumRemove ==
  ASSUME NEW S, IsFiniteSet(S), NEW f, \A x \in S : f[x] \in Int
  PROVE  \A x \in S : Total(S, f) = f[x] + Total(S \ {x}, f)
<1> DEFINE Good == {T \in SUBSET S : \A x \in T : Total(T, f) = f[x] + Total(T \ {x}, f)}
<1>1. ASSUME NEW T \in SUBSET S, \A U \in SUBSET T : U # T => U \in Good,
             NEW x \in T
      PROVE  Total(T, f) = f[x] + Total(T \ {x}, f)
  <2> DEFINE c == AnyOf(T)
  <2>1. c \in T
    BY AnyOfIn
  <2> HIDE DEF c
  <2>2. IsFiniteSet(T)
    BY FS_Subset
  <2>3. Total(T, f) = f[c] + Total(T \ {c}, f)
    BY <2>1, <2>2, SumRec DEF c
  <2>4. CASE x # c
    <3>1. T \ {c} \in Good /\ T \ {x} \in Good
      BY <1>1, <2>1
    <3>2. Total(T \ {c}, f) = f[x] + Total((T \ {c}) \ {x}, f)
      BY <2>4, <3>1
    <3>3. Total(T \ {x}, f) = f[c] + Total((T \ {x}) \ {c}, f)
      BY <2>1, <2>4, <3>1
    <3>4. (T \ {x}) \ {c} = (T \ {c}) \ {x}
      OBVIOUS
    <3>5. Total((T \ {c}) \ {x}, f) \in Int
      <4>1. IsFiniteSet((T \ {c}) \ {x})
        BY FS_Subset
      <4>2. \A y \in (T \ {c}) \ {x} : f[y] \in Int
        OBVIOUS
      <4>3. QED BY <4>1, <4>2, SumType
    <3>6. f[x] \in Int /\ f[c] \in Int
      BY <2>1
    <3>7. ASSUME NEW a \in Int, NEW b \in Int, NEW z \in Int PROVE a + (b + z) = b + (a + z)
      OBVIOUS
    <3>8. f[c] + (f[x] + Total((T \ {c}) \ {x}, f)) = f[x] + (f[c] + Total((T \ {c}) \ {x}, f))
      BY <3>5, <3>6, <3>7
    <3>9. QED BY <2>3, <3>2, <3>3, <3>4, <3>8
  <2>5. CASE x = c
    BY <2>3, <2>5
  <2>6. QED BY <2>4, <2>5
<1>2. \A T \in SUBSET S : (\A U \in SUBSET T : U # T => U \in Good) => T \in Good
  BY <1>1
<1> HIDE DEF Good
<1>3. S \in Good
  BY <1>2, FiniteInduction
<1>4. QED BY <1>3 DEF Good

(* A sum depends on the values over its set only. *)
LEMMA SumAgree ==
  ASSUME NEW S, IsFiniteSet(S), NEW f, NEW h, \A x \in S : f[x] = h[x]
  PROVE  Total(S, f) = Total(S, h)
<1> DEFINE Good == {T \in SUBSET S : Total(T, f) = Total(T, h)}
<1>1. ASSUME NEW T \in SUBSET S, \A U \in SUBSET T : U # T => U \in Good
      PROVE  T \in Good
  <2>1. IsFiniteSet(T)
    BY FS_Subset
  <2>2. Total(T, f) = IF T = {} THEN 0 ELSE f[AnyOf(T)] + Total(T \ {AnyOf(T)}, f)
    BY <2>1, SumRec
  <2>3. Total(T, h) = IF T = {} THEN 0 ELSE h[AnyOf(T)] + Total(T \ {AnyOf(T)}, h)
    BY <2>1, SumRec
  <2>4. CASE T # {}
    <3>1. AnyOf(T) \in T
      BY <2>4, AnyOfIn
    <3>2. T \ {AnyOf(T)} \in Good
      BY <1>1, <3>1
    <3>3. QED BY <2>2, <2>3, <2>4, <3>1, <3>2
  <2>5. QED BY <2>2, <2>3, <2>4
<1> HIDE DEF Good
<1>2. S \in Good
  BY <1>1, FiniteInduction
<1>3. QED BY <1>2 DEF Good

(* A sum of positive amounts, if there are any, is positive. *)
LEMMA SumPositive ==
  ASSUME NEW S, IsFiniteSet(S), NEW f, \A x \in S : f[x] \in Int /\ f[x] > 0, S # {}
  PROVE  Total(S, f) > 0
<1> DEFINE Good == {T \in SUBSET S : T # {} => Total(T, f) > 0}
<1>1. ASSUME NEW T \in SUBSET S, \A U \in SUBSET T : U # T => U \in Good
      PROVE  T \in Good
  <2> DEFINE c == AnyOf(T)
             W == T \ {c}
  <2>1. CASE T # {}
    <3>1. c \in T /\ IsFiniteSet(T) /\ IsFiniteSet(W)
      BY <2>1, AnyOfIn, FS_Subset
    <3>2. Total(T, f) = f[c] + Total(W, f)
      BY <2>1, <3>1, SumRec
    <3> HIDE DEF c
    <3>3. W \in Good
      BY <1>1, <3>1
    <3>4. W = {} => Total(W, f) = 0
      BY <3>1, SumRec
    <3>5. \A x \in W : f[x] \in Int
      OBVIOUS
    <3> HIDE DEF W
    <3>6. Total(W, f) \in Int
      BY <3>1, <3>5, SumType
    <3>7. f[c] \in Int /\ f[c] > 0
      BY <3>1
    <3>8. Total(W, f) >= 0
      BY <3>3, <3>4, <3>6
    <3>9. Total(T, f) > 0
      BY <3>2, <3>6, <3>7, <3>8
    <3>10. QED BY <3>9
  <2>2. QED BY <2>1
<1> HIDE DEF Good
<1>2. S \in Good
  BY <1>1, FiniteInduction
<1>3. QED BY <1>2 DEF Good

-----------------------------------------------------------------------------
(* The cents of an order (CheckoutPricing). *)

(* What is summed for a line. *)
AmountsOf(lines) == [l \in DOMAIN lines |-> lines[l].unit * lines[l].quantity]

(* TotalFrom sums the amounts of the lines. *)
LEMMA TotalFromIsTotal ==
  ASSUME NEW lines
  PROVE  Pricing!TotalFrom(lines) = Total(DOMAIN lines, AmountsOf(lines))
<1>1. Pricing!TotalFrom(lines) = Pricing!SumFunction(AmountsOf(lines))
  BY DEF Pricing!TotalFrom, AmountsOf
<1>2. DOMAIN AmountsOf(lines) = DOMAIN lines
  BY DEF AmountsOf
<1>3. QED BY <1>1, <1>2, SumFunctionIsTotal

(* Rounding keeps whole cents, and amounts are not negative. *)
LEMMA RoundedCents == \A n \in Int : Pricing!RoundQuotient(Pricing!ToMills(n), 10) = n
BY DEF Pricing!RoundQuotient, Pricing!ToMills

(* What is cut off at zero is not negative. *)
LEMMA NonNegativeIsNat == \A n \in Int : Pricing!NonNegative(n) \in Nat
BY DEF Pricing!NonNegative

(* Nor is a share of an amount, whatever the rate. *)
LEMMA ShareIsNat ==
  ASSUME NEW cents \in Int, NEW bps \in Int
  PROVE  Pricing!Share(cents, bps) \in Nat
<1>1. cents * bps \in Int
  OBVIOUS
<1>2. Pricing!RoundQuotient(cents * bps, 10000) \in Int
  <2>1. ASSUME NEW n \in Int PROVE Pricing!RoundQuotient(n, 10000) \in Int
    BY DEF Pricing!RoundQuotient
  <2>2. QED BY <1>1, <2>1
<1>3. QED BY <1>2, NonNegativeIsNat DEF Pricing!Share

(* Nor a delivery fee, whatever Uber quoted. *)
LEMMA DeliveryFeeIsNat ==
  ASSUME NEW quoted \in QuotedFee
  PROVE  Pricing!DeliveryFee(quoted) \in Nat
<1>1. quoted \in Int
  BY NumberAssumption
<1>2. QED BY <1>1, NonNegativeIsNat DEF Pricing!DeliveryFee

(* The items of a cart that were resolved have positive amounts. *)
Resolved(lines) ==
  /\ IsFiniteSet(DOMAIN lines) /\ DOMAIN lines # {} /\ DOMAIN lines \subseteq Item
  /\ \A l \in DOMAIN lines : AmountsOf(lines)[l] \in Int /\ AmountsOf(lines)[l] > 0

(* resolveMenuPricedItems lets only such carts pass (payments.service.ts 81-110). *)
LEMMA ResolvedCart ==
  ASSUME menu \in [Item -> Mills], NEW c \in Pricing!Cart \cup {<<>>}, Pricing!Resolvable(c)
  PROVE  Resolved(Pricing!ResolvedItems(c))
<1> DEFINE lines == Pricing!ResolvedItems(c)
<1>1. c \in Pricing!Cart
  BY DEF Pricing!Resolvable
<1>2. PICK S \in (SUBSET Item) \ {{}} : c \in [S -> Quantity]
  BY <1>1 DEF Pricing!Cart
<1>3. DOMAIN lines = S
  BY <1>2 DEF Pricing!ResolvedItems
<1>4. IsFiniteSet(S)
  BY <1>2, ItemAssumption, FS_Subset
<1>5. ASSUME NEW l \in S
      PROVE  AmountsOf(lines)[l] \in Int /\ AmountsOf(lines)[l] > 0
  <2>1. AmountsOf(lines)[l] = Pricing!ToCents(menu[l]) * c[l]
    BY <1>2, <1>3 DEF AmountsOf, Pricing!ResolvedItems, Pricing!Line
  <2>2. c[l] \in Int /\ c[l] > 0
    BY <1>2, NumberAssumption DEF Pricing!Resolvable
  <2>3. menu[l] \in Int
    BY <1>2, NumberAssumption
  <2>4. Pricing!ToCents(menu[l]) \in Int
    BY <2>3 DEF Pricing!ToCents, Pricing!RoundQuotient
  <2>5. Pricing!ToCents(menu[l]) > 0
    BY <1>2 DEF Pricing!Resolvable
  <2>6. \A a \in Int, b \in Int : a > 0 /\ b > 0 => a * b \in Int /\ a * b > 0
    OBVIOUS
  <2>7. QED BY <2>1, <2>2, <2>4, <2>5, <2>6
<1> HIDE DEF lines
<1>6. QED BY <1>2, <1>3, <1>4, <1>5 DEF Resolved, lines

(* Their subtotal is positive. *)
LEMMA TotalFromResolved ==
  ASSUME NEW lines, Resolved(lines)
  PROVE  Pricing!TotalFrom(lines) \in Nat \ {0}
<1>1. Total(DOMAIN lines, AmountsOf(lines)) \in Int
  BY SumType DEF Resolved
<1>2. Total(DOMAIN lines, AmountsOf(lines)) > 0
  BY SumPositive DEF Resolved
<1>3. QED BY <1>1, <1>2, TotalFromIsTotal

(***************************************************************************)
(* The lines of a checkout add up to the items, the tax and the delivery   *)
(* fee, also if one of these has no line of its own.                       *)
(***************************************************************************)
LEMMA LinesAddUp ==
  ASSUME NEW resolved, Resolved(resolved), NEW quoted \in QuotedFee
  PROVE  Pricing!TotalFrom(Pricing!LineItems(resolved, quoted)) =
           Pricing!TotalFrom(resolved) + Pricing!Tax(resolved) + Pricing!DeliveryFee(quoted)
<1> DEFINE D == DOMAIN resolved
           lines == Pricing!LineItems(resolved, quoted)
           fee == Pricing!DeliveryFee(quoted)
           tax == Pricing!Tax(resolved)
           delivered == IF link.fulfillment = "delivery" THEN {"delivery"} ELSE {}
           taxed == IF tax > 0 THEN {"tax"} ELSE {}
           amounts == AmountsOf(lines)
<1>1. IsFiniteSet(D) /\ "delivery" \notin D /\ "tax" \notin D
  BY ItemAssumption DEF Resolved
<1>2. fee \in Nat /\ tax \in Nat
  <2>1. Pricing!TotalFrom(resolved) \in Int
    BY TotalFromResolved
  <2>2. tax \in Nat
    BY <2>1, ShareIsNat, NumberAssumption DEF Pricing!Tax
  <2>3. QED BY <2>2, DeliveryFeeIsNat
<1>3. /\ DOMAIN lines = D \cup delivered \cup taxed
      /\ \A l \in D : lines[l] = resolved[l]
      /\ "delivery" \in delivered => lines["delivery"] = Pricing!Line(fee, 1)
      /\ "tax" \in taxed => lines["tax"] = Pricing!Line(tax, 1)
  BY <1>1 DEF Pricing!LineItems
<1>4. link.fulfillment # "delivery" => fee = 0
  BY DEF Pricing!DeliveryFee
<1> HIDE DEF lines, fee, tax
<1>5. /\ \A l \in D : amounts[l] = AmountsOf(resolved)[l]
      /\ "delivery" \in delivered => amounts["delivery"] = fee
      /\ "tax" \in taxed => amounts["tax"] = tax
  <2>1. \A l \in D : amounts[l] = AmountsOf(resolved)[l]
    BY <1>3 DEF AmountsOf
  <2>2. "delivery" \in delivered => amounts["delivery"] = fee
    BY <1>2, <1>3 DEF AmountsOf, Pricing!Line
  <2>3. "tax" \in taxed => amounts["tax"] = tax
    BY <1>2, <1>3 DEF AmountsOf, Pricing!Line
  <2>4. QED BY <2>1, <2>2, <2>3
<1> HIDE DEF amounts
<1>6. \A l \in D : amounts[l] \in Int
  BY <1>5 DEF Resolved
<1>7. Total(D, amounts) = Total(D, AmountsOf(resolved))
  BY <1>1, <1>5, SumAgree
<1>8. Total(D, amounts) \in Int
  BY <1>1, <1>6, SumType
<1>9. /\ IsFiniteSet(D \cup delivered)
      /\ Total(D \cup delivered, amounts) = Total(D, amounts) + fee
  <2>1. CASE link.fulfillment = "delivery"
    <3>1. IsFiniteSet(D \cup {"delivery"})
      BY <1>1, FS_AddElement
    <3>2. \A l \in D \cup {"delivery"} : amounts[l] \in Int
      BY <1>2, <1>5, <1>6, <2>1
    <3>3. (D \cup {"delivery"}) \ {"delivery"} = D
      BY <1>1
    <3>4. \A l \in D \cup {"delivery"} : Total(D \cup {"delivery"}, amounts)
                                   = amounts[l] + Total((D \cup {"delivery"}) \ {l}, amounts)
      BY <3>1, <3>2, SumRemove
    <3>5. Total(D \cup {"delivery"}, amounts) = fee + Total(D, amounts)
      BY <1>5, <2>1, <3>3, <3>4
    <3>6. fee + Total(D, amounts) = Total(D, amounts) + fee
      BY <1>2, <1>8
    <3>7. QED BY <2>1, <3>1, <3>5, <3>6
  <2>2. CASE link.fulfillment # "delivery"
    <3>1. D \cup delivered = D
      BY <2>2
    <3>2. Total(D, amounts) + fee = Total(D, amounts)
      BY <1>4, <1>8, <2>2
    <3>3. QED BY <1>1, <3>1, <3>2
  <2>3. QED BY <2>1, <2>2
<1>10. \A l \in D \cup delivered : amounts[l] \in Int
  BY <1>2, <1>5, <1>6
<1>11. "tax" \notin D \cup delivered
  BY <1>1
<1> DEFINE E == D \cup delivered
<1>12. Total(E \cup taxed, amounts) = Total(E, amounts) + tax
  <2> HIDE DEF E
  <2>1. IsFiniteSet(E) /\ "tax" \notin E /\ \A l \in E : amounts[l] \in Int
    BY <1>9, <1>10, <1>11 DEF E
  <2>2. Total(E, amounts) \in Int
    BY <2>1, SumType
  <2>3. CASE tax > 0
    <3>1. IsFiniteSet(E \cup {"tax"})
      BY <2>1, FS_AddElement
    <3>2. \A l \in E \cup {"tax"} : amounts[l] \in Int
      BY <1>2, <1>5, <2>1, <2>3
    <3>3. (E \cup {"tax"}) \ {"tax"} = E
      BY <2>1
    <3>4. \A l \in E \cup {"tax"} : Total(E \cup {"tax"}, amounts)
                                   = amounts[l] + Total((E \cup {"tax"}) \ {l}, amounts)
      BY <3>1, <3>2, SumRemove
    <3>5. Total(E \cup {"tax"}, amounts) = tax + Total(E, amounts)
      BY <1>5, <2>3, <3>3, <3>4
    <3>6. tax + Total(E, amounts) = Total(E, amounts) + tax
      BY <1>2, <2>2
    <3>7. QED BY <2>3, <3>5, <3>6
  <2>4. CASE ~(tax > 0)
    <3>1. tax = 0 /\ E \cup taxed = E
      BY <1>2, <2>4
    <3>2. QED BY <2>2, <3>1
  <2>5. QED BY <2>3, <2>4
<1>13. Pricing!TotalFrom(lines) = Total(E \cup taxed, amounts)
  BY <1>3, TotalFromIsTotal DEF amounts
<1>14. Pricing!TotalFrom(resolved) = Total(D, amounts)
  BY <1>7, TotalFromIsTotal
<1>15. Pricing!TotalFrom(lines) = (Total(D, amounts) + fee) + tax
  BY <1>9, <1>12, <1>13
<1>16. (Total(D, amounts) + fee) + tax = Total(D, amounts) + tax + fee
  BY <1>2, <1>8
<1>17. QED BY <1>14, <1>15, <1>16 DEF lines, fee, tax

(***************************************************************************)
(* The inductive invariant.  A session is a session of the row, and unless *)
(* a link came after it, its lines add up to the row's columns, the row's  *)
(* amount is their sum, and its fee is the session's.                      *)
(***************************************************************************)
SessionHasRow == session # Pricing!NoSession => link # Pricing!NoRow
Charged ==
  session # Pricing!NoSession =>
    \/ session.linked
    \/ /\ Pricing!TotalFrom(session.lines) = link.subtotal + link.tax + link.delivery
       /\ link.amount = Pricing!ToMills(link.subtotal + link.tax + link.delivery)
       /\ link.fee = session.fee
Priced == Pricing!TypeOK /\ SessionHasRow /\ Charged

(* Initially there is neither a row nor a session. *)
LEMMA PricedInit == Pricing!Init => Priced
BY DEF Pricing!Init, Priced, Pricing!TypeOK, SessionHasRow, Charged

(* The rows that the requests write. *)
Row == [amount: Nat, subtotal: Nat \ {0}, tax: Nat, delivery: Nat, fee: Nat,
        fulfillment: {"pickup", "delivery"}]

(* A typed row is not the missing one. *)
LEMMA RowIsNotNoRow == Pricing!NoRow \notin Row
<1>1. DOMAIN Pricing!NoRow = {"amount"}
  BY DEF Pricing!NoRow
<1>2. \A r \in Row : "subtotal" \in DOMAIN r
  BY DEF Row
<1>3. QED BY <1>1, <1>2

(* TypeOK with the name for the rows. *)
LEMMA TypedRow == Pricing!TypeOK <=>
  /\ menu \in [Item -> Mills] /\ cart \in Pricing!Cart \cup {<<>>}
  /\ link = Pricing!NoRow \/ link \in Row
  /\ session # Pricing!NoSession =>
       /\ DOMAIN session = {"lines", "fee", "linked"}
       /\ session.fee \in Nat /\ session.linked \in BOOLEAN
BY DEF Pricing!TypeOK, Row

(* Every request, and every edit of the menu, preserves it. *)
LEMMA PricedStep == Priced /\ [Pricing!Next]_pricing => Priced'
<1> SUFFICES ASSUME Priced, [Pricing!Next]_pricing
             PROVE  Priced'
  OBVIOUS
<1>0. Pricing!TypeOK /\ SessionHasRow /\ Charged
  BY DEF Priced
<1>t. /\ menu \in [Item -> Mills] /\ cart \in Pricing!Cart \cup {<<>>}
      /\ link = Pricing!NoRow \/ link \in Row
      /\ session # Pricing!NoSession =>
           /\ DOMAIN session = {"lines", "fee", "linked"}
           /\ session.fee \in Nat /\ session.linked \in BOOLEAN
  BY <1>0, TypedRow
<1>1. ASSUME NEW i \in Item, NEW m \in Mills, Pricing!ChangePrice(i, m)
      PROVE  Priced'
  <2>1. menu' \in [Item -> Mills] /\ UNCHANGED <<cart, link, session>>
    BY <1>1, <1>t DEF Pricing!ChangePrice
  <2>2. Pricing!TypeOK'
    BY <1>0, <2>1 DEF Pricing!TypeOK, Pricing!Cart
  <2>3. SessionHasRow' /\ Charged'
    BY <1>0, <2>1 DEF SessionHasRow, Charged, Pricing!TotalFrom
  <2>4. QED BY <2>2, <2>3 DEF Priced
<1>2. ASSUME NEW c \in Pricing!Cart, NEW f \in {"pickup", "delivery"}, Pricing!CreateCart(c, f)
      PROVE  Priced'
  <2> DEFINE subtotal == Pricing!TotalFrom(Pricing!ResolvedItems(c))
  <2>1. subtotal \in Nat \ {0}
    <3>1. Resolved(Pricing!ResolvedItems(c))
      BY <1>2, <1>t, ResolvedCart DEF Pricing!CreateCart
    <3>2. QED BY <3>1, TotalFromResolved
  <2>2. link' = [amount |-> Pricing!ToMills(subtotal), subtotal |-> subtotal, tax |-> 0,
                 delivery |-> 0, fee |-> 0, fulfillment |-> f]
    BY <1>2 DEF Pricing!CreateCart
  <2>3. cart' = c /\ UNCHANGED <<menu, session>> /\ session = Pricing!NoSession
    BY <1>0, <1>2 DEF Pricing!CreateCart, SessionHasRow
  <2> HIDE DEF subtotal
  <2>4. Pricing!ToMills(subtotal) \in Nat
    BY <2>1 DEF Pricing!ToMills
  <2>5. link' \in Row
    BY <2>1, <2>2, <2>4 DEF Row
  <2>6. Pricing!TypeOK'
    <3>1. link' \in {Pricing!NoRow'} \cup Row
      BY <2>5
    <3>2. QED BY <1>t, <2>3, <3>1 DEF Pricing!TypeOK, Pricing!Cart, Row, Pricing!NoSession
  <2>7. SessionHasRow' /\ Charged'
    BY <2>3 DEF SessionHasRow, Charged, Pricing!NoSession
  <2>8. QED BY <2>6, <2>7 DEF Priced
<1>3. ASSUME Pricing!CreatePaymentLink
      PROVE  Priced'
  <2> DEFINE subtotal == Pricing!TotalFrom(Pricing!ResolvedItems(cart))
  <2>1. subtotal \in Nat \ {0}
    <3>1. Resolved(Pricing!ResolvedItems(cart))
      BY <1>3, <1>t, ResolvedCart DEF Pricing!CreatePaymentLink
    <3>2. QED BY <3>1, TotalFromResolved
  <2>2. link' = [link EXCEPT !.amount = Pricing!ToMills(subtotal), !.subtotal = subtotal]
    BY <1>3 DEF Pricing!CreatePaymentLink
  <2>3. /\ session' = IF session = Pricing!NoSession THEN session
                      ELSE [session EXCEPT !.linked = TRUE]
        /\ UNCHANGED <<menu, cart>> /\ link \in Row
    BY <1>3, <1>t DEF Pricing!CreatePaymentLink
  <2> HIDE DEF subtotal
  <2>4. Pricing!ToMills(subtotal) \in Nat
    BY <2>1 DEF Pricing!ToMills
  <2>5. link' \in Row
    BY <2>1, <2>2, <2>3, <2>4 DEF Row
  <2>6. session' # Pricing!NoSession =>
          /\ DOMAIN session' = {"lines", "fee", "linked"}
          /\ session'.fee \in Nat /\ session'.linked = TRUE
    BY <1>t, <2>3
  <2>7. Pricing!TypeOK'
    BY <1>t, <2>3, <2>5, <2>6 DEF Pricing!TypeOK, Pricing!Cart, Row, Pricing!NoSession
  <2>8. SessionHasRow'
    BY <2>5, RowIsNotNoRow DEF SessionHasRow, Pricing!NoRow
  <2>9. Charged'
    BY <2>6 DEF Charged, Pricing!NoSession
  <2>10. QED BY <2>7, <2>8, <2>9 DEF Priced
<1>4. ASSUME NEW quoted \in QuotedFee, Pricing!CreateCheckoutSession(quoted)
      PROVE  Priced'
  <2> DEFINE resolved == Pricing!ResolvedItems(cart)
             subtotal == Pricing!TotalFrom(resolved)
             tax == Pricing!Tax(resolved)
             delivery == Pricing!DeliveryFee(quoted)
             share == Pricing!Share(subtotal, FeeBps)
             lines == Pricing!LineItems(resolved, quoted)
  <2>1. Resolved(resolved)
    BY <1>4, <1>t, ResolvedCart DEF Pricing!CreateCheckoutSession
  <2>2. subtotal \in Nat \ {0}
    BY <2>1, TotalFromResolved
  <2>3. tax \in Nat /\ share \in Nat
    <3>1. subtotal \in Int
      BY <2>2
    <3>2. QED BY <3>1, ShareIsNat, NumberAssumption DEF Pricing!Tax
  <2>4. delivery \in Nat
    BY DeliveryFeeIsNat
  <2>5. Pricing!TotalFrom(lines) = subtotal + tax + delivery
    BY <2>1, LinesAddUp
  <2>6. session' = [lines |-> lines, fee |-> share + delivery, linked |-> FALSE]
    BY <1>4 DEF Pricing!CreateCheckoutSession
  <2>7. /\ link' = [link EXCEPT !.amount = Pricing!ToMills(subtotal + tax + delivery),
                                !.subtotal = subtotal, !.tax = tax,
                                !.delivery = delivery, !.fee = share + delivery]
        /\ UNCHANGED <<menu, cart>> /\ link \in Row
    BY <1>4, <1>t DEF Pricing!CreateCheckoutSession
  <2> HIDE DEF resolved, subtotal, tax, delivery, share, lines
  <2>8. share + delivery \in Nat /\ Pricing!ToMills(subtotal + tax + delivery) \in Nat
    BY <2>2, <2>3, <2>4 DEF Pricing!ToMills
  <2>9. /\ link' \in Row
        /\ link'.subtotal = subtotal /\ link'.tax = tax /\ link'.delivery = delivery
        /\ link'.amount = Pricing!ToMills(subtotal + tax + delivery)
        /\ link'.fee = share + delivery
    <3> DEFINE amount == Pricing!ToMills(subtotal + tax + delivery)
               fee == share + delivery
    <3>1. amount \in Nat /\ fee \in Nat
      BY <2>8
    <3>2. link' = [link EXCEPT !.amount = amount, !.subtotal = subtotal, !.tax = tax,
                               !.delivery = delivery, !.fee = fee]
      BY <2>7
    <3> HIDE DEF amount, fee
    <3>3. /\ link' \in Row
          /\ link'.subtotal = subtotal /\ link'.tax = tax /\ link'.delivery = delivery
          /\ link'.amount = amount /\ link'.fee = fee
      BY <2>2, <2>3, <2>4, <2>7, <3>1, <3>2 DEF Row
    <3>4. QED BY <3>3 DEF amount, fee
  <2>10. /\ DOMAIN session' = {"lines", "fee", "linked"} /\ session'.lines = lines
         /\ session'.fee = share + delivery /\ session'.linked = FALSE
    BY <2>6
  <2>11. Pricing!TypeOK'
    <3>1. session'.fee \in Nat /\ session'.linked \in BOOLEAN
      BY <2>8, <2>10
    <3>2. QED BY <1>t, <2>7, <2>9, <2>10, <3>1 DEF Pricing!TypeOK, Pricing!Cart, Row
  <2>12. SessionHasRow'
    BY <2>9, RowIsNotNoRow DEF SessionHasRow, Pricing!NoRow
  <2>13. Charged'
    <3>1. Pricing!TotalFrom(session'.lines) = link'.subtotal + link'.tax + link'.delivery
      BY <2>5, <2>9, <2>10
    <3>2. link'.amount = Pricing!ToMills(link'.subtotal + link'.tax + link'.delivery)
      BY <2>9
    <3>3. link'.fee = session'.fee
      BY <2>9, <2>10
    <3>4. QED BY <3>1, <3>2, <3>3 DEF Charged, Pricing!TotalFrom, Pricing!ToMills
  <2>14. QED BY <2>11, <2>12, <2>13 DEF Priced
<1>5. ASSUME UNCHANGED pricing
      PROVE  Priced'
  <2>1. UNCHANGED <<menu, cart, link, session>>
    BY <1>5 DEF pricing
  <2>2. QED BY <1>0, <2>1 DEF Priced, Pricing!TypeOK, Pricing!Cart, SessionHasRow, Charged,
                            Pricing!TotalFrom
<1>6. QED BY <1>1, <1>2, <1>3, <1>4, <1>5 DEF Pricing!Next

(* It implies the property, since an amount of whole cents survives the decimals. *)
LEMMA PricedIsReported == Priced => ChargedIsReported
<1> SUFFICES ASSUME Priced, session # Pricing!NoSession, ~session.linked
             PROVE  LET charged == Pricing!TotalFrom(session.lines)
                    IN /\ charged = Pricing!PaymentSummary.gross
                       /\ charged = Pricing!PaymentSummary.subtotal + Pricing!PaymentSummary.tax
                                      + Pricing!PaymentSummary.delivery
                       /\ Pricing!PaymentSummary.net = charged - session.fee
  BY DEF ChargedIsReported, Pricing!ChargedIsReported
<1> DEFINE n == link.subtotal + link.tax + link.delivery
<1>1. link \in Row
  BY TypedRow DEF Priced, SessionHasRow
<1>2. n \in Int
  BY <1>1 DEF Row
<1>3. /\ Pricing!TotalFrom(session.lines) = n
      /\ link.amount = Pricing!ToMills(n) /\ link.fee = session.fee
  BY DEF Priced, Charged
<1> HIDE DEF n
<1>4. Pricing!RoundQuotient(link.amount, 10) = n
  BY <1>2, <1>3, RoundedCents
<1>5. QED BY <1>3, <1>4 DEF Pricing!PaymentSummary, n

(* So it holds in every behaviour. *)
LEMMA PricedAlways == Pricing!Spec => []Priced
<1>1. Pricing!Init => Priced
  BY PricedInit
<1>2. Priced /\ [Pricing!Next]_(Pricing!vars) => Priced'
  BY PricedStep DEF pricing, Pricing!vars
<1>3. QED BY <1>1, <1>2, PTL DEF Pricing!Spec

(***************************************************************************)
(* For any menu, rates and quotes, what Stripe charges line by line for an *)
(* order is what the reports show for it, unless a payment link was made   *)
(* after the session (payments.service.ts 71-75, 184, 309, 395-405, 527).  *)
(***************************************************************************)
THEOREM ChargedIsReportedHolds == Spec => []ChargedIsReported
<1>1. Spec => Pricing!Spec
  BY DEF Spec
<1>2. QED BY <1>1, PricedAlways, PricedIsReported, PTL

(* The variables of every part keep the types that TypeOK states. *)
THEOREM TypeCorrect == Spec => []TypeOK
<1>1. Spec => []Priced
  BY PricedAlways DEF Spec
<1>2. Priced => Pricing!TypeOK
  BY DEF Priced
<1>3. /\ Connect!TypeOK /\ Access!TypeOK /\ Uber!TypeOK /\ Tenants!TypeOK
      /\ Groups!TypeOK /\ Conversation!TypeOK /\ Rows!TypeOK
      /\ Pricing!TypeOK
      => TypeOK
  BY DEF TypeOK
<1>4. QED BY <1>1, <1>2, <1>3, KeysTyped, RowsTyped, PTL
=============================================================================
