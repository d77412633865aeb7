------------------------------- MODULE Quotes -------------------------------
(***************************************************************************)
(* The quote of a checkout (pricing.service.ts): a customer fills a basket *)
(* and tries coupons while the shop's rules and zones are what they are;   *)
(* after each step the server prices the basket anew.  `base` is the quote *)
(* without the coupon, `shown` the one the customer pays.  BoxBills goes   *)
(* on from the checkout of such a basket.                                  *)
(***************************************************************************)
EXTENDS Pricing, FiniteSets

CONSTANTS Goods,       \* the lines that can be put into the basket
          Coupons,     \* the coupons of the shop
          Contexts,    \* zone, settings and member, as the server resolves them
          MaxLines     \* bound: lines in the basket

\* A box is sold whole; the VAT base is a multiple for every rate in use.
ASSUME GoodsAssumption ==
    /\ MaxLines \in Nat /\ IsFiniteSet(Goods)
    /\ Goods \subseteq [kind : {"BOX", "EXTRA", "PRODUCT"}, price : Nat, qty : Nat, vat : Nat]
    /\ \A good \in Goods : /\ good.kind = "BOX" => good.qty = 4
                           /\ VatBase % (100 + good.vat) = 0
ASSUME CouponsAssumption ==
    Coupons \subseteq [scope : {"SINGLE", "BOX", "ALL"}, kind : {"PERCENT", "AMOUNT"},
                      value : Nat, min : Nat]
ASSUME ContextsAssumption ==
    Contexts \subseteq [asSubscription : BOOLEAN, live : BOOLEAN, left : Nat, retention : Nat,
                       pct : Nat, rounding : {"kurus", "tl"}, rule : {"gt", "gte"},
                       subscriberFree : BOOLEAN, fee : Nat, threshold : Nat \cup {NoThreshold}]

VARIABLES basket, ctx, coupon, base, shown
quoteVars == <<basket, ctx, coupon, base, shown>>

ExtraGoods == {good \in Goods : good.kind = "EXTRA"}
NoCoupon == [scope |-> "ALL", kind |-> "AMOUNT", value |-> 0, min |-> 0]

\* quoteWithCoupon: a refused coupon leaves the price as it is.
Reprice ==
    /\ base' = Quote(basket', ctx')
    /\ shown' = IF coupon' = NoCoupon THEN base' ELSE WithCoupon(base', coupon', ctx')

QuoteInit ==
    /\ basket = <<>>
    /\ ctx \in Contexts
    /\ coupon = NoCoupon
    /\ base = Quote(<<>>, ctx)
    /\ shown = base

\* At most one box in a basket, and one line for a product.
AddLine(good) ==
    /\ Len(basket) < MaxLines /\ good \notin ToSet(basket)
    /\ good.kind = "BOX" => \A i \in DOMAIN basket : basket[i].kind # "BOX"
    /\ basket' = Append(basket, good)
    /\ UNCHANGED <<ctx, coupon>>
    /\ Reprice

DropLine(i) ==
    /\ basket' = RemoveAt(basket, i)
    /\ UNCHANGED <<ctx, coupon>>
    /\ Reprice

EnterCoupon(c) ==
    /\ coupon' = c
    /\ UNCHANGED <<basket, ctx>>
    /\ Reprice

\* Another zone or address, another setting, or a login.
ChangeContext(c) ==
    /\ ctx' = c
    /\ UNCHANGED <<basket, coupon>>
    /\ Reprice

QuoteNext ==
    \/ \E good \in Goods : AddLine(good)
    \/ \E i \in DOMAIN basket : DropLine(i)
    \/ \E c \in Coupons \cup {NoCoupon} : EnterCoupon(c)
    \/ \E c \in Contexts : ChangeContext(c)

-----------------------------------------------------------------------------
\* No box is discounted by more than its price: a percentage up to 100 that is
\* rounded to whole lira may come to more than a box of less than a lira.
DiscountsFit ==
    \A good \in Goods, c \in Contexts :
        good.kind = "BOX" => BoxDiscount(LineTotal(good), c).amount <= LineTotal(good)

\* The variables have their types, and no amount is negative.
QuoteTypeOK ==
    /\ basket \in Seq(Goods) /\ Len(basket) <= MaxLines
    /\ ctx \in Contexts /\ coupon \in Coupons \cup {NoCoupon}
    /\ \A q \in {base, shown} :
          /\ q.kind \in {"SINGLE", "BOX_ONE_TIME", "SUBSCRIPTION"}
          /\ {q.subtotal, q.discount, q.shipping, q.vat, q.grand} \subseteq Nat

\* No line is sold for less than nothing, whatever discount and coupon come
\* together on it, and the coupon leaves alone what is not in its scope
\* (applyCouponToQuote).
LinesKeepTheirPrice ==
    \A i \in DOMAIN shown.lines :
        /\ Net(shown.lines[i]) >= 0
        /\ ~InScope(shown.lines[i], coupon.scope) => shown.lines[i] = base.lines[i]

\* A share is the line's part of the coupon to the nearest kuruş; only the
\* last line, which takes what the rounding left, may be off by more, and
\* then by half a kuruş for every other line.
SharesAreFair ==
    LET wanted == Wanted(base, coupon, ctx.rounding)
        capacity == Capacity(base, coupon.scope)
        eligible == Eligible(base, coupon.scope)
        Off(i) == (shown.lines[i].discount - base.lines[i].discount) * capacity
                      - wanted * Net(base.lines[i])
    IN  \A i \in eligible :
            LET slack == IF \E j \in eligible : j > i THEN 1 ELSE Cardinality(eligible)
            IN  2 * Off(i) \in (-slack * capacity)..(slack * capacity)

\* The VAT printed on the lines and the VAT of the order differ by the
\* rounding of the lines only: half a kuruş each, and half for the order
\* (applyVat).
VatAddsUp ==
    \A q \in {base, shown} :
        LET lines == Sum([i \in DOMAIN q.lines |-> LineVat(q.lines[i])])
        IN  2 * (lines - q.vat) \in (-(Len(q.lines) + 1))..(Len(q.lines) + 1)

\* The checkout and the engine price the same first box alike: what the
\* quote calls prepaid is the bill computeCycleCharge writes for that box,
\* those extras and the same rights, delivery aside; the two functions share
\* no code above the discount of a box.
CheckoutAndEngineAgree ==
    LET extras == ToSet(basket) \cap ExtraGoods
    IN  \A i \in DOMAIN basket : basket[i].kind = "BOX" =>
            LET bill == CycleCharge(LineTotal(basket[i]), SetToSeq(extras), ~ctx.asSubscription, 0, ctx)
            IN  /\ Prepaid(base) = bill.total - bill.shipping
                /\ (base.kind = "SUBSCRIPTION" \/ (~ctx.live /\ Len(basket) = Cardinality(extras) + 1))
                       => base.shipping = bill.shipping
=============================================================================
