------------------------------ MODULE Pricing ------------------------------
(***************************************************************************)
(* The price arithmetic shared by the checkout and the subscription        *)
(* engine (packages/shared/src/pricing, pricing.coupon.ts and the VAT of a *)
(* cycle's order in orders.service.ts).  Amounts are whole kuruş, a        *)
(* quantity is counted in quarters, a percentage in whole points.  The     *)
(* code computes in doubles and rounds half a kuruş up; a double may lie   *)
(* on either side of an exact half, so TiesUp says which way such a half   *)
(* goes.  Rounding to whole lira is exact in the code.                     *)
(***************************************************************************)
EXTENDS Integers, Sequences, SequencesExt

CONSTANTS TiesUp,      \* half a kuruş goes up
          VatBase      \* a common multiple of 100 + rate, over the rates in use

ASSUME PricingAssumption == TiesUp \in BOOLEAN /\ VatBase \in Nat \ {0}

NoThreshold == -1      \* zone.freeThreshold = null

Sum(s) == FoldLeft(LAMBDA a, b : a + b, 0, s)

\* a / b kuruş, to the nearest kuruş.
Nearest(a, b) == IF TiesUp THEN (2 * a + b) \div (2 * b)
                           ELSE (2 * a + b - 1) \div (2 * b)

\* a / b kuruş, to the nearest lira.
WholeLira(a, b) == 100 * ((2 * a + 100 * b) \div (200 * b))

LineTotal(line) ==
    IF line.kind = "EXTRA" THEN WholeLira(line.price * line.qty, 4)
                           ELSE Nearest(line.price * line.qty, 4)

Priced(lines) ==
    [i \in DOMAIN lines |-> [kind |-> lines[i].kind, vat |-> lines[i].vat,
                             total |-> LineTotal(lines[i]), discount |-> 0]]

Net(line) == line.total - line.discount

LineVat(line) == Nearest(Net(line) * line.vat, 100 + line.vat)

\* The VAT of an order: the lines' unrounded VAT, summed and rounded once.
VatTotal(lines) ==
    Nearest(Sum([i \in DOMAIN lines |->
                    Net(lines[i]) * lines[i].vat * (VatBase \div (100 + lines[i].vat))]),
            VatBase)

OrderKind(lines, asSubscription) ==
    IF \A i \in DOMAIN lines : lines[i].kind = "PRODUCT" THEN "SINGLE"
    ELSE IF asSubscription THEN "SUBSCRIPTION" ELSE "BOX_ONE_TIME"

PercentOf(amount, pct, rounding) ==
    IF rounding = "tl" THEN WholeLira(amount * pct, 100) ELSE Nearest(amount * pct, 100)

\* The first-boxes discount if it is worth anything, else the offer that kept the member.
BoxDiscount(boxTotal, ctx) ==
    LET first == IF ctx.left > 0 THEN PercentOf(boxTotal, ctx.pct, ctx.rounding) ELSE 0
        kept  == PercentOf(boxTotal, ctx.retention, ctx.rounding)
    IN  CASE first > 0              -> [amount |-> first, kind |-> "FIRST_BOXES"]
          [] first = 0 /\ kept > 0  -> [amount |-> kept, kind |-> "RETENTION"]
          [] first = 0 /\ kept = 0  -> [amount |-> 0, kind |-> "none"]

Shipping(after, kind, ctx) ==
    IF \/ kind = "SUBSCRIPTION"
       \/ ctx.live /\ (kind # "SINGLE" \/ ctx.subscriberFree)
       \/ /\ ctx.threshold # NoThreshold
          /\ IF ctx.rule = "gt" THEN after > ctx.threshold ELSE after >= ctx.threshold
    THEN 0 ELSE ctx.fee

\* The totals of priced and discounted lines.  An empty basket ships nothing.
Totals(lines, kind, ctx) ==
    LET subtotal == Sum([i \in DOMAIN lines |-> lines[i].total])
        discount == Sum([i \in DOMAIN lines |-> lines[i].discount])
        shipping == IF lines = <<>> THEN 0 ELSE Shipping(subtotal - discount, kind, ctx)
    IN  [kind |-> kind, lines |-> lines, subtotal |-> subtotal, discount |-> discount,
         shipping |-> shipping, vat |-> VatTotal(lines),
         grand |-> subtotal - discount + shipping]

\* computeQuote: only the box of a subscription has a discount.
Quote(lines, ctx) ==
    LET kind == OrderKind(lines, ctx.asSubscription)
        discounted == [i \in DOMAIN lines |->
            LET line == Priced(lines)[i]
            IN  IF kind = "SUBSCRIPTION" /\ line.kind = "BOX"
                THEN [line EXCEPT !.discount = BoxDiscount(line.total, ctx).amount]
                ELSE line]
    IN  Totals(discounted, kind, ctx)

\* What of a quote is the first box of a subscription, paid in advance.
Prepaid(quote) ==
    Sum([i \in DOMAIN quote.lines |->
            IF quote.lines[i].kind = "PRODUCT" THEN 0 ELSE Net(quote.lines[i])])

InScope(line, scope) ==
    CASE scope = "SINGLE" -> line.kind = "PRODUCT"
      [] scope = "BOX"    -> line.kind # "PRODUCT"
      [] scope = "ALL"    -> TRUE

Eligible(quote, scope) ==
    {i \in DOMAIN quote.lines : InScope(quote.lines[i], scope) /\ Net(quote.lines[i]) > 0}

ScopeAmount(quote, scope) ==
    Sum([i \in DOMAIN quote.lines |->
            IF InScope(quote.lines[i], scope) THEN Net(quote.lines[i]) ELSE 0])

CouponDiscount(base, coupon, rounding) ==
    IF coupon.kind = "PERCENT" THEN PercentOf(base, coupon.value, rounding)
    ELSE IF coupon.value < base THEN coupon.value ELSE base

\* validate: 0 when the coupon is refused.
CouponAmount(quote, coupon, rounding) ==
    LET base == ScopeAmount(quote, coupon.scope)
    IN  IF quote.subtotal < coupon.min \/ base <= 0 THEN 0
        ELSE CouponDiscount(base, coupon, rounding)

Clamp(x, top) == IF x < 0 THEN 0 ELSE IF x > top THEN top ELSE x

Capacity(quote, scope) == Sum([i \in DOMAIN quote.lines |->
                             IF i \in Eligible(quote, scope) THEN Net(quote.lines[i]) ELSE 0])

Wanted(quote, coupon, rounding) ==
    Clamp(CouponAmount(quote, coupon, rounding), Capacity(quote, coupon.scope))

\* Mutant of Shares: a line's part is measured by its price before its own discount.
SharesOfPrice(quote, scope, wanted) ==
    LET eligible == Eligible(quote, scope)
        Give(given, i) ==
            LET share == IF \E j \in eligible : j > i
                         THEN Nearest(wanted * quote.lines[i].total, quote.subtotal)
                         ELSE wanted - Sum(given)
            IN  Append(given, IF i \in eligible THEN Clamp(share, Net(quote.lines[i])) ELSE 0)
    IN  FoldLeft(Give, <<>>, [i \in DOMAIN quote.lines |-> i])

\* Each line's share of the coupon, in order; the last one takes what is left.
Shares(quote, scope, wanted) ==
    LET capacity == Capacity(quote, scope)
        eligible == Eligible(quote, scope)
        Give(given, i) ==
            LET net == Net(quote.lines[i])
                share == IF \E j \in eligible : j > i
                         THEN Nearest(wanted * net, capacity) ELSE wanted - Sum(given)
            IN  Append(given, IF i \in eligible THEN Clamp(share, net) ELSE 0)
    IN  FoldLeft(Give, <<>>, [i \in DOMAIN quote.lines |-> i])

\* applyCouponToQuote: the prepaid part stays without the coupon.
WithCoupon(quote, coupon, ctx) ==
    LET wanted == Wanted(quote, coupon, ctx.rounding)
        shares == Shares(quote, coupon.scope, wanted)
    IN  IF wanted = 0 THEN quote
        ELSE Totals([i \in DOMAIN quote.lines |->
                        [quote.lines[i] EXCEPT !.discount = @ + shares[i]]], quote.kind, ctx)

\* computeCycleCharge: the bill of one box when its day is locked.
CycleCharge(box, extras, oneTime, prepaid, ctx) ==
    LET extrasTotal == Sum([i \in DOMAIN extras |-> WholeLira(extras[i].price * extras[i].qty, 4)])
        discount == IF oneTime THEN [amount |-> 0, kind |-> "none"] ELSE BoxDiscount(box, ctx)
        after == box + extrasTotal - discount.amount
        shipping == Shipping(after, IF oneTime THEN "BOX_ONE_TIME" ELSE "SUBSCRIPTION",
                             [ctx EXCEPT !.live = ~oneTime])
    IN  [box |-> box, extras |-> extrasTotal, discount |-> discount.amount,
         discountKind |-> discount.kind, shipping |-> shipping,
         total |-> after + shipping, due |-> after + shipping - prepaid]
=============================================================================
