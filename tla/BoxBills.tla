------------------------------ MODULE BoxBills ------------------------------
(***************************************************************************)
(* The bills of one subscription.  A basket is filled and quoted (Quotes); *)
(* its checkout pays the first box, which is edited until its day is       *)
(* locked and billed again then, less what was prepaid; each later box is  *)
(* billed at its lock.  Two rights to a discount are spent along the way:  *)
(* the first-boxes counter, and the one offer that kept the member.  How a *)
(* charge goes through is CycleEngine's subject; here it succeeds or fails *)
(* for good.                                                               *)
(***************************************************************************)
EXTENDS Quotes

CONSTANTS TierPrices,    \* the prices an admin gives the box size
          Boxes,         \* Setting firstBoxDiscount.boxes
          Pct,           \* Setting firstBoxDiscount.pct
          RetentionPct,  \* Setting retentionOffer.pct
          LastBox        \* bound: boxes of the subscription

ASSUME BoxBillsAssumption ==
    /\ LastBox \in Nat \ {0} /\ Boxes \in Nat
    /\ {Pct, RetentionPct} \subseteq 1..100 /\ TierPrices \subseteq Nat

VARIABLES tierPrice, pct,
          sub,          \* status, left (discountBoxesLeft), retention (nextBoxDiscountPct), offered
          bill,         \* per box: status, extras, prepaid, extrasTotal, total, due, kind
          paid          \* the checkout order's BOX price and EXTRA lines
billVars == <<tierPrice, pct, sub, bill, paid>>
purchaseVars == <<quoteVars, billVars>>

Numbers == 1..LastBox
\* The settings are those of the checkout, but for the percentage.
Ctx(left, retention) == [ctx EXCEPT !.left = left, !.retention = retention, !.pct = pct]
Worth(xs) == MapThenSumSet(LineTotal, xs)

Blank == [status |-> "none", extras |-> {}, prepaid |-> 0, extrasTotal |-> 0, total |-> 0,
          due |-> 0, kind |-> "none"]

BillsInit ==
    /\ QuoteInit
    /\ tierPrice \in TierPrices /\ pct = Pct
    /\ sub = [status |-> "none", left |-> 0, retention |-> 0, offered |-> FALSE]
    /\ bill = [n \in Numbers |-> Blank]
    /\ paid = [box |-> 0, extras |-> {}]

\* The basket is quoted until it is ordered.
Browse == sub.status = "none" /\ QuoteNext /\ UNCHANGED billVars

\* A new member's basket, with the box at its price of today.
Orderable ==
    /\ sub.status = "none" /\ base.kind = "SUBSCRIPTION"
    /\ \E i \in DOMAIN basket : basket[i].kind = "BOX" /\ basket[i].price = tierPrice
    /\ ~ctx.live /\ ctx.left = Boxes /\ ctx.retention = 0 /\ ctx.pct = pct

Subscribe(prepaid) ==
    LET xs == ToSet(basket) \cap ExtraGoods
    IN  /\ bill' = [bill EXCEPT ![1] = [Blank EXCEPT !.status = "SCHEDULED", !.extras = xs,
                                    !.prepaid = prepaid,
                                    !.kind = BoxDiscount(tierPrice, ctx).kind]]
        /\ paid' = [box |-> tierPrice, extras |-> xs]
    /\ sub' = [sub EXCEPT !.status = "PENDING", !.left = Boxes]
    /\ basket' = <<>> /\ coupon' = NoCoupon /\ Reprice
    /\ UNCHANGED <<ctx, tierPrice, pct>>

\* Mutant: the prepaid amount forgets the discount.
CheckoutFullPrice == Orderable /\ Subscribe(Prepaid(base) + base.discount)
\* Checkout: the first box, with the discount of the quote, and its cycle;
\* the basket is empty afterwards.
Checkout == Orderable /\ Subscribe(Prepaid(base))

\* activate: the first box's discount is spent, the following boxes are planned.
Activate ==
    /\ sub.status = "PENDING"
    /\ sub' = [sub EXCEPT !.status = "ACTIVE", !.left = IF @ > 0 THEN @ - 1 ELSE 0]
    /\ bill' = [n \in Numbers |-> IF n = 1 THEN bill[1] ELSE [Blank EXCEPT !.status = "SCHEDULED"]]
    /\ UNCHANGED <<tierPrice, pct, paid>>

\* patchCurrentCycle (extras) and mergeCart, before the box is locked.
EditExtras(n, xs) ==
    /\ sub.status = "ACTIVE" /\ bill[n].status = "SCHEDULED"
    /\ bill' = [bill EXCEPT ![n].extras = xs]
    /\ UNCHANGED <<tierPrice, pct, sub, paid>>

\* The member begins to cancel, is offered a discount and stays (once).
AcceptOffer ==
    /\ sub.status = "ACTIVE" /\ ~sub.offered
    /\ sub' = [sub EXCEPT !.retention = RetentionPct, !.offered = TRUE]
    /\ UNCHANGED <<tierPrice, pct, bill, paid>>

SetTierPrice(p) ==
    /\ sub.status # "none"
    /\ tierPrice' = p
    /\ UNCHANGED <<pct, sub, bill, paid>>

EndPromo ==
    /\ sub.status = "ACTIVE"
    /\ pct' = 0
    /\ UNCHANGED <<tierPrice, sub, bill, paid>>

\* Mutant of RightsSpent: the offer is spent before the counter.
RightsSpentOfferFirst(n, b) ==
    IF n = 1 \/ b.kind = "none" THEN sub
    ELSE IF sub.retention > 0 THEN [sub EXCEPT !.retention = 0]
    ELSE [sub EXCEPT !.left = @ - 1]

\* markCharged: a later box spends the right its discount came from; which
\* one is told from the counter, not from the bill.
RightsSpent(n, b) ==
    IF n = 1 \/ b.kind = "none" THEN sub
    ELSE IF sub.left > 0 THEN [sub EXCEPT !.left = @ - 1]
    ELSE [sub EXCEPT !.retention = 0]

\* lockPhaseA: the bill at the price of the day; nothing due means charged.
Lock(n) ==
    /\ sub.status = "ACTIVE" /\ bill[n].status = "SCHEDULED"
    /\ \A m \in 1..(n - 1) : bill[m].status \in {"CHARGED", "SKIPPED"}
    /\ LET q == CycleCharge(tierPrice, SetToSeq(bill[n].extras), FALSE, bill[n].prepaid,
                            Ctx(sub.left, sub.retention))
           b == [bill[n] EXCEPT !.status = IF q.due <= 0 THEN "CHARGED" ELSE "LOCKED",
                                !.extrasTotal = q.extras, !.total = q.total, !.due = q.due,
                                !.kind = IF n = 1 THEN @ ELSE q.discountKind]
       IN  /\ bill' = [bill EXCEPT ![n] = b]
           /\ sub' = IF q.due <= 0 THEN RightsSpent(n, b) ELSE sub
    /\ UNCHANGED <<tierPrice, pct, paid>>

Collect(n) ==
    /\ bill[n].status = "LOCKED"
    /\ bill' = [bill EXCEPT ![n].status = "CHARGED"]
    /\ sub' = RightsSpent(n, bill[n])
    /\ UNCHANGED <<tierPrice, pct, paid>>

\* markFailed for the first box: the extras leave the box, which is paid.
DropDelta ==
    /\ bill[1].status = "LOCKED"
    /\ bill' = [bill EXCEPT ![1].status = "CHARGED", ![1].extras = {}, ![1].extrasTotal = 0,
                            ![1].total = @ - bill[1].extrasTotal]
    /\ UNCHANGED <<tierPrice, pct, sub, paid>>

\* A later box that stays unpaid is skipped.
SkipUnpaid(n) ==
    /\ n > 1 /\ bill[n].status = "LOCKED"
    /\ bill' = [bill EXCEPT ![n].status = "SKIPPED"]
    /\ UNCHANGED <<tierPrice, pct, sub, paid>>

Live ==
    \/ Activate \/ AcceptOffer \/ EndPromo \/ DropDelta
    \/ \E p \in TierPrices : SetTierPrice(p)
    \/ \E n \in Numbers : Lock(n) \/ Collect(n) \/ SkipUnpaid(n)
    \/ \E n \in Numbers, xs \in SUBSET ExtraGoods : EditExtras(n, xs)

BillsNext == Browse \/ Checkout \/ (Live /\ UNCHANGED quoteVars)

BillsSpec == BillsInit /\ [][BillsNext]_purchaseVars

-----------------------------------------------------------------------------
\* The right of the first boxes is worth something on every price of the box,
\* and no right is worth more than the box.
PricesFit ==
    \A p \in TierPrices, r \in {"kurus", "tl"} :
        PercentOf(p, Pct, r) \in 1..p /\ PercentOf(p, RetentionPct, r) <= p

\* The order of the first box's extra charge (createDeltaForCycle): the
\* extras that are not on the checkout order, or all of them when there are
\* none; what the lines are worth above the amount due is a discount.
DeltaOrder ==
    LET new == bill[1].extras \ paid.extras
        lines == IF new = {} THEN bill[1].extras ELSE new
        subtotal == Worth(lines)
    IN  [lines |-> lines, subtotal |-> subtotal, grand |-> bill[1].due,
         discount |-> IF subtotal > bill[1].due THEN subtotal - bill[1].due ELSE 0]

\* The variables have their types, and no bill is negative.
BillsTypeOK ==
    /\ QuoteTypeOK
    /\ tierPrice \in TierPrices /\ pct \in {0, Pct}
    /\ sub.status \in {"none", "PENDING", "ACTIVE"} /\ sub.left \in 0..Boxes
    /\ sub.retention \in {0, RetentionPct}
    /\ paid.extras \subseteq ExtraGoods /\ paid.box \in TierPrices \cup {0}
    /\ \A n \in Numbers :
          /\ bill[n].status \in {"none", "SCHEDULED", "LOCKED", "CHARGED", "SKIPPED"}
          /\ bill[n].extras \subseteq ExtraGoods
          /\ bill[n].total \in Nat /\ bill[n].prepaid \in Nat /\ bill[n].due \in Int
          /\ n = 1 => bill[n].status # "SKIPPED"

\* The box costs at its lock what it cost at the checkout.
SamePrice == tierPrice = paid.box /\ pct = Pct
FirstLock == bill[1].status = "SCHEDULED" /\ bill'[1].status \in {"LOCKED", "CHARGED"}

DueOfLock == FirstLock /\ SamePrice => bill'[1].due = Worth(bill[1].extras) - Worth(paid.extras)
OrderOfLock ==
    FirstLock /\ SamePrice /\ bill'[1].status = "LOCKED"
        => (DeltaOrder.subtotal - DeltaOrder.discount = DeltaOrder.grand)'

\* What is due when the first box is locked is the difference of its extras
\* to those paid at the checkout, and nothing else (computeCycleCharge): the
\* box itself was paid for, and neither the right the activation spent nor an
\* offer taken meanwhile changes its price while the box has a right left.
DueIsDelta == [][DueOfLock]_purchaseVars

\* The lines of that extra charge's order, less its discount, come to the
\* amount that is collected (createDeltaForCycle).
DeltaAddsUp == [][OrderOfLock]_purchaseVars

Discounted(kind) == {n \in Numbers : bill[n].status = "CHARGED" /\ bill[n].kind = kind}

\* As long as the promotion runs, every right to a discount is spent by
\* exactly the boxes it paid for: the counter goes down by the boxes that had
\* the first-boxes discount (the first box from the day it is paid), and the
\* offer is gone once, and only when, a box had it (activate, markCharged).
RightsSpentOnce ==
    sub.status = "ACTIVE" /\ pct = Pct =>
        /\ Boxes > 0 => sub.left + Cardinality(Discounted("FIRST_BOXES") \cup {1}) = Boxes
        /\ Boxes = 0 => sub.left = 0
        /\ sub.offered => (sub.retention = 0 <=> Discounted("RETENTION") # {})
        /\ Cardinality(Discounted("RETENTION")) <= 1

\* Whatever an admin changes meanwhile, never more boxes have the first-boxes
\* discount than the subscription was granted.
PromoWithinGrant ==
    Boxes > 0 => Cardinality(Discounted("FIRST_BOXES") \cup {1}) <= Boxes

\* A quote adds up: its lines, its coupon, its VAT, and its first box with the engine's bill
\* (computeQuote, applyCouponToQuote, computeCycleCharge).
QuoteAddsUp == QuoteTypeOK /\ LinesKeepTheirPrice /\ SharesAreFair /\ VatAddsUp /\ CheckoutAndEngineAgree

\* The rights to a discount are spent exactly and never exceed what was granted.
RightsKept == BillsTypeOK /\ RightsSpentOnce /\ PromoWithinGrant

\* The extra charge of the first box: the difference of the extras, and an order that adds up to it.
ExtraCharge == DueIsDelta /\ DeltaAddsUp
=============================================================================
