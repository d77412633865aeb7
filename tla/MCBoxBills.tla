------------------------------ MODULE MCBoxBills ------------------------------
(* Baskets and boxes: prices with odd kuruş, two VAT rates.                  *)
EXTENDS BoxBills

Line(kind, price, qty, vat) == [kind |-> kind, price |-> price, qty |-> qty, vat |-> vat]
Box     == Line("BOX", 6490, 4, 1)
Honey   == Line("EXTRA", 1275, 2, 1)       \* half a unit: 6,375 lira, sold for 6
Soap    == Line("PRODUCT", 1999, 4, 20)
Lemon   == Line("PRODUCT", 335, 12, 1)
Almonds == Line("EXTRA", 990, 4, 1)
SomeGoods == {Box, Honey, Almonds, Soap, Lemon}

Coupon(scope, kind, value, min) == [scope |-> scope, kind |-> kind, value |-> value, min |-> min]
SomeCoupons == {Coupon("ALL", "PERCENT", 15, 0), Coupon("SINGLE", "AMOUNT", 2500, 0),
                Coupon("BOX", "PERCENT", 33, 7000), Coupon("ALL", "PERCENT", 100, 0)}

Settings(asSub, live, left, retention, rounding, rule) ==
    [asSubscription |-> asSub, live |-> live, left |-> left, retention |-> retention,
     pct |-> 50, rounding |-> rounding, rule |-> rule, subscriberFree |-> FALSE,
     fee |-> 490, threshold |-> 8000]
SomeContexts ==
    {Settings(TRUE, FALSE, 2, 0, "kurus", "gte"), Settings(TRUE, FALSE, 0, 50, "tl", "gte"),
     Settings(FALSE, FALSE, 2, 50, "kurus", "gt"), Settings(FALSE, TRUE, 0, 0, "tl", "gt"),
     [Settings(FALSE, FALSE, 0, 0, "tl", "gte") EXCEPT !.threshold = NoThreshold]}
TwoPrices == {6490, 7490}

ASSUME DiscountsFit /\ PricesFit
=============================================================================
