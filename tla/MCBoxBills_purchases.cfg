SPECIFICATION BillsSpec
CONSTANTS
    TiesUp = TRUE
    VatBase = 12120
    Goods <- SomeGoods
    Coupons <- SomeCoupons
    Contexts <- SomeContexts
    MaxLines = 4
    TierPrices <- TwoPrices
    Boxes = 2
    Pct = 50
    RetentionPct = 40
    LastBox = 3
INVARIANTS
  QuoteAddsUp
  
PROPERTIES
  ExtraCharge
CHECK_DEADLOCK FALSE
