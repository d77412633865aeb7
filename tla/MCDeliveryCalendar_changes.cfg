SPECIFICATION Spec
CONSTANTS
    PerDay = 2
    DefaultRule <- DayBefore
    Rules <- TwoRules
    DeliveryDays <- Usual
    DayChoices <- TwoChoices
    BoxDay = 2
    Horizon = 2
INVARIANTS
  CalendarKept
  DatesOnOffer
PROPERTIES
  BornOpen
