------------------------- MODULE MCDeliveryCalendar -------------------------
\* Days of two ticks, midnight and noon; the rules lock the day before, or two days before, at noon.
EXTENDS DeliveryCalendar
DayBefore  == [days |-> 1, tick |-> 1]
TwoBefore  == [days |-> 2, tick |-> 1]
TwoRules   == {DayBefore, TwoBefore}
Usual      == {2, 4, 6}
TwoChoices == {Usual, {4, 6}}
=============================================================================
