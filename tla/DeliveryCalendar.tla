-------------------------- MODULE DeliveryCalendar --------------------------
(***************************************************************************)
(* The delivery dates of one zone and the boxes of one weekly subscription *)
(* on them (cutoff.ts, delivery.service.ts, delivery-dates.service.ts, and *)
(* the jobs of cycles.service.ts).  A date's row keeps the cutoff that was *)
(* computed when it was made; the Setting may say something else since.    *)
(*                                                                         *)
(* Dates are counted from today, so that a run of the clock never ends:    *)
(* at midnight every date comes one closer.  A row holds the rule its      *)
(* cutoff was computed with.  The hourly jobs run once in each tick.       *)
(***************************************************************************)
EXTENDS Integers, FiniteSets, FiniteSetsExt

CONSTANTS PerDay,       \* ticks of a day
          DefaultRule,  \* Setting commerce.cutoff at the start: days before, tick of that day
          Rules,        \* the rules an admin may set
          DeliveryDays, \* Setting commerce.deliveryDays at the start, 0 for Sunday
          DayChoices,   \* the delivery days an admin may set
          BoxDay,       \* the subscription's delivery day
          Horizon       \* Setting commerce.deliveryDatesHorizonWeeks

ASSUME DeliveryCalendarAssumption ==
    /\ {PerDay, Horizon} \subseteq Nat \ {0}
    /\ Rules \cup {DefaultRule} \subseteq [days : 0..7, tick : 0..(PerDay - 1)]
    /\ DayChoices \cup {DeliveryDays} \subseteq SUBSET (0..6)
    /\ BoxDay \in DeliveryDays

VARIABLES clock,    \* tick of the week
          rule, days,
          dates,    \* row of each date from today on
          boxes,    \* box of each date from today on
          last,     \* date of the subscription's last box; a week back at most
          due,      \* jobs that have not run in this tick
          night,    \* rule and days when delivery-dates:generate last ran
          answer    \* of nextFor, if it was just asked
vars == <<clock, rule, days, dates, boxes, last, due, night, answer>>

Offsets == 0..(7 * Horizon + 7)
NoRow == [days |-> -1, tick |-> 0]
NoBox == [status |-> "none", early |-> FALSE, reminded |-> FALSE]
Jobs == {"generate", "ensure", "remind", "lock"}

Now == clock % PerDay
Weekday == clock \div PerDay
WeekdayOf(o) == (Weekday + o) % 7
Lead == PerDay     \* CUTOFF_REMINDER_HOURS_BEFORE

\* computeCutoffAt, in ticks from the start of today.
CutoffAt(o, r) == (o - r.days) * PerDay + r.tick

Passed(o, r) == CutoffAt(o, r) <= Now

OpenSlots(day, weeks) ==
    {o \in 0..(7 * weeks - 1) : WeekdayOf(o) = day /\ ~Passed(o, rule)}

\* Mutant: locked dates are among the slots.
NextOpenAny(day) == Min({o \in 0..13 : WeekdayOf(o) = day})

\* nextDeliveryDateFor: the next open date of a weekday, -1 for none.
NextOpen(day) ==
    LET open == OpenSlots(day, 2) IN IF open = {} THEN -1 ELSE Min(open)

\* lockedDeliveryDays: the days whose next date is past its cutoff.
LockedDays == {d \in days : Passed((d - Weekday + 7) % 7, rule)}

\* cart.js without dates from the server.
LegacyLockedDays ==
    {d \in {2, 4, 6} : Weekday = d \/ (Weekday = d - 1 /\ 2 * Now >= PerDay)}

Init ==
    /\ clock = 0 /\ rule = DefaultRule /\ days = DeliveryDays
    /\ dates = [o \in Offsets |-> IF o < 7 * Horizon /\ WeekdayOf(o) \in days THEN rule ELSE NoRow]
    /\ boxes = [o \in Offsets |-> NoBox]
    /\ last = BoxDay - 7
    /\ due = Jobs /\ answer = "none"
    /\ night = [rule |-> rule, days |-> days]

\* Half a day passes, once the jobs have run.
Tick ==
    /\ due = {}
    /\ clock' = (clock + 1) % (7 * PerDay)
    /\ IF Now = PerDay - 1
       THEN /\ dates' = [o \in Offsets |-> IF o + 1 \in Offsets THEN dates[o + 1] ELSE NoRow]
            /\ boxes' = [o \in Offsets |-> IF o + 1 \in Offsets THEN boxes[o + 1] ELSE NoBox]
            /\ last' = IF last = -7 THEN -1 ELSE last - 1
            /\ due' = Jobs
       ELSE /\ due' = Jobs \ {"generate"}
            /\ UNCHANGED <<dates, boxes, last>>
    /\ answer' = "none"
    /\ UNCHANGED <<rule, days, night>>

Waiting(o) == boxes[o].status = "SCHEDULED"
\* More than the lead is left until the cutoff when it is set.
Early(o, r) == r # NoRow /\ CutoffAt(o, r) > Now + Lead

Runs(job) == job \in due /\ due' = due \ {job} /\ answer' = "none"

\* Mutant: rows that exist keep the cutoff they have.
GenerateNewOnly ==
    /\ Runs("generate")
    /\ dates' = [o \in Offsets |-> IF o < 7 * Horizon /\ WeekdayOf(o) \in days /\ dates[o] = NoRow
                                   THEN rule ELSE dates[o]]
    /\ night' = [rule |-> rule, days |-> days]
    /\ UNCHANGED <<clock, rule, days, boxes, last>>
\* delivery-dates:generate: new rows, and fresh cutoffs for those that exist.
Generate ==
    /\ Runs("generate")
    /\ dates' = [o \in Offsets |-> IF o < 7 * Horizon /\ WeekdayOf(o) \in days
                                   THEN rule ELSE dates[o]]
    /\ boxes' = [o \in Offsets |-> IF Waiting(o) /\ dates'[o] # dates[o] /\ ~boxes[o].reminded
                                   THEN [boxes[o] EXCEPT !.early = Early(o, dates'[o])] ELSE boxes[o]]
    /\ night' = [rule |-> rule, days |-> days]
    /\ UNCHANGED <<clock, rule, days, last>>

\* findOrCreateFor: the row there is, else one by the rule of today; none on
\* a day without delivery.
Row(o) == IF dates[o] # NoRow THEN dates[o]
          ELSE IF WeekdayOf(o) \in days THEN rule ELSE NoRow

\* Mutant: the box is made on next week's date, be it past its cutoff.
TargetNextWeek == last + 7
\* The next week whose cutoff, by the rule of today, is still ahead.
Target == Min({o \in Offsets : o > last /\ (o - last) % 7 = 0 /\ ~Passed(o, rule)} \cup {Max(Offsets) + 1})

NewBox(o) == [status |-> "SCHEDULED", early |-> Early(o, Row(o)), reminded |-> FALSE]

\* cycles:ensure makes the next box within the horizon.
Ensure ==
    /\ Runs("ensure")
    /\ IF Target <= 7 * Horizon /\ Row(Target) # NoRow
       THEN /\ dates' = [dates EXCEPT ![Target] = Row(Target)]
            /\ boxes' = [boxes EXCEPT ![Target] = NewBox(Target)]
            /\ last' = Target
       ELSE UNCHANGED <<dates, boxes, last>>
    /\ UNCHANGED <<clock, rule, days, night>>

\* The week's box contents are not published yet: no box.
NoTemplate ==
    /\ Runs("ensure")
    /\ UNCHANGED <<clock, rule, days, dates, boxes, last, night>>

\* reminders:cutoff: the boxes whose cutoff is a day ahead, one run's width.
Remind ==
    /\ Runs("remind")
    /\ boxes' = [o \in Offsets |->
            IF Waiting(o) /\ CutoffAt(o, dates[o]) > Now + Lead - 1 /\ CutoffAt(o, dates[o]) <= Now + Lead
            THEN [boxes[o] EXCEPT !.reminded = TRUE] ELSE boxes[o]]
    /\ UNCHANGED <<clock, rule, days, dates, last, night>>

\* cycles:lock-and-charge.
Lock ==
    /\ Runs("lock")
    /\ boxes' = [o \in Offsets |-> IF Waiting(o) /\ Passed(o, dates[o])
                                   THEN [boxes[o] EXCEPT !.status = "LOCKED"] ELSE boxes[o]]
    /\ UNCHANGED <<clock, rule, days, dates, last, night>>

SetRule(r) ==
    /\ rule' = r /\ answer' = "none"
    /\ UNCHANGED <<clock, days, dates, boxes, last, due, night>>

SetDays(s) ==
    /\ days' = s /\ answer' = "none"
    /\ UNCHANGED <<clock, rule, dates, boxes, last, due, night>>

\* nextFor, asked for a new subscription by the manual checkout.
Ask(day) ==
    /\ LET o == NextOpen(day)
       IN  IF o = -1 THEN answer' = "not found" /\ UNCHANGED dates
           ELSE /\ dates' = [dates EXCEPT ![o] = Row(o)]
                /\ answer' = IF Passed(o, Row(o)) THEN "locked" ELSE "open"
    /\ UNCHANGED <<clock, rule, days, boxes, last, due, night>>

Next ==
    \/ Tick \/ Generate \/ Ensure \/ NoTemplate \/ Remind \/ Lock
    \/ \E r \in Rules \ {rule} : SetRule(r)
    \/ \E s \in DayChoices \ {days} : SetDays(s)
    \/ \E day \in days : Ask(day)

Spec == Init /\ [][Next]_vars

-----------------------------------------------------------------------------
\* The variables have their types, and every box is on a date with a row.
TypeOK ==
    /\ clock \in 0..(7 * PerDay - 1)
    /\ rule \in Rules \cup {DefaultRule} /\ days \in DayChoices \cup {DeliveryDays}
    /\ dates \in [Offsets -> Rules \cup {DefaultRule, NoRow}]
    /\ boxes \in [Offsets -> [status : {"none", "SCHEDULED", "LOCKED"}, early : BOOLEAN, reminded : BOOLEAN]]
    /\ night \in [rule : Rules \cup {DefaultRule}, days : DayChoices \cup {DeliveryDays}]
    /\ last \in -7..(7 * Horizon) /\ due \subseteq Jobs
    /\ answer \in {"none", "open", "locked", "not found"}
    /\ \A o \in Offsets : boxes[o].status # "none" => dates[o] # NoRow

\* The settings are what they were when delivery-dates:generate last ran.
Settled == rule = night.rule /\ days = night.days

\* With settled settings a box is made only on a date whose orders are not
\* closed by its row, whatever the settings were in between (ensure).
BornOpen ==
    [][\A o \in Offsets : Settled /\ WeekdayOf(o) \in days /\ boxes[o].status # boxes'[o].status
                           /\ due' = due \ {"ensure"} => ~Passed(o, dates'[o])]_vars

\* Who had a box more than a day before its cutoff, as that was last set, was
\* reminded before it was locked (remindCutoffs, lockAndCharge).
RemindedInTime ==
    \A o \in Offsets : boxes[o].status = "LOCKED" /\ boxes[o].early => boxes[o].reminded

\* With settled settings what nextFor gives is a date that can still be
\* ordered for: its row agrees with the rule it was found by.
NextIsOpen == Settled => answer # "locked"

\* There always is an open date within two weeks (nextDeliveryDateFor).
AnOpenDate == \A d \in days : NextOpen(d) # -1

\* With the settings of the start the server locks the days the shop's own
\* table locks, so at most one at a time (lockedDeliveryDays,
\* legacyLockedDeliveryDay).
ShopAgrees == rule = DefaultRule /\ days = DeliveryDays => LockedDays = LegacyLockedDays /\ Cardinality(LockedDays) <= 1

\* On the day of delivery every box of the day has been locked, however the
\* rule was changed before (lockAndCharge).
BoxesCutInTime == boxes[0].status # "SCHEDULED"

\* Every date of the horizon is cut by the rule of the last night, whatever
\* rows were there before or were made since (generateDates, findOrCreateFor).
DatesFollowNight ==
    "generate" \notin due =>
        \A o \in 0..(7 * Horizon - 1) :
            WeekdayOf(o) \in night.days => dates[o] = night.rule

\* What the nightly job, the engine and the reminder job promise a box that is planned.
CalendarKept == TypeOK /\ DatesFollowNight /\ BoxesCutInTime /\ RemindedInTime

\* What the shop and the desk offer a customer who asks for a date.
DatesOnOffer == NextIsOpen /\ AnOpenDate /\ ShopAgrees
=============================================================================
