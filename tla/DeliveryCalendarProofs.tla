------------------------ MODULE DeliveryCalendarProofs ------------------------
(***************************************************************************)
(* What holds of a zone's dates for any horizon, days, rules and length of *)
(* a tick: rows follow the last night, no box goes out that was not        *)
(* locked, who had time for a reminder got one, and what is offered can    *)
(* still be ordered for.  Days are turned into comparisons of dates first  *)
(* (PassedIs), after which everything is linear.                           *)
(***************************************************************************)
EXTENDS DeliveryCalendar, FiniteSetTheorems, WellFoundedInduction, TLAPS

Zone == Rules \cup {DefaultRule}
Box == [status : {"none", "SCHEDULED", "LOCKED"}, early : BOOLEAN, reminded : BOOLEAN]

\* Orders close before the day of delivery, and not a whole week before.
BeforeTheDay == \A r \in Zone : r.days >= 1
WithinAWeek == \A r \in Zone : r.days <= 6

-----------------------------------------------------------------------------
(* Dates and ticks *)

LEMMA DivMod ==
  ASSUME NEW p \in Nat, p > 0, NEW k \in Nat
  PROVE  /\ k \div p \in Nat /\ k % p \in 0..(p - 1)
         /\ k = p * (k \div p) + (k % p)
<1>1. k % p \in 0..(p - 1)
  OBVIOUS
<1>2. k = p * (k \div p) + (k % p)
  BY SMTT(30)
<1>3. k \div p \in Nat
  BY SMTT(30)
<1>. QED BY <1>1, <1>2, <1>3

LEMMA DivModIs ==
  ASSUME NEW p \in Nat, p > 0, NEW q \in Nat, NEW r \in Nat, r < p
  PROVE  (p * q + r) \div p = q /\ (p * q + r) % p = r
<1>1. (p * q + r) \div p = q
  BY SMTT(30)
<1>2. (p * q + r) % p = r
  BY SMTT(30)
<1>. QED BY <1>1, <1>2

LEMMA Constants ==
  /\ PerDay \in Nat \ {0} /\ Horizon \in Nat \ {0}
  /\ \A r \in Zone : r.days \in 0..7 /\ r.tick \in 0..(PerDay - 1) /\ r # NoRow
  /\ \A s \in DayChoices \cup {DeliveryDays} : s \subseteq 0..6
  /\ DefaultRule \in Zone /\ BoxDay \in 0..6
  /\ Offsets = 0..(7 * Horizon + 7) /\ 0 \in Offsets /\ 1 \in Offsets
BY DeliveryCalendarAssumption DEF Zone, NoRow, Offsets

LEMMA ClockIs ==
  ASSUME clock \in 0..(7 * PerDay - 1)
  PROVE  Now \in 0..(PerDay - 1) /\ Weekday \in 0..6 /\ clock = PerDay * Weekday + Now
<1>1. Weekday \in Nat /\ Now \in 0..(PerDay - 1) /\ clock = PerDay * Weekday + Now
  BY Constants, DivMod DEF Now, Weekday
<1>2. ~(Weekday >= 7)
  <2>1. Weekday >= 7 => PerDay * Weekday >= 7 * PerDay
    BY <1>1, Constants
  <2>. QED BY <1>1, <2>1, Constants
<1>. QED BY <1>1, <1>2

\* A tick within the day, and the one over midnight.
LEMMA ClockTicks ==
  ASSUME clock \in 0..(7 * PerDay - 1), clock' = (clock + 1) % (7 * PerDay)
  PROVE  /\ clock' \in 0..(7 * PerDay - 1)
         /\ Now # PerDay - 1 => Now' = Now + 1 /\ Weekday' = Weekday
         /\ Now = PerDay - 1 => Now' = 0 /\ Weekday' = (Weekday + 1) % 7
<1>1. Now \in 0..(PerDay - 1) /\ Weekday \in 0..6 /\ clock = PerDay * Weekday + Now
  BY ClockIs
<1>. DEFINE w == Weekday
            n == Now
<1>. HIDE DEF w, n
<1>2. n \in 0..(PerDay - 1) /\ w \in 0..6 /\ clock = PerDay * w + n /\ PerDay \in Nat \ {0}
  BY <1>1, Constants DEF w, n
<1>3. clock' = IF clock + 1 = 7 * PerDay THEN 0 ELSE clock + 1
  <2>1. 7 * PerDay \in Nat /\ 7 * PerDay > 0 /\ clock + 1 \in Nat /\ clock + 1 <= 7 * PerDay
    BY <1>2
  <2>2. CASE clock + 1 = 7 * PerDay
    <3>1. ((7 * PerDay) * 1 + 0) % (7 * PerDay) = 0
      BY <2>1, DivModIs
    <3>2. clock + 1 = (7 * PerDay) * 1 + 0
      BY <2>1, <2>2
    <3>. QED BY <2>2, <3>1, <3>2
  <2>3. CASE clock + 1 # 7 * PerDay
    <3>1. ((7 * PerDay) * 0 + (clock + 1)) % (7 * PerDay) = clock + 1
      BY <2>1, <2>3, DivModIs
    <3>2. clock + 1 = (7 * PerDay) * 0 + (clock + 1)
      BY <2>1
    <3>. QED BY <2>3, <3>1, <3>2
  <2>. QED BY <2>2, <2>3
<1>4. clock' \in 0..(7 * PerDay - 1)
  BY <1>2, <1>3
<1>5. CASE n # PerDay - 1
  <2>1. PerDay * w <= 6 * PerDay
    BY <1>2
  <2>2. clock' = PerDay * w + (n + 1) /\ n + 1 \in 0..(PerDay - 1)
    BY <1>2, <1>3, <1>5, <2>1
  <2>3. /\ (PerDay * w + (n + 1)) \div PerDay = w
        /\ (PerDay * w + (n + 1)) % PerDay = n + 1
    BY <1>2, <2>2, DivModIs
  <2>4. clock' \div PerDay = w /\ clock' % PerDay = n + 1
    BY <2>2, <2>3
  <2>. QED BY <1>4, <1>5, <2>4 DEF w, n, Now, Weekday
<1>6. CASE n = PerDay - 1
  <2>. DEFINE v == IF w = 6 THEN 0 ELSE w + 1
  <2>1. v \in Nat /\ v = (w + 1) % 7
    BY <1>2
  <2>2. clock' = PerDay * v + 0
    <3>1. CASE w = 6
      BY <1>2, <1>3, <1>6, <3>1
    <3>2. CASE w # 6
      <4>1. PerDay * (w + 1) = PerDay * w + PerDay /\ PerDay * (w + 1) <= PerDay * 6
        BY <1>2, <3>2
      <4>. QED BY <1>2, <1>3, <1>6, <3>2, <4>1
    <3>. QED BY <3>1, <3>2
  <2>. HIDE DEF v
  <2>3. (PerDay * v + 0) \div PerDay = v /\ (PerDay * v + 0) % PerDay = 0
    BY <1>2, <2>1, DivModIs
  <2>4. clock' \div PerDay = v /\ clock' % PerDay = 0
    BY <2>2, <2>3
  <2>. QED BY <1>4, <1>6, <2>1, <2>4 DEF w, n, Now, Weekday
<1>. QED BY <1>4, <1>5, <1>6 DEF n

\* A cutoff is past when its day is, or its tick on that day.
LEMMA CutoffIs ==
  ASSUME NEW o \in Int, NEW r \in Zone, NEW n \in 0..(PerDay - 1)
  PROVE  /\ CutoffAt(o, r) <= n <=> o < r.days \/ (o = r.days /\ r.tick <= n)
         /\ CutoffAt(o, r) = n <=> o = r.days /\ r.tick = n
         /\ CutoffAt(o, r) - PerDay = CutoffAt(o - 1, r) /\ CutoffAt(o, r) \in Int
<1>. DEFINE k == o - r.days
            t == r.tick
            p == PerDay
<1>1. p \in Nat \ {0} /\ t \in 0..(p - 1) /\ r.days \in 0..7 /\ k \in Int /\ n \in 0..(p - 1)
  BY Constants
<1>2. CutoffAt(o, r) = k * p + t /\ CutoffAt(o - 1, r) = (o - 1 - r.days) * p + t
  BY DEF CutoffAt
<1>3. (o - 1 - r.days) * p = k * p - p
  BY <1>1
<1>. HIDE DEF k, t, p
<1>4. k >= 1 => k * p >= p
  BY <1>1
<1>5. k <= -1 => k * p <= -p
  BY <1>1
<1>6. k = 0 => k * p = 0
  BY <1>1
<1>7. k * p \in Int
  BY <1>1
<1>8. /\ k * p + t <= n <=> k < 0 \/ (k = 0 /\ t <= n)
      /\ k * p + t = n <=> k = 0 /\ t = n
  BY <1>1, <1>4, <1>5, <1>6, <1>7
<1>9. (k < 0 <=> o < r.days) /\ (k = 0 <=> o = r.days)
  BY <1>1 DEF k
<1>. QED BY <1>1, <1>2, <1>3, <1>7, <1>8, <1>9 DEF t, p

LEMMA PassedIs ==
  ASSUME NEW o \in Int, NEW r \in Zone, Now \in 0..(PerDay - 1)
  PROVE  Passed(o, r) <=> o < r.days \/ (o = r.days /\ r.tick <= Now)
BY CutoffIs DEF Passed

LEMMA EarlyIs ==
  ASSUME NEW o \in Int, NEW r \in Zone, Now \in 0..(PerDay - 1)
  PROVE  Early(o, r) <=> ~Passed(o - 1, r)
<1>1. CutoffAt(o, r) - PerDay = CutoffAt(o - 1, r) /\ CutoffAt(o, r) \in Int /\ r # NoRow
      /\ PerDay \in Nat
  BY CutoffIs, Constants
<1>. QED BY <1>1 DEF Early, Passed, Lead

\* The width of one run of the reminder job is one tick.
LEMMA RemindIs ==
  ASSUME NEW o \in Int, NEW r \in Zone, Now \in 0..(PerDay - 1)
  PROVE  CutoffAt(o, r) > Now + Lead - 1 /\ CutoffAt(o, r) <= Now + Lead
           <=> o - 1 = r.days /\ r.tick = Now
<1>1. CutoffAt(o, r) - PerDay = CutoffAt(o - 1, r) /\ CutoffAt(o, r) \in Int /\ PerDay \in Nat
  BY CutoffIs, Constants
<1>2. o - 1 \in Int
  OBVIOUS
<1>3. CutoffAt(o - 1, r) = Now <=> o - 1 = r.days /\ r.tick = Now
  BY <1>2, CutoffIs
<1>. QED BY <1>1, <1>3 DEF Lead

-----------------------------------------------------------------------------
(* The least of a set of dates *)

LEMMA NatOrder == OpToRel(<, Nat) = {ss \in Nat \X Nat : ss[1] < ss[2]}
BY DEF OpToRel

LEMMA MinOf ==
  ASSUME NEW T \in SUBSET Nat, T # {}
  PROVE  Min(T) \in T /\ \A m \in T : Min(T) <= m
<1>1. IsWellFoundedOn({ss \in Nat \X Nat : ss[1] < ss[2]}, Nat)
  BY NatLessThanWellFounded, NatOrder
<1>2. PICK n \in T : \A m \in T : ~(<<m, n>> \in {ss \in Nat \X Nat : ss[1] < ss[2]})
  BY <1>1, WFMin
<1>3. ASSUME NEW m \in T PROVE n <= m
  <2>1. <<m, n>> \in Nat \X Nat
    OBVIOUS
  <2>2. ~(m < n)
    BY <1>2, <2>1
  <2>. QED BY <2>2
<1>4. \E x \in T : \A m \in T : x <= m
  BY <1>3
<1>. QED BY <1>4 DEF Min

LEMMA MaxOffset == Max(Offsets) = 7 * Horizon + 7
<1>. DEFINE n == 7 * Horizon + 7
<1>1. n \in Offsets /\ \A o \in Offsets : n >= o
  BY Constants
<1>2. Max(Offsets) \in Offsets /\ \A o \in Offsets : Max(Offsets) >= o
  BY <1>1 DEF Max
<1>. HIDE DEF n
<1>3. \A o \in Offsets : o \in Int
  BY Constants
<1>. QED BY <1>1, <1>2, <1>3 DEF n

\* The date of the next box is after the last one, and open by the rule of today.
LEMMA TargetIs ==
  ASSUME Target <= 7 * Horizon
  PROVE  Target \in Offsets /\ Target > last /\ ~Passed(Target, rule)
<1>. DEFINE T == {o \in Offsets : o > last /\ (o - last) % 7 = 0 /\ ~Passed(o, rule)}
<1>1. T \subseteq Offsets /\ Offsets \subseteq Nat /\ 7 * Horizon + 8 \in Nat /\ Horizon \in Nat
  BY Constants
<1>2. Target = Min(T \cup {7 * Horizon + 8})
  BY MaxOffset, <1>1 DEF Target
<1>. HIDE DEF T
<1>3. Target \in T \cup {7 * Horizon + 8}
  BY <1>1, <1>2, MinOf
<1>4. Target \in T
  BY <1>1, <1>3
<1>. QED BY <1>4 DEF T

LEMMA NextOpenIs ==
  ASSUME NEW day, NextOpen(day) # -1
  PROVE  NextOpen(day) \in 0..13 /\ WeekdayOf(NextOpen(day)) = day /\ ~Passed(NextOpen(day), rule)
<1>. DEFINE T == OpenSlots(day, 2)
<1>1. T # {} /\ NextOpen(day) = Min(T)
  BY DEF NextOpen
<1>2. T = {o \in 0..13 : WeekdayOf(o) = day /\ ~Passed(o, rule)}
  BY DEF OpenSlots
<1>. HIDE DEF T
<1>3. T \in SUBSET Nat
  BY <1>2
<1>4. NextOpen(day) \in T
  BY <1>1, <1>3, MinOf
<1>. QED BY <1>2, <1>4
-----------------------------------------------------------------------------
(* The invariant *)

\* The rows of the horizon follow the last night; of its last day only once the job has run.
MostFollow ==
  \A o \in 0..(7 * Horizon - 1) :
      WeekdayOf(o) \in night.days /\ (o = 7 * Horizon - 1 => "generate" \notin due)
          => dates[o] = night.rule

\* A box that is owed a reminder is more than the lead away from its cutoff, or at it with the
\* reminder job still to come.
Owed(o) == boxes[o].early /\ ~boxes[o].reminded
ReminderAhead ==
  \A o \in Offsets : Waiting(o) /\ Owed(o) =>
      \/ ~Passed(o - 1, dates[o])
      \/ o - 1 = dates[o].days /\ dates[o].tick = Now /\ "remind" \in due

IInv == TypeOK /\ MostFollow /\ RemindedInTime /\ ReminderAhead

\* Tomorrow's box is locked before the day's last tick is over.
TomorrowLocked == Waiting(1) /\ "lock" \notin due => Now < PerDay - 1
LockInv == BoxesCutInTime /\ TomorrowLocked

LEMMA Typed ==
  ASSUME TypeOK
  PROVE  /\ Now \in 0..(PerDay - 1) /\ Weekday \in 0..6
         /\ rule \in Zone /\ rule # NoRow /\ night.rule \in Zone /\ night.rule # NoRow
         /\ dates \in [Offsets -> Zone \cup {NoRow}] /\ boxes \in [Offsets -> Box]
         /\ \A o \in Offsets : Waiting(o) \/ boxes[o].status = "LOCKED" => dates[o] \in Zone
BY ClockIs, Constants DEF TypeOK, Zone, Box, Waiting

LEMMA FollowMeans ==
  ASSUME TypeOK, MostFollow PROVE DatesFollowNight
BY DEF MostFollow, DatesFollowNight

LEMMA InitHolds == Init => IInv /\ LockInv
<1> SUFFICES ASSUME Init PROVE IInv /\ LockInv
  OBVIOUS
<1>1. \A o \in Offsets : boxes[o] = NoBox
  BY DEF Init
<1>2. /\ clock = 0 /\ rule = DefaultRule /\ days = DeliveryDays /\ last = BoxDay - 7
      /\ due = Jobs /\ answer = "none" /\ night = [rule |-> rule, days |-> days]
      /\ dates = [o \in Offsets |-> IF o < 7 * Horizon /\ WeekdayOf(o) \in days THEN rule ELSE NoRow]
      /\ boxes = [o \in Offsets |-> NoBox]
  BY DEF Init
<1>3. NoBox \in Box /\ NoBox.status = "none"
  BY DEF NoBox, Box
<1>4. TypeOK
  <2>1. clock \in 0..(7 * PerDay - 1) /\ last \in -7..(7 * Horizon)
    BY <1>2, Constants
  <2>2. rule \in Rules \cup {DefaultRule} /\ days \in DayChoices \cup {DeliveryDays}
    BY <1>2
  <2>3. dates \in [Offsets -> Rules \cup {DefaultRule, NoRow}]
    BY <1>2
  <2>4. boxes \in [Offsets -> Box]
    BY <1>2, <1>3
  <2>5. \A o \in Offsets : boxes[o].status # "none" => dates[o] # NoRow
    BY <1>1, <1>3
  <2>. QED BY <1>2, <2>1, <2>2, <2>3, <2>4, <2>5 DEF TypeOK, Box
<1>5. MostFollow
  <2>1. \A o \in 0..(7 * Horizon - 1) : o \in Offsets /\ o < 7 * Horizon
    BY Constants
  <2>. QED BY <1>2, <2>1 DEF MostFollow
<1>6. RemindedInTime /\ ReminderAhead
  BY <1>1, <1>3 DEF RemindedInTime, ReminderAhead, Waiting
<1>7. LockInv
  BY <1>1, <1>3, Constants DEF LockInv, BoxesCutInTime, TomorrowLocked, Waiting
<1>. QED BY <1>4, <1>5, <1>6, <1>7 DEF IInv

\* Rows are only added: the ones there, and so those of all boxes, stay as they are.
RowsKept == /\ dates' \in [Offsets -> Zone \cup {NoRow}]
            /\ \A o \in Offsets : dates[o] # NoRow => dates'[o] = dates[o]

LEMMA RowsKeptIs ==
  ASSUME TypeOK, MostFollow, RowsKept, clock' = clock, night' = night,
         "generate" \in due => "generate" \in due'
  PROVE  MostFollow'
<1>1. \A o \in 0..(7 * Horizon - 1) : o \in Offsets
  BY Constants
<1>2. \A o : WeekdayOf(o)' = WeekdayOf(o)
  BY DEF WeekdayOf, Weekday
<1>. QED BY <1>1, <1>2, Typed DEF MostFollow, RowsKept

LEMMA RowIs ==
  ASSUME TypeOK, NEW o \in Offsets
  PROVE  /\ Row(o) \in Zone \cup {NoRow} /\ (dates[o] # NoRow => Row(o) = dates[o])
         /\ dates[o] = NoRow /\ WeekdayOf(o) \in days => Row(o) = rule
BY Typed DEF Row

-----------------------------------------------------------------------------
(* The steps *)

LEMMA TickKept ==
  ASSUME IInv, Tick
  PROVE  IInv' /\ (LockInv => LockInv')
<1>1. /\ TypeOK /\ MostFollow /\ RemindedInTime /\ ReminderAhead
      /\ due = {} /\ clock' = (clock + 1) % (7 * PerDay) /\ clock \in 0..(7 * PerDay - 1)
      /\ rule' = rule /\ days' = days /\ night' = night /\ answer' = "none"
  BY DEF IInv, Tick, TypeOK
<1>2. /\ clock' \in 0..(7 * PerDay - 1)
      /\ Now # PerDay - 1 => Now' = Now + 1 /\ Weekday' = Weekday
      /\ Now = PerDay - 1 => Now' = 0 /\ Weekday' = (Weekday + 1) % 7
  BY <1>1, ClockTicks
<1>3. /\ Now \in 0..(PerDay - 1) /\ Weekday \in 0..6 /\ PerDay \in Nat \ {0} /\ Horizon \in Nat \ {0}
      /\ Offsets = 0..(7 * Horizon + 7)
      /\ \A r \in Zone : r.days \in 0..7 /\ r.tick \in 0..(PerDay - 1) /\ r # NoRow
  BY <1>1, Typed, Constants
<1>4. Now' \in 0..(PerDay - 1)
  BY <1>2, <1>3
<1>5. CASE Now # PerDay - 1
  <2>1. /\ dates' = dates /\ boxes' = boxes /\ last' = last /\ due' = Jobs \ {"generate"}
        /\ Now' = Now + 1 /\ Weekday' = Weekday
    BY <1>2, <1>5 DEF Tick
  <2>2. TypeOK'
    BY <1>1, <1>2, <2>1 DEF TypeOK
  <2>3. MostFollow'
    BY <1>1, <2>1 DEF MostFollow, WeekdayOf
  <2>4. RemindedInTime'
    BY <1>1, <2>1 DEF RemindedInTime
  <2>5. ReminderAhead'
    <3>. SUFFICES ASSUME NEW o \in Offsets, Waiting(o), Owed(o)
                  PROVE  \/ ~Passed(o - 1, dates[o])'
                         \/ o - 1 = dates[o].days /\ dates[o].tick = Now' /\ "remind" \in due'
      BY <2>1 DEF ReminderAhead, Waiting, Owed
    <3>1. dates[o] \in Zone /\ o - 1 \in Int
      BY <1>1, <1>3, Typed
    <3>2. ~Passed(o - 1, dates[o])
      BY <1>1 DEF ReminderAhead
    <3>3. ~(o - 1 < dates[o].days) /\ ~(o - 1 = dates[o].days /\ dates[o].tick <= Now)
      BY <1>3, <3>1, <3>2, PassedIs
    <3>4. CutoffAt(o - 1, dates[o]) <= Now' =>
             o - 1 < dates[o].days \/ (o - 1 = dates[o].days /\ dates[o].tick <= Now')
      BY <1>4, <3>1, CutoffIs
    <3>5. "remind" \in due'
      BY <2>1 DEF Jobs
    <3>. QED BY <1>3, <2>1, <3>1, <3>3, <3>4, <3>5 DEF Passed, CutoffAt
  <2>6. LockInv => LockInv'
    BY <2>1 DEF LockInv, BoxesCutInTime, TomorrowLocked, Jobs
  <2>. QED BY <2>2, <2>3, <2>4, <2>5, <2>6 DEF IInv
<1>6. CASE Now = PerDay - 1
  <2>1. /\ dates' = [o \in Offsets |-> IF o + 1 \in Offsets THEN dates[o + 1] ELSE NoRow]
        /\ boxes' = [o \in Offsets |-> IF o + 1 \in Offsets THEN boxes[o + 1] ELSE NoBox]
        /\ last' = IF last = -7 THEN -1 ELSE last - 1
        /\ due' = Jobs /\ Now' = 0 /\ Weekday' = (Weekday + 1) % 7
    BY <1>2, <1>6 DEF Tick
  <2>2. NoBox \in Box /\ NoBox.status = "none"
    BY DEF NoBox, Box
  <2>3. TypeOK'
    <3>1. dates' \in [Offsets -> Zone \cup {NoRow}]
      BY <1>1, <2>1, Typed
    <3>2. boxes' \in [Offsets -> Box]
      BY <1>1, <2>1, <2>2, Typed
    <3>3. \A o \in Offsets : boxes'[o].status # "none" => dates'[o] # NoRow
      BY <1>1, <2>1, <2>2 DEF TypeOK
    <3>4. last' \in -7..(7 * Horizon)
      <4>1. last \in -7..(7 * Horizon)
        BY <1>1 DEF TypeOK
      <4>. QED BY <1>3, <2>1, <4>1
    <3>. QED BY <1>1, <1>2, <2>1, <3>1, <3>2, <3>3, <3>4 DEF TypeOK, Zone, Box
  <2>4. MostFollow'
    <3>. SUFFICES ASSUME NEW o \in 0..(7 * Horizon - 1), WeekdayOf(o)' \in night.days, o # 7 * Horizon - 1
                  PROVE  dates'[o] = night.rule
      BY <1>1, <2>1 DEF MostFollow, Jobs
    <3>1. o \in Offsets /\ o + 1 \in Offsets /\ o + 1 \in 0..(7 * Horizon - 1)
      BY <1>3
    <3>2. WeekdayOf(o)' = WeekdayOf(o + 1)
      <4>1. (Weekday' + o) % 7 = (Weekday + (o + 1)) % 7
        BY <1>3, <2>1
      <4>. QED BY <4>1 DEF WeekdayOf
    <3>3. dates[o + 1] = night.rule
      BY <1>1, <3>1, <3>2 DEF MostFollow
    <3>. QED BY <2>1, <3>1, <3>3
  <2>5. RemindedInTime'
    BY <1>1, <2>1, <2>2 DEF RemindedInTime
  <2>6. ReminderAhead'
    <3>. SUFFICES ASSUME NEW o \in Offsets, Waiting(o)', Owed(o)'
                  PROVE  (\/ ~Passed(o - 1, dates[o])
                          \/ o - 1 = dates[o].days /\ dates[o].tick = Now /\ "remind" \in due)'
      BY DEF ReminderAhead
    <3>1. o + 1 \in Offsets /\ Waiting(o + 1) /\ Owed(o + 1) /\ dates'[o] = dates[o + 1]
      BY <2>1, <2>2 DEF Waiting, Owed
    <3>. DEFINE r == dates[o + 1]
    <3>2. r \in Zone /\ o \in Int /\ o - 1 \in Int
      BY <1>1, <1>3, <3>1, Typed
    <3>3. ~Passed(o, r)
      <4>1. (o + 1) - 1 = o
        BY <3>2
      <4>. QED BY <1>1, <3>1, <4>1 DEF ReminderAhead
    <3>4. o > r.days
      BY <1>3, <1>6, <3>2, <3>3, PassedIs
    <3>5. CutoffAt(o - 1, r) <= Now' => o - 1 < r.days \/ (o - 1 = r.days /\ r.tick <= Now')
      BY <1>4, <3>2, CutoffIs
    <3>6. "remind" \in due'
      BY <2>1 DEF Jobs
    <3>. HIDE DEF r
    <3>7. \/ ~(CutoffAt(o - 1, r) <= Now')
          \/ o - 1 = r.days /\ r.tick = Now'
      <4>1. r.days \in 0..7 /\ r.tick \in 0..(PerDay - 1) /\ Now' = 0 /\ PerDay \in Nat
        BY <1>3, <2>1, <3>2
      <4>2. ~(o - 1 < r.days)
        BY <3>2, <3>4, <4>1
      <4>3. r.tick <= 0 => r.tick = 0
        BY <4>1
      <4>. QED BY <3>5, <4>1, <4>2, <4>3
    <3>. QED BY <3>1, <3>6, <3>7 DEF Passed, CutoffAt, r
  <2>7. LockInv => LockInv'
    <3>1. 0 \in Offsets /\ 1 \in Offsets /\ 0 + 1 = 1 /\ "lock" \in Jobs
      BY Constants DEF Jobs
    <3>2. boxes'[0] = boxes[1]
      BY <2>1, <3>1
    <3>. QED BY <1>1, <1>3, <1>6, <2>1, <3>1, <3>2 DEF LockInv, BoxesCutInTime, TomorrowLocked, Waiting
  <2>. QED BY <2>3, <2>4, <2>5, <2>6, <2>7 DEF IInv
<1>. QED BY <1>5, <1>6

LEMMA GenerateKept ==
  ASSUME IInv, Generate
  PROVE  IInv' /\ (LockInv => LockInv')
<1>1. /\ TypeOK /\ MostFollow /\ RemindedInTime /\ ReminderAhead
      /\ due' = due \ {"generate"} /\ answer' = "none"
      /\ clock' = clock /\ rule' = rule /\ days' = days /\ last' = last
      /\ night' = [rule |-> rule, days |-> days]
      /\ dates' = [o \in Offsets |-> IF o < 7 * Horizon /\ WeekdayOf(o) \in days THEN rule ELSE dates[o]]
      /\ boxes' = [o \in Offsets |-> IF Waiting(o) /\ dates'[o] # dates[o] /\ ~boxes[o].reminded
                                     THEN [boxes[o] EXCEPT !.early = Early(o, dates'[o])] ELSE boxes[o]]
  BY DEF IInv, Generate, Runs
<1>2. /\ Now \in 0..(PerDay - 1) /\ rule \in Zone /\ rule # NoRow
      /\ dates \in [Offsets -> Zone \cup {NoRow}] /\ boxes \in [Offsets -> Box]
      /\ \A o \in Offsets : Waiting(o) \/ boxes[o].status = "LOCKED" => dates[o] \in Zone
  BY <1>1, Typed
<1>3. \A o \in Offsets : o \in Int
  BY Constants
<1>4. dates' \in [Offsets -> Zone \cup {NoRow}]
      /\ \A o \in Offsets : dates[o] # NoRow => dates'[o] \in Zone
  BY <1>1, <1>2
<1>5. ASSUME NEW o \in Offsets
      PROVE  /\ boxes'[o] \in Box /\ boxes'[o].status = boxes[o].status
             /\ boxes'[o].reminded = boxes[o].reminded
             /\ ~Waiting(o) \/ dates'[o] = dates[o] \/ boxes[o].reminded => boxes'[o] = boxes[o]
             /\ Waiting(o) /\ dates'[o] # dates[o] /\ ~boxes[o].reminded
                   => boxes'[o].early = Early(o, dates'[o])
  <2>1. boxes[o] \in Box
    BY <1>2
  <2>2. CASE Waiting(o) /\ dates'[o] # dates[o] /\ ~boxes[o].reminded
    <3>1. boxes'[o] = [boxes[o] EXCEPT !.early = Early(o, dates'[o])]
      BY <1>1, <2>2
    <3>2. Early(o, dates'[o]) \in BOOLEAN
      BY DEF Early
    <3>. QED BY <2>1, <2>2, <3>1, <3>2 DEF Box
  <2>3. CASE ~(Waiting(o) /\ dates'[o] # dates[o] /\ ~boxes[o].reminded)
    <3>1. boxes'[o] = boxes[o]
      BY <1>1, <2>3
    <3>. QED BY <2>1, <2>3, <3>1
  <2>. QED BY <2>2, <2>3
<1>6. boxes' \in [Offsets -> Box]
  BY <1>1, <1>5
<1>7. \A o \in Offsets : Waiting(o)' <=> Waiting(o)
  BY <1>5 DEF Waiting
<1>8. TypeOK'
  <2>1. \A o \in Offsets : boxes'[o].status # "none" => dates'[o] # NoRow
    BY <1>1, <1>4, <1>5, Constants DEF TypeOK
  <2>2. due' \subseteq Jobs /\ night' \in [rule : Zone, days : DayChoices \cup {DeliveryDays}]
    BY <1>1, <1>2 DEF TypeOK
  <2>. QED BY <1>1, <1>4, <1>6, <2>1, <2>2 DEF TypeOK, Zone, Box
<1>9. MostFollow'
  <2>1. \A o \in 0..(7 * Horizon - 1) : o \in Offsets /\ o < 7 * Horizon
    BY Constants
  <2>2. \A o : WeekdayOf(o)' = WeekdayOf(o)
    BY <1>1 DEF WeekdayOf, Weekday
  <2>. QED BY <1>1, <2>1, <2>2 DEF MostFollow
<1>10. RemindedInTime'
  BY <1>1, <1>5 DEF RemindedInTime, Waiting
<1>11. ReminderAhead'
  <2>. SUFFICES ASSUME NEW o \in Offsets, Waiting(o)', Owed(o)'
                PROVE  (\/ ~Passed(o - 1, dates[o])
                        \/ o - 1 = dates[o].days /\ dates[o].tick = Now /\ "remind" \in due)'
    BY DEF ReminderAhead
  <2>1. Waiting(o) /\ ~boxes[o].reminded /\ Now' = Now /\ ("remind" \in due => "remind" \in due')
    BY <1>1, <1>5, <1>7 DEF Owed, Now
  <2>2. CASE dates'[o] = dates[o]
    <3>1. Owed(o)
      BY <1>5, <2>1, <2>2 DEF Owed
    <3>. QED BY <1>1, <2>1, <2>2, <3>1 DEF ReminderAhead, Passed
  <2>3. CASE dates'[o] # dates[o]
    <3>1. Early(o, dates'[o])
      BY <1>5, <2>1, <2>3 DEF Owed
    <3>2. dates'[o] \in Zone
      BY <1>2, <1>4, <2>1, Constants
    <3>3. ~Passed(o - 1, dates'[o])
      BY <1>2, <1>3, <3>1, <3>2, EarlyIs
    <3>. QED BY <2>1, <3>3 DEF Passed, CutoffAt
  <2>. QED BY <2>2, <2>3
<1>12. LockInv => LockInv'
  BY <1>1, <1>5, <1>7, Constants DEF LockInv, BoxesCutInTime, TomorrowLocked, Now
<1>. QED BY <1>8, <1>9, <1>10, <1>11, <1>12 DEF IInv

\* A new box: early is as the clock says, and the row is the one it was made on.
LEMMA NewBoxIs ==
  ASSUME NEW o \in Int, Row(o) \in Zone, Now \in 0..(PerDay - 1)
  PROVE  /\ NewBox(o) \in Box /\ NewBox(o).status = "SCHEDULED" /\ ~NewBox(o).reminded
         /\ NewBox(o).early => ~Passed(o - 1, Row(o))
<1>1. Early(o, Row(o)) \in BOOLEAN /\ (Early(o, Row(o)) => ~Passed(o - 1, Row(o)))
  <2>1. Early(o, Row(o)) \in BOOLEAN
    BY DEF Early
  <2>. QED BY <2>1, EarlyIs
<1>. QED BY <1>1 DEF NewBox, Box

LEMMA EnsureKept ==
  ASSUME IInv, Ensure
  PROVE  IInv' /\ (BeforeTheDay /\ LockInv => LockInv')
<1>1. /\ TypeOK /\ MostFollow /\ RemindedInTime /\ ReminderAhead
      /\ due' = due \ {"ensure"} /\ answer' = "none"
      /\ clock' = clock /\ rule' = rule /\ days' = days /\ night' = night
  BY DEF IInv, Ensure, Runs
<1>2. /\ Now \in 0..(PerDay - 1) /\ rule \in Zone
      /\ dates \in [Offsets -> Zone \cup {NoRow}] /\ boxes \in [Offsets -> Box]
  BY <1>1, Typed
<1>3. Now' = Now
  BY <1>1 DEF Now
<1>4. CASE ~(Target <= 7 * Horizon /\ Row(Target) # NoRow)
  <2>1. dates' = dates /\ boxes' = boxes /\ last' = last
    BY <1>4 DEF Ensure
  <2>2. RowsKept
    BY <1>2, <2>1 DEF RowsKept
  <2>3. TypeOK'
    BY <1>1, <2>1 DEF TypeOK
  <2>4. MostFollow'
    BY <1>1, <2>2, RowsKeptIs
  <2>5. RemindedInTime' /\ ReminderAhead'
    BY <1>1, <1>3, <2>1 DEF RemindedInTime, ReminderAhead, Waiting, Owed, Passed
  <2>6. LockInv => LockInv'
    BY <1>1, <1>3, <2>1 DEF LockInv, BoxesCutInTime, TomorrowLocked, Waiting
  <2>. QED BY <2>3, <2>4, <2>5, <2>6 DEF IInv
<1>5. CASE Target <= 7 * Horizon /\ Row(Target) # NoRow
  <2>. DEFINE t == Target
              r == Row(Target)
              b == NewBox(Target)
  <2>1. dates' = [dates EXCEPT ![t] = r] /\ boxes' = [boxes EXCEPT ![t] = b] /\ last' = t
    BY <1>5 DEF Ensure
  <2>2. t \in Offsets /\ t \in Int /\ t <= 7 * Horizon /\ ~Passed(t, rule) /\ t \in 0..(7 * Horizon)
    BY <1>5, TargetIs, Constants
  <2>3. r \in Zone /\ (dates[t] # NoRow => r = dates[t])
    BY <1>1, <1>5, <2>2, RowIs
  <2>4. b \in Box /\ b.status = "SCHEDULED" /\ ~b.reminded /\ (b.early => ~Passed(t - 1, r))
    BY <1>2, <2>2, <2>3, NewBoxIs
  <2>. HIDE DEF t, r, b
  <2>5. RowsKept
    BY <1>2, <2>1, <2>2, <2>3 DEF RowsKept
  <2>6. boxes' \in [Offsets -> Box] /\ boxes'[t] = b /\ dates'[t] = r
        /\ \A o \in Offsets : o # t => boxes'[o] = boxes[o] /\ dates'[o] = dates[o]
    BY <1>2, <2>1, <2>2, <2>4
  <2>7. TypeOK'
    <3>1. \A o \in Offsets : boxes'[o].status # "none" => dates'[o] # NoRow
      BY <1>1, <2>3, <2>6, Constants DEF TypeOK
    <3>2. last' \in -7..(7 * Horizon)
      BY <2>1, <2>2, Constants
    <3>. QED BY <1>1, <2>5, <2>6, <3>1, <3>2 DEF TypeOK, RowsKept, Zone, Box
  <2>8. MostFollow'
    BY <1>1, <2>5, RowsKeptIs
  <2>9. RemindedInTime'
    BY <1>1, <2>4, <2>6 DEF RemindedInTime
  <2>10. ReminderAhead'
    <3>. SUFFICES ASSUME NEW o \in Offsets, Waiting(o)', Owed(o)'
                  PROVE  (\/ ~Passed(o - 1, dates[o])
                          \/ o - 1 = dates[o].days /\ dates[o].tick = Now /\ "remind" \in due)'
      BY DEF ReminderAhead
    <3>1. CASE o = t
      <4>1. ~Passed(t - 1, r)
        BY <2>4, <2>6, <3>1 DEF Owed
      <4>. QED BY <1>3, <2>6, <3>1, <4>1 DEF Passed, CutoffAt
    <3>2. CASE o # t
      <4>1. Waiting(o) /\ Owed(o) /\ dates'[o] = dates[o] /\ ("remind" \in due => "remind" \in due')
        BY <1>1, <2>6, <3>2 DEF Waiting, Owed
      <4>. QED BY <1>1, <1>3, <4>1 DEF ReminderAhead, Passed
    <3>. QED BY <3>1, <3>2
  <2>11. ASSUME BeforeTheDay, LockInv PROVE LockInv'
    <3>1. rule.days >= 1 /\ rule.days \in 0..7 /\ rule.tick \in 0..(PerDay - 1) /\ PerDay \in Nat
      BY <1>2, <2>11, Constants DEF BeforeTheDay
    <3>2. ~(t < rule.days) /\ ~(t = rule.days /\ rule.tick <= Now)
      BY <1>2, <2>2, PassedIs
    <3>3. t # 0 /\ (t = 1 => Now < PerDay - 1)
      BY <1>2, <2>2, <3>1, <3>2
    <3>4. "lock" \notin due' => "lock" \notin due
      BY <1>1
    <3>. QED BY <1>3, <2>6, <2>11, <3>3, <3>4, Constants DEF LockInv, BoxesCutInTime, TomorrowLocked, Waiting
  <2>. QED BY <2>7, <2>8, <2>9, <2>10, <2>11 DEF IInv
<1>. QED BY <1>4, <1>5

LEMMA NoTemplateKept ==
  ASSUME IInv, NoTemplate
  PROVE  IInv' /\ (LockInv => LockInv')
<1>1. /\ TypeOK /\ MostFollow /\ RemindedInTime /\ ReminderAhead
      /\ due' = due \ {"ensure"} /\ answer' = "none"
      /\ clock' = clock /\ rule' = rule /\ days' = days /\ night' = night
      /\ dates' = dates /\ boxes' = boxes /\ last' = last
  BY DEF IInv, NoTemplate, Runs
<1>2. Now' = Now
  BY <1>1 DEF Now
<1>3. TypeOK'
  BY <1>1 DEF TypeOK
<1>4. MostFollow'
  <2>1. RowsKept
    BY <1>1, Typed DEF RowsKept
  <2>. QED BY <1>1, <2>1, RowsKeptIs
<1>5. RemindedInTime' /\ ReminderAhead'
  BY <1>1, <1>2 DEF RemindedInTime, ReminderAhead, Waiting, Owed, Passed
<1>6. LockInv => LockInv'
  BY <1>1, <1>2 DEF LockInv, BoxesCutInTime, TomorrowLocked, Waiting
<1>. QED BY <1>3, <1>4, <1>5, <1>6 DEF IInv

LEMMA RemindKept ==
  ASSUME IInv, Remind
  PROVE  IInv' /\ (LockInv => LockInv')
<1>. DEFINE Near(o) == CutoffAt(o, dates[o]) > Now + Lead - 1 /\ CutoffAt(o, dates[o]) <= Now + Lead
<1>1. /\ TypeOK /\ MostFollow /\ RemindedInTime /\ ReminderAhead
      /\ due' = due \ {"remind"} /\ answer' = "none"
      /\ clock' = clock /\ rule' = rule /\ days' = days /\ night' = night
      /\ dates' = dates /\ last' = last
      /\ boxes' = [o \in Offsets |-> IF Waiting(o) /\ Near(o)
                                     THEN [boxes[o] EXCEPT !.reminded = TRUE] ELSE boxes[o]]
  BY DEF IInv, Remind, Runs
<1>2. /\ Now \in 0..(PerDay - 1) /\ boxes \in [Offsets -> Box]
      /\ \A o \in Offsets : Waiting(o) \/ boxes[o].status = "LOCKED" => dates[o] \in Zone
  BY <1>1, Typed
<1>3. Now' = Now
  BY <1>1 DEF Now
<1>4. ASSUME NEW o \in Offsets
      PROVE  /\ boxes'[o] \in Box /\ boxes'[o].status = boxes[o].status
             /\ boxes'[o].early = boxes[o].early /\ (boxes[o].reminded => boxes'[o].reminded)
             /\ Waiting(o) /\ Near(o) => boxes'[o].reminded
  <2>. HIDE DEF Near
  <2>1. boxes[o] \in Box
    BY <1>2
  <2>2. boxes'[o] = IF Waiting(o) /\ Near(o) THEN [boxes[o] EXCEPT !.reminded = TRUE] ELSE boxes[o]
    BY <1>1 DEF Near
  <2>3. CASE Waiting(o) /\ Near(o)
    <3>1. boxes'[o] = [boxes[o] EXCEPT !.reminded = TRUE]
      BY <2>2, <2>3
    <3>. QED BY <2>1, <3>1 DEF Box
  <2>4. CASE ~(Waiting(o) /\ Near(o))
    <3>1. boxes'[o] = boxes[o]
      BY <2>2, <2>4
    <3>. QED BY <2>1, <2>4, <3>1
  <2>. QED BY <2>3, <2>4
<1>5. boxes' \in [Offsets -> Box]
  BY <1>1, <1>4
<1>6. TypeOK'
  <2>1. \A o \in Offsets : boxes'[o].status # "none" => dates'[o] # NoRow
    BY <1>1, <1>4 DEF TypeOK
  <2>. QED BY <1>1, <1>5, <2>1 DEF TypeOK, Box
<1>7. MostFollow'
  <2>1. RowsKept
    BY <1>1, Typed DEF RowsKept
  <2>. QED BY <1>1, <2>1, RowsKeptIs
<1>8. RemindedInTime'
  BY <1>1, <1>4 DEF RemindedInTime
<1>9. ReminderAhead'
  <2>. SUFFICES ASSUME NEW o \in Offsets, Waiting(o)', Owed(o)'
                PROVE  (~Passed(o - 1, dates[o]))'
    BY DEF ReminderAhead
  <2>1. Waiting(o) /\ Owed(o) /\ ~Near(o) /\ o \in Int /\ dates[o] \in Zone
    BY <1>2, <1>4, Constants DEF Waiting, Owed
  <2>2. ~(o - 1 = dates[o].days /\ dates[o].tick = Now)
    BY <1>2, <2>1, RemindIs
  <2>3. ~Passed(o - 1, dates[o])
    BY <1>1, <2>1, <2>2 DEF ReminderAhead
  <2>. QED BY <1>1, <1>3, <2>3 DEF Passed
<1>10. LockInv => LockInv'
  BY <1>1, <1>3, <1>4, Constants DEF LockInv, BoxesCutInTime, TomorrowLocked, Waiting
<1>. QED BY <1>6, <1>7, <1>8, <1>9, <1>10 DEF IInv

LEMMA LockKept ==
  ASSUME IInv, Lock
  PROVE  IInv' /\ (BeforeTheDay /\ LockInv => LockInv')
<1>1. /\ TypeOK /\ MostFollow /\ RemindedInTime /\ ReminderAhead
      /\ due' = due \ {"lock"} /\ answer' = "none"
      /\ clock' = clock /\ rule' = rule /\ days' = days /\ night' = night
      /\ dates' = dates /\ last' = last
      /\ boxes' = [o \in Offsets |-> IF Waiting(o) /\ Passed(o, dates[o])
                                     THEN [boxes[o] EXCEPT !.status = "LOCKED"] ELSE boxes[o]]
  BY DEF IInv, Lock, Runs
<1>2. /\ Now \in 0..(PerDay - 1) /\ boxes \in [Offsets -> Box]
      /\ \A o \in Offsets : Waiting(o) \/ boxes[o].status = "LOCKED" => dates[o] \in Zone
      /\ \A r \in Zone : r.days \in 0..7 /\ r.tick \in 0..(PerDay - 1) /\ PerDay \in Nat
  BY <1>1, Typed, Constants
<1>3. Now' = Now
  BY <1>1 DEF Now
<1>4. ASSUME NEW o \in Offsets
      PROVE  /\ boxes'[o] \in Box /\ boxes'[o].early = boxes[o].early
             /\ boxes'[o].reminded = boxes[o].reminded
             /\ Waiting(o) /\ Passed(o, dates[o]) => boxes'[o].status = "LOCKED"
             /\ ~(Waiting(o) /\ Passed(o, dates[o])) => boxes'[o] = boxes[o]
  <2>1. boxes[o] \in Box
    BY <1>2
  <2>2. CASE Waiting(o) /\ Passed(o, dates[o])
    <3>1. boxes'[o] = [boxes[o] EXCEPT !.status = "LOCKED"]
      BY <1>1, <2>2
    <3>. QED BY <2>1, <2>2, <3>1 DEF Box
  <2>3. CASE ~(Waiting(o) /\ Passed(o, dates[o]))
    <3>1. boxes'[o] = boxes[o]
      BY <1>1, <2>3
    <3>. QED BY <2>1, <2>3, <3>1
  <2>. QED BY <2>2, <2>3
<1>5. \A o \in Offsets : Waiting(o)' => Waiting(o) /\ ~Passed(o, dates[o])
  BY <1>4 DEF Waiting
<1>6. boxes' \in [Offsets -> Box]
  BY <1>1, <1>4
<1>7. TypeOK'
  <2>1. \A o \in Offsets : boxes'[o].status # "none" => dates'[o] # NoRow
    BY <1>1, <1>4 DEF TypeOK, Waiting
  <2>. QED BY <1>1, <1>6, <2>1 DEF TypeOK, Box
<1>8. MostFollow'
  <2>1. RowsKept
    BY <1>1, Typed DEF RowsKept
  <2>. QED BY <1>1, <2>1, RowsKeptIs
<1>9. RemindedInTime'
  <2>. SUFFICES ASSUME NEW o \in Offsets, Waiting(o), Passed(o, dates[o]), boxes[o].early
                PROVE  boxes[o].reminded
    BY <1>1, <1>4 DEF RemindedInTime
  <2>1. dates[o] \in Zone /\ o \in Int /\ o - 1 \in Int
    BY <1>2, Constants
  <2>2. o < dates[o].days \/ (o = dates[o].days /\ dates[o].tick <= Now)
    BY <1>2, <2>1, PassedIs
  <2>3. Passed(o - 1, dates[o]) /\ o - 1 # dates[o].days
    <3>1. dates[o].days \in Int /\ o - 1 < dates[o].days
      BY <1>2, <2>1, <2>2
    <3>. QED BY <1>2, <2>1, <3>1, PassedIs
  <2>. QED BY <1>1, <2>3 DEF ReminderAhead, Owed
<1>10. ReminderAhead'
  <2>. SUFFICES ASSUME NEW o \in Offsets, Waiting(o)', Owed(o)'
                PROVE  (\/ ~Passed(o - 1, dates[o])
                        \/ o - 1 = dates[o].days /\ dates[o].tick = Now /\ "remind" \in due)'
    BY DEF ReminderAhead
  <2>1. Waiting(o) /\ Owed(o) /\ ("remind" \in due => "remind" \in due')
    BY <1>1, <1>4, <1>5 DEF Owed
  <2>. QED BY <1>1, <1>3, <2>1 DEF ReminderAhead, Passed
<1>11. ASSUME BeforeTheDay, LockInv PROVE LockInv'
  <2>1. BoxesCutInTime'
    BY <1>4, <1>11, Constants DEF LockInv, BoxesCutInTime
  <2>2. ASSUME Waiting(1)' PROVE Now < PerDay - 1
    <3>1. 1 \in Offsets /\ 1 \in Int /\ Waiting(1) /\ ~Passed(1, dates[1])
      BY <1>5, <2>2, Constants
    <3>2. dates[1] \in Zone /\ dates[1].days >= 1
      BY <1>2, <1>11, <3>1 DEF BeforeTheDay
    <3>3. ~(1 < dates[1].days) /\ ~(1 = dates[1].days /\ dates[1].tick <= Now)
      BY <1>2, <3>1, <3>2, PassedIs
    <3>. QED BY <1>2, <3>2, <3>3
  <2>. QED BY <1>3, <2>1, <2>2 DEF LockInv, TomorrowLocked
<1>. QED BY <1>7, <1>8, <1>9, <1>10, <1>11 DEF IInv

\* Nothing but the settings, the rows and the answer changes.
LEMMA RestKept ==
  ASSUME IInv, RowsKept, clock' = clock, boxes' = boxes, last' = last, due' = due, night' = night,
         rule' \in Zone, days' \in DayChoices \cup {DeliveryDays},
         answer' \in {"none", "open", "locked", "not found"}
  PROVE  IInv' /\ (LockInv => LockInv')
<1>1. TypeOK /\ MostFollow /\ RemindedInTime /\ ReminderAhead /\ Now' = Now
  BY DEF IInv, Now
<1>2. TypeOK'
  <2>1. \A o \in Offsets : boxes'[o].status # "none" => dates'[o] # NoRow
    BY <1>1 DEF TypeOK, RowsKept
  <2>. QED BY <1>1, <2>1 DEF TypeOK, RowsKept, Zone
<1>3. MostFollow'
  BY <1>1, RowsKeptIs
<1>4. RemindedInTime'
  BY <1>1 DEF RemindedInTime
<1>5. ReminderAhead'
  <2>. SUFFICES ASSUME NEW o \in Offsets, Waiting(o), Owed(o)
                PROVE  (\/ ~Passed(o - 1, dates[o])
                        \/ o - 1 = dates[o].days /\ dates[o].tick = Now /\ "remind" \in due)'
    BY DEF ReminderAhead, Waiting, Owed
  <2>1. dates'[o] = dates[o]
    BY <1>1, Typed, Constants DEF RowsKept
  <2>. QED BY <1>1, <2>1 DEF ReminderAhead, Passed
<1>6. LockInv => LockInv'
  BY <1>1 DEF LockInv, BoxesCutInTime, TomorrowLocked, Waiting
<1>. QED BY <1>2, <1>3, <1>4, <1>5, <1>6 DEF IInv

LEMMA AskKept ==
  ASSUME IInv, NEW day \in days, Ask(day)
  PROVE  IInv' /\ (LockInv => LockInv')
<1>1. /\ TypeOK /\ clock' = clock /\ boxes' = boxes /\ last' = last /\ due' = due
      /\ night' = night /\ rule' = rule /\ days' = days
  BY DEF IInv, Ask
<1>2. /\ rule \in Zone /\ days \in DayChoices \cup {DeliveryDays}
      /\ dates \in [Offsets -> Zone \cup {NoRow}]
  BY <1>1, Typed DEF TypeOK
<1>3. RowsKept /\ answer' \in {"none", "open", "locked", "not found"}
  <2>. DEFINE o == NextOpen(day)
  <2>1. CASE o = -1
    BY <1>2, <2>1 DEF Ask, RowsKept
  <2>2. CASE o # -1
    <3>1. o \in Offsets
      BY <2>2, NextOpenIs, Constants
    <3>2. dates' = [dates EXCEPT ![o] = Row(o)] /\ answer' \in {"open", "locked"}
      BY <2>2 DEF Ask
    <3>3. Row(o) \in Zone \cup {NoRow} /\ (dates[o] # NoRow => Row(o) = dates[o])
      BY <1>1, <3>1, RowIs
    <3>. HIDE DEF o
    <3>. QED BY <1>2, <3>1, <3>2, <3>3 DEF RowsKept
  <2>. QED BY <2>1, <2>2
<1>. QED BY <1>1, <1>2, <1>3, RestKept

LEMMA StepKept ==
  ASSUME IInv, [Next]_vars
  PROVE  IInv' /\ (BeforeTheDay /\ LockInv => LockInv')
<1>1. CASE Tick
  BY <1>1, TickKept
<1>2. CASE Generate
  BY <1>2, GenerateKept
<1>3. CASE Ensure
  BY <1>3, EnsureKept
<1>4. CASE NoTemplate
  BY <1>4, NoTemplateKept
<1>5. CASE Remind
  BY <1>5, RemindKept
<1>6. CASE Lock
  BY <1>6, LockKept
<1>. DEFINE Same == /\ clock' = clock /\ boxes' = boxes /\ last' = last /\ due' = due
                    /\ night' = night /\ dates' = dates
                    /\ rule' \in Zone /\ days' \in DayChoices \cup {DeliveryDays}
                    /\ answer' \in {"none", "open", "locked", "not found"}
<1>7. Same => IInv' /\ (LockInv => LockInv')
  BY RestKept, Typed DEF IInv, RowsKept
<1>8. /\ rule \in Zone /\ days \in DayChoices \cup {DeliveryDays}
      /\ answer \in {"none", "open", "locked", "not found"}
  BY DEF IInv, TypeOK, Zone
<1>9. ASSUME NEW r \in Rules, SetRule(r) PROVE Same
  BY <1>8, <1>9 DEF SetRule, Zone
<1>10. ASSUME NEW s \in DayChoices, SetDays(s) PROVE Same
  BY <1>8, <1>10 DEF SetDays
<1>11. ASSUME NEW day \in days, Ask(day) PROVE IInv' /\ (LockInv => LockInv')
  BY <1>11, AskKept
<1>12. ASSUME UNCHANGED vars PROVE Same
  BY <1>8, <1>12 DEF vars
<1>. QED BY <1>1, <1>2, <1>3, <1>4, <1>5, <1>6, <1>7, <1>9, <1>10, <1>11, <1>12 DEF Next

LEMMA Invariant == Spec => []IInv
<1>1. IInv /\ [Next]_vars => IInv'
  BY StepKept
<1>. QED BY InitHolds, <1>1, PTL DEF Spec

-----------------------------------------------------------------------------
(* What is planned *)

\* Rows follow the night and reminders go out before the lock, whatever the rules are
\* (generateDates, remindCutoffs, lockAndCharge).
THEOREM RowsAndReminders == Spec => [](TypeOK /\ DatesFollowNight /\ RemindedInTime)
<1>1. IInv => TypeOK /\ DatesFollowNight /\ RemindedInTime
  BY FollowMeans DEF IInv
<1>. QED BY Invariant, <1>1, PTL

\* With rules that close orders before the day of delivery, no box of today is still open
\* either: what the nightly job, the engine and the reminders promise of a planned box holds.
THEOREM PlanKept == ASSUME BeforeTheDay PROVE Spec => []CalendarKept
<1>1. IInv /\ LockInv /\ [Next]_vars => (IInv /\ LockInv)'
  BY StepKept
<1>2. IInv /\ LockInv => CalendarKept
  BY FollowMeans DEF IInv, LockInv, CalendarKept
<1>. QED BY InitHolds, <1>1, <1>2, PTL DEF Spec

\* The rows that can be past their cutoff are those of the coming week, which follow the night.
LEMMA RowIsOpen ==
  ASSUME IInv, Horizon >= 2, Settled, NEW o \in Offsets, WeekdayOf(o) \in days, ~Passed(o, rule)
  PROVE  ~Passed(o, Row(o))
<1>1. /\ TypeOK /\ MostFollow /\ rule = night.rule /\ days = night.days
      /\ Now \in 0..(PerDay - 1) /\ dates \in [Offsets -> Zone \cup {NoRow}] /\ o \in Nat
      /\ Horizon \in Nat /\ \A r \in Zone : r.days \in 0..7
  BY Typed, Constants DEF IInv, Settled
<1>2. CASE dates[o] = NoRow
  BY <1>1, <1>2, RowIs
<1>3. CASE dates[o] # NoRow
  <2>1. dates[o] \in Zone /\ Row(o) = dates[o]
    BY <1>1, <1>3, RowIs
  <2>2. CASE o <= 7
    <3>1. o \in 0..(7 * Horizon - 1) /\ o # 7 * Horizon - 1
      BY <1>1, <2>2
    <3>2. dates[o] = rule
      BY <1>1, <3>1 DEF MostFollow
    <3>. QED BY <2>1, <3>2
  <2>3. CASE o > 7
    <3>1. dates[o].days \in 0..7
      BY <1>1, <2>1
    <3>2. ~(o < dates[o].days) /\ o # dates[o].days
      BY <1>1, <2>3, <3>1
    <3>. QED BY <1>1, <2>1, <3>2, PassedIs
  <2>. QED BY <1>1, <2>2, <2>3
<1>. QED BY <1>2, <1>3

\* ensure makes a box only on a date whose orders its own row has not closed, with a horizon
\* of two weeks or more and settings that have stood since the night.
THEOREM BoxesBornOpen == ASSUME Horizon >= 2 PROVE Spec => BornOpen
<1>. DEFINE Born == \A o \in Offsets : Settled /\ WeekdayOf(o) \in days
                        /\ boxes[o].status # boxes'[o].status
                        /\ due' = due \ {"ensure"} => ~Passed(o, dates'[o])
<1>1. ASSUME IInv, [Next]_vars PROVE Born \/ UNCHANGED vars
  <2>. SUFFICES ASSUME Next, NEW o \in Offsets, Settled, WeekdayOf(o) \in days,
                       boxes[o].status # boxes'[o].status, due' = due \ {"ensure"}
                PROVE  ~Passed(o, dates'[o])
    BY <1>1
  <2>1. TypeOK /\ boxes \in [Offsets -> Box] /\ dates \in [Offsets -> Zone \cup {NoRow}] /\ due \subseteq Jobs
    BY <1>1, Typed DEF IInv, TypeOK
  <2>2. ~(boxes' = boxes)
    OBVIOUS
  <2>3. CASE Ensure
    <3>1. /\ Target <= 7 * Horizon /\ Row(Target) # NoRow
          /\ dates' = [dates EXCEPT ![Target] = Row(Target)]
          /\ boxes' = [boxes EXCEPT ![Target] = NewBox(Target)]
      BY <2>2, <2>3 DEF Ensure
    <3>2. Target \in Offsets /\ ~Passed(Target, rule)
      BY <3>1, TargetIs
    <3>3. o = Target
      BY <2>1, <3>1
    <3>4. dates'[o] = Row(o)
      BY <2>1, <3>1, <3>3
    <3>. QED BY <1>1, <3>2, <3>3, <3>4, RowIsOpen
  <2>4. CASE Tick
    BY <2>4 DEF Tick, Jobs
  <2>5. CASE Generate
    BY <2>5 DEF Generate, Runs
  <2>6. CASE NoTemplate
    BY <2>2, <2>6 DEF NoTemplate
  <2>7. CASE Remind
    BY <2>7 DEF Remind, Runs
  <2>8. CASE Lock
    BY <2>8 DEF Lock, Runs
  <2>9. ASSUME \/ \E r \in Rules \ {rule} : SetRule(r)
               \/ \E s \in DayChoices \ {days} : SetDays(s)
               \/ \E day \in days : Ask(day)
        PROVE  FALSE
    BY <2>2, <2>9 DEF SetRule, SetDays, Ask
  <2>. QED BY <2>3, <2>4, <2>5, <2>6, <2>7, <2>8, <2>9 DEF Next
<1>2. IInv /\ [Next]_vars => [Born]_vars
  BY <1>1
<1>. QED BY Invariant, <1>2, PTL DEF Spec, BornOpen

-----------------------------------------------------------------------------
(* What is offered *)

\* The settings a shop is set up with: Tuesday, Thursday and Saturday, cut the day before at noon.
SetUp == DefaultRule.days = 1 /\ 2 * DefaultRule.tick = PerDay /\ DeliveryDays = {2, 4, 6}

LEMMA AnswerKept ==
  ASSUME IInv, Horizon >= 2, NextIsOpen, [Next]_vars
  PROVE  NextIsOpen'
<1>1. CASE answer' = "none"
  BY <1>1 DEF NextIsOpen
<1>2. CASE UNCHANGED vars
  BY <1>2 DEF vars, NextIsOpen, Settled
<1>3. ASSUME NEW day \in days, Ask(day) PROVE NextIsOpen'
  <2>1. rule' = rule /\ days' = days /\ night' = night
    BY <1>3 DEF Ask
  <2>. DEFINE o == NextOpen(day)
  <2>2. CASE o = -1
    BY <1>3, <2>2 DEF Ask, NextIsOpen
  <2>3. CASE o # -1
    <3>1. o \in Offsets /\ WeekdayOf(o) = day /\ ~Passed(o, rule)
      BY <2>3, NextOpenIs, Constants
    <3>2. answer' = IF Passed(o, Row(o)) THEN "locked" ELSE "open"
      BY <1>3, <2>3 DEF Ask
    <3>. HIDE DEF o
    <3>3. Settled => answer' = "open"
      BY <3>1, <3>2, RowIsOpen
    <3>. QED BY <2>1, <3>3 DEF NextIsOpen, Settled
  <2>. QED BY <2>2, <2>3
<1>. QED BY <1>1, <1>2, <1>3
         DEF Next, Tick, Generate, Ensure, NoTemplate, Remind, Lock, Runs, SetRule, SetDays

\* The day of the week after next is open when orders close within a week.
LEMMA OpenDate ==
  ASSUME TypeOK, WithinAWeek
  PROVE  AnOpenDate
<1>. SUFFICES ASSUME NEW d \in days PROVE NextOpen(d) # -1
  BY DEF AnOpenDate
<1>1. d \in 0..6 /\ Now \in 0..(PerDay - 1) /\ Weekday \in 0..6 /\ rule \in Zone
  BY Typed, Constants DEF TypeOK
<1>2. PICK o \in 7..13 : (Weekday + o) % 7 = d
  <2>. DEFINE e == IF d >= Weekday THEN 7 + (d - Weekday) ELSE 14 + (d - Weekday)
  <2>1. e \in 7..13 /\ (Weekday + e) % 7 = d
    BY <1>1
  <2>. QED BY <2>1
<1>3. rule.days \in 0..6
  BY <1>1, Constants DEF WithinAWeek
<1>4. ~Passed(o, rule)
  <2>1. ~(o < rule.days) /\ o # rule.days /\ o \in Int
    BY <1>3
  <2>. QED BY <1>1, <2>1, PassedIs
<1>5. o \in OpenSlots(d, 2)
  BY <1>2, <1>4 DEF OpenSlots, WeekdayOf
<1>6. OpenSlots(d, 2) # {} /\ OpenSlots(d, 2) \in SUBSET Nat
  BY <1>5 DEF OpenSlots
<1>7. NextOpen(d) = Min(OpenSlots(d, 2))
  BY <1>6 DEF NextOpen
<1>8. NextOpen(d) \in Nat
  BY <1>6, <1>7, MinOf
<1>. QED BY <1>8

LEMMA TablesAgree ==
  ASSUME TypeOK, SetUp
  PROVE  ShopAgrees
<1>. SUFFICES ASSUME rule = DefaultRule, days = {2, 4, 6}
              PROVE  LockedDays = LegacyLockedDays /\ Cardinality(LockedDays) <= 1
  BY DEF ShopAgrees, SetUp
<1>1. /\ Now \in 0..(PerDay - 1) /\ Weekday \in 0..6 /\ rule \in Zone
      /\ rule.days = 1 /\ 2 * rule.tick = PerDay /\ rule.tick \in 0..(PerDay - 1) /\ PerDay \in Nat
  BY Typed, Constants DEF SetUp
<1>2. ASSUME NEW d \in {2, 4, 6}
      PROVE  Passed((d - Weekday + 7) % 7, rule)
               <=> Weekday = d \/ (Weekday = d - 1 /\ 2 * Now >= PerDay)
  <2>. DEFINE o == (d - Weekday + 7) % 7
  <2>1. o \in 0..6 /\ (o = 0 <=> Weekday = d) /\ (o = 1 <=> Weekday = d - 1)
    BY <1>1
  <2>. HIDE DEF o
  <2>2. Passed(o, rule) <=> o < 1 \/ (o = 1 /\ rule.tick <= Now)
    BY <1>1, <2>1, PassedIs
  <2>3. rule.tick <= Now <=> 2 * Now >= PerDay
    BY <1>1
  <2>4. o < 1 <=> o = 0
    BY <2>1
  <2>5. Passed(o, rule) <=> Weekday = d \/ (Weekday = d - 1 /\ 2 * Now >= PerDay)
    BY <2>1, <2>2, <2>3, <2>4
  <2>. QED BY <2>5 DEF o
<1>3. LockedDays = LegacyLockedDays
  BY <1>2 DEF LockedDays, LegacyLockedDays
<1>4. \A d, e \in LockedDays : d = e
  <2>. SUFFICES ASSUME NEW d \in LockedDays, NEW e \in LockedDays PROVE d = e
    OBVIOUS
  <2>1. d \in {2, 4, 6} /\ (Weekday = d \/ Weekday = d - 1)
    BY <1>3 DEF LegacyLockedDays
  <2>2. e \in {2, 4, 6} /\ (Weekday = e \/ Weekday = e - 1)
    BY <1>3 DEF LegacyLockedDays
  <2>. QED BY <1>1, <2>1, <2>2
<1>5. Cardinality(LockedDays) <= 1
  <2>1. CASE LockedDays = {}
    BY <2>1, FS_EmptySet
  <2>2. CASE LockedDays # {}
    <3>1. PICK d \in LockedDays : TRUE
      BY <2>2
    <3>2. LockedDays = {d}
      BY <1>4, <3>1
    <3>. QED BY <3>2, FS_Singleton
  <2>. QED BY <2>1, <2>2
<1>. QED BY <1>3, <1>5

\* As long as orders close within a week of delivery and the calendar reaches two weeks, what
\* is offered can be ordered for, there is something to offer, and with the settings it was set
\* up with the shop's own table locks the days the server locks.
THEOREM OfferedIsOpen ==
  ASSUME Horizon >= 2, WithinAWeek, SetUp
  PROVE  Spec => []DatesOnOffer
<1>1. Init => NextIsOpen
  BY DEF Init, NextIsOpen
<1>2. IInv /\ NextIsOpen /\ [Next]_vars => NextIsOpen'
  BY AnswerKept
<1>3. IInv => TypeOK /\ AnOpenDate /\ ShopAgrees
  BY OpenDate, TablesAgree DEF IInv
<1>4. Spec => []NextIsOpen
  BY Invariant, <1>1, <1>2, PTL DEF Spec
<1>5. NextIsOpen /\ AnOpenDate /\ ShopAgrees => DatesOnOffer
  BY DEF DatesOnOffer
<1>. QED BY Invariant, <1>3, <1>4, <1>5, PTL
==============================================================================
