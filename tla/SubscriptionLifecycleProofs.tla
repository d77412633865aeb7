------------------- MODULE SubscriptionLifecycleProofs -------------------
(***************************************************************************)
(* What holds of a subscription's calendar for every number of weeks,      *)
(* delivery days and concurrent requests: the counters of the dates are    *)
(* exact and no week has two boxes.  And, for a member who makes one       *)
(* request at a time: the cached next delivery, the open cancellation and  *)
(* the yearly allowance of skips.                                          *)
(***************************************************************************)
EXTENDS SubscriptionLifecycle, FiniteSetTheorems, WellFoundedInduction, TLAPS

(* Least and greatest elements, and the weeks of dates.                     *)

LEMMA NatOrder == OpToRel(<, Nat) = {ss \in Nat \X Nat : ss[1] < ss[2]}
BY DEF OpToRel

\* A set of natural numbers has a least element.
LEMMA Least ==
  ASSUME NEW T \in SUBSET Nat, T # {}
  PROVE  \E n \in T : \A m \in T : n <= m
<1>. DEFINE R == {ss \in Nat \X Nat : ss[1] < ss[2]}
<1>1. IsWellFoundedOn(R, Nat) BY NatLessThanWellFounded, NatOrder
<1>2. PICK n \in T : \A m \in T : ~(<<m, n>> \in R) BY <1>1, WFMin
<1>3. ASSUME NEW m \in T PROVE n <= m
  <2>1. <<m, n>> \in Nat \X Nat OBVIOUS
  <2>2. ~(m < n) BY <1>2, <2>1
  <2>. QED BY <2>2
<1>. QED BY <1>3

LEMMA MinOf ==
  ASSUME NEW T \in SUBSET Nat, T # {}
  PROVE  Min(T) \in T /\ \A m \in T : Min(T) <= m
BY Least DEF Min

LEMMA MaxOf ==
  ASSUME NEW T \in SUBSET Nat, T # {}, NEW k \in Nat, \A m \in T : m <= k
  PROVE  Max(T) \in T /\ \A m \in T : m <= Max(T)
<1>. DEFINE U == {k - m : m \in T}
<1>0. \A m \in T : k - m \in Nat OBVIOUS
<1>1. U \in SUBSET Nat /\ U # {} BY <1>0
<1>2. PICK u \in U : \A m \in U : u <= m BY <1>1, Least
<1>3. PICK x \in T : u = k - x OBVIOUS
<1>4. ASSUME NEW m \in T PROVE x >= m
  <2>1. k - x <= k - m BY <1>2, <1>3
  <2>. QED BY <2>1
<1>5. \E y \in T : \A m \in T : y >= m BY <1>4
<1>6. Max(T) \in T /\ \A m \in T : Max(T) >= m BY <1>5 DEF Max
<1>. QED BY <1>6

LEMMA MaxZero ==
  ASSUME NEW x \in Nat
  PROVE  Max({0, x}) = x
<1>1. \A y \in {0, x} : x >= y OBVIOUS
<1>2. Max({0, x}) \in {0, x} /\ \A y \in {0, x} : Max({0, x}) >= y BY <1>1 DEF Max
<1>. QED BY <1>2

LEMMA MaxZeroNat ==
  ASSUME NEW x \in Int
  PROVE  Max({0, x}) \in Nat
<1>1. \E m \in {0, x} : \A y \in {0, x} : m >= y OBVIOUS
<1>2. Max({0, x}) \in {0, x} /\ \A y \in {0, x} : Max({0, x}) >= y BY <1>1 DEF Max
<1>. QED BY <1>2

LEMMA DivUnique ==
  ASSUME NEW d \in Nat \ {0}, NEW q \in Int, NEW r \in 0..(d - 1)
  PROVE  (q * d + r) \div d = q /\ (q * d + r) % d = r
OBVIOUS

LEMMA DivBack ==
  ASSUME NEW d \in Nat \ {0}, NEW x \in Nat
  PROVE  x \div d \in Nat /\ x % d \in 0..(d - 1) /\ x = (x \div d) * d + (x % d)
OBVIOUS

LEMMA MulLess ==
  ASSUME NEW d \in Nat \ {0}, NEW a \in Int, NEW b \in Int, a < b
  PROVE  a * d + d <= b * d
OBVIOUS

\* deliveryDateInWeek and its inverses.
LEMMA DateOfWeek ==
  ASSUME NEW w \in Int, NEW k \in Days
  PROVE  WeekOf(DateIn(w, k)) = w /\ DayOf(DateIn(w, k)) = k
<1>1. DaysPerWeek \in Nat \ {0} BY CalendarAssumption
<1>2. k \in 0..(DaysPerWeek - 1) BY DEF Days
<1>3. w * DaysPerWeek \in Int /\ k \in Int BY <1>1, <1>2
<1>4. DateIn(w, k) - 1 = w * DaysPerWeek + k BY <1>3 DEF DateIn
<1>. QED BY <1>1, <1>2, <1>4, DivUnique DEF WeekOf, DayOf

LEMMA WeekOfDate ==
  ASSUME NEW d \in Dates
  PROVE  WeekOf(d) \in 0..(Weeks - 1) /\ DayOf(d) \in Days
<1>1. DaysPerWeek \in Nat \ {0} /\ Weeks \in Nat \ {0} BY CalendarAssumption
<1>2. Weeks * DaysPerWeek \in Nat BY <1>1
<1>3. d - 1 \in Nat /\ d - 1 < Weeks * DaysPerWeek BY <1>2 DEF Dates
<1>4. /\ WeekOf(d) \in Nat /\ DayOf(d) \in 0..(DaysPerWeek - 1)
      /\ d - 1 = WeekOf(d) * DaysPerWeek + DayOf(d)
  BY <1>1, <1>3, DivBack DEF WeekOf, DayOf
<1>5. CASE WeekOf(d) >= Weeks
  <2>1. WeekOf(d) * DaysPerWeek >= Weeks * DaysPerWeek
    <3>1. CASE WeekOf(d) = Weeks BY <3>1, <1>2
    <3>2. CASE WeekOf(d) > Weeks
      <4>1. Weeks * DaysPerWeek + DaysPerWeek <= WeekOf(d) * DaysPerWeek
        BY <3>2, <1>1, <1>4, MulLess
      <4>. QED BY <4>1, <1>1, <1>2, <1>4
    <3>. QED BY <3>1, <3>2, <1>5, <1>1, <1>4
  <2>2. WeekOf(d) * DaysPerWeek \in Nat BY <1>1, <1>4
  <2>. QED BY <2>1, <2>2, <1>3, <1>4, <1>2
<1>. QED BY <1>4, <1>5, <1>1 DEF Days

LEMMA DateInWeek ==
  ASSUME NEW w \in Nat, NEW k \in Days, w < Weeks
  PROVE  DateIn(w, k) \in Dates
<1>1. DaysPerWeek \in Nat \ {0} /\ Weeks \in Nat \ {0} BY CalendarAssumption
<1>2. k \in 0..(DaysPerWeek - 1) BY DEF Days
<1>3. w * DaysPerWeek + DaysPerWeek <= Weeks * DaysPerWeek BY <1>1, MulLess
<1>4. w * DaysPerWeek \in Nat /\ Weeks * DaysPerWeek \in Nat BY <1>1
<1>. QED BY <1>1, <1>2, <1>3, <1>4 DEF DateIn, Dates

-------------------------------------------------------------------------------
(* Books.                                                                   *)

None0 == Row \cup {NoCycle}
BookOK(b) == /\ b \in [cycle : [Numbers -> None0], reserved : [Slots -> 0..Capacity]]
             /\ b.cycle[1].status # None
Held(b, s) == {c \in Numbers : b.cycle[c].status \in Holding /\ SlotOf(b.cycle[c]) = s}
Taken(O, s) == IF s \in O THEN 1 ELSE 0
Exact(b, O) == \A s \in Slots : b.reserved[s] = Cardinality(Held(b, s)) + Taken(O, s)
Orderly(b) == \A c, d \in Existing(b) :
                c < d => WeekOf(b.cycle[c].date) < WeekOf(b.cycle[d].date)
PlanOK(p) == p \in [freq : Freqs \cup {1}, day : Days, zone : Zones]
Clock == 0..(Weeks * DaysPerWeek)

LEMMA RowFacts ==
  ASSUME NEW r \in None0, r.status # None
  PROVE  /\ r \in Row /\ r.date \in Dates /\ r.zone \in Zones /\ SlotOf(r) \in Slots
         /\ WeekOf(r.date) \in 0..(Weeks - 1) /\ DayOf(r.date) \in Days
<1>1. r \in Row BY DEF None0, NoCycle
<1>2. r.date \in Dates /\ r.zone \in Zones BY <1>1 DEF Row
<1>. QED BY <1>1, <1>2, WeekOfDate DEF SlotOf, Slots

LEMMA NumberFacts == IsFiniteSet(Numbers) /\ 1 \in Numbers /\ Numbers \in SUBSET Nat
<1>1. Weeks \in Nat \ {0} BY CalendarAssumption
<1>. QED BY <1>1, FS_Interval DEF Numbers

LEMMA ScheduledRow ==
  ASSUME NEW z \in Zones, NEW d \in Dates
  PROVE  /\ Scheduled(z, d) \in Row /\ Scheduled(z, d) \in None0
         /\ Scheduled(z, d).status = "SCHEDULED" /\ Scheduled(z, d).date = d
         /\ SlotOf(Scheduled(z, d)) = <<z, d>> /\ Scheduled(z, d).skip = None
<1>1. Weeks * DaysPerWeek \in Nat BY CalendarAssumption
<1>. QED BY <1>1 DEF Scheduled, Row, None0, SlotOf, CycleStatus, None

LEMMA HeldFinite ==
  ASSUME NEW b, NEW s
  PROVE  IsFiniteSet(Held(b, s)) /\ Cardinality(Held(b, s)) \in Nat
<1>1. Held(b, s) \in SUBSET Numbers BY DEF Held
<1>2. IsFiniteSet(Held(b, s)) BY <1>1, NumberFacts, FS_Subset
<1>. QED BY <1>2, FS_CardinalityType

\* Boxes of C get the rows R, which hold no slot, and give theirs back.
Given(b, C, R) ==
  [cycle    |-> [c \in Numbers |-> IF c \in C THEN R[c] ELSE b.cycle[c]],
   reserved |-> [s \in Slots |-> Max({0, b.reserved[s] - Freed(b, C, s)})]]

LEMMA GivenBack ==
  ASSUME NEW b, BookOK(b), NEW O, Exact(b, O), NEW C \in SUBSET Numbers,
         \A c \in C : b.cycle[c].status \in Holding, NEW s \in Slots
  PROVE  LET F == {c \in C : SlotOf(b.cycle[c]) = s}
         IN  /\ F \subseteq Held(b, s) /\ Cardinality(F) = Freed(b, C, s)
             /\ Freed(b, C, s) \in Nat
             /\ Cardinality(Held(b, s) \ F) = Cardinality(Held(b, s)) - Freed(b, C, s)
             /\ Max({0, b.reserved[s] - Freed(b, C, s)}) = b.reserved[s] - Freed(b, C, s)
             /\ b.reserved[s] - Freed(b, C, s) \in Nat
<1>. DEFINE F == {c \in C : SlotOf(b.cycle[c]) = s}
<1>1. F \subseteq Held(b, s) BY DEF Held
<1>2. IsFiniteSet(F) /\ Cardinality(F) \in Nat /\ Cardinality(F) <= Cardinality(Held(b, s))
  BY <1>1, HeldFinite, FS_Subset, FS_CardinalityType
<1>3. Cardinality(F) = Freed(b, C, s) BY DEF Freed
<1>4. Cardinality(Held(b, s) \ F) = Cardinality(Held(b, s)) - Cardinality(F)
  <2>1. Held(b, s) \cap F = F BY <1>1
  <2>2. Cardinality(Held(b, s) \ F) = Cardinality(Held(b, s)) - Cardinality(Held(b, s) \cap F)
    BY HeldFinite, FS_Difference
  <2>. QED BY <2>1, <2>2
<1>5. b.reserved[s] = Cardinality(Held(b, s)) + Taken(O, s) BY DEF Exact
<1>6. Taken(O, s) \in Nat BY DEF Taken
<1>7. b.reserved[s] - Freed(b, C, s) \in Nat BY <1>2, <1>3, <1>5, <1>6, HeldFinite
<1>8. Max({0, b.reserved[s] - Freed(b, C, s)}) = b.reserved[s] - Freed(b, C, s) BY <1>7, MaxZero
<1>. QED BY <1>1, <1>2, <1>3, <1>4, <1>7, <1>8

LEMMA GivenKeeps ==
  ASSUME NEW b, BookOK(b), NEW O, Exact(b, O), NEW C \in SUBSET Numbers,
         \A c \in C : b.cycle[c].status \in Holding,
         NEW R, \A c \in C : R[c] \in None0 /\ R[c].status \notin Holding, 1 \in C => R[1].status # None
  PROVE  BookOK(Given(b, C, R)) /\ Exact(Given(b, C, R), O)
<1>. DEFINE g == Given(b, C, R)
<1>1. ASSUME NEW s \in Slots
      PROVE  /\ g.reserved[s] = b.reserved[s] - Freed(b, C, s)
             /\ g.reserved[s] \in 0..Capacity
             /\ g.reserved[s] = Cardinality(Held(g, s)) + Taken(O, s)
  <2>1. g.reserved[s] = b.reserved[s] - Freed(b, C, s) /\ Freed(b, C, s) \in Nat
        /\ g.reserved[s] \in Nat
    BY ZenonT(40), GivenBack DEF Given
  <2>2. b.reserved[s] \in 0..Capacity BY DEF BookOK
  <2>3. Held(g, s) = Held(b, s) \ {c \in C : SlotOf(b.cycle[c]) = s} BY DEF Held, Given
  <2>4. Cardinality(Held(g, s)) = Cardinality(Held(b, s)) - Freed(b, C, s) BY <2>3, GivenBack
  <2>5. b.reserved[s] = Cardinality(Held(b, s)) + Taken(O, s) BY DEF Exact
  <2>6. Taken(O, s) \in Nat /\ Cardinality(Held(b, s)) \in Nat BY HeldFinite DEF Taken
  <2>7. Capacity \in Nat BY LimitAssumption
  <2>. HIDE DEF g
  <2>. QED BY <2>1, <2>2, <2>4, <2>5, <2>6, <2>7
<1>2. g.cycle \in [Numbers -> None0] BY DEF BookOK, Given
<1>3. g.cycle[1].status # None BY NumberFacts DEF BookOK, Given
<1>4. g = [cycle |-> g.cycle, reserved |-> g.reserved] BY DEF Given
<1>5. g.reserved \in [Slots -> 0..Capacity]
  <2>1. g.reserved = [s \in Slots |-> g.reserved[s]] BY DEF Given
  <2>. HIDE DEF g
  <2>. QED BY <2>1, <1>1
<1>6. BookOK(g)
  <2>. HIDE DEF g
  <2>. QED BY <1>2, <1>3, <1>4, <1>5 DEF BookOK
<1>7. Exact(g, O)
  <2>. HIDE DEF g
  <2>. QED BY <1>1 DEF Exact
<1>. QED BY <1>6, <1>7

\* Rows that keep their date, or go, keep the order of the weeks.
LEMMA GivenOrderly ==
  ASSUME NEW b, BookOK(b), Orderly(b), NEW C \in SUBSET Numbers,
         NEW R, \A c \in C : R[c].status # None => b.cycle[c].status # None /\ R[c].date = b.cycle[c].date
  PROVE  Orderly(Given(b, C, R))
BY DEF Orderly, Existing, Given

-------------------------------------------------------------------------------
(* ensureSubscriptionInTx adds rows for later and later weeks.              *)

Extended(b, last, n, D, z) ==
  [cycle    |-> [c \in Numbers |-> IF c \in (last + 1)..(last + n)
                                   THEN Scheduled(z, D[c - last]) ELSE b.cycle[c]],
   reserved |-> [s \in Slots |-> IF \E i \in 1..n : s = <<z, D[i]>>
                                 THEN b.reserved[s] + 1 ELSE b.reserved[s]]]

\* The n dates D may follow row `last` of b.
Follow(b, last, n, D, z) ==
  /\ last \in Existing(b) /\ \A c \in Existing(b) : c <= last
  /\ n \in Nat /\ last + n <= Weeks
  /\ \A i \in 1..n : /\ D[i] \in Dates /\ b.reserved[<<z, D[i]>>] < Capacity
                     /\ WeekOf(b.cycle[last].date) < WeekOf(D[i])
  /\ \A i, j \in 1..n : i < j => WeekOf(D[i]) < WeekOf(D[j])

LEMMA ExtendedKeeps ==
  ASSUME NEW b, BookOK(b), Orderly(b), NEW O, Exact(b, O), NEW z \in Zones,
         NEW last, NEW n, NEW D, Follow(b, last, n, D, z)
  PROVE  LET g == Extended(b, last, n, D, z) IN BookOK(g) /\ Exact(g, O) /\ Orderly(g)
<1>. DEFINE g == Extended(b, last, n, D, z)
<1>0. last \in Numbers /\ last \in Nat /\ n \in Nat /\ Weeks \in Nat
  BY NumberFacts, CalendarAssumption DEF Follow, Existing
<1>1. \A c \in (last + 1)..(last + n) : /\ c \in Numbers /\ c \notin Existing(b)
                                        /\ c - last \in 1..n /\ c > last
  BY <1>0 DEF Follow, Numbers
<1>2. \A i \in 1..n : Scheduled(z, D[i]) \in None0 /\ SlotOf(Scheduled(z, D[i])) = <<z, D[i]>>
                      /\ Scheduled(z, D[i]).status = "SCHEDULED" /\ Scheduled(z, D[i]).date = D[i]
  BY ScheduledRow DEF Follow
<1>3. g.cycle \in [Numbers -> None0]
  <2>1. \A c \in Numbers : g.cycle[c] \in None0 BY <1>1, <1>2 DEF BookOK, Extended
  <2>2. g.cycle = [c \in Numbers |-> g.cycle[c]] BY DEF Extended
  <2>. HIDE DEF g
  <2>. QED BY <2>1, <2>2
<1>4. \A c \in Existing(b) : g.cycle[c] = b.cycle[c] BY <1>1 DEF Extended, Existing
<1>5. g.cycle[1].status # None
  <2>1. 1 \in Existing(b) BY NumberFacts DEF BookOK, Existing
  <2>. QED BY <2>1, <1>4 DEF BookOK
<1>6. \A i, j \in 1..n : D[i] = D[j] => i = j
  <2>. SUFFICES ASSUME NEW i \in 1..n, NEW j \in 1..n, D[i] = D[j], i < j PROVE FALSE
    BY <1>0
  <2>1. WeekOf(D[i]) < WeekOf(D[j]) BY DEF Follow
  <2>2. WeekOf(D[i]) \in 0..(Weeks - 1) BY WeekOfDate DEF Follow
  <2>. QED BY <2>1, <2>2
<1>7. ASSUME NEW s \in Slots
      PROVE  g.reserved[s] \in 0..Capacity /\ g.reserved[s] = Cardinality(Held(g, s)) + Taken(O, s)
  <2>0. /\ b.reserved[s] \in 0..Capacity /\ b.reserved[s] = Cardinality(Held(b, s)) + Taken(O, s)
        /\ Cardinality(Held(b, s)) \in Nat /\ IsFiniteSet(Held(b, s)) /\ Taken(O, s) \in Nat
        /\ Capacity \in Nat
    BY HeldFinite, LimitAssumption DEF BookOK, Exact, Taken
  <2>1. CASE \E i \in 1..n : s = <<z, D[i]>>
    <3>1. PICK i \in 1..n : s = <<z, D[i]>> BY <2>1
    <3>2. g.reserved[s] = b.reserved[s] + 1 /\ b.reserved[s] < Capacity
      BY <3>1 DEF Extended, Follow
    <3>3. last + i \in (last + 1)..(last + n) /\ (last + i) - last = i BY <1>0
    <3>4. g.cycle[last + i] = Scheduled(z, D[i]) BY <3>3, <1>1 DEF Extended
    <3>5. last + i \notin Held(b, s) BY <3>3, <1>1 DEF Held, Existing, Holding, None, InFlight
    <3>6. ASSUME NEW c \in Numbers PROVE c \in Held(g, s) <=> c \in Held(b, s) \cup {last + i}
      <4>1. CASE c \in (last + 1)..(last + n)
        <5>1. c \notin Held(b, s) BY <4>1, <1>1 DEF Held, Existing, Holding, None, InFlight
        <5>2. g.cycle[c] = Scheduled(z, D[c - last]) BY <4>1 DEF Extended
        <5>3. c \in Held(g, s) <=> D[c - last] = D[i]
          BY <5>2, <4>1, <1>1, <1>2, <3>1 DEF Held, Holding
        <5>4. D[c - last] = D[i] <=> c - last = i BY <4>1, <1>1, <1>6
        <5>5. c - last = i <=> c = last + i BY <4>1, <1>0
        <5>. QED BY <5>1, <5>3, <5>4, <5>5
      <4>2. CASE c \notin (last + 1)..(last + n)
        <5>1. g.cycle[c] = b.cycle[c] BY <4>2 DEF Extended
        <5>2. c # last + i BY <4>2, <3>3
        <5>. QED BY <5>1, <5>2 DEF Held
      <4>. QED BY <4>1, <4>2
    <3>7. Held(g, s) = Held(b, s) \cup {last + i}
      <4>1. last + i \in Numbers BY <3>3, <1>1
      <4>. QED BY <3>6, <4>1 DEF Held
    <3>8. Cardinality(Held(g, s)) = Cardinality(Held(b, s)) + 1
      BY <3>5, <3>7, <2>0, FS_AddElement
    <3>. HIDE DEF g
    <3>. QED BY <2>0, <3>2, <3>8
  <2>2. CASE ~\E i \in 1..n : s = <<z, D[i]>>
    <3>1. g.reserved[s] = b.reserved[s] BY <2>2 DEF Extended
    <3>2. ASSUME NEW c \in Numbers PROVE c \in Held(g, s) <=> c \in Held(b, s)
      <4>1. CASE c \in (last + 1)..(last + n)
        <5>1. c \notin Held(b, s) BY <4>1, <1>1 DEF Held, Existing, Holding, None, InFlight
        <5>2. g.cycle[c] = Scheduled(z, D[c - last]) BY <4>1 DEF Extended
        <5>3. SlotOf(g.cycle[c]) # s BY <5>2, <4>1, <1>1, <1>2, <2>2
        <5>. QED BY <5>1, <5>3 DEF Held
      <4>2. CASE c \notin (last + 1)..(last + n)
        <5>1. g.cycle[c] = b.cycle[c] BY <4>2 DEF Extended
        <5>. QED BY <5>1 DEF Held
      <4>. QED BY <4>1, <4>2
    <3>3. Held(g, s) = Held(b, s) BY <3>2 DEF Held
    <3>. HIDE DEF g
    <3>. QED BY <2>0, <3>1, <3>3
  <2>. QED BY <2>1, <2>2
<1>8. BookOK(g)
  <2>1. g = [cycle |-> g.cycle, reserved |-> g.reserved] BY DEF Extended
  <2>2. g.reserved = [s \in Slots |-> g.reserved[s]] BY DEF Extended
  <2>. HIDE DEF g
  <2>3. g.reserved \in [Slots -> 0..Capacity] BY <2>2, <1>7
  <2>. QED BY <2>1, <2>3, <1>3, <1>5 DEF BookOK
<1>9. Exact(g, O)
  <2>. HIDE DEF g
  <2>. QED BY <1>7 DEF Exact
<1>10. Orderly(g)
  <2>. SUFFICES ASSUME NEW c \in Existing(g), NEW e \in Existing(g), c < e
                PROVE  WeekOf(g.cycle[c].date) < WeekOf(g.cycle[e].date)
    BY DEF Orderly
  <2>0. c \in Numbers /\ e \in Numbers /\ c \in Nat /\ e \in Nat BY NumberFacts DEF Existing
  <2>1. \A x \in Numbers : x \in (last + 1)..(last + n) =>
          g.cycle[x].date = D[x - last] /\ x - last \in 1..n
    BY <1>1, <1>2 DEF Extended
  <2>2. \A x \in Numbers : x \notin (last + 1)..(last + n) => g.cycle[x] = b.cycle[x] BY DEF Extended
  <2>3. \A x \in Existing(g) : x \notin (last + 1)..(last + n) => x \in Existing(b)
    BY <2>2 DEF Existing
  <2>. HIDE DEF g
  <2>4. CASE c \in (last + 1)..(last + n) /\ e \in (last + 1)..(last + n)
    <3>1. c - last < e - last BY <2>0, <1>0
    <3>. QED BY <2>4, <2>0, <2>1, <3>1 DEF Follow
  <2>5. CASE c \notin (last + 1)..(last + n) /\ e \notin (last + 1)..(last + n)
    BY <2>5, <2>0, <2>2, <2>3 DEF Orderly
  <2>6. CASE c \in (last + 1)..(last + n) /\ e \notin (last + 1)..(last + n)
    <3>1. e <= last BY <2>6, <2>3 DEF Follow
    <3>. QED BY <3>1, <2>6, <2>0, <1>0
  <2>7. CASE c \notin (last + 1)..(last + n) /\ e \in (last + 1)..(last + n)
    <3>1. c \in Existing(b) /\ c <= last BY <2>7, <2>3 DEF Follow
    <3>2. last \in Existing(b) /\ WeekOf(b.cycle[last].date) < WeekOf(g.cycle[e].date)
      BY <2>7, <2>0, <2>1 DEF Follow
    <3>3. c = last \/ WeekOf(b.cycle[c].date) < WeekOf(b.cycle[last].date)
      BY <3>1, <3>2, <2>0, <1>0 DEF Orderly
    <3>4. g.cycle[c] = b.cycle[c] BY <2>7, <2>0, <2>2
    <3>5. /\ WeekOf(b.cycle[c].date) \in 0..(Weeks - 1)
          /\ WeekOf(b.cycle[last].date) \in 0..(Weeks - 1)
      BY <3>1, <3>2, RowFacts DEF BookOK, Existing
    <3>6. WeekOf(g.cycle[e].date) \in 0..(Weeks - 1) BY <2>7, <2>0, <2>1, WeekOfDate DEF Follow
    <3>. QED BY <3>2, <3>3, <3>4, <3>5, <3>6
  <2>. QED BY <2>4, <2>5, <2>6, <2>7
<1>. QED BY <1>8, <1>9, <1>10

LastRow(b) == Max(Existing(b))
Period(b, p, at, i) == FirstWeek(b.cycle[LastRow(b)], p, at) + (i - 1) * p.freq
Planned(b, p, at, i) == DateIn(Period(b, p, at, i), p.day)
MayPlan(b, p, at, i) == /\ Planned(b, p, at, i) \in Dates
                        /\ Planned(b, p, at, i) <= at + Horizon * DaysPerWeek
                        /\ Period(b, p, at, i) \notin Unplanned
                        /\ CanReserve(b, <<p.zone, Planned(b, p, at, i)>>)
Plans(b, p, at) == {k \in 0..(Weeks - LastRow(b)) : \A i \in 1..k : MayPlan(b, p, at, i)}

LEMMA LastRowIs ==
  ASSUME NEW b, BookOK(b)
  PROVE  /\ LastRow(b) \in Existing(b) /\ LastRow(b) \in Numbers
         /\ \A c \in Existing(b) : c <= LastRow(b)
<1>1. Existing(b) \in SUBSET Nat /\ 1 \in Existing(b) BY NumberFacts DEF Existing, BookOK
<1>2. Weeks \in Nat /\ \A c \in Existing(b) : c <= Weeks BY CalendarAssumption DEF Existing, Numbers
<1>. QED BY <1>1, <1>2, MaxOf DEF LastRow, Existing

LEMMA PlanFacts ==
  ASSUME NEW p, PlanOK(p)
  PROVE  p.freq \in Nat \ {0} /\ p.day \in Days /\ p.zone \in Zones
<1>1. p.freq \in Freqs \cup {1} /\ p.day \in Days /\ p.zone \in Zones BY DEF PlanOK
<1>2. \A f \in Freqs : f \in Nat \ {0} BY PlanAssumption
<1>3. p.freq \in Nat \ {0} BY <1>1, <1>2
<1>. QED BY <1>1, <1>3

\* The first period to plan is a later week than the last row's, and a week of the future.
LEMMA FirstWeekLater ==
  ASSUME NEW r \in Row, NEW p, PlanOK(p), NEW at \in Clock
  PROVE  FirstWeek(r, p, at) \in Nat /\ WeekOf(r.date) < FirstWeek(r, p, at)
<1>. DEFINE W == {w \in {WeekOf(r.date) + i * p.freq : i \in 1..(2 * Weeks)} : DateIn(w, p.day) > at}
<1>1. WeekOf(r.date) \in Nat /\ p.freq \in Nat \ {0} /\ p.day \in Days
  <2>1. r.date \in Dates BY DEF Row
  <2>. QED BY <2>1, WeekOfDate, PlanFacts
<1>2. ASSUME NEW i \in 1..(2 * Weeks)
      PROVE  WeekOf(r.date) + i * p.freq \in Nat /\ WeekOf(r.date) < WeekOf(r.date) + i * p.freq
  <2>1. i \in Nat \ {0} BY CalendarAssumption
  <2>2. i * p.freq \in Nat \ {0} BY <2>1, <1>1
  <2>. QED BY <2>2, <1>1
<1>3. W # {}
  <2>. DEFINE w == WeekOf(r.date) + (2 * Weeks) * p.freq
  <2>1. Weeks \in Nat \ {0} /\ DaysPerWeek \in Nat \ {0} BY CalendarAssumption
  <2>2. 2 * Weeks \in 1..(2 * Weeks) BY <2>1
  <2>3. (2 * Weeks) * p.freq >= 2 * Weeks BY <2>1, <1>1
  <2>4. w \in Nat /\ w > Weeks BY <2>1, <2>2, <2>3, <1>1, <1>2
  <2>5. Weeks * DaysPerWeek + DaysPerWeek <= w * DaysPerWeek BY <2>1, <2>4, MulLess
  <2>6. Weeks * DaysPerWeek \in Nat /\ w * DaysPerWeek \in Nat /\ p.day \in Nat
    BY <2>1, <2>4, <1>1 DEF Days
  <2>7. at <= Weeks * DaysPerWeek /\ at \in Nat BY <2>6 DEF Clock
  <2>. HIDE DEF w
  <2>8. DateIn(w, p.day) > at BY <2>1, <2>5, <2>6, <2>7 DEF DateIn
  <2>9. w \in W BY <2>2, <2>8 DEF w
  <2>. QED BY <2>9
<1>4. W \in SUBSET Nat BY <1>2
<1>5. Min(W) \in W BY <1>3, <1>4, MinOf
<1>6. FirstWeek(r, p, at) = Min(W) BY DEF FirstWeek
<1>7. \A w \in W : WeekOf(r.date) < w /\ w \in Nat BY <1>2
<1>. HIDE DEF W
<1>. QED BY <1>5, <1>6, <1>7

LEMMA PeriodsRise ==
  ASSUME NEW b, BookOK(b), NEW p, PlanOK(p), NEW at \in Clock
  PROVE  /\ \A i \in Nat \ {0} : /\ Period(b, p, at, i) \in Nat
                                 /\ WeekOf(b.cycle[LastRow(b)].date) < Period(b, p, at, i)
         /\ \A i, j \in Nat \ {0} : i < j => Period(b, p, at, i) < Period(b, p, at, j)
<1>1. b.cycle[LastRow(b)] \in Row BY LastRowIs, RowFacts DEF BookOK, Existing
<1>. DEFINE f == FirstWeek(b.cycle[LastRow(b)], p, at)
<1>2. f \in Nat /\ WeekOf(b.cycle[LastRow(b)].date) < f BY <1>1, FirstWeekLater
<1>3. p.freq \in Nat \ {0} BY PlanFacts
<1>4. WeekOf(b.cycle[LastRow(b)].date) \in Nat BY <1>1, WeekOfDate, CalendarAssumption DEF Row
<1>5. \A i \in Nat \ {0} : Period(b, p, at, i) = f + (i - 1) * p.freq BY DEF Period
<1>. HIDE DEF f
<1>6. ASSUME NEW i \in Nat \ {0} PROVE (i - 1) * p.freq \in Nat
  <2>1. i - 1 \in Nat OBVIOUS
  <2>. QED BY <2>1, <1>3
<1>7. ASSUME NEW i \in Nat \ {0}, NEW j \in Nat \ {0}, i < j
      PROVE  (i - 1) * p.freq < (j - 1) * p.freq
  <2>1. i - 1 \in Int /\ j - 1 \in Int /\ i - 1 < j - 1 BY <1>7
  <2>2. (i - 1) * p.freq + p.freq <= (j - 1) * p.freq BY <2>1, <1>3, MulLess
  <2>. QED BY <2>2, <1>6, <1>3
<1>8. ASSUME NEW i \in Nat \ {0}
      PROVE  Period(b, p, at, i) \in Nat /\ WeekOf(b.cycle[LastRow(b)].date) < Period(b, p, at, i)
  BY <1>2, <1>4, <1>5, <1>6
<1>9. ASSUME NEW i \in Nat \ {0}, NEW j \in Nat \ {0}, i < j
      PROVE  Period(b, p, at, i) < Period(b, p, at, j)
  BY <1>2, <1>5, <1>6, <1>7, <1>9
<1>. QED BY <1>8, <1>9

\* What ensureSubscriptionInTx does to a book.
LEMMA EnsuredExtends ==
  ASSUME NEW b, BookOK(b), NEW p, PlanOK(p), NEW at \in Clock, NEW status, EnsureRuns(status)
  PROVE  \E n, D : /\ Follow(b, LastRow(b), n, D, p.zone)
                   /\ Ensured(b, status, p, at) = Extended(b, LastRow(b), n, D, p.zone)
<1>. DEFINE last == LastRow(b)
            n == Max(Plans(b, p, at))
            D == [i \in 1..n |-> Planned(b, p, at, i)]
<1>1. last \in Existing(b) /\ last \in Numbers /\ \A c \in Existing(b) : c <= last BY LastRowIs
<1>2. last \in Nat /\ Weeks \in Nat /\ last <= Weeks BY <1>1, CalendarAssumption DEF Numbers
<1>3. n \in Plans(b, p, at)
  <2>1. Plans(b, p, at) \in SUBSET Nat /\ 0 \in Plans(b, p, at) BY <1>2 DEF Plans
  <2>2. Weeks - last \in Nat /\ \A k \in Plans(b, p, at) : k <= Weeks - last BY <1>2 DEF Plans
  <2>. QED BY <2>1, <2>2, MaxOf
<1>4. n \in Nat /\ last + n <= Weeks /\ \A i \in 1..n : MayPlan(b, p, at, i)
  BY <1>2, <1>3 DEF Plans
<1>5. Ensured(b, status, p, at) = Extended(b, last, n, D, p.zone)
  <2>1. Ensured(b, status, p, at) =
          [cycle |-> [c \in Numbers |-> IF c \in (last + 1)..(last + n)
                                        THEN Scheduled(p.zone, Planned(b, p, at, c - last))
                                        ELSE b.cycle[c]],
           reserved |-> [s \in Slots |-> IF s \in {<<p.zone, Planned(b, p, at, i)>> : i \in 1..n}
                                         THEN b.reserved[s] + 1 ELSE b.reserved[s]]]
    BY DEF Ensured, LastRow, Period, Planned, MayPlan, Plans
  <2>2. \A c \in (last + 1)..(last + n) : D[c - last] = Planned(b, p, at, c - last)
    BY <1>2, <1>4
  <2>3. \A s : s \in {<<p.zone, Planned(b, p, at, i)>> : i \in 1..n}
               <=> \E i \in 1..n : s = <<p.zone, D[i]>>
    OBVIOUS
  <2>. HIDE DEF n, D, last
  <2>. QED BY <2>1, <2>2, <2>3 DEF Extended
<1>6. Follow(b, last, n, D, p.zone)
  <2>1. p.day \in Days BY DEF PlanOK
  <2>2. \A i \in 1..n : i \in Nat \ {0} BY <1>4
  <2>3. \A i \in 1..n : WeekOf(D[i]) = Period(b, p, at, i)
    BY <2>1, <2>2, PeriodsRise, DateOfWeek DEF Planned
  <2>4. \A i \in 1..n : D[i] \in Dates /\ b.reserved[<<p.zone, D[i]>>] < Capacity
    BY <1>4 DEF MayPlan, CanReserve
  <2>5. \A i \in 1..n : WeekOf(b.cycle[last].date) < WeekOf(D[i]) BY <2>2, <2>3, PeriodsRise
  <2>6. \A i, j \in 1..n : i < j => WeekOf(D[i]) < WeekOf(D[j]) BY <2>2, <2>3, PeriodsRise
  <2>. HIDE DEF n, D, last
  <2>. QED BY <1>1, <1>4, <2>4, <2>5, <2>6 DEF Follow
<1>. QED BY <1>5, <1>6

LEMMA EnsuredKeeps ==
  ASSUME NEW b, BookOK(b), Orderly(b), NEW O, Exact(b, O), NEW p, PlanOK(p), NEW at \in Clock,
         NEW status
  PROVE  LET g == Ensured(b, status, p, at) IN BookOK(g) /\ Exact(g, O) /\ Orderly(g)
<1>1. CASE EnsureRuns(status)
  <2>1. PICK n, D : /\ Follow(b, LastRow(b), n, D, p.zone)
                    /\ Ensured(b, status, p, at) = Extended(b, LastRow(b), n, D, p.zone)
    BY <1>1, EnsuredExtends
  <2>2. p.zone \in Zones BY DEF PlanOK
  <2>. QED BY <2>1, <2>2, ExtendedKeeps
<1>2. CASE ~EnsureRuns(status) BY <1>2 DEF Ensured
<1>. QED BY <1>1, <1>2

-------------------------------------------------------------------------------
(* The other steps of the books.                                            *)

Good(b, O) == BookOK(b) /\ Exact(b, O) /\ Orderly(b)

\* refreshNextDelivery finds a date, or none.
LEMMA NextOfOK ==
  ASSUME NEW b, BookOK(b)
  PROVE  NextOf(b) \in Dates \cup {0}
<1>1. Ahead(b) \subseteq Dates
  <2>. SUFFICES ASSUME NEW c \in Numbers, b.cycle[c].status \in {"SCHEDULED"} \cup InFlight
                PROVE  b.cycle[c].date \in Dates
    BY DEF Ahead
  <2>1. b.cycle[c].status # None BY DEF InFlight, None
  <2>. QED BY <2>1, RowFacts DEF BookOK
<1>2. Dates \in SUBSET Nat BY CalendarAssumption DEF Dates
<1>3. CASE Ahead(b) = {} BY <1>3 DEF NextOf
<1>4. CASE Ahead(b) # {}
  <2>1. Min(Ahead(b)) \in Ahead(b) BY <1>1, <1>2, <1>4, MinOf
  <2>. QED BY <2>1, <1>1, <1>4 DEF NextOf
<1>. QED BY <1>3, <1>4

\* A box that changes its status only, and keeps its slot.
LEMMA Relabelled ==
  ASSUME NEW b, NEW O, Good(b, O), NEW c \in Numbers, NEW g,
         NEW s0 \in {"LOCKED", "CHARGED", "DELIVERED"},
         b.cycle[c].status \in Holding, g = [b EXCEPT !.cycle[c].status = s0]
  PROVE  Good(g, O)
<1>1. /\ b \in [cycle : [Numbers -> None0], reserved : [Slots -> 0..Capacity]]
      /\ b.cycle[1].status # None
  BY DEF Good, BookOK
<1>2. b.cycle[c] \in Row BY <1>1, RowFacts DEF Holding, InFlight, None
<1>3. g = [cycle |-> [b.cycle EXCEPT ![c].status = s0], reserved |-> b.reserved] BY <1>1
<1>4. [b.cycle[c] EXCEPT !.status = s0] \in Row BY <1>2 DEF Row, CycleStatus
<1>5. g.cycle \in [Numbers -> None0] BY <1>1, <1>3, <1>4 DEF None0
<1>6. \A d \in Numbers : /\ g.cycle[d].date = b.cycle[d].date /\ g.cycle[d].zone = b.cycle[d].zone
                         /\ d # c => g.cycle[d] = b.cycle[d]
                         /\ d = c => g.cycle[d].status = s0
  BY <1>1, <1>2, <1>3 DEF Row
<1>7. s0 \in Holding /\ s0 # None /\ b.cycle[c].status # None BY <1>2 DEF Holding, InFlight, None, Row, CycleStatus
<1>8. BookOK(g) BY <1>1, <1>3, <1>5, <1>6, <1>7 DEF BookOK
<1>9. \A s : Held(g, s) = Held(b, s) BY <1>6, <1>7 DEF Held, SlotOf
<1>10. Exact(g, O) BY <1>3, <1>9 DEF Good, Exact
<1>11. Existing(g) = Existing(b) BY <1>6, <1>7 DEF Existing
<1>12. Orderly(g)
  <2>1. \A d \in Existing(b) : g.cycle[d].date = b.cycle[d].date BY <1>6 DEF Existing
  <2>. QED BY <2>1, <1>11 DEF Good, Orderly
<1>. QED BY <1>8, <1>10, <1>12 DEF Good

\* A box that comes back to the slot of its row.
LEMMA Retaken ==
  ASSUME NEW b, NEW O, Good(b, O), NEW c \in Numbers, NEW g,
         b.cycle[c].status = "SKIPPED", b.reserved[SlotOf(b.cycle[c])] < Capacity,
         g = [cycle |-> [b.cycle EXCEPT ![c] = Scheduled(b.cycle[c].zone, b.cycle[c].date)],
              reserved |-> [b.reserved EXCEPT ![SlotOf(b.cycle[c])] = @ + 1]]
  PROVE  Good(g, O)
<1>1. /\ b \in [cycle : [Numbers -> None0], reserved : [Slots -> 0..Capacity]]
      /\ b.cycle[1].status # None
  BY DEF Good, BookOK
<1>2. /\ b.cycle[c] \in Row /\ b.cycle[c].date \in Dates /\ b.cycle[c].zone \in Zones
      /\ SlotOf(b.cycle[c]) \in Slots
  BY <1>1, RowFacts DEF None
<1>. DEFINE t == SlotOf(b.cycle[c])
            r == Scheduled(b.cycle[c].zone, b.cycle[c].date)
<1>3. r \in None0 /\ r.status = "SCHEDULED" /\ r.date = b.cycle[c].date /\ SlotOf(r) = t
  BY <1>2, ScheduledRow DEF SlotOf
<1>4. \A d \in Numbers : g.cycle[d] = IF d = c THEN r ELSE b.cycle[d] BY <1>1
<1>5. \A s \in Slots : g.reserved[s] = IF s = t THEN b.reserved[s] + 1 ELSE b.reserved[s]
  BY <1>1, <1>2
<1>. HIDE DEF r
<1>6. BookOK(g)
  <2>1. g.cycle \in [Numbers -> None0] BY <1>1, <1>3 DEF r
  <2>2. g.reserved \in [Slots -> 0..Capacity]
    <3>1. b.reserved[t] \in 0..Capacity /\ b.reserved[t] + 1 \in 0..Capacity
      BY <1>1, <1>2, LimitAssumption
    <3>. QED BY <1>1, <3>1
  <2>3. g.cycle[1].status # None BY <1>1, <1>3, <1>4, NumberFacts DEF None
  <2>. QED BY <2>1, <2>2, <2>3 DEF BookOK
<1>7. ASSUME NEW s \in Slots PROVE g.reserved[s] = Cardinality(Held(g, s)) + Taken(O, s)
  <2>0. b.reserved[s] = Cardinality(Held(b, s)) + Taken(O, s) BY DEF Good, Exact
  <2>1. CASE s = t
    <3>1. Held(g, s) = Held(b, s) \cup {c} BY <1>3, <1>4, <2>1 DEF Held, Holding
    <3>2. c \notin Held(b, s) BY DEF Held, Holding, InFlight
    <3>3. Cardinality(Held(g, s)) = Cardinality(Held(b, s)) + 1
      BY <3>1, <3>2, HeldFinite, FS_AddElement
    <3>4. Cardinality(Held(b, s)) \in Nat /\ Taken(O, s) \in Nat BY HeldFinite DEF Taken
    <3>5. g.reserved[s] = b.reserved[s] + 1 BY <1>5, <2>1
    <3>. QED BY <2>0, <3>3, <3>4, <3>5
  <2>2. CASE s # t
    <3>1. Held(g, s) = Held(b, s) BY <1>3, <1>4, <2>2 DEF Held
    <3>. QED BY <2>0, <2>2, <3>1, <1>5
  <2>. QED BY <2>1, <2>2
<1>8. Orderly(g)
  <2>1. Existing(g) = Existing(b) BY <1>3, <1>4 DEF Existing, None
  <2>2. \A d \in Existing(b) : g.cycle[d].date = b.cycle[d].date BY <1>3, <1>4 DEF Existing
  <2>. QED BY <2>1, <2>2 DEF Good, Orderly
<1>. QED BY <1>6, <1>7, <1>8 DEF Good, Exact

\* The first box moves to another day of its week.
MovedFirst(b, z, d) ==
  [cycle    |-> [c \in Numbers |-> IF c = 1 THEN Scheduled(z, d) ELSE b.cycle[c]],
   reserved |-> [s \in Slots |-> IF s = <<z, d>> THEN b.reserved[s] + 1
                                 ELSE b.reserved[s] - Freed(b, {1}, s)]]

LEMMA FirstMoves ==
  ASSUME NEW b, NEW O, Good(b, O), b.cycle[1].status = "SCHEDULED", NEW z \in Zones,
         NEW d \in Dates, WeekOf(d) = WeekOf(b.cycle[1].date), d # b.cycle[1].date,
         b.reserved[<<z, d>>] < Capacity
  PROVE  Good(MovedFirst(b, z, d), O)
<1>. DEFINE g == MovedFirst(b, z, d)
            r == Scheduled(z, d)
<1>1. /\ b \in [cycle : [Numbers -> None0], reserved : [Slots -> 0..Capacity]]
      /\ b.cycle[1].status # None
  BY DEF Good, BookOK
<1>2. /\ 1 \in Numbers /\ b.cycle[1] \in Row /\ SlotOf(b.cycle[1]) \in Slots
      /\ SlotOf(b.cycle[1]) # <<z, d>>
  BY <1>1, NumberFacts, RowFacts DEF SlotOf
<1>3. r \in None0 /\ r.status = "SCHEDULED" /\ r.date = d /\ SlotOf(r) = <<z, d>> BY ScheduledRow
<1>4. \A c \in Numbers : g.cycle[c] = IF c = 1 THEN r ELSE b.cycle[c] BY DEF MovedFirst
<1>. HIDE DEF r
<1>5. ASSUME NEW s \in Slots
      PROVE  g.reserved[s] \in 0..Capacity /\ g.reserved[s] = Cardinality(Held(g, s)) + Taken(O, s)
  <2>0. /\ b.reserved[s] = Cardinality(Held(b, s)) + Taken(O, s) /\ b.reserved[s] \in 0..Capacity
        /\ Cardinality(Held(b, s)) \in Nat /\ Taken(O, s) \in Nat /\ Capacity \in Nat
    BY <1>1, HeldFinite, LimitAssumption DEF Good, Exact, Taken
  <2>1. CASE s = <<z, d>>
    <3>1. g.reserved[s] = b.reserved[s] + 1 BY <2>1 DEF MovedFirst
    <3>2. Held(g, s) = Held(b, s) \cup {1} BY <1>2, <1>3, <1>4, <2>1 DEF Held, Holding
    <3>3. 1 \notin Held(b, s) BY <1>2, <2>1 DEF Held
    <3>4. Cardinality(Held(g, s)) = Cardinality(Held(b, s)) + 1
      BY <3>2, <3>3, HeldFinite, FS_AddElement
    <3>. HIDE DEF g
    <3>. QED BY <2>0, <2>1, <3>1, <3>4
  <2>2. CASE s # <<z, d>>
    <3>1. g.reserved[s] = b.reserved[s] - Freed(b, {1}, s) BY <2>2 DEF MovedFirst
    <3>2. \A c \in {1} : b.cycle[c].status \in Holding BY DEF Holding
    <3>3. {1} \in SUBSET Numbers BY <1>2
    <3>4. /\ Cardinality(Held(b, s) \ {c \in {1} : SlotOf(b.cycle[c]) = s})
               = Cardinality(Held(b, s)) - Freed(b, {1}, s)
          /\ b.reserved[s] - Freed(b, {1}, s) \in Nat /\ Freed(b, {1}, s) \in Nat
      BY <3>2, <3>3, GivenBack DEF Good
    <3>5. Held(g, s) = Held(b, s) \ {c \in {1} : SlotOf(b.cycle[c]) = s}
      BY <1>3, <1>4, <2>2 DEF Held
    <3>. HIDE DEF g
    <3>. QED BY <2>0, <3>1, <3>4, <3>5
  <2>. QED BY <2>1, <2>2
<1>6. BookOK(g)
  <2>1. g = [cycle |-> g.cycle, reserved |-> g.reserved] BY DEF MovedFirst
  <2>2. g.reserved = [s \in Slots |-> g.reserved[s]] BY DEF MovedFirst
  <2>3. g.cycle = [c \in Numbers |-> g.cycle[c]] BY DEF MovedFirst
  <2>. HIDE DEF g
  <2>4. g.reserved \in [Slots -> 0..Capacity] BY <2>2, <1>5
  <2>5. g.cycle \in [Numbers -> None0] BY <2>3, <1>1, <1>3, <1>4
  <2>6. g.cycle[1].status # None BY <1>2, <1>3, <1>4 DEF None
  <2>. QED BY <2>1, <2>4, <2>5, <2>6 DEF BookOK
<1>. HIDE DEF g
<1>7. Orderly(g)
  <2>1. Existing(g) = Existing(b) BY <1>1, <1>2, <1>3, <1>4 DEF Existing, None
  <2>2. \A c \in Existing(b) : WeekOf(g.cycle[c].date) = WeekOf(b.cycle[c].date)
    BY <1>3, <1>4 DEF Existing
  <2>. QED BY <2>1, <2>2 DEF Good, Orderly
<1>. QED BY <1>5, <1>6, <1>7 DEF Good, Exact, g

LEMMA OneMore ==
  ASSUME NEW x, NEW y, NEW t, NEW f, f = [cycle |-> x, reserved |-> y]
  PROVE  [f EXCEPT !.reserved[t] = @ + 1] = [cycle |-> x, reserved |-> [y EXCEPT ![t] = @ + 1]]
OBVIOUS

\* regenerateScheduledCycles is an ensure on the book whose later planned boxes are gone and
\* whose first box may have moved.
LEMMA RegeneratedIs ==
  ASSUME NEW O, Good(Book, O), NEW status, NEW p, PlanOK(p), NEW at \in Clock
  PROVE  \E m : /\ Good(m, O) /\ Regenerated(status, p, at) = Ensured(m, status, p, at)
                /\ LET b == Given(Book, ScheduledIn(Book) \ {1}, [c \in Numbers |-> NoCycle])
                   IN  \/ m = b
                       \/ b.cycle[1].status = "SCHEDULED" /\ \E d : m = MovedFirst(b, p.zone, d)
<1>. DEFINE C == ScheduledIn(Book) \ {1}
            b == Given(Book, C, [c \in Numbers |-> NoCycle])
            first == b.cycle[1]
            d == DateIn(WeekOf(first.date), p.day)
            moves == /\ first.status = "SCHEDULED" /\ DayOf(first.date) # p.day
                     /\ d > at /\ CanReserve(b, <<p.zone, d>>)
            m == IF moves THEN MovedFirst(b, p.zone, d) ELSE b
<1>1. Releasing(Book, C, Delete) = b
  BY DEF Releasing, Given, Delete, ScheduledIn
<1>2. Good(b, O)
  <2>1. C \in SUBSET Numbers BY DEF ScheduledIn
  <2>2. \A c \in C : Book.cycle[c].status \in Holding BY DEF ScheduledIn, Holding
  <2>3. \A c \in C : /\ [e \in Numbers |-> NoCycle][c] = NoCycle
                     /\ NoCycle \in None0 /\ NoCycle.status = None
    BY <2>1 DEF None0, NoCycle
  <2>4. 1 \notin C /\ None \notin Holding BY DEF Holding, InFlight, None
  <2>. QED BY <2>1, <2>2, <2>3, <2>4, GivenKeeps, GivenOrderly DEF Good
<1>3. p.day \in Days /\ p.zone \in Zones BY PlanFacts
<1>4. ASSUME moves
      PROVE  /\ Good(MovedFirst(b, p.zone, d), O)
             /\ d \in Dates /\ d # first.date /\ <<p.zone, d>> # SlotOf(first)
  <2>1. first \in Row /\ first.date \in Dates /\ WeekOf(first.date) \in 0..(Weeks - 1)
    BY <1>2, <1>4, RowFacts, NumberFacts DEF Good, BookOK, None
  <2>2. WeekOf(first.date) \in Nat /\ WeekOf(first.date) < Weeks BY <2>1, CalendarAssumption
  <2>. HIDE DEF first
  <2>3. d \in Dates BY <1>3, <2>2, DateInWeek
  <2>4. WeekOf(d) = WeekOf(first.date) /\ DayOf(d) = p.day BY <1>3, <2>2, DateOfWeek
  <2>5. d # first.date BY <1>4, <2>4
  <2>6. b.reserved[<<p.zone, d>>] < Capacity BY <1>4 DEF CanReserve
  <2>7. first.status = "SCHEDULED" BY <1>4
  <2>. HIDE DEF d, b
  <2>8. Good(MovedFirst(b, p.zone, d), O)
    BY <1>2, <1>3, <2>3, <2>4, <2>5, <2>6, <2>7, FirstMoves DEF first
  <2>9. <<p.zone, d>> # SlotOf(first) BY <2>5 DEF SlotOf
  <2>. QED BY <2>3, <2>5, <2>8, <2>9
<1>5. Good(m, O) BY <1>2, <1>4
<1>6. ASSUME moves,
             NEW f, f = [cycle    |-> [c \in Numbers |-> IF c \in {1} THEN Scheduled(p.zone, d)
                                                        ELSE b.cycle[c]],
                         reserved |-> [s \in Slots |-> Max({0, b.reserved[s] - Freed(b, {1}, s)})]]
      PROVE  [f EXCEPT !.reserved[<<p.zone, d>>] = @ + 1] = MovedFirst(b, p.zone, d)
  <2>. DEFINE t == <<p.zone, d>>
  <2>1. {1} \in SUBSET Numbers /\ \A c \in {1} : b.cycle[c].status \in Holding
    BY <1>6, NumberFacts DEF Holding
  <2>2. BookOK(b) /\ Exact(b, O) BY <1>2 DEF Good
  <2>3. t \in Slots /\ t # SlotOf(first) BY <1>3, <1>4, <1>6 DEF Slots
  <2>. HIDE DEF b
  <2>4. \A s \in Slots : Max({0, b.reserved[s] - Freed(b, {1}, s)}) = b.reserved[s] - Freed(b, {1}, s)
    BY <2>1, <2>2, GivenBack
  <2>5. Freed(b, {1}, t) = 0
    <3>1. {c \in {1} : SlotOf(b.cycle[c]) = t} = {} BY <2>3
    <3>. QED BY <3>1, FS_EmptySet DEF Freed
  <2>6. b.reserved[t] \in Nat BY <2>2, <2>3, LimitAssumption DEF BookOK
  <2>. HIDE DEF d
  <2>. DEFINE X == [c \in Numbers |-> IF c \in {1} THEN Scheduled(p.zone, d) ELSE b.cycle[c]]
              Y == [s \in Slots |-> Max({0, b.reserved[s] - Freed(b, {1}, s)})]
  <2>7. f = [cycle |-> X, reserved |-> Y] BY <1>6
  <2>8. X = MovedFirst(b, p.zone, d).cycle BY DEF MovedFirst
  <2>9. DOMAIN Y = Slots /\ \A s \in Slots : Y[s] = b.reserved[s] - Freed(b, {1}, s) BY <2>4
  <2>. HIDE DEF X, Y
  <2>10. [f EXCEPT !.reserved[t] = @ + 1] = [cycle |-> X, reserved |-> [Y EXCEPT ![t] = @ + 1]]
    BY <2>7, OneMore
  <2>11. Y[t] = b.reserved[t] BY <2>3, <2>5, <2>6, <2>9
  <2>12. [Y EXCEPT ![t] = @ + 1]
          = [s \in Slots |-> IF s = t THEN b.reserved[s] + 1 ELSE b.reserved[s] - Freed(b, {1}, s)]
    BY <2>3, <2>9, <2>11
  <2>. QED BY <2>8, <2>10, <2>12 DEF MovedFirst
<1>7. Regenerated(status, p, at) = Ensured(m, status, p, at)
  <2>. DEFINE b0 == Releasing(Book, ScheduledIn(Book) \ {1}, Delete)
              there == <<p.zone, DateIn(WeekOf(b0.cycle[1].date), p.day)>>
              moves0 == /\ b0.cycle[1].status = "SCHEDULED" /\ DayOf(b0.cycle[1].date) # p.day
                        /\ there[2] > at /\ CanReserve(b0, there)
              f == Releasing(b0, {1}, LAMBDA row : Scheduled(p.zone, there[2]))
  <2>1. Regenerated(status, p, at) =
          Ensured(IF moves0 THEN [f EXCEPT !.reserved[there] = @ + 1] ELSE b0, status, p, at)
    BY DEF Regenerated
  <2>2. b0 = b BY <1>1
  <2>3. there = <<p.zone, d>> /\ there[2] = d BY <2>2
  <2>4. moves0 = moves BY <2>2, <2>3
  <2>5. f = [cycle    |-> [c \in Numbers |-> IF c \in {1} THEN Scheduled(p.zone, there[2])
                                              ELSE b0.cycle[c]],
             reserved |-> [s \in Slots |-> Max({0, b0.reserved[s] - Freed(b0, {1}, s)})]]
    BY DEF Releasing
  <2>. HIDE DEF b0, there, moves0, f
  <2>6. f = [cycle    |-> [c \in Numbers |-> IF c \in {1} THEN Scheduled(p.zone, d) ELSE b.cycle[c]],
             reserved |-> [s \in Slots |-> Max({0, b.reserved[s] - Freed(b, {1}, s)})]]
    BY <2>2, <2>3, <2>5
  <2>. HIDE DEF b
  <2>7. moves => [f EXCEPT !.reserved[<<p.zone, d>>] = @ + 1] = MovedFirst(b, p.zone, d)
    BY <1>6, <2>6
  <2>. HIDE DEF moves, d
  <2>8. (IF moves0 THEN [f EXCEPT !.reserved[there] = @ + 1] ELSE b0) = m
    BY <2>2, <2>3, <2>4, <2>7
  <2>. QED BY <2>1, <2>8
<1>8. m = b \/ (b.cycle[1].status = "SCHEDULED" /\ m = MovedFirst(b, p.zone, d))
  <2>. HIDE DEF b, d
  <2>. QED OBVIOUS
<1>. HIDE DEF m, d
<1>. QED BY <1>5, <1>7, <1>8

LEMMA RegeneratedGood ==
  ASSUME NEW O, Good(Book, O), NEW status, NEW p, PlanOK(p), NEW at \in Clock
  PROVE  Good(Regenerated(status, p, at), O)
BY RegeneratedIs, EnsuredKeeps DEF Good

\* Boxes that are cancelled or skipped keep their dates.
LEMMA GivenUpGood ==
  ASSUME NEW b, NEW O, Good(b, O), NEW C \in SUBSET Numbers, \A c \in C : b.cycle[c].status \in Holding,
         NEW R, \A c \in C : /\ R[c] \in Row /\ R[c].date = b.cycle[c].date
                             /\ R[c].status \in {"SKIPPED", "CANCELLED"}
  PROVE  Good(Given(b, C, R), O)
<1>1. \A c \in C : /\ R[c] \in None0 /\ R[c].status \notin Holding
                   /\ R[c].status # None /\ b.cycle[c].status # None
  BY DEF None0, Holding, InFlight, None
<1>. QED BY <1>1, GivenKeeps, GivenOrderly DEF Good

LEMMA CancelledRow ==
  ASSUME NEW r \in Row
  PROVE  Cancel(r) \in Row /\ Cancel(r).date = r.date /\ Cancel(r).status = "CANCELLED"
BY DEF Cancel, Row, CycleStatus

\* Planned boxes that are cancelled (pause, cancelSubscription, a lock that finds it ended).
LEMMA CancelledGood ==
  ASSUME NEW O, Good(Book, O), NEW C \in SUBSET ScheduledIn(Book)
  PROVE  Good(Releasing(Book, C, Cancel), O)
<1>. DEFINE R == [c \in Numbers |-> Cancel(Book.cycle[c])]
<1>1. C \in SUBSET Numbers /\ \A c \in C : Book.cycle[c].status = "SCHEDULED" BY DEF ScheduledIn
<1>2. \A c \in C : R[c] = Cancel(Book.cycle[c]) /\ Book.cycle[c] \in Row
  BY <1>1, RowFacts DEF Good, BookOK, None
<1>3. Releasing(Book, C, Cancel) = Given(Book, C, R) BY <1>2 DEF Releasing, Given
<1>4. \A c \in C : Book.cycle[c].status \in Holding BY <1>1 DEF Holding
<1>. HIDE DEF R
<1>. QED BY <1>1, <1>2, <1>3, <1>4, CancelledRow, GivenUpGood

\* Closing skipped weeks changes no slot and no date.
LEMMA ClosedGood ==
  ASSUME NEW b, NEW O, Good(b, O), NEW S, \A c \in S \cap Numbers : b.cycle[c].status = "SKIPPED",
         NEW g, g = [cycle |-> [c \in Numbers |-> IF c \in S THEN Cancel(b.cycle[c]) ELSE b.cycle[c]],
                     reserved |-> b.reserved]
  PROVE  Good(g, O)
<1>1. /\ b \in [cycle : [Numbers -> None0], reserved : [Slots -> 0..Capacity]]
      /\ b.cycle[1].status # None
  BY DEF Good, BookOK
<1>2. \A c \in S \cap Numbers : b.cycle[c] \in Row BY <1>1, RowFacts DEF None
<1>3. \A c \in S \cap Numbers : /\ g.cycle[c] \in Row /\ g.cycle[c].date = b.cycle[c].date
                                /\ g.cycle[c].status = "CANCELLED"
  BY <1>2, CancelledRow
<1>4. \A c \in Numbers : c \notin S => g.cycle[c] = b.cycle[c] OBVIOUS
<1>5. g.cycle \in [Numbers -> None0] BY <1>1, <1>3 DEF None0
<1>6. g.cycle[1].status # None BY <1>1, <1>3, <1>4, NumberFacts DEF None
<1>7. \A s : Held(g, s) = Held(b, s) BY <1>3, <1>4 DEF Held, Holding, InFlight
<1>8. Existing(g) = Existing(b) BY <1>3, <1>4 DEF Existing, None
<1>9. \A c \in Existing(b) : g.cycle[c].date = b.cycle[c].date BY <1>3, <1>4 DEF Existing
<1>10. BookOK(g) BY <1>1, <1>5, <1>6 DEF BookOK
<1>11. Exact(g, O) BY <1>7 DEF Good, Exact
<1>12. Orderly(g) BY <1>8, <1>9 DEF Good, Orderly
<1>. QED BY <1>10, <1>11, <1>12 DEF Good

LEMMA AfterCancelGood ==
  ASSUME NEW O, Good(Book, O), NEW at \in Clock
  PROVE  Good(AfterCancel(at), O)
<1>. DEFINE b == Releasing(Book, ScheduledIn(Book), Cancel)
            S == {c \in Numbers : /\ cycle[c].status = "SKIPPED" /\ cycle[c].skip # "UNPAID"
                                  /\ cycle[c].date > at}
<1>1. Good(b, O) BY CancelledGood
<1>2. b = [cycle |-> b.cycle, reserved |-> b.reserved] BY DEF Releasing
<1>3. \A c \in S \cap Numbers : b.cycle[c].status = "SKIPPED" BY DEF Releasing, ScheduledIn, Book
<1>4. AfterCancel(at) = [b EXCEPT !.cycle = [c \in Numbers |-> IF c \in S THEN Cancel(@[c]) ELSE @[c]]]
  BY DEF AfterCancel, Status
<1>5. AfterCancel(at) = [cycle |-> [c \in Numbers |-> IF c \in S THEN Cancel(b.cycle[c]) ELSE b.cycle[c]],
                         reserved |-> b.reserved]
  <2>. HIDE DEF b, S
  <2>. QED BY <1>2, <1>4
<1>. HIDE DEF b, S
<1>. QED BY <1>1, <1>3, <1>5, ClosedGood

-------------------------------------------------------------------------------
(* The counters are exact and the weeks in order, whoever acts.             *)

ReqOK == req \in [Requests -> [op : Uses \cup {None}, seen : Visible \cup {None}, now : Clock]]
Rest == /\ now \in Clock /\ sub \in SubStatus /\ oneTime \in BOOLEAN /\ PlanOK(plan)
        /\ others \subseteq Slots /\ skips \in [used : Nat, resetAt : Nat]
        /\ next \in Dates \cup {0}
        /\ flow \in [open : {None, "plain", "offered"}, offerUsed : BOOLEAN]
        /\ ReqOK
BInv == Rest /\ Good(Book, others)

LEMMA BInvMeans == BInv => CalendarBalanced /\ OneBoxAWeek
<1>. SUFFICES ASSUME BInv PROVE CalendarBalanced /\ OneBoxAWeek OBVIOUS
<1>1. Book.cycle = cycle /\ Book.reserved = reserved BY DEF Book
<1>2. cycle \in [Numbers -> Row \cup {NoCycle}] /\ reserved \in [Slots -> 0..Capacity]
  BY <1>1 DEF BInv, Good, BookOK, None0
<1>3. TypeOK BY <1>2 DEF BInv, Rest, TypeOK, PlanOK, Clock, ReqOK
<1>4. SlotsBalanced
  <2>1. \A s \in Slots : Held(Book, s) = HeldAt(s) BY <1>1 DEF Held, HeldAt, Status
  <2>. QED BY <1>1, <2>1 DEF BInv, Good, Exact, Taken, SlotsBalanced
<1>5. OneBoxAWeek BY <1>1 DEF BInv, Good, Orderly, OneBoxAWeek
<1>. QED BY <1>3, <1>4, <1>5 DEF CalendarBalanced

LEMMA ClockFacts == Clock \in SUBSET Nat /\ 0 \in Clock /\ Weeks * DaysPerWeek \in Nat
BY CalendarAssumption DEF Clock

LEMMA InitBooks == Init => BInv
<1>. SUFFICES ASSUME Init PROVE BInv OBVIOUS
<1>1. PICK z \in Zones, d \in 1..DaysPerWeek, f \in Freqs :
        /\ now = 0 /\ sub = "PENDING" /\ oneTime \in BOOLEAN
        /\ plan = [freq |-> IF oneTime THEN 1 ELSE f, day |-> DayOf(d), zone |-> z]
        /\ cycle = [c \in Numbers |-> IF c = 1 THEN Scheduled(z, d) ELSE NoCycle]
        /\ reserved = [s \in Slots |-> IF s = <<z, d>> THEN 1 ELSE 0]
        /\ others = {} /\ skips = [used |-> 0, resetAt |-> 0] /\ next = d
        /\ flow = [open |-> None, offerUsed |-> FALSE] /\ req = [r \in Requests |-> Idle]
  BY DEF Init
<1>2. d \in Dates
  <2>1. DaysPerWeek \in Nat \ {0} /\ Weeks \in Nat \ {0} BY CalendarAssumption
  <2>2. DaysPerWeek <= Weeks * DaysPerWeek
    <3>1. CASE Weeks = 1 BY <2>1, <3>1
    <3>2. CASE Weeks > 1
      <4>1. 1 * DaysPerWeek + DaysPerWeek <= Weeks * DaysPerWeek BY <2>1, <3>2, MulLess
      <4>. QED BY <4>1, <2>1
    <3>. QED BY <2>1, <3>1, <3>2
  <2>. QED BY <2>1, <2>2, ClockFacts DEF Dates
<1>3. Scheduled(z, d) \in None0 /\ Scheduled(z, d).status = "SCHEDULED"
      /\ SlotOf(Scheduled(z, d)) = <<z, d>>
  BY <1>2, ScheduledRow
<1>4. 1 \in Numbers /\ 1 \in 0..Capacity /\ 0 \in 0..Capacity BY NumberFacts, LimitAssumption
<1>5. BookOK(Book)
  <2>1. cycle \in [Numbers -> None0] BY <1>1, <1>3 DEF None0
  <2>2. reserved \in [Slots -> 0..Capacity] BY <1>1, <1>4
  <2>3. cycle[1].status # None BY <1>1, <1>3, <1>4 DEF None
  <2>. QED BY <2>1, <2>2, <2>3 DEF BookOK, Book
<1>6. ASSUME NEW s \in Slots PROVE reserved[s] = Cardinality(Held(Book, s)) + Taken(others, s)
  <2>1. Taken(others, s) = 0 BY <1>1 DEF Taken
  <2>2. \A c \in Numbers : c \in Held(Book, s) <=> c = 1 /\ s = <<z, d>>
    BY <1>1, <1>3 DEF Held, Book, Holding, InFlight, NoCycle, None
  <2>3. Held(Book, s) = IF s = <<z, d>> THEN {1} ELSE {} BY <2>2, <1>4 DEF Held
  <2>4. reserved[s] = IF s = <<z, d>> THEN 1 ELSE 0 BY <1>1
  <2>5. Cardinality(Held(Book, s)) = IF s = <<z, d>> THEN 1 ELSE 0
    <3>1. CASE s = <<z, d>> BY <3>1, <2>3, FS_Singleton
    <3>2. CASE s # <<z, d>> BY <3>2, <2>3, FS_EmptySet
    <3>. QED BY <3>1, <3>2
  <2>. QED BY <2>1, <2>4, <2>5
<1>7. Exact(Book, others) BY <1>6 DEF Exact, Book
<1>8. Orderly(Book)
  <2>1. \A c \in Existing(Book) : c = 1 BY <1>1 DEF Existing, Book, NoCycle
  <2>. QED BY <2>1 DEF Orderly
<1>9. Rest
  <2>1. 1 \in Freqs \cup {1} /\ DayOf(d) \in Days BY <1>2, WeekOfDate
  <2>2. PlanOK(plan) BY <1>1, <2>1 DEF PlanOK
  <2>3. ReqOK BY <1>1, ClockFacts DEF Idle, ReqOK
  <2>. QED BY <1>1, <1>2, <2>2, <2>3, ClockFacts DEF Rest, SubStatus
<1>. QED BY <1>5, <1>7, <1>8, <1>9 DEF BInv, Good

LEMMA Kept ==
  ASSUME NEW g, NEW O, Good(g, O), Keep(g)
  PROVE  Good(Book', O) /\ Book' = g
<1>1. g = [cycle |-> g.cycle, reserved |-> g.reserved] BY DEF Good, BookOK
<1>2. Book' = g BY <1>1 DEF Keep, Book
<1>. QED BY <1>2

LEMMA ReqEnds ==
  ASSUME ReqOK, NEW r \in Requests, req' = [req EXCEPT ![r] = Idle]
  PROVE  ReqOK'
<1>1. Idle \in [op : Uses \cup {None}, seen : Visible \cup {None}, now : Clock]
  BY ClockFacts DEF Idle
<1>. QED BY <1>1 DEF ReqOK, Visible, Clock

LEMMA OpenBooks ==
  ASSUME BInv, NEW r \in Requests, NEW op \in Uses, Open(r, op)
  PROVE  BInv'
<1>1. op \in {"accept", "abandon"} => sub \in Visible BY DEF Open, Opens
<1>2. ReqOK'
  BY <1>1, ClockFacts DEF Open, BInv, Rest, ReqOK, Visible, Clock
<1>3. Book' = Book /\ others' = others BY DEF Open, Book
<1>. QED BY <1>2, <1>3 DEF BInv, Rest, Open, PlanOK, Clock, Good, Exact, BookOK, Orderly, Existing, Held, Taken

\* The part of the invariant that is not the books.
LEMMA SameRest ==
  ASSUME BInv, NEW g, Good(g, others), Keep(g), UNCHANGED others, Rest'
  PROVE  BInv'
<1>1. Good(Book', others) BY Kept
<1>. QED BY <1>1 DEF BInv

LEMMA ActiveNext ==
  ASSUME BInv, NEW g, BookOK(g), NEW status
  PROVE  EnsuredNext(g, status) \in Dates \cup {0}
BY NextOfOK DEF EnsuredNext, BInv, Rest

\* patchCurrentCycle and its like: the row goes, with its slot.
LEMMA SkipBook ==
  ASSUME BInv, NEW at \in Clock, NEW c \in Numbers, Status(c) \in {"SCHEDULED", "LOCKED"},
         NEW why \in {"USER", "UNPAID"},
         NEW b, b = Given(Book, {c}, [d \in Numbers |->
                            [Book.cycle[d] EXCEPT !.status = "SKIPPED", !.skip = why, !.at = at]])
  PROVE  Good(b, others)
<1>1. Book.cycle[c].status \in {"SCHEDULED", "LOCKED"} BY DEF Book, Status
<1>2. Book.cycle[c] \in Row BY <1>1, RowFacts DEF BInv, Good, BookOK, None
<1>3. /\ [Book.cycle[c] EXCEPT !.status = "SKIPPED", !.skip = why, !.at = at] \in Row
      /\ [Book.cycle[c] EXCEPT !.status = "SKIPPED", !.skip = why, !.at = at].date = Book.cycle[c].date
      /\ [Book.cycle[c] EXCEPT !.status = "SKIPPED", !.skip = why, !.at = at].status = "SKIPPED"
  BY <1>2 DEF Row, CycleStatus, Clock
<1>. DEFINE R == [d \in Numbers |->
                    [Book.cycle[d] EXCEPT !.status = "SKIPPED", !.skip = why, !.at = at]]
<1>4. R[c] \in Row /\ R[c].date = Book.cycle[c].date /\ R[c].status = "SKIPPED" BY <1>3
<1>5. {c} \in SUBSET Numbers /\ \A d \in {c} : Book.cycle[d].status \in Holding
  BY <1>1 DEF Holding, InFlight
<1>7. \A d \in {c} : /\ R[d] \in Row /\ R[d].date = Book.cycle[d].date
                      /\ R[d].status \in {"SKIPPED", "CANCELLED"}
  BY <1>4
<1>. HIDE DEF R
<1>6. Good(Given(Book, {c}, R), others) BY <1>5, <1>7, GivenUpGood DEF BInv
<1>. QED BY <1>6 DEF R

LEMMA SkipBooks ==
  ASSUME BInv, NEW r \in Requests, Skip(r)
  PROVE  BInv'
<1>. DEFINE at == req[r].now
<1>1. at \in Clock BY DEF BInv, Rest, ReqOK
<1>2. PICK c \in Numbers \ {1} :
        /\ Status(c) = "SCHEDULED"
        /\ LET skipped(row) == [row EXCEPT !.status = "SKIPPED", !.skip = "USER", !.at = at]
               b == Ensured(Releasing(Book, {c}, skipped), sub, plan, at)
           IN Keep(b) /\ next' = EnsuredNext(b, sub)
  BY DEF Skip
<1>. DEFINE b0 == Given(Book, {c}, [d \in Numbers |->
                     [Book.cycle[d] EXCEPT !.status = "SKIPPED", !.skip = "USER", !.at = at]])
            b == Ensured(b0, sub, plan, at)
<1>3. Keep(b) /\ next' = EnsuredNext(b, sub)
  <2>1. Releasing(Book, {c}, LAMBDA row : [row EXCEPT !.status = "SKIPPED", !.skip = "USER", !.at = at]) = b0
    BY DEF Releasing, Given
  <2>. QED BY <1>2, <2>1
<1>4. Good(b0, others) BY <1>1, <1>2, SkipBook
<1>. HIDE DEF b0
<1>5. Good(b, others) BY <1>1, <1>4, EnsuredKeeps DEF Good, BInv, Rest
<1>. HIDE DEF b
<1>6. next' \in Dates \cup {0} BY <1>3, <1>5, ActiveNext DEF Good
<1>7. skips' \in [used : Nat, resetAt : Nat]
  <2>1. UsedAt(at) \in Nat BY DEF UsedAt, BInv, Rest
  <2>2. ResetAt(at) \in Nat
    <3>1. YearLength \in Nat \ {0} /\ skips.resetAt \in Nat /\ at \in Nat
      BY <1>1, CalendarAssumption, ClockFacts DEF BInv, Rest
    <3>2. CASE skips.resetAt = 0 \/ skips.resetAt > at BY <3>1, <3>2 DEF ResetAt
    <3>3. CASE ~(skips.resetAt = 0 \/ skips.resetAt > at)
      <4>1. at - skips.resetAt \in Nat BY <3>1, <3>3
      <4>2. (at - skips.resetAt) \div YearLength \in Nat BY <3>1, <4>1, DivBack
      <4>3. YearLength * ((at - skips.resetAt) \div YearLength + 1) \in Nat BY <3>1, <4>2
      <4>. QED BY <3>1, <3>3, <4>3 DEF ResetAt
    <3>. QED BY <3>2, <3>3
  <2>3. skips' = [used |-> UsedAt(at) + 1, resetAt |-> ResetAt(at)] BY DEF Skip
  <2>. QED BY <2>1, <2>2, <2>3
<1>8. ReqOK' BY ReqEnds DEF Skip, Commit, BInv, Rest
<1>9. Rest' BY <1>6, <1>7, <1>8 DEF Rest, BInv, Skip, PlanOK, Clock
<1>. QED BY <1>3, <1>5, <1>9, SameRest DEF Skip

LEMMA RowFirst ==
  ASSUME NEW x, NEW y, NEW c, NEW v, NEW b, b = [cycle |-> x, reserved |-> y]
  PROVE  [b EXCEPT !.cycle[c] = v] = [cycle |-> [x EXCEPT ![c] = v], reserved |-> y]
OBVIOUS

LEMMA RowAndCounter ==
  ASSUME NEW x, NEW y, NEW c, NEW t, NEW v, NEW n, NEW b, b = [cycle |-> x, reserved |-> y]
  PROVE  [b EXCEPT !.cycle[c] = v, !.reserved[t] = n]
           = [cycle |-> [x EXCEPT ![c] = v], reserved |-> [y EXCEPT ![t] = n]]
<1>. DEFINE f == [b EXCEPT !.cycle[c] = v]
<1>1. f = [cycle |-> [x EXCEPT ![c] = v], reserved |-> y] BY RowFirst
<1>. HIDE DEF f
<1>2. [f EXCEPT !.reserved[t] = n] = [cycle |-> [x EXCEPT ![c] = v], reserved |-> [y EXCEPT ![t] = n]]
  BY <1>1
<1>3. [b EXCEPT !.cycle[c] = v, !.reserved[t] = n] = [f EXCEPT !.reserved[t] = n]
  BY DEF f
<1>. QED BY <1>2, <1>3

LEMMA UnskipBooks ==
  ASSUME BInv, NEW r \in Requests, Unskip(r)
  PROVE  BInv'
<1>1. PICK c \in Numbers :
        /\ Status(c) = "SKIPPED" /\ CanReserve(Book, SlotOf(cycle[c]))
        /\ LET b == [Book EXCEPT !.cycle[c] = Scheduled(@.zone, @.date),
                                !.reserved[SlotOf(cycle[c])] = @ + 1]
           IN Keep(b) /\ next' = NextOf(b)
  BY DEF Unskip
<1>. DEFINE b == [Book EXCEPT !.cycle[c] = Scheduled(@.zone, @.date),
                              !.reserved[SlotOf(cycle[c])] = @ + 1]
<1>2. b = [cycle |-> [Book.cycle EXCEPT ![c] = Scheduled(Book.cycle[c].zone, Book.cycle[c].date)],
           reserved |-> [Book.reserved EXCEPT ![SlotOf(Book.cycle[c])] = @ + 1]]
  <2>1. Book = [cycle |-> cycle, reserved |-> reserved] BY DEF Book
  <2>. DEFINE v == Scheduled(cycle[c].zone, cycle[c].date)
              t == SlotOf(cycle[c])
              n == reserved[t] + 1
  <2>3. b = [Book EXCEPT !.cycle[c] = v, !.reserved[t] = n] BY <2>1
  <2>. HIDE DEF b, v, t, n
  <2>4. b = [cycle |-> [cycle EXCEPT ![c] = v], reserved |-> [reserved EXCEPT ![t] = n]]
    BY <2>1, <2>3, RowAndCounter
  <2>2. b = [cycle |-> [cycle EXCEPT ![c] = Scheduled(cycle[c].zone, cycle[c].date)],
             reserved |-> [reserved EXCEPT ![SlotOf(cycle[c])] = reserved[SlotOf(cycle[c])] + 1]]
    BY <2>4 DEF v, t, n
  <2>. QED BY <2>1, <2>2
<1>3. Book.cycle[c].status = "SKIPPED" /\ Book.reserved[SlotOf(Book.cycle[c])] < Capacity
  BY <1>1 DEF Book, Status, CanReserve
<1>4. Keep(b) /\ next' = NextOf(b) BY <1>1
<1>. HIDE DEF b
<1>5. Good(b, others) BY <1>2, <1>3, Retaken DEF BInv
<1>6. next' \in Dates \cup {0} BY <1>4, <1>5, NextOfOK DEF Good
<1>7. skips' \in [used : Nat, resetAt : Nat]
  <2>1. skips.used - 1 \in Int BY DEF BInv, Rest
  <2>2. Max({0, skips.used - 1}) \in Nat BY <2>1, MaxZeroNat
  <2>3. skips' = [skips EXCEPT !.used = Max({0, @ - 1})] BY DEF Unskip
  <2>. QED BY <2>2, <2>3 DEF BInv, Rest
<1>8. ReqOK' BY ReqEnds DEF Unskip, Commit, BInv, Rest
<1>9. Rest' BY <1>6, <1>7, <1>8 DEF Rest, BInv, Unskip, PlanOK, Clock
<1>. QED BY <1>4, <1>5, <1>9, SameRest DEF Unskip

LEMMA PatchBooks ==
  ASSUME BInv, NEW r \in Requests, Patch(r)
  PROVE  BInv'
<1>1. req[r].now \in Clock BY DEF BInv, Rest, ReqOK
<1>2. PICK f \in Freqs, k \in Days, z \in Zones :
        LET p == [freq |-> IF oneTime THEN plan.freq ELSE f, day |-> k, zone |-> z]
            b == IF p = plan THEN Book ELSE Regenerated(sub, p, req[r].now)
        IN plan' = p /\ Keep(b) /\ next' = NextOf(b)
  BY DEF Patch
<1>. DEFINE p == [freq |-> IF oneTime THEN plan.freq ELSE f, day |-> k, zone |-> z]
            b == IF p = plan THEN Book ELSE Regenerated(sub, p, req[r].now)
<1>3. PlanOK(p) BY DEF BInv, Rest, PlanOK
<1>4. plan' = p /\ Keep(b) /\ next' = NextOf(b) BY <1>2
<1>. HIDE DEF p
<1>5. Good(b, others) BY <1>1, <1>3, RegeneratedGood DEF BInv
<1>. HIDE DEF b
<1>6. next' \in Dates \cup {0} BY <1>4, <1>5, NextOfOK DEF Good
<1>7. PlanOK(plan') BY <1>3, <1>4
<1>8. ReqOK' BY ReqEnds DEF Patch, Commit, BInv, Rest
<1>9. Rest' BY <1>6, <1>7, <1>8 DEF Rest, BInv, Patch, PlanOK, Clock
<1>. QED BY <1>4, <1>5, <1>9, SameRest DEF Patch

\* A step of the subscription or of the cancellation flow that leaves the books alone.
LEMMA SameBooks ==
  ASSUME BInv, UNCHANGED <<cycle, reserved, others>>, Rest'
  PROVE  BInv'
<1>1. Book' = Book /\ others' = others BY DEF Book
<1>. QED BY <1>1 DEF BInv, Good, BookOK, Exact, Orderly, Existing, Held, Taken

LEMMA FlowBooks ==
  ASSUME BInv, NEW r \in Requests, Request(r) \/ Accept(r) \/ Abandon(r)
  PROVE  BInv'
<1>1. UNCHANGED <<now, oneTime, plan, cycle, reserved, others, skips, next>>
      /\ req' = [req EXCEPT ![r] = Idle]
  BY DEF Request, Accept, Abandon, Commit
<1>2. ReqOK' BY <1>1, ReqEnds DEF BInv, Rest
<1>3. sub' \in SubStatus /\ flow' \in [open : {None, "plain", "offered"}, offerUsed : BOOLEAN]
  <2>0. sub \in SubStatus /\ flow \in [open : {None, "plain", "offered"}, offerUsed : BOOLEAN]
    BY DEF BInv, Rest
  <2>1. CASE Request(r)
    <3>1. sub' \in SubStatus BY <2>0, <2>1 DEF Request, SubStatus
    <3>2. flow' = [open |-> IF sub = "ACTIVE" /\ ~oneTime /\ ~flow.offerUsed THEN "offered" ELSE "plain",
                   offerUsed |-> flow.offerUsed \/ (sub = "ACTIVE" /\ ~oneTime /\ ~flow.offerUsed)]
      BY <2>1 DEF Request
    <3>3. (flow.offerUsed \/ (sub = "ACTIVE" /\ ~oneTime /\ ~flow.offerUsed)) \in BOOLEAN OBVIOUS
    <3>4. (IF sub = "ACTIVE" /\ ~oneTime /\ ~flow.offerUsed THEN "offered" ELSE "plain")
            \in {None, "plain", "offered"} OBVIOUS
    <3>. QED BY <3>1, <3>2, <3>3, <3>4
  <2>2. CASE Accept(r) BY <2>0, <2>2 DEF Accept, SubStatus
  <2>3. CASE Abandon(r) BY <2>0, <2>3 DEF Abandon, SubStatus
  <2>. QED BY <2>1, <2>2, <2>3
<1>4. Rest' BY <1>1, <1>2, <1>3 DEF BInv, Rest, PlanOK, Clock
<1>. QED BY <1>1, <1>4, SameBooks

LEMMA ConfirmBooks ==
  ASSUME BInv, NEW r \in Requests, Confirm(r)
  PROVE  BInv'
<1>1. req[r].now \in Clock BY DEF BInv, Rest, ReqOK
<1>2. Good(AfterCancel(req[r].now), others) BY <1>1, AfterCancelGood DEF BInv
<1>3. ReqOK' BY ReqEnds DEF Confirm, Commit, BInv, Rest
<1>4. Rest' BY <1>3 DEF Confirm, BInv, Rest, PlanOK, Clock, SubStatus
<1>. QED BY <1>2, <1>4, SameRest DEF Confirm

LEMMA DropBooks ==
  ASSUME BInv, NEW r \in Requests, Drop(r)
  PROVE  BInv'
<1>1. ReqOK' BY ReqEnds DEF Drop, BInv, Rest
<1>2. Rest' BY <1>1 DEF Drop, BInv, Rest, PlanOK, Clock
<1>. QED BY <1>2, SameBooks DEF Drop

LEMMA ActivateBooks ==
  ASSUME BInv, Activate
  PROVE  BInv'
<1>. DEFINE b == Ensured(Book, "ACTIVE", plan, now)
<1>1. Good(b, others) BY EnsuredKeeps DEF BInv, Rest, Good
<1>2. Keep(b) /\ next' = EnsuredNext(b, "ACTIVE") BY DEF Activate
<1>. HIDE DEF b
<1>3. next' \in Dates \cup {0} BY <1>1, <1>2, ActiveNext DEF Good
<1>4. now + YearLength \in Nat BY ClockFacts, CalendarAssumption DEF BInv, Rest
<1>5. skips' \in [used : Nat, resetAt : Nat]
  <2>1. skips' = [skips EXCEPT !.resetAt = now + YearLength] BY DEF Activate
  <2>. QED BY <1>4, <2>1 DEF BInv, Rest
<1>6. Rest' BY <1>3, <1>5 DEF Activate, BInv, Rest, PlanOK, Clock, SubStatus, ReqOK
<1>. QED BY <1>1, <1>2, <1>6, SameRest DEF Activate

LEMMA AdminCancelBooks ==
  ASSUME BInv, AdminCancel
  PROVE  BInv'
<1>1. Good(AfterCancel(now), others) BY AfterCancelGood DEF BInv, Rest
<1>2. Rest' BY DEF AdminCancel, BInv, Rest, PlanOK, Clock, SubStatus, ReqOK
<1>. QED BY <1>1, <1>2, SameRest DEF AdminCancel

LEMMA PauseBooks ==
  ASSUME BInv, Pause
  PROVE  BInv'
<1>. DEFINE b == Releasing(Book, ScheduledIn(Book) \ {1}, Cancel)
<1>1. Keep(b) /\ next' = NextOf(b) BY DEF Pause
<1>2. Good(b, others) BY CancelledGood DEF BInv
<1>. HIDE DEF b
<1>3. next' \in Dates \cup {0} BY <1>1, <1>2, NextOfOK DEF Good
<1>4. Rest' BY <1>3 DEF Pause, BInv, Rest, PlanOK, Clock, SubStatus, ReqOK
<1>. QED BY <1>1, <1>2, <1>4, SameRest DEF Pause

LEMMA ResumeBooks ==
  ASSUME BInv, Resume
  PROVE  BInv'
<1>. DEFINE b == Ensured(Book, "ACTIVE", plan, now)
<1>1. Good(b, others) BY EnsuredKeeps DEF BInv, Rest, Good
<1>2. Keep(b) /\ next' = EnsuredNext(b, "ACTIVE") BY DEF Resume
<1>. HIDE DEF b
<1>3. next' \in Dates \cup {0} BY <1>1, <1>2, ActiveNext DEF Good
<1>4. flow' \in [open : {None, "plain", "offered"}, offerUsed : BOOLEAN] BY DEF Resume, BInv, Rest
<1>5. Rest' BY <1>3, <1>4 DEF Resume, BInv, Rest, PlanOK, Clock, SubStatus, ReqOK
<1>. QED BY <1>1, <1>2, <1>5, SameRest DEF Resume

LEMMA EnsureJobBooks ==
  ASSUME BInv, EnsureJob
  PROVE  BInv'
<1>. DEFINE b == Ensured(Book, sub, plan, now)
<1>1. Good(b, others) BY EnsuredKeeps DEF BInv, Rest, Good
<1>2. Keep(b) /\ next' = NextOf(b) BY DEF EnsureJob
<1>. HIDE DEF b
<1>3. next' \in Dates \cup {0} BY <1>1, <1>2, NextOfOK DEF Good
<1>4. Rest' BY <1>3 DEF EnsureJob, BInv, Rest, PlanOK, Clock, ReqOK
<1>. QED BY <1>1, <1>2, <1>4, SameRest DEF EnsureJob

LEMMA OneStatus ==
  ASSUME NEW x, NEW y, NEW c, NEW s, NEW b, b = [cycle |-> x, reserved |-> y]
  PROVE  [b EXCEPT !.cycle[c].status = s] = [cycle |-> [x EXCEPT ![c].status = s], reserved |-> y]
OBVIOUS

LEMMA LockBooks ==
  ASSUME BInv, NEW c \in Numbers, Lock(c)
  PROVE  BInv'
<1>1. CASE sub \in EngineActive
  <2>1. cycle' = [cycle EXCEPT ![c].status = "LOCKED"] /\ UNCHANGED <<reserved, next, others>>
    BY <1>1 DEF Lock
  <2>. DEFINE b == [Book EXCEPT !.cycle[c].status = "LOCKED"]
  <2>2. b = [cycle |-> [cycle EXCEPT ![c].status = "LOCKED"], reserved |-> reserved]
    BY OneStatus DEF Book
  <2>3. Keep(b) BY <2>1, <2>2 DEF Keep
  <2>4. Book.cycle[c].status \in Holding BY DEF Lock, Status, Book, Holding
  <2>5. Good(b, others) BY <2>4, Relabelled DEF BInv
  <2>6. Rest' BY <2>1 DEF Lock, BInv, Rest, PlanOK, Clock, ReqOK
  <2>. QED BY <2>1, <2>3, <2>5, <2>6, SameRest
<1>2. CASE sub \notin EngineActive
  <2>. DEFINE b == Releasing(Book, {c}, Cancel)
  <2>1. Keep(b) /\ next' = NextOf(b) BY <1>2 DEF Lock
  <2>2. {c} \in SUBSET ScheduledIn(Book) BY DEF Lock, ScheduledIn, Status, Book
  <2>3. Good(b, others) BY <2>2, CancelledGood DEF BInv
  <2>. HIDE DEF b
  <2>4. next' \in Dates \cup {0} BY <2>1, <2>3, NextOfOK DEF Good
  <2>5. Rest' BY <2>4 DEF Lock, BInv, Rest, PlanOK, Clock, ReqOK
  <2>. QED BY <2>1, <2>3, <2>5, SameRest DEF Lock
<1>. QED BY <1>1, <1>2

LEMMA ChargeBooks ==
  ASSUME BInv, NEW c \in Numbers, Charge(c)
  PROVE  BInv'
<1>. DEFINE b == [Book EXCEPT !.cycle[c].status = "CHARGED"]
<1>1. Keep(b) /\ next' = NextOf(b) BY DEF Charge
<1>2. Book.cycle[c].status \in Holding BY DEF Charge, Status, Book, Holding, InFlight
<1>3. Good(b, others) BY <1>2, Relabelled DEF BInv
<1>. HIDE DEF b
<1>4. next' \in Dates \cup {0} BY <1>1, <1>3, NextOfOK DEF Good
<1>5. Rest' BY <1>4 DEF Charge, BInv, Rest, PlanOK, Clock, SubStatus, ReqOK
<1>. QED BY <1>1, <1>3, <1>5, SameRest DEF Charge

LEMMA DeliverBooks ==
  ASSUME BInv, NEW c \in Numbers, Deliver(c)
  PROVE  BInv'
<1>. DEFINE b == [Book EXCEPT !.cycle[c].status = "DELIVERED"]
<1>1. Keep(b) /\ next' = NextOf(b) BY DEF Deliver
<1>2. Book.cycle[c].status \in Holding BY DEF Deliver, Status, Book, Holding, InFlight
<1>3. Good(b, others) BY <1>2, Relabelled DEF BInv
<1>. HIDE DEF b
<1>4. next' \in Dates \cup {0} BY <1>1, <1>3, NextOfOK DEF Good
<1>5. Rest' BY <1>4 DEF Deliver, BInv, Rest, PlanOK, Clock, SubStatus, ReqOK
<1>. QED BY <1>1, <1>3, <1>5, SameRest DEF Deliver

LEMMA GiveUpBooks ==
  ASSUME BInv, NEW c \in Numbers, GiveUp(c)
  PROVE  BInv'
<1>. DEFINE b == Given(Book, {c}, [d \in Numbers |->
                   [Book.cycle[d] EXCEPT !.status = "SKIPPED", !.skip = "UNPAID", !.at = now]])
<1>1. Keep(b) /\ next' = NextOf(b)
  <2>1. Releasing(Book, {c}, LAMBDA row : [row EXCEPT !.status = "SKIPPED", !.skip = "UNPAID", !.at = now]) = b
    BY DEF Releasing, Given
  <2>. QED BY <2>1 DEF GiveUp
<1>2. Good(b, others)
  <2>1. now \in Clock BY DEF BInv, Rest
  <2>2. Status(c) \in {"SCHEDULED", "LOCKED"} BY DEF GiveUp
  <2>. HIDE DEF b
  <2>3. b = Given(Book, {c}, [d \in Numbers |->
                   [Book.cycle[d] EXCEPT !.status = "SKIPPED", !.skip = "UNPAID", !.at = now]])
    BY DEF b
  <2>. QED BY <2>1, <2>2, <2>3, SkipBook
<1>. HIDE DEF b
<1>3. next' \in Dates \cup {0} BY <1>1, <1>2, NextOfOK DEF Good
<1>4. Rest' BY <1>3 DEF GiveUp, BInv, Rest, PlanOK, Clock, SubStatus, ReqOK
<1>. QED BY <1>1, <1>2, <1>4, SameRest DEF GiveUp

\* Other customers take and give back a slot each.
LEMMA CalendarBooks ==
  ASSUME BInv, Calendar
  PROVE  BInv'
<1>1. PICK s \in Zones \X Contended : OthersReserve(s) \/ OthersRelease(s) BY DEF Calendar
<1>2. s \in Slots BY ContendedAssumption DEF Slots
<1>3. UNCHANGED <<now, sub, oneTime, plan, cycle, skips, next, flow, req>> BY DEF Calendar
<1>4. \A t : Held(Book', t) = Held(Book, t) BY <1>3 DEF Held, Book
<1>5. reserved \in [Slots -> 0..Capacity] /\ Capacity \in Nat
  BY LimitAssumption DEF BInv, Good, BookOK, Book
<1>6. \A t \in Slots : reserved[t] = Cardinality(Held(Book, t)) + Taken(others, t)
  BY DEF BInv, Good, Exact, Book
<1>7. \A t \in Slots : Cardinality(Held(Book, t)) \in Nat BY HeldFinite
<1>8. /\ reserved' \in [Slots -> 0..Capacity] /\ others' \subseteq Slots
      /\ \A t \in Slots : reserved'[t] = Cardinality(Held(Book, t)) + Taken(others', t)
  <2>1. CASE OthersReserve(s)
    <3>1. s \notin others /\ reserved[s] < Capacity /\ others' = others \cup {s}
          /\ reserved' = [reserved EXCEPT ![s] = @ + 1]
      BY <2>1 DEF OthersReserve, CanReserve, Book
    <3>2. \A t \in Slots : Taken(others', t) = IF t = s THEN Taken(others, t) + 1 ELSE Taken(others, t)
      BY <3>1 DEF Taken
    <3>3. \A t \in Slots : Taken(others, t) \in Nat BY DEF Taken
    <3>4. others' \subseteq Slots BY <3>1, <1>2 DEF BInv, Rest
    <3>5. \A t \in Slots : reserved'[t] = IF t = s THEN reserved[t] + 1 ELSE reserved[t]
      BY <3>1, <1>2, <1>5
    <3>6. reserved[s] \in 0..Capacity /\ reserved[s] + 1 \in 0..Capacity BY <3>1, <1>2, <1>5
    <3>7. reserved' \in [Slots -> 0..Capacity] BY <3>1, <3>6, <1>5
    <3>8. ASSUME NEW t \in Slots PROVE reserved'[t] = Cardinality(Held(Book, t)) + Taken(others', t)
      <4>1. /\ reserved[t] = Cardinality(Held(Book, t)) + Taken(others, t)
            /\ Cardinality(Held(Book, t)) \in Nat /\ Taken(others, t) \in Nat
        BY <3>3, <1>6, <1>7
      <4>2. CASE t = s
        <5>1. reserved'[t] = reserved[t] + 1 /\ Taken(others', t) = Taken(others, t) + 1
          BY <4>2, <3>2, <3>5
        <5>. QED BY <5>1, <4>1
      <4>3. CASE t # s
        <5>1. reserved'[t] = reserved[t] /\ Taken(others', t) = Taken(others, t)
          BY <4>3, <3>2, <3>5
        <5>. QED BY <5>1, <4>1
      <4>. QED BY <4>2, <4>3
    <3>. QED BY <3>4, <3>7, <3>8
  <2>2. CASE OthersRelease(s)
    <3>1. s \in others /\ others' = others \ {s}
          /\ reserved' = [reserved EXCEPT ![s] = Max({0, @ - 1})]
      BY <2>2 DEF OthersRelease
    <3>2. Taken(others, s) = 1 /\ Taken(others', s) = 0
          /\ \A t \in Slots : t # s => Taken(others', t) = Taken(others, t)
      BY <3>1 DEF Taken
    <3>3. reserved[s] - 1 = Cardinality(Held(Book, s)) BY <3>2, <1>2, <1>6, <1>7
    <3>4. Max({0, reserved[s] - 1}) = reserved[s] - 1 BY <3>3, <1>2, <1>7, MaxZero
    <3>5. reserved[s] - 1 \in 0..Capacity BY <3>3, <1>2, <1>5, <1>7
    <3>6. \A t \in Slots : reserved'[t] = IF t = s THEN reserved[t] - 1 ELSE reserved[t]
      BY <3>1, <3>4, <1>5
    <3>7. others' \subseteq Slots BY <3>1 DEF BInv, Rest
    <3>8. reserved' \in [Slots -> 0..Capacity] BY <3>1, <3>4, <3>5, <1>5
    <3>9. ASSUME NEW t \in Slots PROVE reserved'[t] = Cardinality(Held(Book, t)) + Taken(others', t)
      <4>1. CASE t = s BY <4>1, <3>2, <3>3, <3>6, <1>7
      <4>2. CASE t # s BY <4>2, <3>2, <3>6, <1>6
      <4>. QED BY <4>1, <4>2
    <3>. QED BY <3>7, <3>8, <3>9
  <2>. QED BY <1>1, <2>1, <2>2
<1>9. Book'.cycle = Book.cycle /\ Book'.reserved = reserved' BY <1>3 DEF Book
<1>10. BookOK(Book')
  <2>1. Book' = [cycle |-> cycle, reserved |-> reserved'] BY <1>3 DEF Book
  <2>2. cycle \in [Numbers -> None0] /\ cycle[1].status # None BY DEF BInv, Good, BookOK, Book
  <2>. QED BY <2>1, <2>2, <1>8 DEF BookOK
<1>11. Exact(Book', others') BY <1>4, <1>8, <1>9 DEF Exact
<1>12. Orderly(Book') BY <1>9 DEF Orderly, Existing, BInv, Good
<1>13. Rest' BY <1>3, <1>8 DEF BInv, Rest, PlanOK, Clock, ReqOK
<1>. QED BY <1>10, <1>11, <1>12, <1>13 DEF BInv, Good

LEMMA TickBooks ==
  ASSUME BInv, Tick
  PROVE  BInv'
<1>1. now' \in Clock BY ClockFacts DEF Tick, BInv, Rest, Clock
<1>2. Rest' BY <1>1 DEF Tick, BInv, Rest, PlanOK, Clock, ReqOK
<1>. QED BY <1>2, SameBooks DEF Tick

LEMMA StepBooks == BInv /\ [Next]_vars => BInv'
<1>. SUFFICES ASSUME BInv, [Next]_vars PROVE BInv' OBVIOUS
<1>1. CASE Member
  BY <1>1, OpenBooks, DropBooks, SkipBooks, UnskipBooks, PatchBooks, FlowBooks, ConfirmBooks DEF Member
<1>2. CASE Activate BY <1>2, ActivateBooks
<1>3. CASE Admin BY <1>3, AdminCancelBooks, PauseBooks, ResumeBooks DEF Admin
<1>4. CASE Engine BY <1>4, EnsureJobBooks, LockBooks, ChargeBooks, GiveUpBooks, DeliverBooks DEF Engine
<1>5. CASE Calendar BY <1>5, CalendarBooks
<1>6. CASE Tick BY <1>6, TickBooks
<1>7. CASE UNCHANGED vars
  <2>1. Rest' BY <1>7 DEF vars, BInv, Rest, PlanOK, Clock, ReqOK
  <2>. QED BY <1>7, <2>1, SameBooks DEF vars
<1>. QED BY <1>1, <1>2, <1>3, <1>4, <1>5, <1>6, <1>7 DEF Next

LEMMA BooksAlways == Spec => []BInv
BY InitBooks, StepBooks, PTL DEF Spec

\* However members, admins and jobs skip, move, pause, cancel, give up and deliver boxes, and
\* however many requests are under way at once, every date's counter is the number of its boxes
\* and of the other customers on it, and within the capacity.
THEOREM CountersExact == Spec => []CalendarBalanced
BY BooksAlways, BInvMeans, PTL

\* No week has two boxes of one subscription, and a week that was given up is not planned again.
THEOREM NoSecondBox == Spec => []OneBoxAWeek
BY BooksAlways, BInvMeans, PTL


-------------------------------------------------------------------------------
(* A member who makes one request at a time.  The skipped weeks carry the   *)
(* history: when each was skipped, and what was still to come at the time.  *)

Users(x) == {c \in Numbers : x[c].skip = "USER"}
InYear(x, reset) == {c \in Users(x) : x[c].at >= reset - YearLength}
Clocked == {"skip", "unskip", "patch", "confirm"}

\* Planned boxes were never skipped, skipped ones are not planned, and a one-time purchase has
\* one box.
Fitting(x) == \A c \in Numbers : /\ x[c].status = "SCHEDULED" => x[c].skip = None
                                 /\ x[c].skip = "USER" => x[c].status \in {"SKIPPED", "CANCELLED"}
                                 /\ oneTime /\ c # 1 => x[c].status = None

\* A week was skipped in time, before the next anniversary and before any request under way
\* read the clock.
Timely(x, sk, rq, nw) ==
  \A c \in Users(x) : /\ c # 1 /\ x[c].at <= nw /\ x[c].at < x[c].date
                      /\ sk.resetAt # 0 => x[c].at < sk.resetAt
                      /\ \A r \in Requests : rq[r].op \in Clocked => x[c].at <= rq[r].now

\* Only the current box is skipped: the earlier ones were over, or skipped and cancelled.
InTurn(x) ==
  \A c \in Users(x), d \in Numbers \ {1} : d < c =>
    /\ x[d].status = "SCHEDULED" => x[d].date <= x[c].at
    /\ x[d].skip = "USER" => \/ x[d].date <= x[c].at
                             \/ x[d].status = "CANCELLED" /\ x[d].at <= x[c].at

Allowed(x, sk) == /\ sk.used <= SkipsPerYear
                  /\ sk.resetAt # 0 => Cardinality(InYear(x, sk.resetAt)) <= sk.used

History(x, sk, rq, nw) == /\ Fitting(x) /\ Timely(x, sk, rq, nw) /\ InTurn(x) /\ Allowed(x, sk)
                          /\ \A r \in Requests : rq[r].now <= nw

\* The rows y differ from x by a step that is neither a skip nor an un-skip.
Calm(x, y) == \A c \in Numbers :
  /\ y[c].skip = "USER" <=> x[c].skip = "USER"
  /\ x[c].skip = "USER" => /\ y[c].at = x[c].at /\ y[c].date = x[c].date
                           /\ \/ y[c].status = x[c].status
                              \/ x[c].status = "SKIPPED" /\ y[c].status = "CANCELLED"
  /\ y[c].status = "SCHEDULED" => /\ y[c].skip = None
                                  /\ \/ c = 1
                                     \/ x[c].status = "SCHEDULED" /\ y[c].date = x[c].date
                                     \/ \A e \in Users(x) : e < c
  /\ oneTime /\ x[c].status = None => y[c].status = None

LEMMA CalmSame ==
  ASSUME NEW x, Fitting(x)
  PROVE  Calm(x, x)
BY DEF Calm, Fitting

LEMMA CalmTwice ==
  ASSUME NEW x, NEW y, NEW z, Calm(x, y), Calm(y, z)
  PROVE  Calm(x, z)
<1>1. Users(x) = Users(y) BY DEF Calm, Users
<1>. SUFFICES ASSUME NEW c \in Numbers
              PROVE  /\ z[c].skip = "USER" <=> x[c].skip = "USER"
                     /\ x[c].skip = "USER" =>
                          /\ z[c].at = x[c].at /\ z[c].date = x[c].date
                          /\ \/ z[c].status = x[c].status
                             \/ x[c].status = "SKIPPED" /\ z[c].status = "CANCELLED"
                     /\ z[c].status = "SCHEDULED" => /\ z[c].skip = None
                                                     /\ \/ c = 1
                                                        \/ x[c].status = "SCHEDULED" /\ z[c].date = x[c].date
                                                        \/ \A e \in Users(x) : e < c
                     /\ oneTime /\ x[c].status = None => z[c].status = None
  BY DEF Calm
<1>2. /\ z[c].skip = "USER" <=> y[c].skip = "USER"
      /\ y[c].skip = "USER" =>
           /\ z[c].at = y[c].at /\ z[c].date = y[c].date
           /\ \/ z[c].status = y[c].status
              \/ y[c].status = "SKIPPED" /\ z[c].status = "CANCELLED"
      /\ z[c].status = "SCHEDULED" => /\ z[c].skip = None
                                      /\ \/ c = 1
                                         \/ y[c].status = "SCHEDULED" /\ z[c].date = y[c].date
                                         \/ \A e \in Users(x) : e < c
      /\ oneTime /\ y[c].status = None => z[c].status = None
  BY <1>1 DEF Calm
<1>3. /\ y[c].skip = "USER" <=> x[c].skip = "USER"
      /\ x[c].skip = "USER" =>
           /\ y[c].at = x[c].at /\ y[c].date = x[c].date
           /\ \/ y[c].status = x[c].status
              \/ x[c].status = "SKIPPED" /\ y[c].status = "CANCELLED"
      /\ y[c].status = "SCHEDULED" => /\ y[c].skip = None
                                      /\ \/ c = 1
                                         \/ x[c].status = "SCHEDULED" /\ y[c].date = x[c].date
                                         \/ \A e \in Users(x) : e < c
      /\ oneTime /\ x[c].status = None => y[c].status = None
  BY DEF Calm
<1>. QED BY <1>2, <1>3

\* Ensure adds rows after the last one.
LEMMA CalmEnsured ==
  ASSUME NEW b, BookOK(b), Fitting(b.cycle), NEW p, PlanOK(p), NEW at \in Clock, NEW status
  PROVE  Calm(b.cycle, Ensured(b, status, p, at).cycle)
<1>1. CASE ~EnsureRuns(status)
  <2>1. Ensured(b, status, p, at) = b BY <1>1 DEF Ensured
  <2>. QED BY <2>1, CalmSame
<1>2. CASE EnsureRuns(status)
  <2>0. ~oneTime BY <1>2 DEF EnsureRuns
  <2>. DEFINE last == LastRow(b)
  <2>1. PICK n, D : /\ Follow(b, last, n, D, p.zone)
                    /\ Ensured(b, status, p, at) = Extended(b, last, n, D, p.zone)
    BY <1>2, EnsuredExtends
  <2>2. last \in Nat /\ n \in Nat /\ Numbers \in SUBSET Nat /\ \A c \in Existing(b) : c <= last
    BY <2>1, LastRowIs, NumberFacts DEF Follow
  <2>3. Users(b.cycle) \subseteq Existing(b)
    BY DEF Users, Existing, BookOK, None0, NoCycle, Row, CycleStatus, None
  <2>. DEFINE y == Ensured(b, status, p, at).cycle
  <2>4. \A c \in Numbers : y[c] = IF c \in (last + 1)..(last + n) THEN Scheduled(p.zone, D[c - last])
                                  ELSE b.cycle[c]
    BY <2>1 DEF Extended
  <2>. HIDE DEF y, last
  <2>5. ASSUME NEW c \in Numbers
        PROVE  /\ y[c].skip = "USER" <=> b.cycle[c].skip = "USER"
               /\ b.cycle[c].skip = "USER" => y[c] = b.cycle[c]
               /\ y[c].status = "SCHEDULED" => /\ y[c].skip = None
                                               /\ \/ b.cycle[c].status = "SCHEDULED" /\ y[c] = b.cycle[c]
                                                  \/ \A e \in Users(b.cycle) : e < c
    <3>1. CASE c \in (last + 1)..(last + n)
      <4>0. y[c] = Scheduled(p.zone, D[c - last]) BY <3>1, <2>4
      <4>1. c > last /\ c \in Nat BY <3>1, <2>2
      <4>2. \A e \in Users(b.cycle) : e < c /\ e # c BY <4>1, <2>2, <2>3 DEF Users
      <4>3. c \notin Users(b.cycle) BY <4>2
      <4>4. y[c].skip = None BY <4>0 DEF Scheduled
      <4>. QED BY <4>2, <4>3, <4>4 DEF Users, None
    <3>2. CASE c \notin (last + 1)..(last + n) BY <3>2, <2>4 DEF Fitting
    <3>. QED BY <3>1, <3>2
  <2>. QED BY <2>0, <2>5 DEF Calm, y
<1>. QED BY <1>1, <1>2

\* Rows of C that were not skipped by the member, are rewritten and not planned.
LEMMA CalmRewritten ==
  ASSUME NEW x, Fitting(x), NEW y, NEW C,
         \A c \in Numbers \ C : y[c] = x[c],
         \A c \in Numbers \cap C : /\ x[c].skip # "USER" /\ y[c].skip # "USER" /\ x[c].status # None
                                   /\ y[c].status # "SCHEDULED"
  PROVE  Calm(x, y)
<1>. SUFFICES ASSUME NEW c \in Numbers
              PROVE  /\ y[c].skip = "USER" <=> x[c].skip = "USER"
                     /\ x[c].skip = "USER" =>
                          /\ y[c].at = x[c].at /\ y[c].date = x[c].date
                          /\ \/ y[c].status = x[c].status
                             \/ x[c].status = "SKIPPED" /\ y[c].status = "CANCELLED"
                     /\ y[c].status = "SCHEDULED" => /\ y[c].skip = None
                                                     /\ \/ c = 1
                                                        \/ x[c].status = "SCHEDULED" /\ y[c].date = x[c].date
                                                        \/ \A e \in Users(x) : e < c
                     /\ oneTime /\ x[c].status = None => y[c].status = None
  BY DEF Calm
<1>1. CASE c \in C BY <1>1
<1>2. CASE c \notin C BY <1>2 DEF Fitting
<1>. QED BY <1>1, <1>2

LEMMA CalmFits ==
  ASSUME NEW x, NEW y, Fitting(x), Calm(x, y)
  PROVE  Fitting(y)
<1>. SUFFICES ASSUME NEW c \in Numbers
              PROVE  /\ y[c].status = "SCHEDULED" => y[c].skip = None
                     /\ y[c].skip = "USER" => y[c].status \in {"SKIPPED", "CANCELLED"}
                     /\ oneTime /\ c # 1 => y[c].status = None
  BY DEF Fitting
<1>. QED BY DEF Fitting, Calm

LEMMA FirstMovesCalm ==
  ASSUME NEW b, Fitting(b.cycle), b.cycle[1].status = "SCHEDULED", NEW z, NEW d
  PROVE  Calm(b.cycle, MovedFirst(b, z, d).cycle)
<1>. DEFINE y == MovedFirst(b, z, d).cycle
            x == b.cycle
<1>1. \A c \in Numbers : y[c] = IF c = 1 THEN Scheduled(z, d) ELSE x[c] BY DEF MovedFirst
<1>2. x[1].skip = None BY NumberFacts DEF Fitting
<1>3. Scheduled(z, d).skip = None /\ Scheduled(z, d).status = "SCHEDULED" BY DEF Scheduled
<1>4. x[1].status # None BY DEF None
<1>. HIDE DEF y
<1>5. ASSUME NEW c \in Numbers
      PROVE  /\ y[c].skip = "USER" <=> x[c].skip = "USER"
             /\ x[c].skip = "USER" => y[c] = x[c]
             /\ y[c].status = "SCHEDULED" => y[c].skip = None /\ (c = 1 \/ y[c] = x[c])
             /\ oneTime /\ x[c].status = None => y[c].status = None
  <2>1. CASE c = 1 BY <2>1, <1>1, <1>2, <1>3, <1>4 DEF None
  <2>2. CASE c # 1 BY <2>2, <1>1 DEF Fitting
  <2>. QED BY <2>1, <2>2
<1>. HIDE DEF x
<1>6. Calm(x, y) BY <1>5 DEF Calm
<1>. QED BY <1>6 DEF x, y

LEMMA GivenCalm ==
  ASSUME NEW b, Fitting(b.cycle), NEW C, NEW R,
         \A c \in C \cap Numbers : /\ b.cycle[c].status \in {"SCHEDULED", "LOCKED"}
                                   /\ R[c].skip # "USER" /\ R[c].status # "SCHEDULED"
  PROVE  Calm(b.cycle, Given(b, C, R).cycle)
<1>. DEFINE x == b.cycle
            y == Given(b, C, R).cycle
<1>1. \A c \in Numbers : y[c] = IF c \in C THEN R[c] ELSE x[c] BY DEF Given
<1>2. \A c \in C \cap Numbers : x[c].skip # "USER" /\ x[c].status # None BY DEF Fitting, None
<1>. HIDE DEF y, x
<1>3. \A c \in Numbers \cap C : /\ x[c].skip # "USER" /\ y[c].skip # "USER" /\ x[c].status # None
                                /\ y[c].status # "SCHEDULED"
  BY <1>1, <1>2 DEF x
<1>4. \A c \in Numbers \ C : y[c] = x[c] BY <1>1
<1>5. Calm(x, y) BY <1>3, <1>4, CalmRewritten DEF x
<1>. QED BY <1>5 DEF x, y

LEMMA CancelledCalm ==
  ASSUME Good(Book, others), Fitting(cycle), NEW C \in SUBSET ScheduledIn(Book)
  PROVE  Calm(cycle, Releasing(Book, C, Cancel).cycle)
<1>. DEFINE R == [c \in Numbers |-> Cancel(Book.cycle[c])]
<1>0. Book.cycle = cycle BY DEF Book
<1>1. C \in SUBSET Numbers /\ \A c \in C : Book.cycle[c].status = "SCHEDULED" BY DEF ScheduledIn
<1>2. \A c \in C : R[c] = Cancel(Book.cycle[c]) /\ Book.cycle[c] \in Row
  BY <1>1, RowFacts DEF Good, BookOK, None
<1>3. Releasing(Book, C, Cancel) = Given(Book, C, R) BY <1>2 DEF Releasing, Given
<1>4. \A c \in C \cap Numbers : R[c].skip # "USER" /\ R[c].status = "CANCELLED"
  <2>1. \A c \in C : Book.cycle[c].skip = None BY <1>0, <1>1 DEF Fitting
  <2>2. \A r \in Row : Cancel(r).skip = r.skip /\ Cancel(r).status = "CANCELLED" BY DEF Cancel, Row
  <2>. HIDE DEF R
  <2>. QED BY <1>2, <2>1, <2>2 DEF None
<1>. HIDE DEF R
<1>. QED BY <1>0, <1>1, <1>3, <1>4, GivenCalm

LEMMA AfterCancelCalm ==
  ASSUME Good(Book, others), Fitting(cycle), NEW at
  PROVE  /\ Calm(cycle, AfterCancel(at).cycle)
         /\ \A c \in Numbers : AfterCancel(at).cycle[c].status # "SCHEDULED"
<1>. DEFINE b == Releasing(Book, ScheduledIn(Book), Cancel)
            S == {c \in Numbers : /\ cycle[c].status = "SKIPPED" /\ cycle[c].skip # "UNPAID"
                                  /\ cycle[c].date > at}
            x == b.cycle
            y == AfterCancel(at).cycle
<1>0. Book.cycle = cycle BY DEF Book
<1>1. Calm(cycle, x) BY CancelledCalm
<1>2. Good(b, others) BY CancelledGood
<1>3. \A c \in Numbers : x[c].status # "SCHEDULED"
  <2>1. \A c \in ScheduledIn(Book) : Book.cycle[c] \in Row
    BY RowFacts DEF Good, BookOK, None, ScheduledIn
  <2>2. \A c \in ScheduledIn(Book) : Cancel(Book.cycle[c]).status = "CANCELLED"
    BY <2>1, CancelledRow
  <2>3. \A c \in Numbers : x[c] = IF c \in ScheduledIn(Book) THEN Cancel(Book.cycle[c]) ELSE Book.cycle[c]
    BY DEF Releasing
  <2>. HIDE DEF x
  <2>. QED BY <2>2, <2>3 DEF ScheduledIn
<1>4. \A c \in Numbers : c \in S => x[c] = cycle[c] /\ x[c].status = "SKIPPED"
  BY <1>0 DEF Releasing, ScheduledIn
<1>5. \A c \in Numbers : y[c] = IF c \in S THEN Cancel(x[c]) ELSE x[c]
  <2>1. b = [cycle |-> x, reserved |-> b.reserved] BY DEF Releasing
  <2>2. AfterCancel(at) = [b EXCEPT !.cycle = [c \in Numbers |-> IF c \in S THEN Cancel(@[c]) ELSE @[c]]]
    BY DEF AfterCancel
  <2>. HIDE DEF b, S
  <2>. QED BY <2>1, <2>2
<1>6. \A c \in S : x[c] \in Row
  BY <1>2, <1>4, RowFacts DEF Good, BookOK, None
<1>7. \A r \in Row : /\ Cancel(r).skip = r.skip /\ Cancel(r).status = "CANCELLED"
                     /\ Cancel(r).at = r.at /\ Cancel(r).date = r.date
  BY DEF Cancel, Row
<1>8. Fitting(x)
  <2>. HIDE DEF x
  <2>. QED BY <1>1, CalmFits
<1>. HIDE DEF x, y, b
<1>9. ASSUME NEW c \in Numbers
      PROVE  /\ y[c].skip = "USER" <=> x[c].skip = "USER"
             /\ x[c].skip = "USER" => /\ y[c].at = x[c].at /\ y[c].date = x[c].date
                                      /\ \/ y[c].status = x[c].status
                                         \/ x[c].status = "SKIPPED" /\ y[c].status = "CANCELLED"
             /\ y[c].status # "SCHEDULED"
             /\ x[c].status = None => y[c].status = None
  <2>1. CASE c \in S
    <3>1. y[c] = Cancel(x[c]) /\ x[c] \in Row /\ x[c].status = "SKIPPED"
      BY <2>1, <1>4, <1>5, <1>6
    <3>. HIDE DEF S
    <3>. QED BY <3>1, <1>7 DEF None
  <2>2. CASE c \notin S
    <3>1. y[c] = x[c] BY <2>2, <1>5
    <3>. HIDE DEF S
    <3>. QED BY <3>1, <1>3
  <2>. QED BY <2>1, <2>2
<1>10. Calm(x, y) BY <1>9 DEF Calm
<1>11. Calm(cycle, y) BY <1>1, <1>10, CalmTwice
<1>. QED BY <1>9, <1>11 DEF y

LEMMA RegeneratedCalm ==
  ASSUME Good(Book, others), Fitting(cycle), NEW status, NEW p, PlanOK(p), NEW at \in Clock
  PROVE  Calm(cycle, Regenerated(status, p, at).cycle)
<1>. DEFINE C == ScheduledIn(Book) \ {1}
            b == Given(Book, C, [c \in Numbers |-> NoCycle])
<1>1. PICK m : /\ Good(m, others) /\ Regenerated(status, p, at) = Ensured(m, status, p, at)
               /\ \/ m = b
                  \/ b.cycle[1].status = "SCHEDULED" /\ \E d : m = MovedFirst(b, p.zone, d)
  BY RegeneratedIs
<1>2. Book.cycle = cycle BY DEF Book
<1>3. Calm(cycle, b.cycle)
  <2>1. \A c \in C \cap Numbers : /\ Book.cycle[c].status \in {"SCHEDULED", "LOCKED"}
                                  /\ [e \in Numbers |-> NoCycle][c] = NoCycle
                                  /\ NoCycle.skip # "USER" /\ NoCycle.status # "SCHEDULED"
    BY DEF ScheduledIn, NoCycle, None
  <2>. HIDE DEF C
  <2>. QED BY <1>2, <2>1, GivenCalm
<1>. HIDE DEF b
<1>4. Fitting(b.cycle) BY <1>3, CalmFits
<1>5. Calm(b.cycle, m.cycle) BY <1>1, <1>4, CalmSame, FirstMovesCalm
<1>6. Calm(cycle, m.cycle) BY <1>3, <1>5, CalmTwice
<1>7. Fitting(m.cycle) BY <1>6, CalmFits
<1>8. Calm(m.cycle, Regenerated(status, p, at).cycle) BY <1>1, <1>7, CalmEnsured DEF Good
<1>. QED BY <1>6, <1>8, CalmTwice

ReqType == [Requests -> [op : Uses \cup {None}, seen : Visible \cup {None}, now : Clock]]

\* A request that goes on, ends, or reads the clock.
Onward(rq, rq2, nw) == \A r \in Requests : \/ rq2[r] = rq[r] \/ rq2[r].now = nw
                                           \/ rq2[r].now = 0 /\ rq2[r].op \notin Clocked

LEMMA UserFacts ==
  ASSUME NEW x \in [Numbers -> None0], NEW c \in Users(x)
  PROVE  c \in Numbers /\ x[c].at \in Nat /\ x[c].date \in Nat /\ x[c].status # None
<1>1. c \in Numbers /\ x[c].skip = "USER" BY DEF Users
<1>2. x[c] \in Row BY <1>1 DEF None0, NoCycle, None
<1>3. Clock \in SUBSET Nat /\ Dates \in SUBSET Nat BY ClockFacts, CalendarAssumption DEF Dates
<1>. QED BY <1>1, <1>2, <1>3 DEF Row, Clock, CycleStatus, None

LEMMA CalmHistory ==
  ASSUME NEW x \in [Numbers -> None0], NEW y, NEW sk, NEW rq \in ReqType, NEW rq2 \in ReqType,
         NEW nw \in Nat, NEW nw2 \in Nat, nw <= nw2, Onward(rq, rq2, nw2),
         History(x, sk, rq, nw), Calm(x, y)
  PROVE  History(y, sk, rq2, nw2)
<1>1. Fitting(y) BY CalmFits DEF History
<1>2. Users(y) = Users(x) BY DEF Users, Calm
<1>3. \A c \in Users(x) : /\ y[c].at = x[c].at /\ y[c].date = x[c].date /\ c \in Numbers
                          /\ \/ y[c].status = x[c].status
                             \/ x[c].status = "SKIPPED" /\ y[c].status = "CANCELLED"
  BY DEF Users, Calm
<1>4. \A r \in Requests : rq[r].now \in Nat /\ rq2[r].now \in Nat BY ClockFacts DEF ReqType
<1>5. Timely(y, sk, rq2, nw2)
  <2>. SUFFICES ASSUME NEW c \in Users(y)
                PROVE  /\ c # 1 /\ y[c].at <= nw2 /\ y[c].at < y[c].date
                       /\ sk.resetAt # 0 => y[c].at < sk.resetAt
                       /\ \A r \in Requests : rq2[r].op \in Clocked => y[c].at <= rq2[r].now
    BY DEF Timely
  <2>1. /\ c # 1 /\ x[c].at <= nw /\ x[c].at < x[c].date
        /\ sk.resetAt # 0 => x[c].at < sk.resetAt
        /\ \A r \in Requests : rq[r].op \in Clocked => x[c].at <= rq[r].now
    BY <1>2 DEF History, Timely
  <2>2. x[c].at \in Nat /\ y[c].at = x[c].at /\ y[c].date = x[c].date BY <1>2, <1>3, UserFacts
  <2>3. x[c].at <= nw2 BY <2>1, <2>2
  <2>4. ASSUME NEW r \in Requests, rq2[r].op \in Clocked PROVE y[c].at <= rq2[r].now
    BY <2>1, <2>2, <2>3, <2>4 DEF Onward
  <2>. QED BY <2>1, <2>2, <2>3, <2>4
<1>6. InTurn(y)
  <2>. SUFFICES ASSUME NEW c \in Users(y), NEW d \in Numbers \ {1}, d < c
                PROVE  /\ y[d].status = "SCHEDULED" => y[d].date <= y[c].at
                       /\ y[d].skip = "USER" => \/ y[d].date <= y[c].at
                                                \/ y[d].status = "CANCELLED" /\ y[d].at <= y[c].at
    BY DEF InTurn
  <2>1. /\ x[d].status = "SCHEDULED" => x[d].date <= x[c].at
        /\ x[d].skip = "USER" => \/ x[d].date <= x[c].at
                                 \/ x[d].status = "CANCELLED" /\ x[d].at <= x[c].at
    BY <1>2 DEF History, InTurn
  <2>2. y[c].at = x[c].at BY <1>2, <1>3
  <2>3. ASSUME y[d].status = "SCHEDULED" PROVE y[d].date <= y[c].at
    <3>1. ~(\A e \in Users(x) : e < d)
      <4>1. c \in Users(x) /\ c \in Nat /\ d \in Nat BY <1>2, <1>3, NumberFacts
      <4>2. ~(c < d) BY <4>1
      <4>. QED BY <4>1, <4>2
    <3>2. x[d].status = "SCHEDULED" /\ y[d].date = x[d].date BY <2>3, <3>1 DEF Calm
    <3>. QED BY <3>2, <2>1, <2>2
  <2>4. ASSUME y[d].skip = "USER"
        PROVE  y[d].date <= y[c].at \/ (y[d].status = "CANCELLED" /\ y[d].at <= y[c].at)
    <3>1. d \in Users(x) BY <2>4, <1>2 DEF Users
    <3>2. /\ y[d].at = x[d].at /\ y[d].date = x[d].date
          /\ y[d].status = x[d].status \/ x[d].status = "SKIPPED"
      BY <3>1, <1>3
    <3>. QED BY <3>1, <3>2, <2>1, <2>2 DEF Users
  <2>. QED BY <2>3, <2>4
<1>7. Allowed(y, sk)
  <2>1. InYear(y, sk.resetAt) = InYear(x, sk.resetAt) BY <1>2, <1>3 DEF InYear
  <2>. QED BY <2>1 DEF History, Allowed
<1>8. \A r \in Requests : rq2[r].now <= nw2 BY <1>4 DEF History, Onward
<1>. QED BY <1>1, <1>5, <1>6, <1>7, <1>8 DEF History

-------------------------------------------------------------------------------
(* The steps that make history.                                             *)

LEMMA EarlierWeek ==
  ASSUME NEW a \in Dates, NEW b \in Dates, WeekOf(a) < WeekOf(b)
  PROVE  a < b
<1>1. DaysPerWeek \in Nat \ {0} BY CalendarAssumption
<1>2. Dates \in SUBSET (Nat \ {0}) BY CalendarAssumption DEF Dates
<1>3. a - 1 \in Nat /\ b - 1 \in Nat /\ a \in Nat /\ b \in Nat BY <1>2
<1>4. /\ WeekOf(a) \in Nat /\ (a - 1) % DaysPerWeek \in 0..(DaysPerWeek - 1)
      /\ a - 1 = WeekOf(a) * DaysPerWeek + ((a - 1) % DaysPerWeek)
  BY <1>1, <1>3, DivBack DEF WeekOf
<1>5. /\ WeekOf(b) \in Nat /\ (b - 1) % DaysPerWeek \in 0..(DaysPerWeek - 1)
      /\ b - 1 = WeekOf(b) * DaysPerWeek + ((b - 1) % DaysPerWeek)
  BY <1>1, <1>3, DivBack DEF WeekOf
<1>6. WeekOf(a) * DaysPerWeek + DaysPerWeek <= WeekOf(b) * DaysPerWeek
  <2>1. WeekOf(a) \in Int /\ WeekOf(b) \in Int BY <1>4, <1>5
  <2>. QED BY <1>1, <2>1, MulLess
<1>7. WeekOf(a) * DaysPerWeek \in Nat /\ WeekOf(b) * DaysPerWeek \in Nat BY <1>1, <1>4, <1>5
<1>. QED BY <1>1, <1>3, <1>4, <1>5, <1>6, <1>7

\* Before the current box nothing can be changed any more.
LEMMA NoneBeforeCurrent ==
  ASSUME NEW b, BookOK(b), Orderly(b), NEW at \in Nat, NEW c \in Numbers, IsCurrent(b, at, c),
         NEW d \in Numbers, d < c, b.cycle[d].status \in {"SCHEDULED", "SKIPPED"}
  PROVE  b.cycle[d].date <= at
<1>1. b.cycle[c].status \in {"SCHEDULED", "SKIPPED"} BY DEF IsCurrent, Changeable
<1>2. c \in Existing(b) /\ d \in Existing(b) BY <1>1 DEF Existing, None
<1>3. b.cycle[c].date \in Dates /\ b.cycle[d].date \in Dates
  BY <1>2, RowFacts DEF BookOK, Existing
<1>4. b.cycle[d].date < b.cycle[c].date BY <1>2, <1>3, EarlierWeek DEF Orderly
<1>5. Dates \in SUBSET Nat /\ c \in Nat /\ d \in Nat BY CalendarAssumption, NumberFacts DEF Dates
<1>6. ~Before(b, c, d) BY <1>3, <1>4, <1>5 DEF Before
<1>7. d \notin Changeable(b, at) BY <1>6, <1>5 DEF IsCurrent
<1>. QED BY <1>3, <1>5, <1>7 DEF Changeable

LEMMA SkipHistory ==
  ASSUME NEW x \in [Numbers -> None0], NEW sk \in [used : Nat, resetAt : Nat], NEW rq, NEW rq2,
         NEW nw \in Nat, History(x, sk, rq, nw), NEW at \in Nat, at <= nw,
         \A e \in Users(x) : x[e].at <= at,
         NEW c \in Numbers \ {1}, x[c].status = "SCHEDULED", x[c].date > at,
         \A d \in Numbers : d < c /\ x[d].status \in {"SCHEDULED", "SKIPPED"} => x[d].date <= at,
         NEW y, \A d \in Numbers \ {c} : y[d] = x[d],
         y[c].status = "SKIPPED", y[c].skip = "USER", y[c].at = at, y[c].date = x[c].date,
         NEW sk2 \in [used : Nat, resetAt : Nat], sk2.used <= SkipsPerYear,
         sk2.resetAt # 0 => at < sk2.resetAt,
         \/ sk2.resetAt = sk.resetAt /\ sk2.used = sk.used + 1
         \/ sk.resetAt # 0 /\ sk2.resetAt - YearLength >= sk.resetAt /\ sk2.used = 1,
         \A r \in Requests : rq2[r].op \notin Clocked /\ rq2[r].now = 0
  PROVE  History(y, sk2, rq2, nw)
<1>0. c \notin Users(x) BY DEF History, Fitting, Users, None
<1>1. Users(y) = Users(x) \cup {c} BY DEF Users
<1>2. \A e \in Users(x) : y[e] = x[e] /\ x[e].at \in Nat /\ x[e].date \in Nat
  BY <1>0, UserFacts
<1>3. x[c].date \in Nat
  <2>1. x[c] \in Row BY DEF None0, NoCycle, None
  <2>2. Dates \in SUBSET Nat BY CalendarAssumption DEF Dates
  <2>. QED BY <2>1, <2>2 DEF Row
<1>4. sk2.resetAt = sk.resetAt \/ sk2.resetAt > sk.resetAt BY CalendarAssumption
<1>5. Fitting(y)
  <2>. SUFFICES ASSUME NEW d \in Numbers
                PROVE  /\ y[d].status = "SCHEDULED" => y[d].skip = None
                       /\ y[d].skip = "USER" => y[d].status \in {"SKIPPED", "CANCELLED"}
                       /\ oneTime /\ d # 1 => y[d].status = None
    BY DEF Fitting
  <2>1. ~oneTime BY DEF History, Fitting, None
  <2>. QED BY <2>1 DEF History, Fitting
<1>6. Timely(y, sk2, rq2, nw)
  <2>. SUFFICES ASSUME NEW e \in Users(y)
                PROVE  /\ e # 1 /\ y[e].at <= nw /\ y[e].at < y[e].date
                       /\ sk2.resetAt # 0 => y[e].at < sk2.resetAt
    BY DEF Timely
  <2>1. CASE e = c BY <2>1, <1>3
  <2>2. CASE e \in Users(x)
    <3>1. /\ e # 1 /\ x[e].at <= nw /\ x[e].at < x[e].date
          /\ sk.resetAt # 0 => x[e].at < sk.resetAt
      BY <2>2 DEF History, Timely
    <3>2. y[e] = x[e] /\ x[e].at \in Nat BY <2>2, <1>2
    <3>3. sk2.resetAt # 0 => sk.resetAt # 0 \/ sk2.resetAt = sk.resetAt BY <1>4
    <3>4. ASSUME sk2.resetAt # 0 PROVE x[e].at < sk2.resetAt
      <4>1. sk.resetAt # 0 /\ x[e].at < sk.resetAt BY <3>1, <3>4
      <4>. QED BY <4>1, <3>2, <1>4
    <3>. QED BY <3>1, <3>2, <3>4
  <2>. QED BY <2>1, <2>2, <1>1
<1>7. InTurn(y)
  <2>. SUFFICES ASSUME NEW e \in Users(y), NEW d \in Numbers \ {1}, d < e
                PROVE  /\ y[d].status = "SCHEDULED" => y[d].date <= y[e].at
                       /\ y[d].skip = "USER" => \/ y[d].date <= y[e].at
                                                \/ y[d].status = "CANCELLED" /\ y[d].at <= y[e].at
    BY DEF InTurn
  <2>0. c \in Nat /\ d \in Nat BY NumberFacts
  <2>1. CASE e = c
    <3>1. d # c BY <2>0, <2>1
    <3>2. y[d] = x[d] /\ y[e].at = at BY <2>1, <3>1
    <3>3. x[d].skip = "USER" => x[d].status \in {"SKIPPED", "CANCELLED"} /\ d \in Users(x)
      BY DEF History, Fitting, Users
    <3>4. x[d].status \in {"SCHEDULED", "SKIPPED"} => x[d].date <= at BY <2>1
    <3>. QED BY <3>2, <3>3, <3>4
  <2>2. CASE e \in Users(x) /\ d # c
    <3>1. y[e] = x[e] /\ y[d] = x[d] BY <2>2, <1>2
    <3>. QED BY <3>1, <2>2 DEF History, InTurn
  <2>3. CASE e \in Users(x) /\ d = c
    <3>1. x[c].date <= x[e].at BY <2>3 DEF History, InTurn
    <3>. QED BY <3>1, <2>3, <1>2
  <2>. QED BY <2>1, <2>2, <2>3, <1>1
<1>8. Allowed(y, sk2)
  <2>. SUFFICES ASSUME sk2.resetAt # 0
                PROVE  Cardinality(InYear(y, sk2.resetAt)) <= sk2.used
    BY DEF Allowed
  <2>1. YearLength \in Nat /\ sk.used \in Nat BY CalendarAssumption
  <2>2. CASE sk2.resetAt = sk.resetAt /\ sk2.used = sk.used + 1
    <3>1. Cardinality(InYear(x, sk.resetAt)) <= sk.used BY <2>2 DEF History, Allowed
    <3>2. InYear(x, sk.resetAt) \in SUBSET Numbers BY DEF InYear, Users
    <3>3. /\ IsFiniteSet(InYear(x, sk.resetAt)) /\ Cardinality(InYear(x, sk.resetAt)) \in Nat
      BY <3>2, NumberFacts, FS_Subset, FS_CardinalityType
    <3>4. c \notin InYear(x, sk.resetAt) BY <1>0 DEF InYear
    <3>5. InYear(y, sk2.resetAt) \subseteq InYear(x, sk.resetAt) \cup {c}
      BY <1>1, <1>2, <2>2 DEF InYear
    <3>6. /\ IsFiniteSet(InYear(x, sk.resetAt) \cup {c})
          /\ Cardinality(InYear(x, sk.resetAt) \cup {c}) = Cardinality(InYear(x, sk.resetAt)) + 1
      BY <3>3, <3>4, FS_AddElement
    <3>7. /\ Cardinality(InYear(y, sk2.resetAt)) <= Cardinality(InYear(x, sk.resetAt) \cup {c})
          /\ Cardinality(InYear(y, sk2.resetAt)) \in Nat
      BY <3>5, <3>6, FS_Subset, FS_CardinalityType
    <3>. QED BY <3>1, <3>3, <3>6, <3>7, <2>1, <2>2
  <2>3. CASE sk.resetAt # 0 /\ sk2.resetAt - YearLength >= sk.resetAt /\ sk2.used = 1
    <3>1. ASSUME NEW e \in Users(x) PROVE e \notin InYear(y, sk2.resetAt)
      <4>1. x[e].at < sk.resetAt BY <2>3 DEF History, Timely
      <4>2. y[e].at = x[e].at /\ x[e].at \in Nat BY <1>2
      <4>3. ~(y[e].at >= sk2.resetAt - YearLength) BY <4>1, <4>2, <2>1, <2>3
      <4>. QED BY <4>3 DEF InYear
    <3>2. InYear(y, sk2.resetAt) \subseteq {c} BY <3>1, <1>1 DEF InYear
    <3>3. /\ Cardinality(InYear(y, sk2.resetAt)) <= Cardinality({c})
          /\ Cardinality({c}) = 1
      BY <3>2, FS_Singleton, FS_Subset
    <3>. QED BY <3>3, <2>3
  <2>. QED BY <2>2, <2>3
<1>9. \A r \in Requests : rq2[r].now <= nw OBVIOUS
<1>. QED BY <1>5, <1>6, <1>7, <1>8, <1>9 DEF History

LEMMA UnskipHistory ==
  ASSUME NEW x \in [Numbers -> None0], NEW sk \in [used : Nat, resetAt : Nat], NEW rq, NEW rq2,
         NEW nw \in Nat, History(x, sk, rq, nw), NEW at \in Nat,
         \A e \in Users(x) : x[e].at <= at,
         NEW c \in Numbers, x[c].status = "SKIPPED", x[c].skip = "USER", x[c].date > at,
         NEW y, \A d \in Numbers \ {c} : y[d] = x[d],
         y[c].status = "SCHEDULED", y[c].skip = None, y[c].date = x[c].date,
         NEW sk2, sk2.resetAt = sk.resetAt, sk2.used = Max({0, sk.used - 1}),
         \A r \in Requests : rq2[r].op \notin Clocked /\ rq2[r].now = 0
  PROVE  History(y, sk2, rq2, nw)
<1>0. c \in Users(x) BY DEF Users
<1>1. Users(y) = Users(x) \ {c} BY DEF Users, None
<1>2. \A e \in Users(x) : /\ x[e].at \in Nat /\ x[e].date \in Nat /\ e \in Numbers
                          /\ e # c => y[e] = x[e]
  BY UserFacts
<1>3. c # 1 /\ x[c].at < x[c].date BY <1>0 DEF History, Timely
<1>4. sk2.used \in Nat /\ sk2.used <= sk.used /\ sk2.used >= sk.used - 1
  <2>1. CASE sk.used = 0
    <3>1. Max({0, sk.used - 1}) = 0
      <4>1. \A z \in {0, -1} : 0 >= z OBVIOUS
      <4>2. Max({0, -1}) \in {0, -1} /\ \A z \in {0, -1} : Max({0, -1}) >= z BY <4>1 DEF Max
      <4>3. sk.used - 1 = -1 BY <2>1
      <4>. QED BY <4>2, <4>3
    <3>. QED BY <3>1, <2>1
  <2>2. CASE sk.used > 0
    <3>1. Max({0, sk.used - 1}) = sk.used - 1 BY <2>2, MaxZero
    <3>. QED BY <3>1, <2>2
  <2>. QED BY <2>1, <2>2
<1>5. Fitting(y)
  <2>. SUFFICES ASSUME NEW d \in Numbers
                PROVE  /\ y[d].status = "SCHEDULED" => y[d].skip = None
                       /\ y[d].skip = "USER" => y[d].status \in {"SKIPPED", "CANCELLED"}
                       /\ oneTime /\ d # 1 => y[d].status = None
    BY DEF Fitting
  <2>1. ~oneTime BY <1>3 DEF History, Fitting, None
  <2>. QED BY <2>1 DEF History, Fitting, None
<1>6. Timely(y, sk2, rq2, nw)
  <2>. SUFFICES ASSUME NEW e \in Users(y)
                PROVE  /\ e # 1 /\ y[e].at <= nw /\ y[e].at < y[e].date
                       /\ sk2.resetAt # 0 => y[e].at < sk2.resetAt
    BY DEF Timely
  <2>1. e \in Users(x) /\ y[e] = x[e] BY <1>1, <1>2
  <2>. QED BY <2>1 DEF History, Timely
<1>7. InTurn(y)
  <2>. SUFFICES ASSUME NEW e \in Users(y), NEW d \in Numbers \ {1}, d < e
                PROVE  /\ y[d].status = "SCHEDULED" => y[d].date <= y[e].at
                       /\ y[d].skip = "USER" => \/ y[d].date <= y[e].at
                                                \/ y[d].status = "CANCELLED" /\ y[d].at <= y[e].at
    BY DEF InTurn
  <2>1. e \in Users(x) /\ y[e] = x[e] BY <1>1, <1>2
  <2>2. CASE d = c
    <3>1. x[c].date <= x[e].at BY <2>1, <2>2 DEF History, InTurn
    <3>. QED BY <3>1, <2>1, <2>2 DEF None
  <2>3. CASE d # c BY <2>1, <2>3 DEF History, InTurn
  <2>. QED BY <2>2, <2>3
<1>8. Allowed(y, sk2)
  <2>0. sk2.used <= SkipsPerYear
    <3>1. sk.used <= SkipsPerYear /\ SkipsPerYear \in Nat BY LimitAssumption DEF History, Allowed
    <3>. QED BY <3>1, <1>4
  <2>. SUFFICES ASSUME sk.resetAt # 0
                PROVE  Cardinality(InYear(y, sk.resetAt)) <= sk2.used
    BY <2>0 DEF Allowed
  <2>. DEFINE I == InYear(x, sk.resetAt)
              J == InYear(y, sk.resetAt)
  <2>1. Cardinality(I) <= sk.used /\ I \in SUBSET Numbers
    BY DEF History, Allowed, InYear, Users
  <2>2. IsFiniteSet(I) /\ Cardinality(I) \in Nat
    BY <2>1, NumberFacts, FS_Subset, FS_CardinalityType
  <2>3. J = I \ {c} BY <1>1, <1>2 DEF InYear
  <2>4. CASE c \in I
    <3>1. Cardinality(J) = Cardinality(I) - 1
      <4>. HIDE DEF I, J
      <4>. QED BY <2>2, <2>3, <2>4, FS_RemoveElement
    <3>2. Cardinality(J) <= sk2.used
      <4>. HIDE DEF I, J
      <4>. QED BY <3>1, <2>1, <2>2, <1>4
    <3>. QED BY <3>2
  <2>5. CASE c \notin I
    <3>. SUFFICES ASSUME NEW e \in J PROVE FALSE
      <4>1. J = {} OBVIOUS
      <4>2. Cardinality(J) = 0
        <5>. HIDE DEF J
        <5>. QED BY <4>1, FS_EmptySet
      <4>. QED BY <4>2, <1>4
    <3>1. e \in Users(x) /\ e # c /\ x[e].at >= sk.resetAt - YearLength
      BY <2>3 DEF InYear
    <3>2. ~(x[c].at >= sk.resetAt - YearLength) BY <1>0, <2>5 DEF InYear
    <3>3. /\ x[e].at \in Nat /\ x[c].at \in Nat /\ x[e].date \in Nat /\ x[c].date \in Nat
          /\ e \in Numbers /\ e # 1 /\ x[e].skip = "USER"
          /\ YearLength \in Nat
      BY <1>0, <1>2, <3>1, CalendarAssumption DEF History, Timely, Users
    <3>4. x[c].at < x[e].at BY <3>1, <3>2, <3>3
    <3>5. e \in Nat /\ c \in Nat BY <3>3, NumberFacts
    <3>6. CASE e < c
      <4>1. x[e].date <= x[c].at \/ x[e].at <= x[c].at
        BY <1>0, <3>3, <3>6 DEF History, InTurn
      <4>2. x[e].at < x[e].date BY <3>1 DEF History, Timely
      <4>. QED BY <4>1, <4>2, <3>3, <3>4
    <3>7. CASE c < e
      <4>1. x[c].date <= x[e].at BY <3>1, <3>7, <1>3 DEF History, InTurn
      <4>2. x[e].at <= at BY <3>1
      <4>. QED BY <4>1, <4>2, <3>3
    <3>. QED BY <3>1, <3>5, <3>6, <3>7
  <2>. QED BY <2>4, <2>5
<1>9. \A r \in Requests : rq2[r].now <= nw OBVIOUS
<1>. QED BY <1>5, <1>6, <1>7, <1>8, <1>9 DEF History

-------------------------------------------------------------------------------
(* The invariant of a member who makes one request at a time.               *)

Alone == \A r, q \in Requests : r = q
Ending == {"CANCEL_REQUESTED", "CANCELLED"}

\* An answer to the offer read a request that is still open, or the end of the subscription.
FlowOK ==
  /\ sub = "CANCEL_REQUESTED" => flow.open # None
  /\ flow.open = "offered" => sub \in Ending
  /\ \A r \in Requests : req[r].op \in {"accept", "abandon"} =>
       /\ req[r].seen = "CANCEL_REQUESTED" /\ flow.open # None => sub \in Ending
       /\ sub = "CANCEL_REQUESTED" => req[r].seen = "CANCEL_REQUESTED"

\* Before its activation the member does nothing.
UnbornOK == sub = "PENDING" => (\A r \in Requests : req[r].op = None) /\ Users(cycle) = {}

\* A skip that outlived its subscription finds nothing to skip.
OverOK == \A r \in Requests : sub = "CANCELLED" /\ req[r].op = "skip" => ScheduledIn(Book) = {}

\* A PAUSED or COMPLETED subscription may keep a stale date: ensure leaves it alone.
FreshOK == (sub \in EngineActive \cup {"PENDING", "CANCELLED"} \/ oneTime) /\ next # 0
             => next = NextOf(Book)

MInv == /\ BInv /\ History(cycle, skips, req, now)
        /\ FlowOK /\ UnbornOK /\ OverOK /\ FreshOK

LEMMA MInvMeans == MInv => NextDeliveryFresh /\ RequestedIsOpen /\ SkipsWithinYear
<1>. SUFFICES ASSUME MInv PROVE NextDeliveryFresh /\ RequestedIsOpen /\ SkipsWithinYear OBVIOUS
<1>1. NextDeliveryFresh BY DEF MInv, FreshOK, NextDeliveryFresh
<1>2. RequestedIsOpen BY DEF MInv, FlowOK, RequestedIsOpen
<1>3. SkipsWithinYear
  <2>. SUFFICES ASSUME skips.resetAt # 0 PROVE Cardinality(SkippedThisYear) <= SkipsPerYear
    BY DEF SkipsWithinYear
  <2>1. SkippedThisYear = InYear(cycle, skips.resetAt) BY DEF SkippedThisYear, InYear, Users
  <2>2. Cardinality(SkippedThisYear) <= skips.used /\ skips.used <= SkipsPerYear
    BY <2>1 DEF MInv, History, Allowed
  <2>3. SkippedThisYear \in SUBSET Numbers BY DEF SkippedThisYear
  <2>4. Cardinality(SkippedThisYear) \in Nat BY <2>3, NumberFacts, FS_Subset, FS_CardinalityType
  <2>5. skips.used \in Nat /\ SkipsPerYear \in Nat BY LimitAssumption DEF MInv, BInv, Rest
  <2>. QED BY <2>2, <2>4, <2>5
<1>. QED BY <1>1, <1>2, <1>3

LEMMA MemberTypes ==
  ASSUME BInv
  PROVE  /\ cycle \in [Numbers -> None0] /\ req \in ReqType /\ now \in Nat
         /\ skips \in [used : Nat, resetAt : Nat] /\ Good(Book, others) /\ Book.cycle = cycle
<1>1. Book.cycle = cycle BY DEF Book
<1>. QED BY <1>1, ClockFacts DEF BInv, Good, BookOK, Rest, ReqOK, ReqType, Clock

LEMMA InitMember == Init => MInv
<1>. SUFFICES ASSUME Init PROVE MInv OBVIOUS
<1>1. BInv BY InitBooks
<1>2. PICK z \in Zones, d \in 1..DaysPerWeek :
        /\ now = 0 /\ sub = "PENDING"
        /\ cycle = [c \in Numbers |-> IF c = 1 THEN Scheduled(z, d) ELSE NoCycle]
        /\ skips = [used |-> 0, resetAt |-> 0] /\ next = d
        /\ flow = [open |-> None, offerUsed |-> FALSE] /\ req = [r \in Requests |-> Idle]
  BY DEF Init
<1>3. \A c \in Numbers : /\ cycle[c].skip = None
                         /\ cycle[c].status = IF c = 1 THEN "SCHEDULED" ELSE None
                         /\ c = 1 => cycle[c].date = d
  BY <1>2 DEF Scheduled, NoCycle
<1>4. Users(cycle) = {} BY <1>3 DEF Users, None
<1>5. History(cycle, skips, req, now)
  <2>1. Fitting(cycle) BY <1>3 DEF Fitting, None
  <2>2. Timely(cycle, skips, req, now) /\ InTurn(cycle) BY <1>4 DEF Timely, InTurn
  <2>3. Allowed(cycle, skips) BY <1>2, LimitAssumption DEF Allowed
  <2>4. \A r \in Requests : req[r].now <= now BY <1>2 DEF Idle
  <2>. QED BY <2>1, <2>2, <2>3, <2>4 DEF History
<1>6. FlowOK BY <1>2 DEF FlowOK, Idle, None
<1>7. UnbornOK BY <1>2, <1>4 DEF UnbornOK, Idle
<1>8. OverOK BY <1>2 DEF OverOK
<1>9. FreshOK
  <2>1. Ahead(Book) = {d}
    <3>1. \A c \in Numbers : Book.cycle[c].status \in {"SCHEDULED"} \cup InFlight <=> c = 1
      BY <1>3 DEF Book, InFlight, None
    <3>. QED BY <3>1, <1>3, NumberFacts DEF Ahead, Book
  <2>2. {d} \in SUBSET Nat BY CalendarAssumption
  <2>3. Min({d}) = d BY <2>2, MinOf
  <2>. QED BY <1>2, <2>1, <2>3 DEF FreshOK, NextOf
<1>. QED BY <1>1, <1>5, <1>6, <1>7, <1>8, <1>9 DEF MInv

LEMMA Moved ==
  ASSUME UNCHANGED oneTime, History(cycle', skips', req', now')
  PROVE  History(cycle, skips, req, now)'
BY DEF History, Fitting, Timely, InTurn, Allowed, Users, InYear

LEMMA Ends ==
  ASSUME req \in ReqType, NEW r \in Requests, req' = [req EXCEPT ![r] = Idle]
  PROVE  Onward(req, req', now') /\ req' \in ReqType
<1>1. Idle \in [op : Uses \cup {None}, seen : Visible \cup {None}, now : Clock]
      /\ Idle.now = 0 /\ Idle.op \notin Clocked
  BY ClockFacts DEF Idle, Clocked, None
<1>. QED BY <1>1 DEF ReqType, Onward

LEMMA CalmStep ==
  ASSUME MInv, BInv', UNCHANGED <<oneTime, skips>>, now <= now', Onward(req, req', now'),
         Calm(cycle, cycle')
  PROVE  History(cycle, skips, req, now)'
<1>1. now \in Nat /\ now' \in Nat /\ cycle \in [Numbers -> None0] /\ req \in ReqType /\ req' \in ReqType
  BY MemberTypes, ClockFacts DEF MInv, BInv, Rest, Clock, ReqOK, ReqType
<1>2. History(cycle', skips, req', now') BY <1>1, CalmHistory DEF MInv
<1>. QED BY <1>2, Moved

LEMMA OpenHistory ==
  ASSUME MInv, BInv', NEW r \in Requests, NEW op \in Uses, Open(r, op)
  PROVE  History(cycle, skips, req, now)'
<1>1. req \in ReqType /\ now \in Nat BY MemberTypes DEF MInv
<1>2. Onward(req, req', now')
  <2>1. req' = [req EXCEPT ![r] =
                  [op |-> op, seen |-> IF op \in {"accept", "abandon"} THEN sub ELSE None,
                   now |-> IF op \in {"skip", "unskip", "patch", "confirm"} THEN now ELSE 0]]
        /\ now' = now
    BY DEF Open
  <2>2. req'[r].op = op /\ req'[r].now = IF op \in Clocked THEN now ELSE 0
    BY <1>1, <2>1 DEF ReqType, Clocked
  <2>3. \A q \in Requests : q # r => req'[q] = req[q] BY <1>1, <2>1 DEF ReqType
  <2>. QED BY <2>1, <2>2, <2>3 DEF Onward
<1>3. Calm(cycle, cycle') BY CalmSame DEF Open, MInv, History
<1>. QED BY <1>1, <1>2, <1>3, CalmStep DEF Open

LEMMA SkipHistoric ==
  ASSUME MInv, BInv', Alone, NEW r \in Requests, Skip(r)
  PROVE  History(cycle, skips, req, now)'
<1>0. /\ cycle \in [Numbers -> None0] /\ req \in ReqType /\ now \in Nat
      /\ skips \in [used : Nat, resetAt : Nat] /\ Good(Book, others) /\ Book.cycle = cycle
  BY MemberTypes DEF MInv
<1>. DEFINE at == req[r].now
<1>1. at \in Clock /\ at \in Nat /\ at <= now
  BY <1>0, ClockFacts DEF ReqType, MInv, History
<1>2. PICK c \in Numbers \ {1} :
        /\ IsCurrent(Book, at, c) /\ Status(c) = "SCHEDULED" /\ UsedAt(at) < SkipsPerYear
        /\ LET skipped(row) == [row EXCEPT !.status = "SKIPPED", !.skip = "USER", !.at = at]
               b == Ensured(Releasing(Book, {c}, skipped), sub, plan, at)
           IN Keep(b) /\ next' = EnsuredNext(b, sub)
        /\ skips' = [used |-> UsedAt(at) + 1, resetAt |-> ResetAt(at)]
  BY DEF Skip
<1>. DEFINE b0 == Given(Book, {c}, [d \in Numbers |->
                     [Book.cycle[d] EXCEPT !.status = "SKIPPED", !.skip = "USER", !.at = at]])
<1>3. Keep(Ensured(b0, sub, plan, at))
  <2>1. Releasing(Book, {c}, LAMBDA row : [row EXCEPT !.status = "SKIPPED", !.skip = "USER", !.at = at]) = b0
    BY DEF Releasing, Given
  <2>. QED BY <1>2, <2>1
<1>4. Good(b0, others)
  <2>1. Status(c) \in {"SCHEDULED", "LOCKED"} BY <1>2
  <2>2. BInv BY DEF MInv
  <2>. HIDE DEF b0
  <2>3. b0 = Given(Book, {c}, [d \in Numbers |->
                     [Book.cycle[d] EXCEPT !.status = "SKIPPED", !.skip = "USER", !.at = at]])
    BY DEF b0
  <2>. HIDE DEF at
  <2>. QED BY <1>1, <2>1, <2>2, <2>3, SkipBook
<1>5. cycle[c].status = "SCHEDULED" /\ cycle[c] \in Row /\ cycle[c].date > at
  BY <1>0, <1>2, RowFacts DEF Status, IsCurrent, Changeable, None
<1>6. /\ \A d \in Numbers \ {c} : b0.cycle[d] = cycle[d]
      /\ b0.cycle[c].status = "SKIPPED" /\ b0.cycle[c].skip = "USER" /\ b0.cycle[c].at = at
      /\ b0.cycle[c].date = cycle[c].date
  BY <1>0, <1>5 DEF Given, Row
<1>. HIDE DEF b0
<1>7. \A e \in Users(cycle) : cycle[e].at <= at
  BY DEF MInv, History, Timely, Clocked, Skip, Commit
<1>8. \A d \in Numbers : d < c /\ cycle[d].status \in {"SCHEDULED", "SKIPPED"} => cycle[d].date <= at
  BY <1>0, <1>1, <1>2, NoneBeforeCurrent DEF Good
<1>9. \A q \in Requests : req'[q].op \notin Clocked /\ req'[q].now = 0
  <2>1. \A q \in Requests : req'[q] = Idle BY <1>0 DEF Alone, Skip, Commit, ReqType
  <2>. QED BY <2>1 DEF Idle, Clocked, None
<1>10. /\ skips' \in [used : Nat, resetAt : Nat] /\ skips'.used <= SkipsPerYear
       /\ skips'.resetAt # 0 => at < skips'.resetAt
       /\ \/ skips'.resetAt = skips.resetAt /\ skips'.used = skips.used + 1
          \/ skips.resetAt # 0 /\ skips'.resetAt - YearLength >= skips.resetAt /\ skips'.used = 1
  <2>0. skips' \in [used : Nat, resetAt : Nat] BY DEF BInv, Rest
  <2>1. skips'.used = UsedAt(at) + 1 /\ skips'.resetAt = ResetAt(at) /\ UsedAt(at) < SkipsPerYear
    BY <1>2
  <2>2. UsedAt(at) \in Nat /\ SkipsPerYear \in Nat BY <1>0, LimitAssumption DEF UsedAt
  <2>3. YearLength \in Nat \ {0} /\ skips.resetAt \in Nat BY <1>0, CalendarAssumption
  <2>4. CASE skips.resetAt = 0 \/ skips.resetAt > at
    <3>1. ResetAt(at) = skips.resetAt BY <2>4 DEF ResetAt
    <3>2. UsedAt(at) = skips.used BY <3>1 DEF UsedAt
    <3>. HIDE DEF at
    <3>. QED BY <2>0, <2>1, <2>2, <2>4, <3>1, <3>2, <1>1, <2>3
  <2>5. CASE ~(skips.resetAt = 0 \/ skips.resetAt > at)
    <3>. DEFINE k == (at - skips.resetAt) \div YearLength
    <3>0. at - skips.resetAt \in Nat BY <1>1, <2>3, <2>5
    <3>1. k \in Nat /\ (at - skips.resetAt) % YearLength \in 0..(YearLength - 1)
          /\ at - skips.resetAt = k * YearLength + ((at - skips.resetAt) % YearLength)
      BY <2>3, <3>0, DivBack
    <3>2. ResetAt(at) = skips.resetAt + YearLength * (k + 1) BY <2>5 DEF ResetAt
    <3>. HIDE DEF k, at
    <3>3. YearLength * (k + 1) = k * YearLength + YearLength /\ k * YearLength \in Nat
      BY <2>3, <3>1
    <3>4. at < ResetAt(at) /\ ResetAt(at) - YearLength >= skips.resetAt
          /\ ResetAt(at) # skips.resetAt
      BY <1>1, <2>3, <3>1, <3>2, <3>3
    <3>5. UsedAt(at) = 0 BY <3>4 DEF UsedAt
    <3>. QED BY <2>0, <2>1, <2>2, <2>5, <3>4, <3>5
  <2>. QED BY <2>4, <2>5
<1>. HIDE DEF at
<1>11. History(b0.cycle, skips', req', now)
  BY <1>0, <1>1, <1>5, <1>6, <1>7, <1>8, <1>9, <1>10, SkipHistory DEF MInv
<1>12. Calm(b0.cycle, cycle')
  <2>1. PlanOK(plan) BY DEF MInv, BInv, Rest
  <2>2. Fitting(b0.cycle) BY <1>11 DEF History
  <2>. QED BY <1>1, <1>3, <1>4, <2>1, <2>2, CalmEnsured DEF Good, Keep
<1>13. b0.cycle \in [Numbers -> None0] BY <1>4 DEF Good, BookOK
<1>14. now' = now /\ UNCHANGED oneTime BY DEF Skip
<1>15. req' \in ReqType /\ Onward(req', req', now) BY <1>0, Ends DEF Skip, Commit, Onward
<1>16. History(cycle', skips', req', now)
  BY <1>0, <1>11, <1>12, <1>13, <1>15, CalmHistory
<1>. QED BY <1>14, <1>16, Moved

LEMMA UnskipHistoric ==
  ASSUME MInv, BInv', Alone, NEW r \in Requests, Unskip(r)
  PROVE  History(cycle, skips, req, now)'
<1>0. /\ cycle \in [Numbers -> None0] /\ req \in ReqType /\ now \in Nat
      /\ skips \in [used : Nat, resetAt : Nat] /\ Good(Book, others) /\ Book.cycle = cycle
  BY MemberTypes DEF MInv
<1>. DEFINE at == req[r].now
<1>1. at \in Nat BY <1>0, ClockFacts DEF ReqType
<1>2. PICK c \in Numbers :
        /\ IsCurrent(Book, at, c) /\ Status(c) = "SKIPPED" /\ cycle[c].skip = "USER"
        /\ LET b == [Book EXCEPT !.cycle[c] = Scheduled(@.zone, @.date),
                                !.reserved[SlotOf(cycle[c])] = @ + 1]
           IN Keep(b) /\ next' = NextOf(b)
  BY DEF Unskip
<1>3. cycle' = [cycle EXCEPT ![c] = Scheduled(cycle[c].zone, cycle[c].date)]
  <2>1. cycle' = [Book EXCEPT !.cycle[c] = Scheduled(@.zone, @.date),
                              !.reserved[SlotOf(cycle[c])] = @ + 1].cycle
    BY <1>2 DEF Keep
  <2>2. Book = [cycle |-> cycle, reserved |-> reserved] BY DEF Book
  <2>. DEFINE v == Scheduled(cycle[c].zone, cycle[c].date)
              t == SlotOf(cycle[c])
              n == reserved[t] + 1
  <2>. DEFINE b == [Book EXCEPT !.cycle[c] = v, !.reserved[t] = n]
  <2>3. cycle' = b.cycle BY <2>1, <2>2
  <2>6. b = [Book EXCEPT !.cycle[c] = v, !.reserved[t] = n] OBVIOUS
  <2>. HIDE DEF b, v, t, n
  <2>4. b = [cycle |-> [cycle EXCEPT ![c] = v], reserved |-> [reserved EXCEPT ![t] = n]]
    BY <2>2, <2>6, RowAndCounter
  <2>5. cycle' = [cycle EXCEPT ![c] = v] BY <2>3, <2>4
  <2>. QED BY <2>5 DEF v
<1>4. /\ \A d \in Numbers \ {c} : cycle'[d] = cycle[d]
      /\ cycle'[c].status = "SCHEDULED" /\ cycle'[c].skip = None /\ cycle'[c].date = cycle[c].date
  BY <1>0, <1>3 DEF Scheduled
<1>5. cycle[c].status = "SKIPPED" /\ cycle[c].skip = "USER" /\ cycle[c].date > at
  BY <1>0, <1>2 DEF Status, IsCurrent, Changeable
<1>6. \A e \in Users(cycle) : cycle[e].at <= at
  BY DEF MInv, History, Timely, Clocked, Unskip, Commit
<1>7. \A q \in Requests : req'[q].op \notin Clocked /\ req'[q].now = 0
  <2>1. \A q \in Requests : req'[q] = Idle BY <1>0 DEF Alone, Unskip, Commit, ReqType
  <2>. QED BY <2>1 DEF Idle, Clocked, None
<1>8. skips'.resetAt = skips.resetAt /\ skips'.used = Max({0, skips.used - 1})
  BY <1>0 DEF Unskip
<1>. HIDE DEF at
<1>9. History(cycle', skips', req', now)
  BY <1>0, <1>1, <1>4, <1>5, <1>6, <1>7, <1>8, UnskipHistory DEF MInv
<1>10. now' = now /\ UNCHANGED oneTime BY DEF Unskip
<1>. QED BY <1>9, <1>10, Moved

LEMMA ActivateHistoric ==
  ASSUME MInv, BInv', Activate
  PROVE  History(cycle, skips, req, now)'
<1>0. /\ cycle \in [Numbers -> None0] /\ req \in ReqType /\ now \in Nat
      /\ skips \in [used : Nat, resetAt : Nat] /\ Good(Book, others) /\ Book.cycle = cycle
  BY MemberTypes DEF MInv
<1>1. Users(cycle) = {} /\ skips'.used = skips.used BY <1>0 DEF MInv, UnbornOK, Activate
<1>2. \A reset : InYear(cycle, reset) = {} BY <1>1 DEF InYear
<1>3. Allowed(cycle, skips') BY <1>0, <1>1, <1>2, FS_EmptySet DEF Allowed, MInv, History
<1>4. History(cycle, skips', req, now) BY <1>1, <1>3 DEF MInv, History, Timely, InTurn
<1>5. Calm(cycle, cycle')
  <2>1. PlanOK(plan) /\ now \in Clock /\ Fitting(cycle) BY DEF MInv, BInv, Rest, History
  <2>. QED BY <1>0, <2>1, CalmEnsured DEF Good, Keep, Activate
<1>6. now' = now /\ UNCHANGED <<oneTime, req>> BY DEF Activate
<1>7. Onward(req, req, now) BY DEF Onward
<1>8. History(cycle', skips', req', now') BY <1>0, <1>4, <1>5, <1>6, <1>7, CalmHistory
<1>. QED BY <1>6, <1>8, Moved

\* Steps that neither skip nor un-skip leave the history as it is.
LEMMA LabelCalm ==
  ASSUME MInv, NEW c \in Numbers, Status(c) \in {"SCHEDULED"} \cup InFlight,
         NEW s \in {"LOCKED", "CHARGED", "DELIVERED"}, cycle' = [cycle EXCEPT ![c].status = s]
  PROVE  Calm(cycle, cycle')
<1>1. Fitting(cycle) /\ cycle \in [Numbers -> None0] BY MemberTypes DEF MInv, History
<1>2. cycle[c] \in Row /\ cycle[c].skip # "USER" /\ cycle[c].status # None
  <2>1. cycle[c].status # None /\ cycle[c].status \notin {"SKIPPED", "CANCELLED"}
    BY DEF Status, InFlight, None
  <2>2. cycle[c] \in Row BY <1>1, <2>1, RowFacts
  <2>. QED BY <1>1, <2>1, <2>2 DEF Fitting
<1>3. cycle'[c].status = s /\ cycle'[c].skip = cycle[c].skip BY <1>1, <1>2 DEF Row
<1>4. \A d \in Numbers \ {c} : cycle'[d] = cycle[d] BY <1>1
<1>5. \A d \in Numbers \cap {c} : /\ cycle[d].skip # "USER" /\ cycle'[d].skip # "USER"
                                  /\ cycle[d].status # None /\ cycle'[d].status # "SCHEDULED"
  BY <1>2, <1>3
<1>. DEFINE C == {c}
<1>6. (\A d \in Numbers \ C : cycle'[d] = cycle[d])
      /\ \A d \in Numbers \cap C : /\ cycle[d].skip # "USER" /\ cycle'[d].skip # "USER"
                                    /\ cycle[d].status # None /\ cycle'[d].status # "SCHEDULED"
  BY <1>4, <1>5
<1>. HIDE DEF C
<1>7. PICK y : y = cycle' OBVIOUS
<1>9. (\A d \in Numbers \ C : y[d] = cycle[d])
      /\ \A d \in Numbers \cap C : /\ cycle[d].skip # "USER" /\ y[d].skip # "USER"
                                    /\ cycle[d].status # None /\ y[d].status # "SCHEDULED"
  BY <1>6, <1>7
<1>8. Calm(cycle, y) BY ONLY <1>1, <1>9, CalmRewritten
<1>. QED BY <1>7, <1>8

LEMMA BookLabel ==
  ASSUME NEW c, NEW s, NEW b, b = [Book EXCEPT !.cycle[c].status = s], Keep(b)
  PROVE  cycle' = [cycle EXCEPT ![c].status = s]
<1>0. Book = [cycle |-> cycle, reserved |-> reserved] BY DEF Book
<1>1. b = [cycle |-> [cycle EXCEPT ![c].status = s], reserved |-> reserved]
  BY <1>0, OneStatus
<1>2. cycle' = b.cycle BY DEF Keep
<1>. QED BY <1>1, <1>2

LEMMA GiveUpCalm ==
  ASSUME MInv, NEW c \in Numbers, GiveUp(c)
  PROVE  /\ Calm(cycle, cycle')
         /\ \A d \in Numbers : cycle'[d].status = "SCHEDULED" => cycle[d].status = "SCHEDULED"
<1>0. Good(Book, others) /\ Book.cycle = cycle /\ Fitting(cycle) BY MemberTypes DEF MInv, History
<1>. DEFINE R == [d \in Numbers |->
                 [Book.cycle[d] EXCEPT !.status = "SKIPPED", !.skip = "UNPAID", !.at = now]]
<1>1. Keep(Given(Book, {c}, R))
  <2>1. Releasing(Book, {c}, LAMBDA row : [row EXCEPT !.status = "SKIPPED", !.skip = "UNPAID", !.at = now])
          = Given(Book, {c}, R)
    BY DEF Releasing, Given
  <2>. QED BY <2>1 DEF GiveUp
<1>2. Book.cycle[c].status = "LOCKED" BY <1>0 DEF GiveUp, Status
<1>3. Book.cycle[c] \in Row BY <1>0, <1>2, RowFacts DEF Good, BookOK, None
<1>4. R[c].skip = "UNPAID" /\ R[c].status = "SKIPPED" BY <1>3 DEF Row
<1>. HIDE DEF R
<1>5. \A d \in {c} \cap Numbers : /\ Book.cycle[d].status \in {"SCHEDULED", "LOCKED"}
                                  /\ R[d].skip # "USER" /\ R[d].status # "SCHEDULED"
  BY <1>2, <1>4
<1>6. Calm(cycle, cycle') BY <1>0, <1>1, <1>5, GivenCalm DEF Keep
<1>7. \A d \in Numbers : cycle'[d] = IF d = c THEN R[d] ELSE cycle[d]
  BY <1>0, <1>1 DEF Keep, Given
<1>. QED BY <1>4, <1>6, <1>7

LEMMA HistoryStep ==
  ASSUME MInv, BInv', Alone, [Next]_vars
  PROVE  History(cycle, skips, req, now)'
<1>0. /\ cycle \in [Numbers -> None0] /\ req \in ReqType /\ now \in Nat /\ now \in Clock
      /\ Good(Book, others) /\ Book.cycle = cycle /\ Fitting(cycle) /\ PlanOK(plan)
      /\ Calm(cycle, cycle)
  BY MemberTypes, CalmSame DEF MInv, History, BInv, Rest
<1>. DEFINE Quiet == UNCHANGED <<oneTime, skips>> /\ now <= now' /\ Onward(req, req', now')
<1>q. Quiet /\ Calm(cycle, cycle') => History(cycle, skips, req, now)' BY CalmStep
<1>s. ASSUME UNCHANGED <<oneTime, skips, now, req>> PROVE Quiet
  <2>1. now <= now' /\ UNCHANGED <<oneTime, skips>> BY <1>0, <1>s
  <2>2. Onward(req, req', now') BY <1>s DEF Onward
  <2>. QED BY <2>1, <2>2 DEF Quiet
<1>c. ASSUME NEW r \in Requests, req' = [req EXCEPT ![r] = Idle], UNCHANGED <<oneTime, skips, now>>
      PROVE  Quiet
  <2>1. now <= now' /\ UNCHANGED <<oneTime, skips>> BY <1>0, <1>c
  <2>2. req' = [req EXCEPT ![r] = Idle] /\ req \in ReqType BY <1>0, <1>c
  <2>3. Onward(req, req', now') BY <2>2, Ends
  <2>. QED BY <2>1, <2>3 DEF Quiet
<1>. HIDE DEF Quiet
<1>1. ASSUME NEW r \in Requests, NEW op \in Uses, Open(r, op) PROVE History(cycle, skips, req, now)'
  BY <1>1, OpenHistory
<1>2. ASSUME NEW r \in Requests, Drop(r) PROVE History(cycle, skips, req, now)'
  BY <1>2, <1>q, <1>c, <1>0 DEF Drop
<1>3. ASSUME NEW r \in Requests, Skip(r) PROVE History(cycle, skips, req, now)'
  BY <1>3, SkipHistoric
<1>4. ASSUME NEW r \in Requests, Unskip(r) PROVE History(cycle, skips, req, now)'
  BY <1>4, UnskipHistoric
<1>5. ASSUME NEW r \in Requests, Patch(r) PROVE History(cycle, skips, req, now)'
  <2>1. PICK f \in Freqs, k \in Days, z \in Zones :
          LET p == [freq |-> IF oneTime THEN plan.freq ELSE f, day |-> k, zone |-> z]
              b == IF p = plan THEN Book ELSE Regenerated(sub, p, req[r].now)
          IN plan' = p /\ Keep(b) /\ next' = NextOf(b)
    BY <1>5 DEF Patch
  <2>. DEFINE p == [freq |-> IF oneTime THEN plan.freq ELSE f, day |-> k, zone |-> z]
  <2>2. PlanOK(p) BY <1>0 DEF PlanOK
  <2>3. Keep(IF p = plan THEN Book ELSE Regenerated(sub, p, req[r].now)) BY <2>1
  <2>4. req[r].now \in Clock BY <1>0 DEF ReqType
  <2>. HIDE DEF p
  <2>5. Calm(cycle, Regenerated(sub, p, req[r].now).cycle) BY <1>0, <2>2, <2>4, RegeneratedCalm
  <2>6. Calm(cycle, cycle') BY <1>0, <2>3, <2>5 DEF Keep
  <2>7. Quiet BY <1>5, <1>c DEF Patch, Commit
  <2>. QED BY <2>6, <2>7, <1>q
<1>6. ASSUME NEW r \in Requests, Request(r) \/ Accept(r) \/ Abandon(r)
      PROVE  History(cycle, skips, req, now)'
  <2>1. req' = [req EXCEPT ![r] = Idle] /\ UNCHANGED <<oneTime, skips, now, cycle>>
    BY <1>6 DEF Request, Accept, Abandon, Commit
  <2>. QED BY <2>1, <1>c, <1>q, <1>0
<1>7. ASSUME NEW r \in Requests, Confirm(r) PROVE History(cycle, skips, req, now)'
  <2>1. Calm(cycle, cycle') BY <1>0, <1>7, AfterCancelCalm DEF Confirm, Keep
  <2>2. Quiet BY <1>7, <1>c DEF Confirm, Commit
  <2>. QED BY <2>1, <2>2, <1>q
<1>8. CASE Activate BY <1>8, ActivateHistoric
<1>9. CASE AdminCancel
  <2>1. Calm(cycle, cycle') BY <1>0, <1>9, AfterCancelCalm DEF AdminCancel, Keep
  <2>. QED BY <1>9, <2>1, <1>q, <1>s DEF AdminCancel
<1>10. CASE Pause
  <2>1. Calm(cycle, cycle') BY <1>0, <1>10, CancelledCalm DEF Pause, Keep
  <2>. QED BY <1>10, <2>1, <1>q, <1>s DEF Pause
<1>11. CASE Resume
  <2>1. Calm(cycle, cycle') BY <1>0, <1>11, CalmEnsured DEF Good, Resume, Keep
  <2>. QED BY <1>11, <2>1, <1>q, <1>s DEF Resume
<1>12. CASE EnsureJob
  <2>1. Calm(cycle, cycle') BY <1>0, <1>12, CalmEnsured DEF Good, EnsureJob, Keep
  <2>. QED BY <1>12, <2>1, <1>q, <1>s DEF EnsureJob
<1>13. ASSUME NEW c \in Numbers, Lock(c) PROVE History(cycle, skips, req, now)'
  <2>1. Calm(cycle, cycle')
    <3>1. CASE sub \in EngineActive
      <4>1. cycle' = [cycle EXCEPT ![c].status = "LOCKED"] /\ Status(c) = "SCHEDULED"
        BY <1>13, <3>1 DEF Lock
      <4>. QED BY <4>1, LabelCalm
    <3>2. CASE sub \notin EngineActive
      <4>1. Keep(Releasing(Book, {c}, Cancel)) BY <1>13, <3>2 DEF Lock
      <4>2. {c} \in SUBSET ScheduledIn(Book) BY <1>13 DEF Lock, ScheduledIn, Status, Book
      <4>. QED BY <1>0, <4>1, <4>2, CancelledCalm DEF Keep
    <3>. QED BY <3>1, <3>2
  <2>2. UNCHANGED <<oneTime, skips, now, req>> BY <1>13 DEF Lock
  <2>. QED BY <2>1, <2>2, <1>q, <1>s
<1>14. ASSUME NEW c \in Numbers, Charge(c) PROVE History(cycle, skips, req, now)'
  <2>1. cycle' = [cycle EXCEPT ![c].status = "CHARGED"] BY <1>14, BookLabel DEF Charge
  <2>2. Status(c) \in {"SCHEDULED"} \cup InFlight BY <1>14 DEF Charge, InFlight
  <2>3. UNCHANGED <<oneTime, skips, now, req>> BY <1>14 DEF Charge
  <2>. QED BY <2>1, <2>2, <2>3, LabelCalm, <1>q, <1>s
<1>15. ASSUME NEW c \in Numbers, GiveUp(c) PROVE History(cycle, skips, req, now)'
  <2>6. Calm(cycle, cycle') BY <1>15, GiveUpCalm
  <2>7. UNCHANGED <<oneTime, skips, now, req>> BY <1>15 DEF GiveUp
  <2>. QED BY <2>6, <2>7, <1>q, <1>s
<1>16. ASSUME NEW c \in Numbers, Deliver(c) PROVE History(cycle, skips, req, now)'
  <2>1. cycle' = [cycle EXCEPT ![c].status = "DELIVERED"] BY <1>16, BookLabel DEF Deliver
  <2>2. Status(c) \in {"SCHEDULED"} \cup InFlight BY <1>16 DEF Deliver, InFlight
  <2>3. UNCHANGED <<oneTime, skips, now, req>> BY <1>16 DEF Deliver
  <2>. QED BY <2>1, <2>2, <2>3, LabelCalm, <1>q, <1>s
<1>17. CASE Calendar BY <1>17, <1>0, <1>q, <1>s DEF Calendar
<1>18. CASE Tick
  <2>1. Quiet BY <1>18, <1>0 DEF Tick, Onward, Quiet
  <2>. QED BY <1>18, <2>1, <1>0, <1>q DEF Tick
<1>19. CASE UNCHANGED vars BY <1>19, <1>0, <1>q, <1>s DEF vars
<1>. QED BY <1>1, <1>2, <1>3, <1>4, <1>5, <1>6, <1>7, <1>8, <1>9, <1>10, <1>11, <1>12, <1>13, <1>14,
            <1>15, <1>16, <1>17, <1>18, <1>19 DEF Next, Member, Admin, Engine

-------------------------------------------------------------------------------
(* The cached next delivery, the cancellation flow, the ends of the life.   *)

LEMMA NextKept ==
  ASSUME NEW b, Keep(b)
  PROVE  NextOf(Book') = NextOf(b)
<1>1. Book'.cycle = b.cycle BY DEF Book, Keep
<1>. QED BY <1>1 DEF NextOf, Ahead

\* refreshNextDelivery ran in this transaction.
LEMMA Refreshed ==
  ASSUME NEW b, Keep(b), next' = NextOf(b)
  PROVE  FreshOK'
<1>1. next' = NextOf(Book') BY NextKept
<1>. QED BY <1>1 DEF FreshOK

LEMMA SameFresh ==
  ASSUME FreshOK, UNCHANGED <<cycle, next, oneTime>>,
         sub' \in EngineActive \cup {"PENDING", "CANCELLED"} \/ oneTime
           => sub \in EngineActive \cup {"PENDING", "CANCELLED"} \/ oneTime
  PROVE  FreshOK'
<1>1. Book'.cycle = Book.cycle BY DEF Book
<1>2. NextOf(Book') = NextOf(Book) BY <1>1 DEF NextOf, Ahead
<1>. QED BY <1>2 DEF FreshOK

\* Ensure refreshes, or the subscription is a one-time purchase that is not planned again.
LEMMA EnsuredFresh ==
  ASSUME MInv, NEW status \in EngineActive, NEW at, UNCHANGED <<oneTime, plan>>,
         Keep(Ensured(Book, status, plan, at)),
         next' = EnsuredNext(Ensured(Book, status, plan, at), status)
  PROVE  FreshOK'
<1>. DEFINE b == Ensured(Book, status, plan, at)
<1>1. CASE EnsureRuns(status)
  <2>1. Keep(b) /\ next' = NextOf(b) BY <1>1 DEF EnsuredNext
  <2>. HIDE DEF b
  <2>. QED BY <2>1, Refreshed
<1>2. CASE ~EnsureRuns(status)
  <2>1. b = Book /\ next' = next /\ oneTime BY <1>2 DEF Ensured, EnsuredNext, EnsureRuns
  <2>2. cycle' = cycle BY <2>1 DEF Keep, Book
  <2>. QED BY <2>1, <2>2, SameFresh DEF MInv
<1>. QED BY <1>1, <1>2

LEMMA FlowSteps ==
  ASSUME MInv, Alone, [Next]_vars
  PROVE  FlowOK'
<1>0. FlowOK /\ req \in ReqType /\ sub \in SubStatus BY MemberTypes DEF MInv, BInv, Rest
<1>i. Idle.op \notin {"accept", "abandon"} BY DEF Idle, None
<1>c. ASSUME NEW r \in Requests, req' = [req EXCEPT ![r] = Idle]
      PROVE  \A q \in Requests : req'[q] = Idle
  BY <1>0, <1>c DEF Alone, ReqType
<1>1. ASSUME NEW r \in Requests, NEW op \in Uses, Open(r, op) PROVE FlowOK'
  <2>1. /\ req'[r].op = op /\ (op \in {"accept", "abandon"} => req'[r].seen = sub)
        /\ \A q \in Requests : q = r
    BY <1>0, <1>1 DEF Open, ReqType, Alone
  <2>2. UNCHANGED <<sub, flow>> BY <1>1 DEF Open
  <2>. QED BY <1>0, <2>1, <2>2 DEF FlowOK, Ending
<1>2. ASSUME NEW r \in Requests, Drop(r) \/ Skip(r) \/ Unskip(r) \/ Patch(r) PROVE FlowOK'
  <2>1. req' = [req EXCEPT ![r] = Idle] /\ UNCHANGED <<sub, flow>>
    BY <1>2 DEF Drop, Skip, Unskip, Patch, Commit
  <2>2. \A q \in Requests : req'[q] = Idle BY <2>1, <1>c
  <2>. QED BY <1>0, <1>i, <2>1, <2>2 DEF FlowOK
<1>3. ASSUME NEW r \in Requests, Request(r) PROVE FlowOK'
  <2>1. \A q \in Requests : req'[q] = Idle BY <1>3, <1>c DEF Request, Commit
  <2>2. flow'.open \in {"offered", "plain"} /\ (flow'.open = "offered" => sub = "ACTIVE")
    BY <1>3 DEF Request
  <2>3. sub' = IF sub = "ACTIVE" THEN "CANCEL_REQUESTED" ELSE sub BY <1>3 DEF Request
  <2>. QED BY <1>i, <2>1, <2>2, <2>3 DEF FlowOK, Ending, None
<1>4. ASSUME NEW r \in Requests, Accept(r) PROVE FlowOK'
  <2>1. \A q \in Requests : req'[q] = Idle BY <1>4, <1>c DEF Accept, Commit
  <2>2. flow'.open = None /\ sub' = "ACTIVE" BY <1>4 DEF Accept, BInv, Rest, MInv
  <2>. QED BY <1>i, <2>1, <2>2 DEF FlowOK, None
<1>5. ASSUME NEW r \in Requests, Abandon(r) PROVE FlowOK'
  <2>1. \A q \in Requests : req'[q] = Idle BY <1>5, <1>c DEF Abandon, Commit
  <2>2. flow'.open = None /\ sub' = IF req[r].seen = "CANCEL_REQUESTED" THEN "ACTIVE" ELSE sub
    BY <1>5 DEF Abandon, BInv, Rest, MInv
  <2>3. sub = "CANCEL_REQUESTED" => req[r].seen = "CANCEL_REQUESTED"
    BY <1>0, <1>5 DEF FlowOK, Abandon, Commit
  <2>. QED BY <1>i, <2>1, <2>2, <2>3 DEF FlowOK, None
<1>6. ASSUME NEW r \in Requests, Confirm(r) PROVE FlowOK'
  <2>1. \A q \in Requests : req'[q] = Idle BY <1>6, <1>c DEF Confirm, Commit
  <2>2. flow'.open = None /\ sub' = "CANCELLED" BY <1>6 DEF Confirm, BInv, Rest, MInv
  <2>. QED BY <1>i, <2>1, <2>2 DEF FlowOK, None
<1>7. CASE Activate BY <1>0, <1>7 DEF Activate, FlowOK, Ending
<1>8. CASE AdminCancel BY <1>0, <1>8 DEF AdminCancel, FlowOK, Ending
<1>9. CASE Pause
  <2>1. sub = "ACTIVE" BY <1>0, <1>9 DEF Pause, CanSub, SubTransitions, SubStatus
  <2>. QED BY <1>0, <1>9, <2>1 DEF Pause, FlowOK, Ending
<1>10. CASE Resume
  <2>1. sub # "CANCELLED" BY <1>10 DEF Resume, CanSub, SubTransitions
  <2>2. sub' = "ACTIVE" /\ req' = req BY <1>10 DEF Resume
  <2>3. IF sub = "CANCEL_REQUESTED" THEN flow'.open = None ELSE flow' = flow
    BY <1>10 DEF Resume, MInv, BInv, Rest
  <2>. QED BY <1>0, <2>1, <2>2, <2>3 DEF FlowOK, Ending, None
<1>11. CASE EnsureJob BY <1>0, <1>11 DEF EnsureJob, FlowOK
<1>12. ASSUME NEW c \in Numbers, Lock(c) PROVE FlowOK' BY <1>0, <1>12 DEF Lock, FlowOK
<1>13. ASSUME NEW c \in Numbers, Charge(c) \/ GiveUp(c) \/ Deliver(c) PROVE FlowOK'
  <2>1. UNCHANGED <<flow, req>> BY <1>13 DEF Charge, GiveUp, Deliver
  <2>2. sub' = sub \/ (sub \in {"PAST_DUE", "ACTIVE"} /\ sub' \in {"ACTIVE", "PAST_DUE", "COMPLETED"})
    BY <1>13 DEF Charge, GiveUp, Deliver
  <2>. QED BY <1>0, <2>1, <2>2 DEF FlowOK, Ending
<1>14. CASE Calendar BY <1>0, <1>14 DEF Calendar, FlowOK
<1>15. CASE Tick BY <1>0, <1>15 DEF Tick, FlowOK
<1>16. CASE UNCHANGED vars BY <1>0, <1>16 DEF vars, FlowOK
<1>. QED BY <1>1, <1>2, <1>3, <1>4, <1>5, <1>6, <1>7, <1>8, <1>9, <1>10, <1>11, <1>12, <1>13, <1>14,
            <1>15, <1>16 DEF Next, Member, Admin, Engine

\* No step makes a subscription PENDING again, and a PENDING one has no request.
LEMMA UnbornSteps ==
  ASSUME MInv, [Next]_vars, History(cycle, skips, req, now)'
  PROVE  UnbornOK'
<1>. SUFFICES ASSUME sub' = "PENDING"
              PROVE  (\A r \in Requests : req'[r].op = None) /\ Users(cycle') = {}
  BY DEF UnbornOK
<1>0. sub = "PENDING" => (\A r \in Requests : req[r].op = None) /\ Users(cycle) = {}
  BY DEF MInv, UnbornOK
<1>1. ASSUME sub = "PENDING", req' = req, Calm(cycle, cycle')
      PROVE  (\A r \in Requests : req'[r].op = None) /\ Users(cycle') = {}
  BY <1>0, <1>1 DEF Users, Calm
<1>m. ASSUME NEW r \in Requests, \/ \E op \in Uses : Open(r, op)
                                 \/ Drop(r) \/ Skip(r) \/ Unskip(r) \/ Patch(r)
                                 \/ Request(r) \/ Accept(r) \/ Abandon(r) \/ Confirm(r)
      PROVE  FALSE
  <2>1. ASSUME NEW op \in Uses, Open(r, op) PROVE FALSE BY <2>1 DEF Open, Opens, Visible
  <2>2. sub = "PENDING" => req[r].op = None BY <1>0
  <2>3. ASSUME Drop(r) \/ Skip(r) \/ Unskip(r) \/ Patch(r) PROVE FALSE
    BY <2>2, <2>3 DEF Drop, Skip, Unskip, Patch, Commit, None
  <2>4. ASSUME Request(r) \/ Accept(r) \/ Abandon(r) \/ Confirm(r) PROVE FALSE
    BY <2>2, <2>4 DEF Request, Accept, Abandon, Confirm, Commit, None
  <2>. QED BY <1>m, <2>1, <2>3, <2>4
<1>2. CASE Member BY <1>2, <1>m DEF Member
<1>3. CASE Activate BY <1>3 DEF Activate
<1>4. CASE Admin BY <1>4 DEF Admin, AdminCancel, Pause, Resume
<1>h. Good(Book, others) /\ Book.cycle = cycle /\ Fitting(cycle) /\ PlanOK(plan) /\ now \in Clock
      /\ cycle \in [Numbers -> None0]
  BY MemberTypes DEF MInv, History, BInv, Rest
<1>5. CASE EnsureJob BY <1>5 DEF EnsureJob, EnsureRuns, EngineActive
<1>6. ASSUME NEW c \in Numbers, Lock(c) PROVE req' = req /\ sub = "PENDING" /\ Calm(cycle, cycle')
  <2>1. sub = "PENDING" /\ req' = req BY <1>6 DEF Lock
  <2>2. Keep(Releasing(Book, {c}, Cancel)) BY <1>6, <2>1 DEF Lock, EngineActive
  <2>3. {c} \in SUBSET ScheduledIn(Book) BY <1>6 DEF Lock, ScheduledIn, Status, Book
  <2>. QED BY <1>h, <2>1, <2>2, <2>3, CancelledCalm DEF Keep
<1>7. ASSUME NEW c \in Numbers, Charge(c) PROVE req' = req /\ sub = "PENDING" /\ Calm(cycle, cycle')
  <2>1. cycle' = [cycle EXCEPT ![c].status = "CHARGED"] BY <1>7, BookLabel DEF Charge
  <2>2. Status(c) \in {"SCHEDULED"} \cup InFlight BY <1>7 DEF Charge, InFlight
  <2>. QED BY <1>7, <2>1, <2>2, LabelCalm DEF Charge
<1>8. ASSUME NEW c \in Numbers, Deliver(c) PROVE req' = req /\ sub = "PENDING" /\ Calm(cycle, cycle')
  <2>1. cycle' = [cycle EXCEPT ![c].status = "DELIVERED"] BY <1>8, BookLabel DEF Deliver
  <2>2. Status(c) \in {"SCHEDULED"} \cup InFlight BY <1>8 DEF Deliver, InFlight
  <2>. QED BY <1>8, <2>1, <2>2, LabelCalm DEF Deliver
<1>9. ASSUME NEW c \in Numbers, GiveUp(c) PROVE req' = req /\ sub = "PENDING" /\ Calm(cycle, cycle')
  <2>1. sub = "PENDING" /\ req' = req BY <1>9 DEF GiveUp
  <2>2. Calm(cycle, cycle') BY <1>9, GiveUpCalm
  <2>. QED BY <2>1, <2>2
<1>10. CASE Calendar BY <1>0, <1>10 DEF Calendar
<1>11. CASE Tick BY <1>0, <1>11 DEF Tick
<1>12. CASE UNCHANGED vars BY <1>0, <1>12 DEF vars
<1>. QED BY <1>1, <1>2, <1>3, <1>4, <1>5, <1>6, <1>7, <1>8, <1>9, <1>10, <1>11, <1>12 DEF Next, Engine

\* Nothing is planned for a cancelled subscription.
LEMMA OverSteps ==
  ASSUME MInv, Alone, [Next]_vars
  PROVE  OverOK'
<1>. SUFFICES ASSUME NEW q \in Requests, sub' = "CANCELLED", req'[q].op = "skip"
              PROVE  \A c \in Numbers : cycle'[c].status # "SCHEDULED"
  <2>1. Book'.cycle = cycle' BY DEF Book
  <2>. QED BY <2>1 DEF OverOK, ScheduledIn
<1>0. /\ cycle \in [Numbers -> None0] /\ req \in ReqType /\ Good(Book, others) /\ Book.cycle = cycle
      /\ Fitting(cycle)
  BY MemberTypes DEF MInv, History
<1>1. ASSUME sub = "CANCELLED", req' = req PROVE \A c \in Numbers : cycle[c].status # "SCHEDULED"
  BY <1>0, <1>1 DEF MInv, OverOK, ScheduledIn
<1>2. ASSUME sub = "CANCELLED", req' = req,
             \A c \in Numbers : cycle'[c].status = "SCHEDULED" => cycle[c].status = "SCHEDULED"
      PROVE  \A c \in Numbers : cycle'[c].status # "SCHEDULED"
  BY <1>1, <1>2
<1>3. ASSUME NEW r \in Requests, NEW op \in Uses, Open(r, op) PROVE FALSE
  <2>1. sub \in Visible BY <1>3 DEF Open, Opens, Visible
  <2>2. sub' = sub BY <1>3 DEF Open
  <2>. QED BY <2>1, <2>2 DEF Visible
<1>4. ASSUME NEW r \in Requests, req' = [req EXCEPT ![r] = Idle] PROVE FALSE
  <2>1. req'[q] = Idle BY <1>0, <1>4 DEF Alone, ReqType
  <2>. QED BY <2>1 DEF Idle, None
<1>5. CASE Member
  <2>1. PICK r \in Requests : \/ \E op \in Uses : Open(r, op)
                              \/ Drop(r) \/ Skip(r) \/ Unskip(r) \/ Patch(r)
                              \/ Request(r) \/ Accept(r) \/ Abandon(r) \/ Confirm(r)
    BY <1>5 DEF Member
  <2>2. CASE \E op \in Uses : Open(r, op) BY <2>2, <1>3
  <2>3. CASE Drop(r) \/ Skip(r) \/ Unskip(r) \/ Patch(r)
    BY <2>3, <1>4 DEF Drop, Skip, Unskip, Patch, Commit
  <2>4. CASE Request(r) \/ Accept(r) \/ Abandon(r) \/ Confirm(r)
    BY <2>4, <1>4 DEF Request, Accept, Abandon, Confirm, Commit
  <2>. QED BY <2>1, <2>2, <2>3, <2>4
<1>6. CASE Activate BY <1>6 DEF Activate
<1>7. CASE AdminCancel
  <2>1. \A c \in Numbers : AfterCancel(now).cycle[c].status # "SCHEDULED" BY <1>0, AfterCancelCalm
  <2>. QED BY <1>7, <2>1 DEF AdminCancel, Keep
<1>8. CASE Pause \/ Resume BY <1>8 DEF Pause, Resume
<1>9. CASE EnsureJob BY <1>9 DEF EnsureJob, EnsureRuns, EngineActive
<1>10. ASSUME NEW c \in Numbers, Lock(c) PROVE \A d \in Numbers : cycle'[d].status # "SCHEDULED"
  <2>1. sub = "CANCELLED" /\ req' = req BY <1>10 DEF Lock
  <2>. QED BY <1>1, <1>10, <2>1 DEF Lock, Status
<1>11. ASSUME NEW c \in Numbers, Charge(c) PROVE \A d \in Numbers : cycle'[d].status # "SCHEDULED"
  <2>1. sub = "CANCELLED" /\ req' = req BY <1>11 DEF Charge
  <2>2. cycle' = [cycle EXCEPT ![c].status = "CHARGED"] BY <1>11, BookLabel DEF Charge
  <2>3. cycle[c] \in Row BY <1>0, <1>11, RowFacts DEF Charge, Status, None
  <2>4. \A d \in Numbers : cycle'[d].status = "SCHEDULED" => cycle[d].status = "SCHEDULED"
    BY <1>0, <2>2, <2>3 DEF Row
  <2>. QED BY <1>2, <2>1, <2>4
<1>12. ASSUME NEW c \in Numbers, Deliver(c) PROVE \A d \in Numbers : cycle'[d].status # "SCHEDULED"
  <2>1. sub = "CANCELLED" /\ req' = req BY <1>12 DEF Deliver
  <2>2. cycle' = [cycle EXCEPT ![c].status = "DELIVERED"] BY <1>12, BookLabel DEF Deliver
  <2>3. cycle[c] \in Row BY <1>0, <1>12, RowFacts DEF Deliver, Status, None
  <2>4. \A d \in Numbers : cycle'[d].status = "SCHEDULED" => cycle[d].status = "SCHEDULED"
    BY <1>0, <2>2, <2>3 DEF Row
  <2>. QED BY <1>2, <2>1, <2>4
<1>13. ASSUME NEW c \in Numbers, GiveUp(c) PROVE \A d \in Numbers : cycle'[d].status # "SCHEDULED"
  <2>1. sub = "CANCELLED" /\ req' = req BY <1>13 DEF GiveUp
  <2>3. \A d \in Numbers : cycle'[d].status = "SCHEDULED" => cycle[d].status = "SCHEDULED"
    BY <1>13, GiveUpCalm
  <2>. QED BY <1>2, <2>1, <2>3
<1>14. CASE Calendar BY <1>1, <1>14 DEF Calendar
<1>15. CASE Tick BY <1>1, <1>15 DEF Tick
<1>16. CASE UNCHANGED vars BY <1>1, <1>16 DEF vars
<1>. QED BY <1>5, <1>6, <1>7, <1>8, <1>9, <1>10, <1>11, <1>12, <1>13, <1>14, <1>15, <1>16
        DEF Next, Admin, Engine

LEMMA FreshSteps ==
  ASSUME MInv, [Next]_vars
  PROVE  FreshOK'
<1>0. /\ cycle \in [Numbers -> None0] /\ req \in ReqType /\ Good(Book, others) /\ Book.cycle = cycle
      /\ Fitting(cycle) /\ FreshOK
  BY MemberTypes DEF MInv, History
<1>1. ASSUME UNCHANGED <<cycle, next, oneTime, sub>> PROVE FreshOK' BY <1>0, <1>1, SameFresh
<1>2. ASSUME NEW r \in Requests, NEW op \in Uses, Open(r, op) PROVE FreshOK' BY <1>1, <1>2 DEF Open
<1>3. ASSUME NEW r \in Requests, Drop(r) PROVE FreshOK' BY <1>1, <1>3 DEF Drop
<1>4. ASSUME NEW r \in Requests, Skip(r) PROVE FreshOK'
  <2>. DEFINE at == req[r].now
  <2>1. PICK c \in Numbers \ {1} :
          /\ Status(c) = "SCHEDULED"
          /\ LET skipped(row) == [row EXCEPT !.status = "SKIPPED", !.skip = "USER", !.at = at]
                 b == Ensured(Releasing(Book, {c}, skipped), sub, plan, at)
             IN Keep(b) /\ next' = EnsuredNext(b, sub)
    BY <1>4 DEF Skip
  <2>2. PICK b : Keep(b) /\ next' = EnsuredNext(b, sub) BY <2>1
  <2>3. CASE EnsureRuns(sub)
    <3>1. next' = NextOf(b) BY <2>2, <2>3 DEF EnsuredNext
    <3>. QED BY <2>2, <3>1, Refreshed
  <2>4. CASE ~EnsureRuns(sub)
    <3>1. ~oneTime BY <1>0, <2>1 DEF Fitting, Status, None
    <3>2. sub \notin EngineActive BY <2>4, <3>1 DEF EnsureRuns
    <3>3. sub # "PENDING" BY <1>4 DEF MInv, UnbornOK, Skip, Commit, None
    <3>4. sub # "CANCELLED"
      <4>1. c \in ScheduledIn(Book) BY <1>0, <2>1 DEF ScheduledIn, Status
      <4>2. req[r].op = "skip" BY <1>4 DEF Skip, Commit
      <4>. QED BY <4>1, <4>2 DEF MInv, OverOK
    <3>5. UNCHANGED <<sub, oneTime>> BY <1>4 DEF Skip
    <3>. QED BY <3>1, <3>2, <3>3, <3>4, <3>5 DEF FreshOK
  <2>. QED BY <2>3, <2>4
<1>5. ASSUME NEW r \in Requests, Unskip(r) PROVE FreshOK'
  <2>1. PICK b : Keep(b) /\ next' = NextOf(b) BY <1>5 DEF Unskip
  <2>. QED BY <2>1, Refreshed
<1>6. ASSUME NEW r \in Requests, Patch(r) PROVE FreshOK'
  <2>1. PICK b : Keep(b) /\ next' = NextOf(b) BY <1>6 DEF Patch
  <2>. QED BY <2>1, Refreshed
<1>7. ASSUME NEW r \in Requests, Request(r) PROVE FreshOK'
  <2>1. UNCHANGED <<cycle, next, oneTime>> BY <1>7 DEF Request
  <2>2. sub' = sub \/ sub = "ACTIVE" BY <1>7 DEF Request
  <2>. QED BY <1>0, <2>1, <2>2, SameFresh DEF EngineActive
<1>8. ASSUME NEW r \in Requests, Accept(r) PROVE FreshOK'
  <2>1. UNCHANGED <<cycle, next, oneTime>> BY <1>8 DEF Accept
  <2>2. sub \in Ending BY <1>8 DEF Accept, MInv, FlowOK
  <2>. QED BY <1>0, <2>1, <2>2, SameFresh DEF EngineActive, Ending
<1>9. ASSUME NEW r \in Requests, Abandon(r) PROVE FreshOK'
  <2>1. UNCHANGED <<cycle, next, oneTime>> BY <1>9 DEF Abandon
  <2>2. sub' = sub \/ req[r].seen = "CANCEL_REQUESTED" BY <1>9 DEF Abandon
  <2>3. req[r].seen = "CANCEL_REQUESTED" => sub \in Ending
    BY <1>9 DEF Abandon, Commit, MInv, FlowOK
  <2>. QED BY <1>0, <2>1, <2>2, <2>3, SameFresh DEF EngineActive, Ending
<1>10. ASSUME NEW r \in Requests, Confirm(r) PROVE FreshOK' BY <1>10 DEF Confirm, FreshOK
<1>11. CASE Activate
  <2>1. "ACTIVE" \in EngineActive BY DEF EngineActive
  <2>. QED BY <1>11, <2>1, EnsuredFresh DEF Activate
<1>12. CASE AdminCancel BY <1>12 DEF AdminCancel, FreshOK
<1>13. CASE Pause
  <2>1. PICK b : Keep(b) /\ next' = NextOf(b) BY <1>13 DEF Pause
  <2>. QED BY <2>1, Refreshed
<1>14. CASE Resume
  <2>1. "ACTIVE" \in EngineActive BY DEF EngineActive
  <2>. QED BY <1>14, <2>1, EnsuredFresh DEF Resume
<1>15. CASE EnsureJob
  <2>1. PICK b : Keep(b) /\ next' = NextOf(b) BY <1>15 DEF EnsureJob
  <2>. QED BY <2>1, Refreshed
<1>16. ASSUME NEW c \in Numbers, Lock(c) PROVE FreshOK'
  <2>1. CASE sub \in EngineActive
    <3>1. /\ cycle' = [cycle EXCEPT ![c].status = "LOCKED"] /\ cycle[c].status = "SCHEDULED"
          /\ UNCHANGED <<next, sub, oneTime>>
      BY <1>16, <2>1 DEF Lock, Status
    <3>2. cycle[c] \in Row BY <1>0, <3>1, RowFacts DEF None
    <3>3. \A d \in Numbers : /\ cycle'[d].date = cycle[d].date
                             /\ cycle'[d].status \in {"SCHEDULED"} \cup InFlight
                                  <=> cycle[d].status \in {"SCHEDULED"} \cup InFlight
      BY <1>0, <3>1, <3>2 DEF Row, InFlight
    <3>4. Book'.cycle = cycle' BY DEF Book
    <3>5. Ahead(Book') = Ahead(Book) BY <1>0, <3>3, <3>4 DEF Ahead
    <3>6. NextOf(Book') = NextOf(Book) BY <3>5 DEF NextOf
    <3>. QED BY <1>0, <3>1, <3>6 DEF FreshOK
  <2>2. CASE sub \notin EngineActive
    <3>1. PICK b : Keep(b) /\ next' = NextOf(b) BY <1>16, <2>2 DEF Lock
    <3>. QED BY <3>1, Refreshed
  <2>. QED BY <2>1, <2>2
<1>17. ASSUME NEW c \in Numbers, Charge(c) \/ GiveUp(c) \/ Deliver(c) PROVE FreshOK'
  <2>1. PICK b : Keep(b) /\ next' = NextOf(b) BY <1>17 DEF Charge, GiveUp, Deliver
  <2>. QED BY <2>1, Refreshed
<1>18. CASE Calendar BY <1>1, <1>18 DEF Calendar
<1>19. CASE Tick BY <1>1, <1>19 DEF Tick
<1>20. CASE UNCHANGED vars BY <1>1, <1>20 DEF vars
<1>. QED BY <1>2, <1>3, <1>4, <1>5, <1>6, <1>7, <1>8, <1>9, <1>10, <1>11, <1>12, <1>13, <1>14, <1>15,
            <1>16, <1>17, <1>18, <1>19, <1>20 DEF Next, Member, Admin, Engine

LEMMA MemberSteps ==
  ASSUME Alone
  PROVE  MInv /\ [Next]_vars => MInv'
<1>. SUFFICES ASSUME MInv, [Next]_vars PROVE MInv' OBVIOUS
<1>1. BInv' BY StepBooks DEF MInv
<1>2. History(cycle, skips, req, now)' BY <1>1, HistoryStep
<1>3. FlowOK' /\ OverOK' /\ FreshOK' BY FlowSteps, OverSteps, FreshSteps
<1>4. UnbornOK' BY <1>2, UnbornSteps
<1>. QED BY <1>1, <1>2, <1>3, <1>4 DEF MInv

LEMMA MemberAlways ==
  ASSUME Alone
  PROVE  Spec => []MInv
BY InitMember, MemberSteps, PTL DEF Spec

\* The date a member is shown for the next box is the earliest box that is planned or on its way,
\* whatever was skipped, moved, cancelled, charged or given up, as long as she makes one request
\* at a time.
THEOREM NextShownRight ==
  ASSUME \A r, q \in Requests : r = q
  PROVE  Spec => []NextDeliveryFresh
<1>1. Alone BY DEF Alone
<1>. QED BY <1>1, MemberAlways, MInvMeans, PTL

\* A subscription that waits for its cancellation has an open cancellation to answer, for a
\* member who makes one request at a time.  (With two requests it has not.)
THEOREM CancellationAnswerable ==
  ASSUME \A r, q \in Requests : r = q
  PROVE  Spec => []RequestedIsOpen
<1>1. Alone BY DEF Alone
<1>. QED BY <1>1, MemberAlways, MInvMeans, PTL

\* One request at a time, a member skips no more weeks of a subscription year than the shop
\* allows, however she skips and un-skips around the anniversary.
THEOREM SkipsAllowed ==
  ASSUME \A r, q \in Requests : r = q
  PROVE  Spec => []SkipsWithinYear
<1>1. Alone BY DEF Alone
<1>. QED BY <1>1, MemberAlways, MInvMeans, PTL
===============================================================================
