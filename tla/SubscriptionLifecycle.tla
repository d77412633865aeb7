------------------------ MODULE SubscriptionLifecycle ------------------------
(***************************************************************************)
(* One subscription over many weeks: which boxes (cycles) it has, where    *)
(* they hold delivery slots, and how the member and the admin change it.   *)
(* SubscriptionsService, CancellationService and the parts of CyclesService*)
(* and DeliveryDatesService they call (ensure, regenerate, cancel).        *)
(*                                                                         *)
(* Time is the number of delivery dates whose cutoff has passed: `now = d` *)
(* says that the boxes of the dates 1..d can no longer be changed.  A week *)
(* has DaysPerWeek delivery days.  A member's request reads the            *)
(* subscription and the clock first (`requireForUser`, `now = new Date()`) *)
(* and commits later, under the lock of the subscription row: what it read *)
(* is kept in `req`.  Collecting a box is CycleEngine's business and is    *)
(* cut down here to its effects: locked, charged, given up, delivered.     *)
(***************************************************************************)
EXTENDS Integers, FiniteSets, FiniteSetsExt, StateMachines

CONSTANTS
  Weeks,        \* bound: weeks of the calendar, numbered from 0
  DaysPerWeek,  \* delivery days of a week (commerce.deliveryDays)
  Freqs,        \* frequencies in weeks (commerce.frequencies)
  Zones,        \* delivery zones
  Capacity,     \* DeliveryDate.capacity
  Horizon,      \* commerce.deliveryDatesHorizonWeeks
  Unplanned,    \* weeks for which no box template is published
  Contended,    \* dates on which other customers may take a slot
  SkipsPerYear, \* commerce.skipsPerYear
  YearLength,   \* length of a subscription year, in dates
  Requests,     \* concurrent requests of the member
  Uses,         \* the member's operations
  AdminTargets  \* subscription statuses an admin sets by hand

ASSUME CalendarAssumption == /\ Weeks \in Nat \ {0} /\ DaysPerWeek \in Nat \ {0}
                             /\ Horizon \in Nat /\ YearLength \in Nat \ {0}
ASSUME PlanAssumption == Freqs # {} /\ Freqs \subseteq Nat \ {0} /\ Zones # {}
ASSUME LimitAssumption == Capacity \in Nat \ {0} /\ SkipsPerYear \in Nat
ASSUME TargetAssumption == AdminTargets \subseteq SubStatus

VARIABLES
  now,      \* cutoffs passed so far
  sub,      \* Subscription.status
  oneTime,  \* Subscription.isOneTime
  plan,     \* frequencyWeeks, deliveryDay, zoneId
  cycle,    \* the rows of subscription_cycles, by cycleNo
  reserved, \* DeliveryDate.reserved
  others,   \* slots held by other customers
  skips,    \* skipsUsed and skipsResetAt (0: null)
  next,     \* nextDeliveryOn (0: null)
  flow,     \* the open SubscriptionCancellation; User.retentionOfferUsedAt set?
  req       \* req[r]: operation, and the status and the clock it read

vars == <<now, sub, oneTime, plan, cycle, reserved, others, skips, next, flow, req>>

None == "NONE"
Dates == 1..(Weeks * DaysPerWeek)
Days == 0..(DaysPerWeek - 1)
Numbers == 1..Weeks
Slots == Zones \X Dates
ASSUME ContendedAssumption == Contended \subseteq Dates
WeekOf(d) == (d - 1) \div DaysPerWeek
DayOf(d) == (d - 1) % DaysPerWeek
DateIn(w, k) == w * DaysPerWeek + k + 1       \* deliveryDateInWeek

NoCycle == [status |-> None, skip |-> None, at |-> 0, date |-> 0, zone |-> None]
Scheduled(z, d) == [status |-> "SCHEDULED", skip |-> None, at |-> 0, date |-> d, zone |-> z]
Idle == [op |-> None, seen |-> None, now |-> 0]

\* CUSTOMER_VISIBLE_STATES
Visible == {"ACTIVE", "PAST_DUE", "PAUSED", "CANCEL_REQUESTED"}
\* LOCKED stands for LOCKED, AWAITING_PAYMENT and UNPAID; CHARGED for CHARGED to OUT_FOR_DELIVERY.
InFlight == {"LOCKED", "CHARGED"}
Holding == {"SCHEDULED", "DELIVERED"} \cup InFlight

Existing(b) == {c \in Numbers : b.cycle[c].status # None}
Status(c) == cycle[c].status
SlotOf(row) == <<row.zone, row.date>>

\* Checkout leaves a PENDING subscription whose first box holds a slot.
Init == \E z \in Zones, d \in 1..DaysPerWeek, f \in Freqs :
          /\ now = 0 /\ sub = "PENDING" /\ oneTime \in BOOLEAN
          /\ plan = [freq |-> IF oneTime THEN 1 ELSE f, day |-> DayOf(d), zone |-> z]
          /\ cycle = [c \in Numbers |-> IF c = 1 THEN Scheduled(z, d) ELSE NoCycle]
          /\ reserved = [s \in Slots |-> IF s = <<z, d>> THEN 1 ELSE 0]
          /\ others = {}
          /\ skips = [used |-> 0, resetAt |-> 0]
          /\ next = d
          /\ flow = [open |-> None, offerUsed |-> FALSE]
          /\ req = [r \in Requests |-> Idle]
-------------------------------------------------------------------------------
(* A book is a pair of the subscription's cycles and the slot counters: the *)
(* state that the steps of one transaction pass on to each other.           *)

Book == [cycle |-> cycle, reserved |-> reserved]
Keep(b) == cycle' = b.cycle /\ reserved' = b.reserved

\* (A date that an admin has closed refuses like a full one.)
CanReserve(b, s) == b.reserved[s] < Capacity

\* Mutant: a box past its cutoff gives no slot back.
FreedInTime(b, C, s) == Cardinality({c \in C : SlotOf(b.cycle[c]) = s /\ b.cycle[c].date > now})

Freed(b, C, s) == Cardinality({c \in C : SlotOf(b.cycle[c]) = s})

\* The cycles in C are rewritten by Row and give their slots back.
Releasing(b, C, Row(_)) ==
  [cycle    |-> [c \in Numbers |-> IF c \in C THEN Row(b.cycle[c]) ELSE b.cycle[c]],
   reserved |-> [s \in Slots |-> Max({0, b.reserved[s] - Freed(b, C, s)})]]

Cancel(row) == [row EXCEPT !.status = "CANCELLED"]
Delete(row) == NoCycle
ScheduledIn(b) == {c \in Numbers : b.cycle[c].status = "SCHEDULED"}

\* pickCurrentCycle: the first box that a member can still change, by date and number.
Before(b, c, d) == \/ b.cycle[c].date < b.cycle[d].date
                   \/ b.cycle[c].date = b.cycle[d].date /\ c < d
Changeable(b, at) == {c \in Numbers : /\ b.cycle[c].status \in {"SCHEDULED", "SKIPPED"}
                                      /\ b.cycle[c].date > at}
IsCurrent(b, at, c) == /\ c \in Changeable(b, at)
                       /\ \A d \in Changeable(b, at) \ {c} : Before(b, c, d)

\* refreshNextDelivery: the earliest box that is planned or on its way.
Ahead(b) == {b.cycle[c].date : c \in {d \in Numbers :
                                 b.cycle[d].status \in {"SCHEDULED"} \cup InFlight}}
NextOf(b) == IF Ahead(b) = {} THEN 0 ELSE Min(Ahead(b))

EnsureRuns(status) == ~oneTime /\ status \in EngineActive

\* Mutant: the first period counted is the last row's own week.
FirstWeekAgain(last, p, at) ==
  Min({w \in {WeekOf(last.date) + i * p.freq : i \in 0..(2 * Weeks)} : DateIn(w, p.day) > at})

\* The next box comes a whole number of periods after the last row, whatever became of that
\* row, and on the first such date whose cutoff has not passed.
FirstWeek(last, p, at) ==
  Min({w \in {WeekOf(last.date) + i * p.freq : i \in 1..(2 * Weeks)} : DateIn(w, p.day) > at})
\* ensureSubscriptionInTx: one box a period up to the horizon, until a date is full or
\* has no template.
Ensured(b, status, p, at) ==
  LET last == Max(Existing(b))
      Week(i) == FirstWeek(b.cycle[last], p, at) + (i - 1) * p.freq
      Date(i) == DateIn(Week(i), p.day)
      Possible(i) == /\ Date(i) \in Dates /\ Date(i) <= at + Horizon * DaysPerWeek
                     /\ Week(i) \notin Unplanned
                     /\ CanReserve(b, <<p.zone, Date(i)>>)
      n == Max({k \in 0..(Weeks - last) : \A i \in 1..k : Possible(i)})
      new == {<<p.zone, Date(i)>> : i \in 1..n}
  IN IF ~EnsureRuns(status) THEN b
     ELSE [cycle    |-> [c \in Numbers |-> IF c \in (last + 1)..(last + n)
                                           THEN Scheduled(p.zone, Date(c - last))
                                           ELSE b.cycle[c]],
           reserved |-> [s \in Slots |-> IF s \in new THEN b.reserved[s] + 1
                                         ELSE b.reserved[s]]]

\* Mutant: ensure leaves the refresh to its callers.
EnsuredNextStale(b, status) == next

\* ensure refreshes nextDeliveryOn, unless it returns early.
EnsuredNext(b, status) == IF EnsureRuns(status) THEN NextOf(b) ELSE next

\* regenerateScheduledCycles: planned boxes but the first are deleted, the first moves to the
\* new day of its week if that is open and not full, and ensure starts again.
Regenerated(status, p, at) ==
  LET b == Releasing(Book, ScheduledIn(Book) \ {1}, Delete)
      first == b.cycle[1]
      there == <<p.zone, DateIn(WeekOf(first.date), p.day)>>
      moves == /\ first.status = "SCHEDULED" /\ DayOf(first.date) # p.day
               /\ there[2] > at /\ CanReserve(b, there)
      moved == LET freed == Releasing(b, {1}, LAMBDA row : Scheduled(p.zone, there[2]))
               IN [freed EXCEPT !.reserved[there] = @ + 1]
  IN Ensured(IF moves THEN moved ELSE b, status, p, at)

\* cancelSubscription: planned boxes give their slots back, skipped weeks ahead are closed.
AfterCancel(at) ==
  LET b == Releasing(Book, ScheduledIn(Book), Cancel)
      skipped == {c \in Numbers : /\ cycle[c].status = "SKIPPED" /\ cycle[c].skip # "UNPAID"
                                  /\ cycle[c].date > at}
  IN [b EXCEPT !.cycle = [c \in Numbers |-> IF c \in skipped THEN Cancel(@[c]) ELSE @[c]]]
-------------------------------------------------------------------------------
(* The member.  Open is the read of a request (requireForUser and the        *)
(* clock), the action named for the operation its transaction.  A request   *)
(* whose transaction is refused, or whose process dies, ends without effect.*)

Opens(op) == CASE op = "request" -> sub \in {"ACTIVE", "PAST_DUE"}
               [] OTHER -> sub \in Visible

\* Kept of what is read: the clock, by those that plan or cancel boxes; the status, by those
\* that judge it.
Open(r, op) == /\ req[r].op = None /\ Opens(op)
               /\ req' = [req EXCEPT ![r] =
                    [op |-> op, seen |-> IF op \in {"accept", "abandon"} THEN sub ELSE None,
                     now |-> IF op \in {"skip", "unskip", "patch", "confirm"} THEN now ELSE 0]]
               /\ UNCHANGED <<now, sub, oneTime, plan, cycle, reserved, others, skips,
                              next, flow>>

Commit(r, op) == req[r].op = op /\ req' = [req EXCEPT ![r] = Idle]

Drop(r) == /\ req[r].op # None /\ req' = [req EXCEPT ![r] = Idle]
           /\ UNCHANGED <<now, sub, oneTime, plan, cycle, reserved, others, skips,
                          next, flow>>

\* The yearly reset of the skip counter at the anniversary.
ResetAt(at) == IF skips.resetAt = 0 \/ skips.resetAt > at THEN skips.resetAt
               ELSE skips.resetAt + YearLength * ((at - skips.resetAt) \div YearLength + 1)

\* Mutant: the anniversary is compared the wrong way round.
UsedAtSwapped(at) == IF skips.resetAt <= at THEN skips.used ELSE 0

UsedAt(at) == IF ResetAt(at) = skips.resetAt THEN skips.used ELSE 0

Skip(r) ==
  /\ Commit(r, "skip")
  /\ LET at == req[r].now IN \E c \in Numbers \ {1} :
       /\ IsCurrent(Book, at, c) /\ Status(c) = "SCHEDULED"
       /\ UsedAt(at) < SkipsPerYear
       /\ LET skipped(row) == [row EXCEPT !.status = "SKIPPED", !.skip = "USER", !.at = at]
              b == Ensured(Releasing(Book, {c}, skipped), sub, plan, at)
          IN Keep(b) /\ next' = EnsuredNext(b, sub)
       /\ skips' = [used |-> UsedAt(at) + 1, resetAt |-> ResetAt(at)]
  /\ UNCHANGED <<now, sub, oneTime, plan, others, flow>>

Unskip(r) ==
  /\ Commit(r, "unskip")
  /\ \E c \in Numbers :
       /\ IsCurrent(Book, req[r].now, c) /\ Status(c) = "SKIPPED" /\ cycle[c].skip = "USER"
       /\ CanReserve(Book, SlotOf(cycle[c]))
       /\ LET b == [Book EXCEPT !.cycle[c] = Scheduled(@.zone, @.date),
                                !.reserved[SlotOf(cycle[c])] = @ + 1]
          IN Keep(b) /\ next' = NextOf(b)
  /\ skips' = [skips EXCEPT !.used = Max({0, @ - 1})]
  /\ UNCHANGED <<now, sub, oneTime, plan, others, flow>>

\* applyPatch: only a change of frequency, day or zone plans the boxes anew.
Patch(r) ==
  /\ Commit(r, "patch")
  /\ \E f \in Freqs, k \in Days, z \in Zones :
       LET p == [freq |-> IF oneTime THEN plan.freq ELSE f, day |-> k, zone |-> z]
           b == IF p = plan THEN Book ELSE Regenerated(sub, p, req[r].now)
       IN plan' = p /\ Keep(b) /\ next' = NextOf(b)
  /\ UNCHANGED <<now, sub, oneTime, others, skips, flow>>

\* CancellationService.request: an ACTIVE subscription is marked, and offered a discount once.
Request(r) ==
  /\ Commit(r, "request") /\ flow.open = None
  /\ LET offered == sub = "ACTIVE" /\ ~oneTime /\ ~flow.offerUsed
     IN flow' = [open |-> IF offered THEN "offered" ELSE "plain",
                 offerUsed |-> flow.offerUsed \/ offered]
  /\ sub' = IF sub = "ACTIVE" THEN "CANCEL_REQUESTED" ELSE sub
  /\ UNCHANGED <<now, oneTime, plan, cycle, reserved, others, skips, next>>

\* accept and abandon judge the status the request read, not the locked row.
Accept(r) ==
  /\ Commit(r, "accept") /\ flow.open = "offered" /\ CanSub(req[r].seen, "ACTIVE")
  /\ flow' = [flow EXCEPT !.open = None] /\ sub' = "ACTIVE"
  /\ UNCHANGED <<now, oneTime, plan, cycle, reserved, others, skips, next>>

\* Mutant: the cancellation is closed and the subscription left as it is.
AbandonFlowOnly(r) ==
  /\ Commit(r, "abandon") /\ flow.open # None
  /\ flow' = [flow EXCEPT !.open = None]
  /\ UNCHANGED <<now, sub, oneTime, plan, cycle, reserved, others, skips, next>>

Abandon(r) ==
  /\ Commit(r, "abandon") /\ flow.open # None
  /\ flow' = [flow EXCEPT !.open = None]
  /\ sub' = IF req[r].seen = "CANCEL_REQUESTED" THEN "ACTIVE" ELSE sub
  /\ UNCHANGED <<now, oneTime, plan, cycle, reserved, others, skips, next>>

Confirm(r) ==
  /\ Commit(r, "confirm") /\ flow.open # None /\ CanSub(sub, "CANCELLED")
  /\ flow' = [flow EXCEPT !.open = None] /\ sub' = "CANCELLED"
  /\ Keep(AfterCancel(req[r].now)) /\ next' = 0
  /\ UNCHANGED <<now, oneTime, plan, others, skips>>

Member == \E r \in Requests :
            \/ \E op \in Uses : Open(r, op)
            \/ Drop(r) \/ Skip(r) \/ Unskip(r) \/ Patch(r)
            \/ Request(r) \/ Accept(r) \/ Abandon(r) \/ Confirm(r)
-------------------------------------------------------------------------------
(* Checkout's activation and the admin (adminSetStatus).                     *)

Activate ==
  /\ sub = "PENDING" /\ sub' = "ACTIVE"
  /\ skips' = [skips EXCEPT !.resetAt = now + YearLength]
  /\ LET b == Ensured(Book, "ACTIVE", plan, now) IN Keep(b) /\ next' = EnsuredNext(b, "ACTIVE")
  /\ UNCHANGED <<now, oneTime, plan, others, flow, req>>

\* The admin's own cancellation row is opened and closed in this transaction; a row the
\* member has open stays open.
AdminCancel ==
  /\ CanSub(sub, "CANCELLED") /\ sub' = "CANCELLED"
  /\ Keep(AfterCancel(now)) /\ next' = 0
  /\ UNCHANGED <<now, oneTime, plan, others, skips, flow, req>>

Pause ==
  /\ CanSub(sub, "PAUSED") /\ sub' = "PAUSED"
  /\ LET b == Releasing(Book, ScheduledIn(Book) \ {1}, Cancel) IN Keep(b) /\ next' = NextOf(b)
  /\ UNCHANGED <<now, oneTime, plan, others, skips, flow, req>>

Resume ==
  /\ CanSub(sub, "ACTIVE") /\ sub' = "ACTIVE"
  /\ flow' = IF sub = "CANCEL_REQUESTED" THEN [flow EXCEPT !.open = None] ELSE flow
  /\ LET b == Ensured(Book, "ACTIVE", plan, now) IN Keep(b) /\ next' = EnsuredNext(b, "ACTIVE")
  /\ UNCHANGED <<now, oneTime, plan, others, skips, req>>

Admin == \/ "CANCELLED" \in AdminTargets /\ AdminCancel
         \/ "PAUSED" \in AdminTargets /\ Pause
         \/ "ACTIVE" \in AdminTargets /\ Resume
-------------------------------------------------------------------------------
(* The jobs.  Lock is lockPhaseA; what follows is CycleEngine's.             *)

EnsureJob ==
  /\ EnsureRuns(sub)
  /\ LET b == Ensured(Book, sub, plan, now) IN Keep(b) /\ next' = NextOf(b)
  /\ UNCHANGED <<now, sub, oneTime, plan, others, skips, flow, req>>

Lock(c) ==
  /\ Status(c) = "SCHEDULED" /\ cycle[c].date <= now
  /\ IF sub \in EngineActive
     THEN cycle' = [cycle EXCEPT ![c].status = "LOCKED"] /\ UNCHANGED <<reserved, next>>
     ELSE LET b == Releasing(Book, {c}, Cancel) IN Keep(b) /\ next' = NextOf(b)
  /\ UNCHANGED <<now, sub, oneTime, plan, others, skips, flow, req>>

\* markCharged: any success brings a PAST_DUE subscription back.
Charge(c) ==
  /\ Status(c) = "LOCKED"
  /\ LET b == [Book EXCEPT !.cycle[c].status = "CHARGED"] IN Keep(b) /\ next' = NextOf(b)
  /\ sub' = IF sub = "PAST_DUE" THEN "ACTIVE" ELSE sub
  /\ UNCHANGED <<now, oneTime, plan, others, skips, flow, req>>

\* markUnpaidSkipped: the prepaid first box is never given up; enough failures in a row make
\* the subscription PAST_DUE.
GiveUp(c) ==
  /\ c # 1 /\ Status(c) = "LOCKED"
  /\ LET unpaid(row) == [row EXCEPT !.status = "SKIPPED", !.skip = "UNPAID", !.at = now]
         b == Releasing(Book, {c}, unpaid)
     IN Keep(b) /\ next' = NextOf(b)
  /\ sub' \in {sub} \cup (IF sub = "ACTIVE" THEN {"PAST_DUE"} ELSE {})
  /\ UNCHANGED <<now, oneTime, plan, others, skips, flow, req>>

Deliver(c) ==
  /\ Status(c) = "CHARGED"
  /\ LET b == [Book EXCEPT !.cycle[c].status = "DELIVERED"] IN Keep(b) /\ next' = NextOf(b)
  /\ sub' = IF oneTime /\ sub = "ACTIVE" THEN "COMPLETED" ELSE sub
  /\ UNCHANGED <<now, oneTime, plan, others, skips, flow, req>>

Engine == EnsureJob \/ \E c \in Numbers : Lock(c) \/ Charge(c) \/ GiveUp(c) \/ Deliver(c)

\* Other customers reserve and release by the same conditional updates.
OthersReserve(s) == /\ s \notin others /\ CanReserve(Book, s)
                    /\ others' = others \cup {s}
                    /\ reserved' = [reserved EXCEPT ![s] = @ + 1]
OthersRelease(s) == /\ s \in others /\ others' = others \ {s}
                    /\ reserved' = [reserved EXCEPT ![s] = Max({0, @ - 1})]
Calendar == /\ \E s \in Zones \X Contended : OthersReserve(s) \/ OthersRelease(s)
            /\ UNCHANGED <<now, sub, oneTime, plan, cycle, skips, next, flow, req>>

\* Bound: a box is charged or given up, at 08:00 of its day, before the cutoff of the next.
Tick == /\ now < Weeks * DaysPerWeek /\ \A c \in Numbers : Status(c) # "LOCKED"
        /\ now' = now + 1
        /\ UNCHANGED <<sub, oneTime, plan, cycle, reserved, others, skips, next, flow, req>>

Next == Member \/ Activate \/ Admin \/ Engine \/ Calendar \/ Tick
Spec == Init /\ [][Next]_vars
-------------------------------------------------------------------------------
Row == [status : CycleStatus, skip : {None, "USER", "UNPAID"}, at : 0..(Weeks * DaysPerWeek),
        date : Dates, zone : Zones]

\* Every variable has its type, and no date holds more boxes than its capacity.
TypeOK ==
  /\ now \in 0..(Weeks * DaysPerWeek) /\ sub \in SubStatus /\ oneTime \in BOOLEAN
  /\ plan \in [freq : Freqs \cup {1}, day : Days, zone : Zones]
  /\ cycle \in [Numbers -> Row \cup {NoCycle}]
  /\ reserved \in [Slots -> 0..Capacity]
  /\ others \subseteq Slots
  /\ skips.used \in Nat /\ skips.resetAt \in Nat
  /\ next \in Dates \cup {0}
  /\ flow \in [open : {None, "plain", "offered"}, offerUsed : BOOLEAN]
  /\ req \in [Requests -> [op : Uses \cup {None}, seen : Visible \cup {None},
                           now : 0..(Weeks * DaysPerWeek)]]

HeldAt(s) == {c \in Numbers : Status(c) \in Holding /\ SlotOf(cycle[c]) = s}

\* A date's counter is exactly the boxes that will be or were delivered on it: whatever order
\* members, admins and jobs skip, un-skip, move, pause, cancel and give up boxes in, no slot is
\* released twice, leaked or held without a box.
SlotsBalanced == \A s \in Slots :
  reserved[s] = Cardinality(HeldAt(s)) + (IF s \in others THEN 1 ELSE 0)

\* Later rows are for later weeks.  So no week ever has two boxes of one subscription, and a
\* week that was skipped, paused or given up is not planned again.
OneBoxAWeek == \A c, d \in Existing(Book) :
  c < d => WeekOf(cycle[c].date) < WeekOf(cycle[d].date)

\* Subscription.nextDeliveryOn is a cached value; for a subscription the engine works for it
\* is never stale.  (A subscription that a stale request brought back from CANCELLED shows none.)
NextDeliveryFresh == sub \in EngineActive /\ next # 0 => next = NextOf(Book)

\* A member who has asked to cancel has an open cancellation to confirm, accept or abandon;
\* without one no request of hers could lead out of CANCEL_REQUESTED.
RequestedIsOpen == sub = "CANCEL_REQUESTED" => flow.open # None

SkippedThisYear == {c \in Numbers : /\ cycle[c].skip = "USER"
                                    /\ cycle[c].at >= skips.resetAt - YearLength}
\* A member skips at most SkipsPerYear weeks of a subscription year, however she skips and
\* un-skips around the anniversary.
SkipsWithinYear == skips.resetAt # 0 => Cardinality(SkippedThisYear) <= SkipsPerYear

\* The calendar's counters are numbers within the capacity, and they are exact (DeliveryDatesService
\* reserve and release, whoever calls them).
CalendarBalanced == TypeOK /\ SlotsBalanced
===============================================================================
