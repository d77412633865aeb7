---------------------------- MODULE CheckoutProofs ----------------------------
(***************************************************************************)
(* What holds of the checkouts of one customer, for any set of them, any    *)
(* capacity and coupon limit and any number of crashes: the columns keep    *)
(* their types, slots and coupon uses are counted exactly, and an order is  *)
(* PAID exactly when its subscription is ACTIVE.                            *)
(*                                                                         *)
(* The four stand on one inductive invariant.  An open order (unpaid or     *)
(* paid) is what a slot and a coupon row are held for, so the counters are  *)
(* a function of the orders (Balanced); a handler acts on what it read, so  *)
(* what it read must have been consistent (SoundIn).                        *)
(***************************************************************************)
EXTENDS Checkout, FiniteSetTheorems, TLAPS

\* The statuses a checkout can have; fulfilment starts later.
Orders == {None, "PENDING_PAYMENT", "PAYMENT_FAILED", "PAID", "CANCELLED", "REFUNDED"}
Subs == {None, "PENDING", "ACTIVE", "CANCELLED"}
Pays == {None, "PENDING", "REQUIRES_3DS", "SUCCEEDED", "FAILED", "EXPIRED"}
Handlers == Roles \X Checkouts
Seen == [pay : Pays, order : Orders, sub : Subs]
Local == [pc : PCs, ok : BOOLEAN, drafts : SUBSET Checkouts, seen : Seen]

Holding == Unpaid \cup {"PAID"}
Open(ord) == {o \in Checkouts : ord[o] \in Holding}
PaidWith(ord) == {o \in Couponed : ord[o] = "PAID"}

\* The status of a box's subscription follows its order's; a single purchase has none.
Fits(o, a, b) == IF o \in Boxes THEN /\ a \in Unpaid <=> b = "PENDING"
                                     /\ a = "PAID" <=> b = "ACTIVE"
                                     /\ a = None <=> b = None
                                ELSE b = None

\* Subscriptions and counters agree with the orders.
Balanced(ord, sb, res, us, red) ==
  /\ ord \in [Checkouts -> Orders] /\ sb \in [Checkouts -> Subs]
  /\ \A o \in Checkouts : Fits(o, ord[o], sb[o])
  /\ res = Cardinality(Open(ord)) /\ res <= Capacity
  /\ red = Couponed \cap Open(ord)
  /\ us = Cardinality(PaidWith(ord))

\* What a handler h with local state p relies on when the orders are ord: a checkout that is
\* not written yet has no other handler; what was read was consistent; a success that found
\* the order PAID does not find it unpaid later.
SoundIn(p, h, ord) ==
  /\ p.pc = "idle" => p = Idle
  /\ p.pc \in {"draft", "place"} => h[1] = "web" /\ ord[h[2]] = None
  /\ p.pc \notin {"idle", "draft", "place"} => ord[h[2]] # None
  /\ p.pc = "abandon" => Fits(h[2], p.seen.order, p.seen.sub)
  /\ p.pc = "commit" => /\ p.seen.order # None
                        /\ p.seen.order = "PAID" => ord[h[2]] \notin Unpaid
  /\ p.pc = "place" => \/ p.drafts = {}
                       \/ \E q \in Boxes : /\ p.drafts = {q} /\ ord[q] # None
                                           /\ Fits(q, p.seen.order, p.seen.sub)

BalanceInv == Balanced(order, sub, reserved, used, redeemed)
HandlersInv == /\ proc \in [Handlers -> Local]
               /\ \A h \in Handlers : SoundIn(proc[h], h, order)
OutsideInv == /\ pay \in [Checkouts -> Pays]
              /\ remote \in [Checkouts -> {None, "OPEN", "SUCCEEDED", "FAILED"}]
              /\ \A o \in Checkouts : order[o] = None => pay[o] = None /\ remote[o] = None
              /\ acked \subseteq Checkouts
              /\ age \in [Checkouts -> 0..2] /\ date \in {"open", "closed", "cut"}
              /\ crashes \in Nat

Inv == BalanceInv /\ HandlersInv /\ OutsideInv
-------------------------------------------------------------------------------
(* The counters *)

\* The sets that are counted are finite.
LEMMA Finite == \A ord : /\ IsFiniteSet(Open(ord)) /\ IsFiniteSet(PaidWith(ord))
                         /\ Cardinality(Open(ord)) \in Nat
                         /\ Cardinality(PaidWith(ord)) \in Nat
<1>. SUFFICES ASSUME NEW ord
              PROVE  /\ IsFiniteSet(Open(ord)) /\ IsFiniteSet(PaidWith(ord))
                     /\ Cardinality(Open(ord)) \in Nat
                     /\ Cardinality(PaidWith(ord)) \in Nat
  OBVIOUS
<1>1. Open(ord) \subseteq Checkouts /\ PaidWith(ord) \subseteq Checkouts
  BY CheckoutsAssumption DEF Open, PaidWith
<1>2. IsFiniteSet(Open(ord)) /\ IsFiniteSet(PaidWith(ord))
  BY <1>1, CheckoutsAssumption, FS_Subset
<1>. QED BY <1>2, FS_CardinalityType

\* Placing an order takes one slot and one coupon row.
LEMMA PlacingBalances ==
  ASSUME NEW ord, NEW sb, NEW res, NEW us, NEW red, Balanced(ord, sb, res, us, red),
         NEW o \in Checkouts, ord[o] = None, res < Capacity
  PROVE  Balanced([ord EXCEPT ![o] = "PENDING_PAYMENT"],
                  [sb EXCEPT ![o] = IF o \in Boxes THEN "PENDING" ELSE None],
                  res + 1, us, red \cup (Couponed \cap {o}))
<1>. DEFINE ord2 == [ord EXCEPT ![o] = "PENDING_PAYMENT"]
            sb2 == [sb EXCEPT ![o] = IF o \in Boxes THEN "PENDING" ELSE None]
<1>1. ord2 \in [Checkouts -> Orders] /\ sb2 \in [Checkouts -> Subs]
  BY DEF Balanced, Orders, Subs
<1>2. ASSUME NEW x \in Checkouts PROVE Fits(x, ord2[x], sb2[x])
  BY DEF Balanced, Fits, Unpaid, None
<1>3. Open(ord2) = Open(ord) \cup {o} /\ o \notin Open(ord)
  BY DEF Balanced, Open, Holding, Unpaid, None
<1>4. PaidWith(ord2) = PaidWith(ord)
  BY CheckoutsAssumption DEF Balanced, PaidWith, None
<1>5. Cardinality(Open(ord2)) = res + 1
  BY <1>3, Finite, FS_AddElement DEF Balanced
<1>6. res + 1 <= Capacity
  BY Finite, LimitsAssumption DEF Balanced
<1>7. red \cup (Couponed \cap {o}) = Couponed \cap Open(ord2)
  BY <1>3 DEF Balanced
<1>. QED BY <1>1, <1>2, <1>4, <1>5, <1>6, <1>7 DEF Balanced

\* Giving up an open order returns its slot, its coupon row, and the use if it was paid.
LEMMA ClosingBalances ==
  ASSUME NEW ord, NEW sb, NEW res, NEW us, NEW red, Balanced(ord, sb, res, us, red),
         NEW q \in Checkouts, ord[q] \in Holding, NEW x \in {"CANCELLED", "REFUNDED"}
  PROVE  Balanced([ord EXCEPT ![q] = x],
                  [sb EXCEPT ![q] = IF q \in Boxes THEN "CANCELLED" ELSE @],
                  res - 1, us - (IF q \in red /\ ord[q] = "PAID" THEN 1 ELSE 0), red \ {q})
<1>. DEFINE ord2 == [ord EXCEPT ![q] = x]
            sb2 == [sb EXCEPT ![q] = IF q \in Boxes THEN "CANCELLED" ELSE @]
            us2 == us - (IF q \in red /\ ord[q] = "PAID" THEN 1 ELSE 0)
<1>1. ord2 \in [Checkouts -> Orders] /\ sb2 \in [Checkouts -> Subs]
  BY DEF Balanced, Orders, Subs
<1>2. ASSUME NEW y \in Checkouts PROVE Fits(y, ord2[y], sb2[y])
  BY DEF Balanced, Fits, Unpaid, None
<1>3. Open(ord2) = Open(ord) \ {q} /\ q \in Open(ord)
  BY DEF Balanced, Open, Holding, Unpaid
<1>4. Cardinality(Open(ord2)) = res - 1 /\ res - 1 <= Capacity
  <2>1. Cardinality(Open(ord2)) = res - 1 BY <1>3, Finite, FS_RemoveElement DEF Balanced
  <2>. QED BY <2>1, Finite, LimitsAssumption DEF Balanced
<1>5. PaidWith(ord2) = PaidWith(ord) \ {q}
  BY CheckoutsAssumption DEF Balanced, PaidWith
<1>6. q \in PaidWith(ord) <=> q \in red /\ ord[q] = "PAID"
  BY <1>3 DEF Balanced, PaidWith
<1>7. us2 = Cardinality(PaidWith(ord2))
  <2>1. Cardinality(PaidWith(ord2)) =
          IF q \in PaidWith(ord) THEN Cardinality(PaidWith(ord)) - 1
                                 ELSE Cardinality(PaidWith(ord))
    BY <1>5, Finite, FS_RemoveElement
  <2>2. us = Cardinality(PaidWith(ord)) /\ us \in Nat BY Finite DEF Balanced
  <2>. QED BY <1>6, <2>1, <2>2
<1>8. red \ {q} = Couponed \cap Open(ord2)
  BY <1>3 DEF Balanced
<1>. QED BY <1>1, <1>2, <1>4, <1>7, <1>8 DEF Balanced

\* Paying an open order counts the coupon when the order becomes PAID, and only then.
LEMMA PayingBalances ==
  ASSUME NEW ord, NEW sb, NEW res, NEW us, NEW red, Balanced(ord, sb, res, us, red),
         NEW o \in Checkouts, ord[o] \in Unpaid
  PROVE  Balanced([ord EXCEPT ![o] = "PAID"], [sb EXCEPT ![o] = Activated(@)],
                  res, IF o \in red THEN us + 1 ELSE us, red)
<1>. DEFINE ord2 == [ord EXCEPT ![o] = "PAID"]
            sb2 == [sb EXCEPT ![o] = Activated(@)]
            us2 == IF o \in red THEN us + 1 ELSE us
<1>1. ord2 \in [Checkouts -> Orders] /\ sb2 \in [Checkouts -> Subs]
  BY DEF Balanced, Orders, Subs, Activated
<1>2. ASSUME NEW y \in Checkouts PROVE Fits(y, ord2[y], sb2[y])
  BY DEF Balanced, Fits, Unpaid, None, Activated
<1>3. Open(ord2) = Open(ord) /\ o \in Open(ord)
  BY DEF Balanced, Open, Holding, Unpaid
<1>4. PaidWith(ord2) = IF o \in red THEN PaidWith(ord) \cup {o} ELSE PaidWith(ord)
  BY <1>3, CheckoutsAssumption DEF Balanced, PaidWith
<1>5. o \notin PaidWith(ord)
  BY DEF PaidWith, Unpaid
<1>6. us2 = Cardinality(PaidWith(ord2))
  BY <1>4, <1>5, Finite, FS_AddElement DEF Balanced
<1>. QED BY <1>1, <1>2, <1>3, <1>6 DEF Balanced

\* A failed payment moves no counter: the draft keeps its slot and its coupon row.
LEMMA FailingBalances ==
  ASSUME NEW ord, NEW sb, NEW res, NEW us, NEW red, Balanced(ord, sb, res, us, red),
         NEW o \in Checkouts, ord[o] = "PENDING_PAYMENT"
  PROVE  Balanced([ord EXCEPT ![o] = "PAYMENT_FAILED"], sb, res, us, red)
<1>. DEFINE ord2 == [ord EXCEPT ![o] = "PAYMENT_FAILED"]
<1>1. ord2 \in [Checkouts -> Orders] BY DEF Balanced, Orders
<1>2. ASSUME NEW y \in Checkouts PROVE Fits(y, ord2[y], sb[y])
  BY DEF Balanced, Fits, Unpaid, None
<1>3. Open(ord2) = Open(ord) BY DEF Balanced, Open, Holding, Unpaid
<1>4. PaidWith(ord2) = PaidWith(ord) BY CheckoutsAssumption DEF Balanced, PaidWith
<1>. QED BY <1>1, <1>2, <1>3, <1>4 DEF Balanced
-------------------------------------------------------------------------------
(* Giving up one order, or none *)

\* Giving up nothing changes nothing.
LEMMA NothingGivenUp ==
  ASSUME BalanceInv, NEW s
  PROVE  /\ AfterOrders({}, s) = order /\ AfterSubs({}, s) = sub
         /\ Freed({}, s) = 0 /\ ClosedBy({}, s) = {} /\ AfterUsed({}, s) = used
         /\ AfterPays({}, s) = [x \in Checkouts |-> pay[x]]
<1>1. AfterOrders({}, s) = order /\ AfterSubs({}, s) = sub
  BY DEF AfterOrders, AfterSubs, BalanceInv, Balanced
<1>2. ClosedBy({}, s) = {} BY DEF ClosedBy
<1>3. Freed({}, s) = 0
  <2>1. {x \in {} : Frees(x, s)} = {} OBVIOUS
  <2>. QED BY <2>1, FS_EmptySet DEF Freed
<1>4. AfterUsed({}, s) = used
  <2>1. {x \in ClosedBy({}, s) \cap redeemed : WasPaid(x)} = {} BY <1>2
  <2>2. used \in Nat BY Finite DEF BalanceInv, Balanced
  <2>. QED BY <2>1, <2>2, FS_EmptySet DEF AfterUsed
<1>. QED BY <1>1, <1>2, <1>3, <1>4 DEF AfterPays

\* An order that is given up was open, and what is taken back with it is exactly its slot.
LEMMA GivenUpWasOpen ==
  ASSUME BalanceInv, NEW q \in Checkouts, order[q] # None,
         NEW s \in Seen, Fits(q, s.order, s.sub), MayAbandon(q, s), GivesUp(s)
  PROVE  /\ order[q] \in Holding /\ Ended(q, s) \in {"CANCELLED", "REFUNDED"}
         /\ Frees(q, s) /\ (CancelsSub(q, s) <=> q \in Boxes)
<1>1. order[q] \in Orders /\ sub[q] \in Subs /\ Fits(q, order[q], sub[q])
  BY DEF BalanceInv, Balanced
<1>2. CASE q \in Boxes
  <2>1. CancelsSub(q, s) BY <1>2 DEF CancelsSub, GivesUp, Fits
  <2>2. "CANCELLED" \in SubTransitions[sub[q]]
    BY <2>1 DEF MayAbandon, CanSub
  <2>3. sub[q] \in {"PENDING", "ACTIVE"}
    BY <1>1, <1>2, <2>2 DEF Subs, SubTransitions, Fits
  <2>4. order[q] \in Holding BY <1>1, <1>2, <2>3 DEF Fits, Holding
  <2>. QED BY <1>2, <2>1, <2>4 DEF Ended, Frees, Holding
<1>3. CASE q \notin Boxes
  <2>1. ~CancelsSub(q, s) BY <1>3 DEF CancelsSub
  <2>2. "CANCELLED" \in OrderTransitions[order[q]]
    BY <2>1 DEF MayAbandon, CanOrder
  <2>3. order[q] \in Holding
    BY <1>1, <2>2 DEF Orders, OrderTransitions, Holding, Unpaid
  <2>. QED BY <1>3, <2>1, <2>3 DEF Ended, Frees
<1>. QED BY <1>2, <1>3

\* Giving up one order keeps the balance and closes nothing but that order.
LEMMA OneGivenUp ==
  ASSUME BalanceInv, NEW q \in Checkouts, order[q] # None,
         NEW s \in Seen, Fits(q, s.order, s.sub), MayAbandon(q, s)
  PROVE  /\ Balanced(AfterOrders({q}, s), AfterSubs({q}, s), reserved - Freed({q}, s),
                     AfterUsed({q}, s), redeemed \ ClosedBy({q}, s))
         /\ \A x \in Checkouts : x # q => AfterOrders({q}, s)[x] = order[x]
         /\ AfterOrders({q}, s)[q] # None
         /\ order[q] \notin Unpaid => AfterOrders({q}, s)[q] \notin Unpaid
<1>0. /\ order \in [Checkouts -> Orders] /\ sub \in [Checkouts -> Subs]
      /\ reserved \in Nat /\ used \in Nat
  BY Finite DEF BalanceInv, Balanced
<1>1. CASE GivesUp(s)
  <2>1. /\ order[q] \in Holding /\ Ended(q, s) \in {"CANCELLED", "REFUNDED"}
        /\ Frees(q, s) /\ (CancelsSub(q, s) <=> q \in Boxes)
    BY <1>1, GivenUpWasOpen
  <2>2. AfterOrders({q}, s) = [order EXCEPT ![q] = Ended(q, s)]
    BY <1>0 DEF AfterOrders
  <2>3. AfterSubs({q}, s) = [sub EXCEPT ![q] = IF q \in Boxes THEN "CANCELLED" ELSE @]
    BY <1>0, <1>1, <2>1 DEF AfterSubs
  <2>4. Freed({q}, s) = 1
    <3>1. {x \in {q} : Frees(x, s)} = {q} BY <2>1
    <3>. QED BY <3>1, FS_Singleton DEF Freed
  <2>5. ClosedBy({q}, s) = {q}
    BY <2>1 DEF ClosedBy, Holding, Unpaid
  <2>6. AfterUsed({q}, s) = used - (IF q \in redeemed /\ order[q] = "PAID" THEN 1 ELSE 0)
    <3>1. {x \in ClosedBy({q}, s) \cap redeemed : WasPaid(x)}
            = IF q \in redeemed /\ order[q] = "PAID" THEN {q} ELSE {}
      BY <2>5 DEF WasPaid
    <3>2. Cardinality({x \in ClosedBy({q}, s) \cap redeemed : WasPaid(x)})
            = IF q \in redeemed /\ order[q] = "PAID" THEN 1 ELSE 0
      BY <3>1, FS_Singleton, FS_EmptySet
    <3>. QED BY <3>2 DEF AfterUsed
  <2>7. Balanced(AfterOrders({q}, s), AfterSubs({q}, s), reserved - Freed({q}, s),
                 AfterUsed({q}, s), redeemed \ ClosedBy({q}, s))
    <3>1. Balanced([order EXCEPT ![q] = Ended(q, s)],
                   [sub EXCEPT ![q] = IF q \in Boxes THEN "CANCELLED" ELSE @], reserved - 1,
                   used - (IF q \in redeemed /\ order[q] = "PAID" THEN 1 ELSE 0),
                   redeemed \ {q})
      BY <2>1, ClosingBalances DEF BalanceInv
    <3>. QED BY <3>1, <2>2, <2>3, <2>4, <2>5, <2>6
  <2>. QED BY <1>0, <2>1, <2>2, <2>7 DEF Unpaid, None
<1>2. CASE ~GivesUp(s)
  <2>1. AfterOrders({q}, s) = order /\ AfterSubs({q}, s) = sub
    BY <1>0, <1>2 DEF AfterOrders, AfterSubs, Ended
  <2>2. ClosedBy({q}, s) = {} BY <1>2 DEF ClosedBy, Ended
  <2>3. Freed({q}, s) = 0
    <3>1. {x \in {q} : Frees(x, s)} = {} BY <1>2 DEF Frees
    <3>. QED BY <3>1, FS_EmptySet DEF Freed
  <2>4. AfterUsed({q}, s) = used
    <3>1. {x \in ClosedBy({q}, s) \cap redeemed : WasPaid(x)} = {} BY <2>2
    <3>2. Cardinality({x \in ClosedBy({q}, s) \cap redeemed : WasPaid(x)}) = 0
      BY <3>1, FS_EmptySet
    <3>. QED BY <1>0, <3>2 DEF AfterUsed
  <2>5. reserved - Freed({q}, s) = reserved /\ redeemed \ ClosedBy({q}, s) = redeemed
    BY <1>0, <2>2, <2>3
  <2>. QED BY <2>1, <2>4, <2>5 DEF BalanceInv
<1>. QED BY <1>1, <1>2
-------------------------------------------------------------------------------
(* The handlers *)

\* Orders that are written stay written, and no order becomes unpaid again.
Forward(ord, ord2) ==
  \A o \in Checkouts : ord[o] # None => /\ ord2[o] # None
                                        /\ ord[o] \notin Unpaid => ord2[o] \notin Unpaid

\* What a handler relies on survives the steps of the others: a checkout it is about to
\* write is still not written.
LEMMA SoundForward ==
  ASSUME NEW p, NEW h \in Handlers, NEW ord, NEW ord2, SoundIn(p, h, ord), Forward(ord, ord2),
         p.pc \in {"draft", "place"} => ord2[h[2]] = None
  PROVE  SoundIn(p, h, ord2)
<1>1. h[2] \in Checkouts BY DEF Handlers
<1>2. \A q \in Boxes : q \in Checkouts BY CheckoutsAssumption
<1>. QED BY <1>1, <1>2 DEF SoundIn, Forward

\* A handler that has finished relies on nothing.
LEMMA IdleIsSound == \A h, ord : SoundIn(Idle, h, ord)
BY DEF SoundIn, Idle

\* Having read nothing is a reading like any other.
LEMMA NothingIsSeen == Nothing \in Seen
BY DEF Seen, Nothing, None, Pays, Orders, Subs

\* ... and to be idle is a local state.
LEMMA IdleIsLocal == Idle \in Local
BY NothingIsSeen DEF Idle, Local, PCs

\* A step that writes no order and one handler's state.
LEMMA OneHandlerSteps ==
  ASSUME HandlersInv, UNCHANGED order, NEW h \in Handlers, NEW p \in Local,
         proc' = [proc EXCEPT ![h] = p], SoundIn(p, h, order)
  PROVE  HandlersInv'
<1>1. proc' \in [Handlers -> Local] BY DEF HandlersInv
<1>2. ASSUME NEW g \in Handlers PROVE SoundIn(proc'[g], g, order)
  BY DEF HandlersInv
<1>. QED BY <1>1, <1>2 DEF HandlersInv

\* A step that leaves orders, subscriptions and counters alone keeps the balance.
LEMMA BalanceStays == BalanceInv /\ UNCHANGED <<order, sub, counters>> => BalanceInv'
BY DEF BalanceInv, counters

\* A handler that ends and writes no order.
LEMMA FinishSteps ==
  ASSUME HandlersInv, UNCHANGED order, NEW h \in Handlers, Finish(h)
  PROVE  HandlersInv'
BY OneHandlerSteps, IdleIsSound, IdleIsLocal DEF Finish

\* Nothing is held and nobody runs at the start.
LEMMA InvInit == Init => Inv
<1>. SUFFICES ASSUME Init PROVE Inv OBVIOUS
<1>1. BalanceInv
  <2>1. Open(order) = {} /\ PaidWith(order) = {}
    BY CheckoutsAssumption DEF Init, Open, PaidWith, Holding, Unpaid, None
  <2>2. Cardinality(Open(order)) = 0 /\ Cardinality(PaidWith(order)) = 0
    BY <2>1, FS_EmptySet
  <2>3. \A o \in Checkouts : Fits(o, order[o], sub[o])
    BY DEF Init, Fits, Unpaid, None
  <2>. QED BY <2>1, <2>2, <2>3, LimitsAssumption DEF BalanceInv, Balanced, Init, Orders, Subs
<1>2. HandlersInv
  BY IdleIsSound, IdleIsLocal DEF HandlersInv, Init, Handlers
<1>3. OutsideInv
  BY DEF OutsideInv, Init, Pays
<1>. QED BY <1>1, <1>2, <1>3 DEF Inv
-------------------------------------------------------------------------------
(* The checkout request *)

\* The handler of a checkout's request.
LEMMA WebHandler == \A o \in Checkouts : Web(o) \in Handlers /\ Web(o)[1] = "web" /\ Web(o)[2] = o
BY DEF Web, Handlers, Roles

\* Begin: a checkout that is not written yet gets its request.
LEMMA BeginStep == ASSUME Inv, NEW o \in Checkouts, Begin(o) PROVE Inv'
<1>. DEFINE p == [proc[Web(o)] EXCEPT !.pc = IF o \in Boxes THEN "draft" ELSE "place"]
<1>. USE DEF Inv
<1>1. Web(o) \in Handlers /\ Web(o)[1] = "web" /\ Web(o)[2] = o BY WebHandler
<1>2. proc[Web(o)] = Idle BY <1>1 DEF HandlersInv, Begin, At, SoundIn
<1>3. p \in Local /\ p.pc \in {"draft", "place"} /\ p.drafts = {}
  <2>1. proc[Web(o)] \in Local /\ proc[Web(o)].drafts = {}
    BY <1>2, IdleIsLocal DEF Idle
  <2>. QED BY <2>1 DEF Local, PCs
<1>4. proc' = [proc EXCEPT ![Web(o)] = p] BY <1>1 DEF Begin, Goto, HandlersInv
<1>5. SoundIn(p, Web(o), order) BY <1>1, <1>3 DEF SoundIn, Begin
<1>6. HandlersInv' BY <1>1, <1>3, <1>4, <1>5, OneHandlerSteps DEF Begin
<1>7. BalanceInv' BY BalanceStays DEF Begin
<1>8. OutsideInv' BY DEF OutsideInv, Begin, outside
<1>. QED BY <1>6, <1>7, <1>8

\* ReadDraft: at most one draft, which exists and was read consistently.
LEMMA ReadDraftStep == ASSUME Inv, NEW o \in Checkouts, ReadDraft(o) PROVE Inv'
<1>. USE DEF Inv
<1>1. Web(o) \in Handlers /\ Web(o)[1] = "web" /\ Web(o)[2] = o BY WebHandler
<1>2. proc[Web(o)] \in Local /\ order[o] = None
  BY <1>1 DEF HandlersInv, ReadDraft, At, SoundIn
<1>3. BalanceInv' BY BalanceStays DEF ReadDraft
<1>4. OutsideInv' BY DEF OutsideInv, ReadDraft, outside
<1>5. CASE Finish(Web(o)) BY <1>1, <1>3, <1>4, <1>5, FinishSteps DEF ReadDraft
<1>6. ASSUME NEW D \in {{}} \cup {{q} : q \in Drafts},
             NEW s \in IF D = {} THEN {Nothing} ELSE {Read(q) : q \in D},
             proc' = [proc EXCEPT ![Web(o)] = [@ EXCEPT !.pc = "place", !.drafts = D, !.seen = s]]
      PROVE  Inv'
  <2>. DEFINE p == [proc[Web(o)] EXCEPT !.pc = "place", !.drafts = D, !.seen = s]
  <2>1. p.drafts = D /\ p.seen = s /\ p.pc = "place" BY <1>2 DEF Local
  <2>2. CASE D = {}
    <3>1. s \in Seen /\ D \in SUBSET Checkouts BY <2>2, NothingIsSeen
    <3>. p \in Local BY <1>2, <3>1 DEF Local, PCs
    <3>2. SoundIn(p, Web(o), order) BY <1>1, <1>2, <2>1, <2>2 DEF SoundIn
    <3>3. proc' = [proc EXCEPT ![Web(o)] = p] BY <1>6, <1>1 DEF HandlersInv
    <3>4. HandlersInv' BY <1>1, <3>2, <3>3, OneHandlerSteps DEF ReadDraft
    <3>. QED BY <1>3, <1>4, <3>4
  <2>3. CASE \E q \in Drafts : D = {q}
    <3>. PICK q \in Drafts : D = {q} BY <2>3
    <3>1. q \in Boxes /\ q \in Checkouts /\ sub[q] = "PENDING" /\ s = Read(q)
      BY <1>6, CheckoutsAssumption DEF Drafts
    <3>2. s \in Seen /\ Fits(q, s.order, s.sub) /\ order[q] # None
      BY <3>1 DEF Seen, Read, BalanceInv, Balanced, OutsideInv, Fits, None
    <3>3. p \in Local BY <1>2, <3>1, <3>2 DEF Local, PCs
    <3>4. SoundIn(p, Web(o), order) BY <1>1, <1>2, <2>1, <3>1, <3>2 DEF SoundIn
    <3>5. proc' = [proc EXCEPT ![Web(o)] = p] BY <1>6, <1>1 DEF HandlersInv
    <3>6. HandlersInv' BY <1>1, <3>3, <3>4, <3>5, OneHandlerSteps DEF ReadDraft
    <3>. QED BY <1>3, <1>4, <3>6
  <2>. QED BY <2>2, <2>3
<1>. QED BY <1>5, <1>6 DEF ReadDraft

\* OpenPage: the page exists only for a written checkout.
LEMMA OpenPageStep == ASSUME Inv, NEW o \in Checkouts, OpenPage(o) PROVE Inv'
<1>. USE DEF Inv
<1>1. Web(o) \in Handlers /\ Web(o)[2] = o BY WebHandler
<1>2. order[o] # None BY <1>1 DEF HandlersInv, OpenPage, At, SoundIn
<1>3. HandlersInv' BY <1>1, FinishSteps DEF OpenPage
<1>4. BalanceInv' BY BalanceStays DEF OpenPage
<1>5. OutsideInv' BY <1>2 DEF OutsideInv, OpenPage, Pays
<1>. QED BY <1>3, <1>4, <1>5

\* InitFails: on to settling a failure.
LEMMA InitFailsStep == ASSUME Inv, NEW o \in Checkouts, InitFails(o) PROVE Inv'
<1>. DEFINE p == [proc[Web(o)] EXCEPT !.pc = "settle"]
<1>. USE DEF Inv
<1>1. Web(o) \in Handlers /\ Web(o)[2] = o BY WebHandler
<1>2. proc[Web(o)] \in Local /\ order[o] # None
  BY <1>1 DEF HandlersInv, InitFails, At, SoundIn
<1>3. p \in Local /\ p.pc = "settle" BY <1>2 DEF Local, PCs
<1>4. proc' = [proc EXCEPT ![Web(o)] = p] BY <1>1 DEF InitFails, Goto, HandlersInv
<1>5. SoundIn(p, Web(o), order) BY <1>1, <1>2, <1>3 DEF SoundIn
<1>6. HandlersInv' BY <1>1, <1>3, <1>4, <1>5, OneHandlerSteps DEF InitFails
<1>7. BalanceInv' BY BalanceStays DEF InitFails
<1>8. OutsideInv' BY DEF OutsideInv, InitFails, outside
<1>. QED BY <1>6, <1>7, <1>8

\* ChargeCard: the same with a reply, or the end of the request.
LEMMA ChargeCardStep == ASSUME Inv, NEW o \in Checkouts, ChargeCard(o) PROVE Inv'
<1>. USE DEF Inv
<1>1. Web(o) \in Handlers /\ Web(o)[2] = o BY WebHandler
<1>2. proc[Web(o)] \in Local /\ order[o] # None
  BY <1>1 DEF HandlersInv, ChargeCard, At, SoundIn
<1>3. BalanceInv' BY BalanceStays DEF ChargeCard
<1>4. OutsideInv' BY <1>2 DEF OutsideInv, ChargeCard
<1>5. HandlersInv'
  <2>1. CASE Finish(Web(o)) BY <1>1, <2>1, FinishSteps DEF ChargeCard
  <2>2. ASSUME NEW b \in BOOLEAN,
               proc' = [proc EXCEPT ![Web(o)] = [@ EXCEPT !.pc = "settle", !.ok = b]]
        PROVE  HandlersInv'
    <3>. DEFINE p == [proc[Web(o)] EXCEPT !.pc = "settle", !.ok = b]
    <3>1. p \in Local /\ p.pc = "settle" BY <1>2 DEF Local, PCs
    <3>2. proc' = [proc EXCEPT ![Web(o)] = p] BY <2>2, <1>1 DEF HandlersInv
    <3>3. SoundIn(p, Web(o), order) BY <1>1, <1>2, <3>1 DEF SoundIn
    <3>. QED BY <1>1, <3>1, <3>2, <3>3, OneHandlerSteps DEF ChargeCard
  <2>. QED BY <2>1, <2>2 DEF ChargeCard
<1>. QED BY <1>3, <1>4, <1>5

\* A step that writes orders and ends or moves one handler: the checkouts that other handlers
\* are about to write stay unwritten.
LEMMA WritingSteps ==
  ASSUME HandlersInv, NEW h \in Handlers, NEW p \in Local, proc' = [proc EXCEPT ![h] = p],
         Forward(order, order'), SoundIn(p, h, order'),
         \A g \in Handlers : g # h /\ proc[g].pc \in {"draft", "place"} => order'[g[2]] = None
  PROVE  HandlersInv'
<1>1. proc' \in [Handlers -> Local] BY DEF HandlersInv
<1>2. ASSUME NEW g \in Handlers, g # h PROVE SoundIn(proc'[g], g, order')
  <2>1. proc'[g] = proc[g] /\ SoundIn(proc[g], g, order) BY <1>2 DEF HandlersInv
  <2>. QED BY <1>2, <2>1, SoundForward
<1>3. SoundIn(proc'[h], h, order') BY DEF HandlersInv
<1>. QED BY <1>1, <1>2, <1>3 DEF HandlersInv

\* Place, refused: nothing was written.  Place, committed: at most one draft is given up, and
\* what the request takes fits into what is free.
LEMMA PlaceStep == ASSUME Inv, NEW o \in Checkouts, Place(o) PROVE Inv'
<1>. DEFINE D == proc[Web(o)].drafts
            s == proc[Web(o)].seen
            p == [Idle EXCEPT !.pc = "start"]
<1>. USE DEF Inv
<1>1. Web(o) \in Handlers /\ Web(o)[1] = "web" /\ Web(o)[2] = o BY WebHandler
<1>2. proc[Web(o)] \in Local /\ s \in Seen BY <1>1 DEF HandlersInv, Local
<1>3. /\ order[o] = None /\ pay[o] = None
      /\ \/ D = {}
         \/ \E q \in Boxes : D = {q} /\ order[q] # None /\ Fits(q, s.order, s.sub)
  BY <1>1 DEF HandlersInv, OutsideInv, Place, At, SoundIn
<1>4. CASE Finish(Web(o)) /\ UNCHANGED <<order, pay, sub, counters, outside>>
  <2>1. HandlersInv' BY <1>1, <1>4, FinishSteps
  <2>2. BalanceInv' BY <1>4, BalanceStays
  <2>3. OutsideInv' BY <1>4 DEF OutsideInv, outside
  <2>. QED BY <2>1, <2>2, <2>3
<1>5. ASSUME /\ reserved - Freed(D, s) < Capacity /\ \A q \in D : MayAbandon(q, s)
             /\ order' = [AfterOrders(D, s) EXCEPT ![o] = "PENDING_PAYMENT"]
             /\ pay' = [AfterPays(D, s) EXCEPT ![o] = "PENDING"]
             /\ sub' = [AfterSubs(D, s) EXCEPT ![o] = IF o \in Boxes THEN "PENDING" ELSE None]
             /\ reserved' = reserved - Freed(D, s) + 1
             /\ redeemed' = (redeemed \ ClosedBy(D, s)) \cup (Couponed \cap {o})
             /\ used' = AfterUsed(D, s)
             /\ proc' = [proc EXCEPT ![Web(o)] = p]
             /\ UNCHANGED outside
      PROVE  Inv'
  <2>1. /\ Balanced(AfterOrders(D, s), AfterSubs(D, s), reserved - Freed(D, s),
                    AfterUsed(D, s), redeemed \ ClosedBy(D, s))
        /\ AfterOrders(D, s)[o] = None
        /\ Forward(order, AfterOrders(D, s))
        /\ \A x \in Checkouts : order[x] = None => AfterOrders(D, s)[x] = None
    <3>1. CASE D = {}
      <4>1. reserved - 0 = reserved BY Finite DEF BalanceInv, Balanced
      <4>. QED BY <1>3, <3>1, <4>1, NothingGivenUp DEF BalanceInv, Forward
    <3>2. CASE D # {}
      <4>. PICK q \in Boxes : D = {q} /\ order[q] # None /\ Fits(q, s.order, s.sub)
        BY <1>3, <3>2
      <4>1. q \in Checkouts /\ q # o /\ MayAbandon(q, s) BY <1>3, <1>5, CheckoutsAssumption
      <4>2. /\ Balanced(AfterOrders({q}, s), AfterSubs({q}, s), reserved - Freed({q}, s),
                        AfterUsed({q}, s), redeemed \ ClosedBy({q}, s))
            /\ \A x \in Checkouts : x # q => AfterOrders({q}, s)[x] = order[x]
            /\ AfterOrders({q}, s)[q] # None
            /\ order[q] \notin Unpaid => AfterOrders({q}, s)[q] \notin Unpaid
        BY <1>2, <4>1, OneGivenUp
      <4>. QED BY <1>3, <4>1, <4>2 DEF Forward
    <3>. QED BY <3>1, <3>2
  <2>2. BalanceInv'
    <3>1. Balanced([AfterOrders(D, s) EXCEPT ![o] = "PENDING_PAYMENT"],
                   [AfterSubs(D, s) EXCEPT ![o] = IF o \in Boxes THEN "PENDING" ELSE None],
                   reserved - Freed(D, s) + 1, AfterUsed(D, s),
                   (redeemed \ ClosedBy(D, s)) \cup (Couponed \cap {o}))
      BY <1>5, <2>1, PlacingBalances
    <3>. QED BY <1>5, <3>1 DEF BalanceInv
  <2>3. AfterOrders(D, s) \in [Checkouts -> Orders] BY <2>1 DEF Balanced
  <2>4. /\ order' \in [Checkouts -> Orders] /\ order'[o] = "PENDING_PAYMENT"
        /\ \A x \in Checkouts : x # o => order'[x] = AfterOrders(D, s)[x]
    BY <1>5, <2>3 DEF Orders
  <2>5. HandlersInv'
    <3>1. Forward(order, order') BY <1>3, <2>1, <2>4 DEF Forward, None
    <3>2. p \in Local /\ p.pc = "start" BY IdleIsLocal DEF Local, PCs, Idle
    <3>3. SoundIn(p, Web(o), order') BY <1>1, <2>4, <3>2 DEF SoundIn, None
    <3>4. ASSUME NEW g \in Handlers, g # Web(o), proc[g].pc \in {"draft", "place"}
          PROVE  order'[g[2]] = None
      <4>1. g[1] = "web" /\ g[2] \in Checkouts /\ order[g[2]] = None
        BY <3>4 DEF HandlersInv, SoundIn, Handlers
      <4>2. g[2] # o BY <3>4, <4>1 DEF Handlers, Web
      <4>. QED BY <4>1, <4>2, <2>1, <2>4
    <3>. QED BY <1>1, <1>5, <3>1, <3>2, <3>3, <3>4, WritingSteps
  <2>6. OutsideInv'
    <3>1. AfterPays(D, s) \in [Checkouts -> Pays] BY DEF AfterPays, OutsideInv, Pays
    <3>2. \A x \in Checkouts : order'[x] = None => x # o /\ order[x] = None
      BY <2>1, <2>4 DEF Forward, None
    <3>3. \A x \in Checkouts : order[x] = None => x \notin D BY <1>3
    <3>4. \A x \in Checkouts : order'[x] = None => pay'[x] = None
      BY <1>5, <3>1, <3>2, <3>3 DEF AfterPays, OutsideInv
    <3>. QED BY <1>5, <3>1, <3>2, <3>4 DEF OutsideInv, outside, Pays
  <2>. QED BY <2>2, <2>5, <2>6
<1>. QED BY <1>4, <1>5 DEF Place
-------------------------------------------------------------------------------
(* The outcome of a payment *)

\* The provider is only known to hold what was written.
LEMMA CustomerPaysStep == ASSUME Inv, NEW o \in Checkouts, CustomerPays(o) PROVE Inv'
<1>. USE DEF Inv
<1>1. order[o] # None BY DEF OutsideInv, CustomerPays, None
<1>2. BalanceInv' BY BalanceStays DEF CustomerPays
<1>3. HandlersInv' BY DEF HandlersInv, CustomerPays
<1>4. OutsideInv' BY <1>1 DEF OutsideInv, CustomerPays
<1>. QED BY <1>2, <1>3, <1>4

\* settlePayment, whoever calls it, goes on for a written checkout or ends.
LEMMA SettleSteps ==
  ASSUME Inv, NEW h \in Handlers, order[h[2]] # None, NEW ok \in BOOLEAN, SettleAs(h, ok),
         UNCHANGED <<order, pay, sub, counters, remote, age, date, crashes>>
  PROVE  Inv'
<1>. USE DEF Inv
<1>1. BalanceInv' BY BalanceStays
<1>2. acked' \subseteq Checkouts
  BY DEF SettleAs, Ack, OutsideInv, Handlers
<1>3. OutsideInv' BY <1>2 DEF OutsideInv
<1>4. HandlersInv'
  <2>1. CASE Finish(h) BY <2>1, FinishSteps
  <2>2. ASSUME NEW next \in {"read", "fail", "mark"},
               proc' = [proc EXCEPT ![h] = [Idle EXCEPT !.pc = next, !.ok = ok]]
        PROVE  HandlersInv'
    <3>. DEFINE p == [Idle EXCEPT !.pc = next, !.ok = ok]
    <3>1. p \in Local /\ p.pc = next BY IdleIsLocal DEF Local, PCs, Idle
    <3>2. SoundIn(p, h, order) BY <3>1 DEF SoundIn
    <3>. QED BY <2>2, <3>1, <3>2, OneHandlerSteps
  <2>. QED BY <2>1, <2>2 DEF SettleAs
<1>. QED BY <1>1, <1>3, <1>4

\* SettleReply: the request that settles has written its order.
LEMMA SettleReplyStep == ASSUME Inv, NEW o \in Checkouts, SettleReply(o) PROVE Inv'
<1>1. Web(o) \in Handlers /\ Web(o)[2] = o BY WebHandler
<1>2. order[o] # None /\ proc[Web(o)].ok \in BOOLEAN
  BY <1>1 DEF Inv, HandlersInv, SettleReply, At, SoundIn, Local
<1>. QED BY <1>1, <1>2, SettleSteps DEF SettleReply

\* Notified: what the provider knows was written.
LEMMA NotifiedStep == ASSUME Inv, NEW o \in Checkouts, Notified(o) PROVE Inv'
<1>1. <<"psp", o>> \in Handlers /\ <<"psp", o>>[2] = o BY DEF Handlers, Roles
<1>2. order[o] # None BY DEF Inv, OutsideInv, Notified, None
<1>. QED BY <1>1, <1>2, SettleSteps DEF Notified

\* Ask: so was a payment that is open.
LEMMA AskStep == ASSUME Inv, NEW o \in Checkouts, Ask(o) PROVE Inv'
<1>1. <<"job", o>> \in Handlers /\ <<"job", o>>[2] = o BY DEF Handlers, Roles
<1>2. order[o] # None BY DEF Inv, OutsideInv, Ask, None
<1>. QED BY <1>1, <1>2, SettleSteps DEF Ask

\* Mark: only the payment row is written.
LEMMA MarkStep == ASSUME Inv, NEW h \in Handlers, Mark(h) PROVE Inv'
<1>. DEFINE p == [proc[h] EXCEPT !.pc = IF proc[h].ok THEN "read" ELSE "fail"]
<1>. USE DEF Inv
<1>1. h[2] \in Checkouts BY DEF Handlers
<1>2. proc[h] \in Local /\ order[h[2]] # None
  BY DEF HandlersInv, Mark, At, SoundIn
<1>3. p \in Local /\ p.pc \in {"read", "fail"} BY <1>2 DEF Local, PCs
<1>4. proc' = [proc EXCEPT ![h] = p] BY DEF Mark, Goto, HandlersInv
<1>5. SoundIn(p, h, order) BY <1>2, <1>3 DEF SoundIn
<1>6. HandlersInv' BY <1>3, <1>4, <1>5, OneHandlerSteps DEF Mark
<1>7. BalanceInv' BY BalanceStays DEF Mark
<1>8. OutsideInv' BY <1>1, <1>2 DEF OutsideInv, Mark, outside, Pays
<1>. QED BY <1>6, <1>7, <1>8

\* ReadOrder: an order that is read PAID is not unpaid.
LEMMA ReadOrderStep == ASSUME Inv, NEW h \in Handlers, ReadOrder(h) PROVE Inv'
<1>. DEFINE s == [proc[h].seen EXCEPT !.order = order[h[2]]]
            p == [proc[h] EXCEPT !.pc = "commit", !.seen = s]
<1>. USE DEF Inv
<1>1. h[2] \in Checkouts BY DEF Handlers
<1>2. proc[h] \in Local /\ order[h[2]] # None /\ order[h[2]] \in Orders
  BY <1>1 DEF HandlersInv, ReadOrder, At, SoundIn, BalanceInv, Balanced
<1>3. s \in Seen /\ s.order = order[h[2]] BY <1>2 DEF Local, Seen
<1>4. p \in Local /\ p.pc = "commit" /\ p.seen = s BY <1>2, <1>3 DEF Local, PCs
<1>5. proc' = [proc EXCEPT ![h] = p] BY <1>2 DEF ReadOrder, HandlersInv, Local
<1>6. SoundIn(p, h, order) BY <1>2, <1>3, <1>4 DEF SoundIn, Unpaid
<1>7. HandlersInv' BY <1>4, <1>5, <1>6, OneHandlerSteps DEF ReadOrder
<1>8. BalanceInv' BY BalanceStays DEF ReadOrder
<1>9. OutsideInv' BY DEF OutsideInv, ReadOrder, outside
<1>. QED BY <1>7, <1>8, <1>9

\* A step that moves one written order ends or leaves its handler and disturbs no other.
LEMMA OneOrderMoves ==
  ASSUME Inv, NEW h \in Handlers, NEW p \in Local, proc' = [proc EXCEPT ![h] = p],
         NEW o \in Checkouts, order[o] # None, order'[o] # None,
         \A x \in Checkouts : x # o => order'[x] = order[x],
         order[o] \notin Unpaid => order'[o] \notin Unpaid,
         SoundIn(p, h, order')
  PROVE  HandlersInv'
<1>1. Forward(order, order') BY DEF Forward
<1>2. ASSUME NEW g \in Handlers, g # h, proc[g].pc \in {"draft", "place"}
      PROVE  order'[g[2]] = None
  <2>1. g[2] \in Checkouts /\ order[g[2]] = None
    BY <1>2 DEF Inv, HandlersInv, SoundIn, Handlers
  <2>. QED BY <2>1
<1>. QED BY <1>1, <1>2, WritingSteps DEF Inv

\* CommitPaid: an unpaid order and its subscription become paid together, and the coupon
\* counts; an order read PAID changes nothing.
LEMMA CommitPaidStep == ASSUME Inv, NEW h \in Handlers, CommitPaid(h) PROVE Inv'
<1>. DEFINE o == h[2]
            was == proc[h].seen.order
<1>. USE DEF Inv
<1>1. o \in Checkouts BY DEF Handlers
<1>2. order[o] # None /\ (was = "PAID" => order[o] \notin Unpaid)
  BY DEF HandlersInv, CommitPaid, At, SoundIn
<1>3. order \in [Checkouts -> Orders] /\ sub \in [Checkouts -> Subs] /\ Fits(o, order[o], sub[o])
  BY <1>1 DEF BalanceInv, Balanced
<1>4. acked' \subseteq Checkouts
  BY <1>1 DEF CommitPaid, Ack, OutsideInv
<1>5. UNCHANGED <<remote, age, date, crashes, pay>> /\ Finish(h)
  BY DEF CommitPaid, counters
<1>6. CASE UNCHANGED <<order, sub, counters>>
  <2>1. HandlersInv' BY <1>5, <1>6, FinishSteps
  <2>2. BalanceInv' BY <1>6, BalanceStays
  <2>3. OutsideInv' BY <1>4, <1>5, <1>6 DEF OutsideInv
  <2>. QED BY <2>1, <2>2, <2>3
<1>7. CASE /\ was \in Unpaid /\ order[o] = was
           /\ order' = [order EXCEPT ![o] = "PAID"]
           /\ sub' = [sub EXCEPT ![o] = Activated(@)]
           /\ used' = IF o \in redeemed THEN used + 1 ELSE used
           /\ UNCHANGED <<reserved, redeemed>>
  <2>1. BalanceInv' BY <1>1, <1>7, PayingBalances DEF BalanceInv
  <2>2. /\ order'[o] = "PAID" /\ order'[o] # None /\ order'[o] \notin Unpaid
        /\ \A x \in Checkouts : x # o => order'[x] = order[x]
    BY <1>1, <1>3, <1>7 DEF None, Unpaid
  <2>3. HandlersInv'
    BY <1>1, <1>2, <1>5, <2>2, OneOrderMoves, IdleIsSound, IdleIsLocal DEF Finish
  <2>4. OutsideInv' BY <1>1, <1>4, <1>5, <2>2 DEF OutsideInv
  <2>. QED BY <2>1, <2>3, <2>4
<1>8. CASE /\ was = "PAID" /\ UNCHANGED <<order, reserved, redeemed>>
           /\ sub' = [sub EXCEPT ![o] = Activated(@)] /\ used' = used
  <2>1. sub[o] # "PENDING" BY <1>2, <1>3, <1>8 DEF Fits, None
  <2>2. sub' = sub BY <1>3, <1>8, <2>1 DEF Activated
  <2>. QED BY <1>6, <1>8, <2>2 DEF counters
<1>. QED BY <1>6, <1>7, <1>8 DEF CommitPaid, CountsCoupon, Unpaid, counters

\* FailOrder: an order waiting for its payment stays open as PAYMENT_FAILED.
LEMMA FailOrderStep == ASSUME Inv, NEW h \in Handlers, FailOrder(h) PROVE Inv'
<1>. DEFINE o == h[2]
<1>. USE DEF Inv
<1>1. o \in Checkouts BY DEF Handlers
<1>2. order[o] # None BY DEF HandlersInv, FailOrder, At, SoundIn
<1>3. order \in [Checkouts -> Orders] BY DEF BalanceInv, Balanced
<1>4. acked' \subseteq Checkouts BY <1>1 DEF FailOrder, Ack, OutsideInv
<1>5. CASE order[o] = "PENDING_PAYMENT"
  <2>1. order' = [order EXCEPT ![o] = "PAYMENT_FAILED"] BY <1>5 DEF FailOrder
  <2>2. BalanceInv'
    <3>1. Balanced([order EXCEPT ![o] = "PAYMENT_FAILED"], sub, reserved, used, redeemed)
      BY <1>1, <1>5, FailingBalances DEF BalanceInv
    <3>2. UNCHANGED <<sub, reserved, used, redeemed>> BY DEF FailOrder, counters
    <3>. QED BY <2>1, <3>1, <3>2 DEF BalanceInv
  <2>3. order'[o] # None /\ \A x \in Checkouts : x # o => order'[x] = order[x]
    BY <1>1, <1>3, <2>1 DEF None
  <2>4. order[o] \in Unpaid BY <1>5 DEF Unpaid
  <2>5. HandlersInv'
    BY <1>1, <1>2, <2>3, <2>4, OneOrderMoves, IdleIsSound, IdleIsLocal DEF Finish, FailOrder
  <2>6. OutsideInv' BY <1>1, <1>4, <2>3 DEF OutsideInv, FailOrder
  <2>. QED BY <2>2, <2>5, <2>6
<1>6. CASE order[o] # "PENDING_PAYMENT"
  <2>1. order' = order BY <1>1, <1>3, <1>6 DEF FailOrder
  <2>2. HandlersInv' BY <2>1, FinishSteps DEF FailOrder
  <2>3. BalanceInv' BY <2>1, BalanceStays DEF FailOrder
  <2>4. OutsideInv' BY <1>4, <2>1 DEF OutsideInv, FailOrder
  <2>. QED BY <2>2, <2>3, <2>4
<1>. QED BY <1>5, <1>6
-------------------------------------------------------------------------------
(* Giving up *)

\* ReadStale: what the job reads of an order fits together.
LEMMA ReadStaleStep == ASSUME Inv, NEW o \in Checkouts, ReadStale(o) PROVE Inv'
<1>. DEFINE h == <<"job", o>>
            p == [Idle EXCEPT !.pc = "abandon", !.seen = Read(o)]
<1>. USE DEF Inv
<1>1. h \in Handlers /\ h[2] = o BY DEF Handlers, Roles
<1>2. order[o] # None
  BY DEF OutsideInv, ReadStale, Stale, OpenPayment, Unpaid, None
<1>3. Read(o) \in Seen /\ Fits(o, Read(o).order, Read(o).sub)
  BY DEF Seen, Read, BalanceInv, Balanced, OutsideInv
<1>4. p \in Local /\ p.pc = "abandon" /\ p.seen = Read(o)
  BY <1>3, IdleIsLocal DEF Local, PCs, Idle
<1>5. SoundIn(p, h, order) BY <1>1, <1>2, <1>3, <1>4 DEF SoundIn
<1>6. HandlersInv' BY <1>1, <1>4, <1>5, OneHandlerSteps DEF ReadStale
<1>7. BalanceInv' BY BalanceStays DEF ReadStale
<1>8. OutsideInv' BY DEF OutsideInv, ReadStale, outside
<1>. QED BY <1>6, <1>7, <1>8

\* Abandon: refused, or one order given up.
LEMMA AbandonStep == ASSUME Inv, NEW o \in Checkouts, Abandon(o) PROVE Inv'
<1>. DEFINE h == <<"job", o>>
            s == proc[h].seen
<1>. USE DEF Inv
<1>1. h \in Handlers /\ h[2] = o BY DEF Handlers, Roles
<1>2. order[o] # None /\ s \in Seen /\ Fits(o, s.order, s.sub)
  BY <1>1 DEF HandlersInv, Abandon, At, SoundIn, Local
<1>3. CASE UNCHANGED <<order, pay, sub, counters>>
  <2>1. HandlersInv' BY <1>1, <1>3, FinishSteps DEF Abandon
  <2>2. BalanceInv' BY <1>3, BalanceStays
  <2>3. OutsideInv' BY <1>3 DEF OutsideInv, Abandon, outside
  <2>. QED BY <2>1, <2>2, <2>3
<1>4. CASE /\ MayAbandon(o, s)
           /\ order' = AfterOrders({o}, s)
           /\ pay' = AfterPays({o}, s)
           /\ sub' = AfterSubs({o}, s)
           /\ reserved' = reserved - Freed({o}, s)
           /\ redeemed' = redeemed \ ClosedBy({o}, s)
           /\ used' = AfterUsed({o}, s)
  <2>1. /\ Balanced(order', sub', reserved', used', redeemed')
        /\ \A x \in Checkouts : x # o => order'[x] = order[x]
        /\ order'[o] # None
        /\ order[o] \notin Unpaid => order'[o] \notin Unpaid
    BY <1>2, <1>4, OneGivenUp
  <2>2. BalanceInv' BY <2>1 DEF BalanceInv
  <2>3. HandlersInv'
    BY <1>1, <1>2, <2>1, OneOrderMoves, IdleIsSound, IdleIsLocal DEF Finish, Abandon
  <2>4. pay' \in [Checkouts -> Pays] /\ \A x \in Checkouts : x # o => pay'[x] = pay[x]
    BY <1>4 DEF AfterPays, OutsideInv, Pays
  <2>5. OutsideInv' BY <2>1, <2>4 DEF OutsideInv, Abandon, outside
  <2>. QED BY <2>2, <2>3, <2>5
<1>. QED BY <1>3, <1>4 DEF Abandon

\* CancelByCustomer: a single purchase closes and returns what it held.
LEMMA CancelByCustomerStep == ASSUME Inv, NEW o \in Checkouts, CancelByCustomer(o) PROVE Inv'
<1>. USE DEF Inv
<1>1. order \in [Checkouts -> Orders] /\ sub \in [Checkouts -> Subs] /\ order[o] \in Holding
  BY DEF BalanceInv, Balanced, CancelByCustomer, Holding
<1>2. BalanceInv'
  <2>1. used \in Nat BY Finite DEF BalanceInv, Balanced
  <2>2. used' = used - (IF o \in redeemed /\ order[o] = "PAID" THEN 1 ELSE 0)
    BY <2>1 DEF CancelByCustomer, WasPaid
  <2>3. sub' = [sub EXCEPT ![o] = IF o \in Boxes THEN "CANCELLED" ELSE @]
    BY <1>1 DEF CancelByCustomer
  <2>4. Balanced([order EXCEPT ![o] = "CANCELLED"],
                 [sub EXCEPT ![o] = IF o \in Boxes THEN "CANCELLED" ELSE @], reserved - 1,
                 used - (IF o \in redeemed /\ order[o] = "PAID" THEN 1 ELSE 0),
                 redeemed \ {o})
    BY <1>1, ClosingBalances DEF BalanceInv
  <2>. QED BY <2>2, <2>3, <2>4 DEF BalanceInv, CancelByCustomer
<1>3. /\ order'[o] = "CANCELLED" /\ order[o] # None
      /\ \A x \in Checkouts : x # o => order'[x] = order[x]
  BY <1>1 DEF CancelByCustomer, Holding, Unpaid, None
<1>4. HandlersInv'
  <2>1. ASSUME NEW h \in Handlers PROVE SoundIn(proc[h], h, order')
    <3>1. Forward(order, order') BY <1>3 DEF Forward, None, Unpaid
    <3>2. proc[h].pc \in {"draft", "place"} => order'[h[2]] = None
      BY <1>3 DEF HandlersInv, SoundIn, Handlers
    <3>. QED BY <3>1, <3>2, SoundForward DEF HandlersInv
  <2>. QED BY <2>1 DEF HandlersInv, CancelByCustomer
<1>5. OutsideInv' BY <1>3 DEF OutsideInv, CancelByCustomer, outside, None
<1>. QED BY <1>2, <1>4, <1>5
-------------------------------------------------------------------------------
(* The invariant *)

\* Time passes, the date closes, the process dies: no row is written.
LEMMA OutsideSteps ==
  ASSUME Inv, \/ \E o \in Checkouts : Age(o)
              \/ DateCloses \/ Crash \/ UNCHANGED vars
  PROVE  Inv'
<1>. USE DEF Inv
<1>1. ASSUME NEW o \in Checkouts, Age(o) PROVE Inv'
  <2>1. BalanceInv' BY <1>1, BalanceStays DEF Age
  <2>2. HandlersInv' BY <1>1 DEF HandlersInv, Age
  <2>3. OutsideInv' BY <1>1 DEF OutsideInv, Age
  <2>. QED BY <2>1, <2>2, <2>3
<1>2. CASE DateCloses
  <2>1. BalanceInv' BY <1>2, BalanceStays DEF DateCloses
  <2>2. HandlersInv' BY <1>2 DEF HandlersInv, DateCloses
  <2>3. OutsideInv' BY <1>2 DEF OutsideInv, DateCloses
  <2>. QED BY <2>1, <2>2, <2>3
<1>3. CASE Crash
  <2>1. BalanceInv' BY <1>3, BalanceStays DEF Crash
  <2>2. HandlersInv' BY <1>3, IdleIsSound, IdleIsLocal DEF HandlersInv, Crash, Handlers
  <2>3. OutsideInv' BY <1>3 DEF OutsideInv, Crash
  <2>. QED BY <2>1, <2>2, <2>3
<1>4. CASE UNCHANGED vars
  <2>1. BalanceInv' BY <1>4, BalanceStays DEF vars
  <2>2. HandlersInv' BY <1>4 DEF HandlersInv, vars
  <2>3. OutsideInv' BY <1>4 DEF OutsideInv, vars, outside
  <2>. QED BY <2>1, <2>2, <2>3
<1>. QED BY <1>1, <1>2, <1>3, <1>4

\* Every step keeps the invariant.
LEMMA InvStep == Inv /\ [Next]_vars => Inv'
<1>. SUFFICES ASSUME Inv, [Next]_vars PROVE Inv' OBVIOUS
<1>1. ASSUME NEW o \in Checkouts, Request(o) PROVE Inv'
  BY <1>1, ReadDraftStep, PlaceStep, SettleReplyStep, OpenPageStep, InitFailsStep,
     ChargeCardStep DEF Request
<1>2. ASSUME NEW h \in Handlers, Handle(h) PROVE Inv'
  BY <1>2, MarkStep, ReadOrderStep, CommitPaidStep, FailOrderStep DEF Handle
<1>3. ASSUME NEW o \in Checkouts,
             \/ Begin(o) \/ CustomerPays(o) \/ Notified(o) \/ Ask(o)
             \/ ReadStale(o) \/ Abandon(o) \/ CancelByCustomer(o)
      PROVE  Inv'
  BY <1>3, BeginStep, CustomerPaysStep, NotifiedStep, AskStep, ReadStaleStep, AbandonStep,
     CancelByCustomerStep
<1>. QED BY <1>1, <1>2, <1>3, OutsideSteps DEF Next, Handlers

\* The invariant holds in every reachable state.
LEMMA Invariant == Spec => []Inv
<1>. QED BY InvInit, InvStep, PTL DEF Spec
-------------------------------------------------------------------------------
(* What follows from it *)

\* Inv holds more than the types: the statuses of fulfilment do not occur.
LEMMA InvTypes == Inv => TypeOK
<1>. SUFFICES ASSUME Inv PROVE TypeOK OBVIOUS
<1>1. /\ Orders \subseteq OrderStatus \cup {None}
      /\ Subs \subseteq SubStatus \cup {None}
      /\ Pays \subseteq PaymentStatus \cup {None}
  BY DEF Orders, Subs, Pays, OrderStatus, SubStatus, PaymentStatus
<1>2. Local \subseteq [pc : PCs, ok : BOOLEAN, drafts : SUBSET Checkouts, seen : Reading]
  BY <1>1 DEF Local, Seen, Reading
<1>3. /\ order \in [Checkouts -> OrderStatus \cup {None}]
      /\ sub \in [Checkouts -> SubStatus \cup {None}]
      /\ pay \in [Checkouts -> PaymentStatus \cup {None}]
  BY <1>1 DEF Inv, BalanceInv, Balanced, OutsideInv
<1>4. reserved \in Nat /\ used \in Nat /\ redeemed \subseteq Couponed
  BY Finite DEF Inv, BalanceInv, Balanced
<1>5. proc \in [Roles \X Checkouts -> [pc : PCs, ok : BOOLEAN, drafts : SUBSET Checkouts,
                                       seen : Reading]]
  BY <1>2 DEF Inv, HandlersInv, Handlers
<1>. QED BY <1>3, <1>4, <1>5 DEF TypeOK, Inv, OutsideInv

\* Every column and every handler's memory keeps its type, and no counter goes below zero.
THEOREM TypeCorrect == Spec => []TypeOK
BY Invariant, InvTypes, PTL

\* The date counts exactly the checkouts still alive, and never more than it can serve,
\* however placing, paying, giving up and cancelling interleave and wherever the API dies.
THEOREM SlotsCounted == Spec => []SlotsExact
<1>1. ASSUME Inv PROVE SlotsExact
  <2>1. {o \in Checkouts : Live(o)} = Open(order)
    BY <1>1 DEF Inv, BalanceInv, Balanced, Fits, Live, Open, Holding, Subs, None, Unpaid
  <2>. QED BY <1>1, <2>1 DEF Inv, BalanceInv, Balanced, SlotsExact
<1>. QED BY <1>1, Invariant, PTL

\* The coupon counts exactly the paid orders that hold it: every release takes back a use
\* that was counted, and every payment counts once.
THEOREM CouponCounted == Spec => []CouponExact
<1>1. ASSUME Inv PROVE CouponExact
  <2>1. redeemed = {o \in Couponed : order[o] \in Unpaid \cup {"PAID"}}
    BY <1>1, CheckoutsAssumption DEF Inv, BalanceInv, Balanced, Open, Holding
  <2>2. {o \in redeemed : order[o] = "PAID"} = PaidWith(order)
    BY <2>1 DEF PaidWith
  <2>. QED BY <1>1, <2>1, <2>2 DEF Inv, BalanceInv, Balanced, CouponExact
<1>. QED BY <1>1, Invariant, PTL

\* The order of a box is PAID exactly when its subscription is ACTIVE, also when giving up
\* races the payment.
THEOREM PaidAndActive == Spec => []PaidBoxIsActive
<1>1. ASSUME Inv PROVE PaidBoxIsActive
  BY <1>1, CheckoutsAssumption DEF Inv, BalanceInv, Balanced, Fits, PaidBoxIsActive
<1>. QED BY <1>1, Invariant, PTL
===============================================================================
