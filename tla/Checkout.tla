------------------------------ MODULE Checkout ------------------------------
(***************************************************************************)
(* From placing an order to its payment or its abandonment: CheckoutService,*)
(* CheckoutCompletionService, OrdersService.transition, the coupon and the  *)
(* delivery-date counters, for the checkouts of one customer on one         *)
(* delivery date.                                                           *)
(*                                                                          *)
(* A checkout reads prices, the coupon and the date first, then writes      *)
(* everything in one READ COMMITTED transaction, then calls the provider.   *)
(* The outcome comes from the reply, from the provider's notification       *)
(* ("psp") or from payments:reconcile ("job"); the same job, and a new      *)
(* checkout, give up what stays unpaid.  All of them act on records they    *)
(* read earlier: a handler <<role, o>> keeps in proc what it read (seen).   *)
(* A box checkout creates a subscription with its first cycle; the cycle    *)
(* stays SCHEDULED here and closes with the subscription, so `sub` stands   *)
(* for both.  Amounts, consents and box contents are left out.              *)
(***************************************************************************)
EXTENDS Integers, FiniteSets, StateMachines

CONSTANTS
  Checkouts,  \* the customer's checkouts; each gets its own order number
  Boxes,      \* those with a box: they create a subscription
  Couponed,   \* those that use the one coupon
  Capacity,   \* DeliveryDate.capacity
  UsageLimit, \* Coupon.usageLimit
  MaxCrashes  \* bound on crashes of the API process

ASSUME CheckoutsAssumption == IsFiniteSet(Checkouts) /\ Boxes \subseteq Checkouts
                              /\ Couponed \subseteq Checkouts
ASSUME LimitsAssumption == {Capacity, UsageLimit, MaxCrashes} \subseteq Nat

VARIABLES
  order,    \* order[o]: Order.status
  pay,      \* pay[o]: status of the order's CHECKOUT payment
  sub,      \* sub[o]: Subscription.status of a box checkout
  reserved, \* DeliveryDate.reserved
  used,     \* Coupon.usedCount
  redeemed, \* orders with a CouponRedemption row
  remote,   \* remote[o]: what the provider knows
  acked,    \* outcomes whose notification was answered with OK
  age,      \* age[o]: 0 new, 1 older than 10-30 minutes, 2 older than a day
  date,     \* the delivery date: "open", "closed" by an admin, or "cut" (cutoff passed)
  proc,     \* proc[h]: the local state of handler h
  crashes

counters == <<reserved, used, redeemed>>
outside == <<remote, acked, age, date, crashes>>
vars == <<order, pay, sub, counters, outside, proc>>

Roles == {"web", "psp", "job"}
None == "NONE"
Unpaid == {"PENDING_PAYMENT", "PAYMENT_FAILED"}
OpenPayment == {"PENDING", "REQUIRES_3DS"}
Nothing == [pay |-> None, order |-> None, sub |-> None]
Idle == [pc |-> "idle", ok |-> FALSE, drafts |-> {}, seen |-> Nothing]

Init == /\ order = [o \in Checkouts |-> None] /\ pay = order /\ sub = order
        /\ reserved = 0 /\ used = 0 /\ redeemed = {}
        /\ remote = order /\ acked = {}
        /\ age = [o \in Checkouts |-> 0] /\ date = "open" /\ crashes = 0
        /\ proc = [h \in Roles \X Checkouts |-> Idle]

At(h, pc) == proc[h].pc = pc
Goto(h, pc) == proc' = [proc EXCEPT ![h].pc = pc]
Finish(h) == proc' = [proc EXCEPT ![h] = Idle]
\* What a handler reads of an order: findRecord with its payments and subscription.
Read(o) == [pay |-> pay[o], order |-> order[o], sub |-> sub[o]]
\* The provider stops repeating what was answered with OK.
Ack(h) == acked' = IF h[1] = "psp" THEN acked \cup {h[2]} ELSE acked
-------------------------------------------------------------------------------
(* abandonOrder: open payments expire, the order closes, the slot and the   *)
(* coupon go back.  Every choice is made on `s`, read earlier; the status   *)
(* asserts and the conditional update look at the rows again.               *)

GivesUp(s) == s.order \in Unpaid
CancelsSub(o, s) == o \in Boxes /\ s.sub = "PENDING"
\* markExpired looks once more and throws when an outcome arrived since; the model allows it
\* to have looked before that outcome, too.
Settled(o, s) == s.pay \in OpenPayment /\ pay[o] \in {"SUCCEEDED", "FAILED"}
MayAbandon(o, s) == GivesUp(s) => IF CancelsSub(o, s) THEN CanSub(sub[o], "CANCELLED")
                                  ELSE CanOrder(order[o], "CANCELLED")

\* Mutant: an order that was paid meanwhile is left alone.
KeepsPaid(o, s) == IF ~GivesUp(s) \/ order[o] = "PAID" THEN order[o] ELSE "CANCELLED"

\* cancelSubscription refunds a first box that was paid meanwhile.
Ended(o, s) == IF ~GivesUp(s) THEN order[o]
               ELSE IF CancelsSub(o, s)
                    THEN IF order[o] = "PAID" THEN "REFUNDED"
                         ELSE IF order[o] \in Unpaid THEN "CANCELLED" ELSE order[o]
                    ELSE "CANCELLED"

\* Mutant: cancelSubscription leaves the slot to the order, which is not a single purchase.
FreesSingles(o, s) == GivesUp(s) /\ o \notin Boxes

\* The slot belongs to the cycle of a box, and to the order of a single purchase.
Frees(o, s) == GivesUp(s) /\ (CancelsSub(o, s) \/ o \notin Boxes)

\* Mutant: every release takes a use back.
AlwaysPaid(o) == TRUE

\* releaseRedemption's wasPaid: the order has a paidAt.
WasPaid(o) == order[o] = "PAID"

AfterOrders(D, s) == [x \in Checkouts |-> IF x \in D THEN Ended(x, s) ELSE order[x]]
AfterPays(D, s) == [x \in Checkouts |->
                      IF x \in D /\ s.pay \in OpenPayment THEN "EXPIRED" ELSE pay[x]]
AfterSubs(D, s) == [x \in Checkouts |->
                      IF x \in D /\ GivesUp(s) /\ CancelsSub(x, s) THEN "CANCELLED" ELSE sub[x]]
Freed(D, s) == Cardinality({x \in D : Frees(x, s)})
ClosedBy(D, s) == {x \in D : Ended(x, s) # order[x]}

\* releaseRedemption for what an abandonment closes.
AfterUsed(D, s) == used - Cardinality({x \in ClosedBy(D, s) \cap redeemed : WasPaid(x)})
-------------------------------------------------------------------------------
(* POST /checkout *)

Web(o) == <<"web", o>>

\* CouponsService.validate, outside the transaction.
CouponValid(o) == o \in Couponed => used < UsageLimit

\* Steps 1-6: the date is open and not full, the coupon is valid.
Begin(o) ==
  /\ At(Web(o), "idle") /\ order[o] = None
  /\ date = "open" /\ reserved < Capacity
  /\ CouponValid(o)
  /\ Goto(Web(o), IF o \in Boxes THEN "draft" ELSE "place")
  /\ UNCHANGED <<order, pay, sub, counters, outside>>

Drafts == {q \in Boxes : sub[q] = "PENDING"}
Occupying(D) == \E x \in Boxes \ D : sub[x] \in {"PENDING", "ACTIVE"}
\* cleanupPendingSubscription refuses while the draft's payment may still be under way.
InProgress(q) == order[q] = "PAID" \/ (pay[q] \in OpenPayment /\ age[q] = 0)

\* In the transaction: look for an unpaid draft of this customer, count the subscriptions.
ReadDraft(o) ==
  /\ At(Web(o), "draft")
  /\ \E D \in IF Drafts = {} THEN {{}} ELSE {{q} : q \in Drafts} :
       IF Occupying(D) \/ \E q \in D : InProgress(q)
       THEN Finish(Web(o))
       ELSE \E s \in IF D = {} THEN {Nothing} ELSE {Read(q) : q \in D} :
              proc' = [proc EXCEPT ![Web(o)] = [@ EXCEPT !.pc = "place", !.drafts = D, !.seen = s]]
  /\ UNCHANGED <<order, pay, sub, counters, outside>>

\* ... and its writes: the draft goes, subscription, order, slot, coupon row and payment come.
\* The slot is taken by a conditional UPDATE that looks at the status and the capacity; the
\* cutoff is compared with the time the request began.  Any refusal rolls everything back.
Place(o) ==
  /\ At(Web(o), "place")
  /\ LET D == proc[Web(o)].drafts
         s == proc[Web(o)].seen IN
     \/ /\ date # "closed" /\ reserved - Freed(D, s) < Capacity
        /\ \A q \in D : MayAbandon(q, s)
        /\ order' = [AfterOrders(D, s) EXCEPT ![o] = "PENDING_PAYMENT"]
        /\ pay' = [AfterPays(D, s) EXCEPT ![o] = "PENDING"]
        /\ sub' = [AfterSubs(D, s) EXCEPT ![o] = IF o \in Boxes THEN "PENDING" ELSE None]
        /\ reserved' = reserved - Freed(D, s) + 1
        /\ redeemed' = (redeemed \ ClosedBy(D, s)) \cup (Couponed \cap {o})
        /\ used' = AfterUsed(D, s)
        /\ proc' = [proc EXCEPT ![Web(o)] = [Idle EXCEPT !.pc = "start"]]
        /\ UNCHANGED outside
     \/ /\ \/ date # "open" \/ reserved - Freed(D, s) >= Capacity
           \/ \E q \in D : ~MayAbandon(q, s) \/ Settled(q, s)
        /\ Finish(Web(o))
        /\ UNCHANGED <<order, pay, sub, counters, outside>>

\* startPayment, hosted page: the token is stored and the customer can pay.
OpenPage(o) ==
  /\ At(Web(o), "start")
  /\ remote' = [remote EXCEPT ![o] = "OPEN"]
  /\ pay' = [pay EXCEPT ![o] = "REQUIRES_3DS"]
  /\ Finish(Web(o))
  /\ UNCHANGED <<order, sub, counters, acked, age, date, crashes>>

\* ... which may fail before there is a page: the payment settles as FAILED.
InitFails(o) ==
  /\ At(Web(o), "start")
  /\ Goto(Web(o), "settle")
  /\ UNCHANGED <<order, pay, sub, counters, outside>>

\* startPayment, stored card.  A refusal may stand for a charge the bank confirms later
\* (wait_callback); an exception leaves the payment PENDING.
ChargeCard(o) ==
  /\ At(Web(o), "start")
  /\ \E charged \in BOOLEAN, reply \in {"ok", "refused", "lost"} :
       /\ reply = "ok" => charged
       /\ remote' = [remote EXCEPT ![o] = IF charged THEN "SUCCEEDED" ELSE "FAILED"]
       /\ IF reply = "lost" THEN Finish(Web(o))
          ELSE proc' = [proc EXCEPT ![Web(o)] = [@ EXCEPT !.pc = "settle", !.ok = reply = "ok"]]
  /\ UNCHANGED <<order, pay, sub, counters, acked, age, date, crashes>>

\* The customer pays, or fails to, while the page lives (timeout_limit is 30 minutes).
CustomerPays(o) ==
  /\ remote[o] = "OPEN" /\ age[o] < 2
  /\ \E outcome \in {"SUCCEEDED", "FAILED"} : remote' = [remote EXCEPT ![o] = outcome]
  /\ UNCHANGED <<order, pay, sub, counters, acked, age, date, crashes, proc>>
-------------------------------------------------------------------------------
(* settlePayment and the outcome listener, the same code for every caller.  *)

\* markSucceeded / markFailed read the payment: settled already, to be written, or refused
\* (INVALID_TRANSITION, which the callback answers with OK, like a failure after a success).
\* The checkout request holds the payment as it was created, so a second failure is refused.
SettleAs(h, ok) ==
  LET s == pay[h[2]]
      to == IF ok THEN "SUCCEEDED" ELSE "FAILED"
      next == IF s = to THEN IF ok THEN "read" ELSE "fail" ELSE "mark" IN
  IF (s = to /\ (ok \/ h[1] # "web")) \/ CanPayment(s, to)
  THEN proc' = [proc EXCEPT ![h] = [Idle EXCEPT !.pc = next, !.ok = ok]] /\ UNCHANGED acked
  ELSE Finish(h) /\ Ack(h)

SettleReply(o) ==
  /\ At(Web(o), "settle")
  /\ SettleAs(Web(o), proc[Web(o)].ok)
  /\ UNCHANGED <<order, pay, sub, counters, remote, age, date, crashes>>

\* A delivery of the provider's notification.
Notified(o) ==
  /\ At(<<"psp", o>>, "idle") /\ o \notin acked
  /\ remote[o] \in {"SUCCEEDED", "FAILED"}
  /\ SettleAs(<<"psp", o>>, remote[o] = "SUCCEEDED")
  /\ UNCHANGED <<order, pay, sub, counters, remote, age, date, crashes>>

\* The job works on one order at a time.
JobIdle == \A o \in Checkouts : At(<<"job", o>>, "idle")

\* reconcile: the provider is asked about open payments by their page's token.  Whether it
\* knows a payment by that is not assumed: it may stay silent for ever.
Ask(o) ==
  /\ JobIdle /\ age[o] > 0 /\ pay[o] = "REQUIRES_3DS"
  /\ remote[o] \in {"SUCCEEDED", "FAILED"}
  /\ SettleAs(<<"job", o>>, remote[o] = "SUCCEEDED")
  /\ UNCHANGED <<order, pay, sub, counters, remote, age, date, crashes>>

\* The payment row is written by id, whatever became of it since it was read.
Mark(h) ==
  /\ At(h, "mark")
  /\ pay' = [pay EXCEPT ![h[2]] = IF proc[h].ok THEN "SUCCEEDED" ELSE "FAILED"]
  /\ Goto(h, IF proc[h].ok THEN "read" ELSE "fail")
  /\ UNCHANGED <<order, sub, counters, outside>>

\* onSucceeded reads the order before its transaction.
ReadOrder(h) ==
  /\ At(h, "read")
  /\ proc' = [proc EXCEPT ![h].pc = "commit", ![h].seen.order = order[h[2]]]
  /\ UNCHANGED <<order, pay, sub, counters, outside>>

\* activate, under the subscription lock; a cancelled draft is logged and left.
Activated(s) == IF s = "PENDING" THEN "ACTIVE" ELSE s

\* Mutant: every delivery of a success counts the coupon.
CountsAlways(was) == TRUE

\* confirmRedemption belongs to the transition into PAID.
CountsCoupon(was) == was # "PAID"

\* onSucceeded: PENDING_PAYMENT (or PAYMENT_FAILED by way of it) becomes PAID and the
\* subscription ACTIVE; PAID only looks at the subscription; a closed order is logged.  A row
\* that moved since the read throws: nothing is written and the notification comes again.
CommitPaid(h) ==
  LET o == h[2]
      was == proc[h].seen.order IN
  /\ At(h, "commit")
  /\ Finish(h)
  /\ \/ /\ was \in Unpaid \cup {"PAID"} /\ (was \in Unpaid => order[o] = was)
        /\ order' = IF was \in Unpaid THEN [order EXCEPT ![o] = "PAID"] ELSE order
        /\ sub' = [sub EXCEPT ![o] = Activated(@)]
        /\ used' = IF o \in redeemed /\ CountsCoupon(was) THEN used + 1 ELSE used
        /\ Ack(h)
        /\ UNCHANGED <<pay, reserved, redeemed>>
     \/ /\ was \in Unpaid /\ order[o] # was
        /\ UNCHANGED <<order, pay, sub, counters, acked>>
     \/ /\ was \notin Unpaid \cup {"PAID"}
        /\ Ack(h)
        /\ UNCHANGED <<order, pay, sub, counters>>
  /\ UNCHANGED <<remote, age, date, crashes>>

\* onFailed: PENDING_PAYMENT becomes PAYMENT_FAILED; the slot and the draft stay.
FailOrder(h) ==
  /\ At(h, "fail")
  /\ order' = [order EXCEPT ![h[2]] = IF @ = "PENDING_PAYMENT" THEN "PAYMENT_FAILED" ELSE @]
  /\ Finish(h) /\ Ack(h)
  /\ UNCHANGED <<pay, sub, counters, remote, age, date, crashes>>
-------------------------------------------------------------------------------
(* Giving up *)

\* Mutant: orders whose payment failed are forgotten.
StaleOpen(o) == age[o] = 2 /\ pay[o] \in OpenPayment

\* What the job gives up after a day: open payments the provider does not answer for, and
\* unpaid orders without a successful payment.
Stale(o) == age[o] = 2 /\ \/ pay[o] \in OpenPayment
                          \/ order[o] \in Unpaid /\ pay[o] # "SUCCEEDED"

ReadStale(o) ==
  /\ JobIdle /\ Stale(o)
  /\ proc' = [proc EXCEPT ![<<"job", o>>] = [Idle EXCEPT !.pc = "abandon", !.seen = Read(o)]]
  /\ UNCHANGED <<order, pay, sub, counters, outside>>

Abandon(o) ==
  LET s == proc[<<"job", o>>].seen IN
  /\ At(<<"job", o>>, "abandon")
  /\ Finish(<<"job", o>>)
  /\ \/ /\ MayAbandon(o, s)
        /\ order' = AfterOrders({o}, s)
        /\ pay' = AfterPays({o}, s)
        /\ sub' = AfterSubs({o}, s)
        /\ reserved' = reserved - Freed({o}, s)
        /\ redeemed' = redeemed \ ClosedBy({o}, s)
        /\ used' = AfterUsed({o}, s)
     \/ (~MayAbandon(o, s) \/ Settled(o, s)) /\ UNCHANGED <<order, pay, sub, counters>>
  /\ UNCHANGED outside

\* cancelByCustomer: a single purchase, before the cutoff; the payment is left as it is.
CancelByCustomer(o) ==
  /\ o \notin Boxes /\ date # "cut"
  /\ order[o] \in Unpaid \cup {"PAID"}
  /\ order' = [order EXCEPT ![o] = "CANCELLED"]
  /\ reserved' = reserved - 1
  /\ redeemed' = redeemed \ {o}
  /\ used' = IF o \in redeemed /\ WasPaid(o) THEN used - 1 ELSE used
  /\ UNCHANGED <<pay, sub, outside, proc>>
-------------------------------------------------------------------------------
\* Time: a request is over long before its order is ten minutes old.
Age(o) ==
  /\ order[o] # None /\ At(Web(o), "idle") /\ age[o] < 2
  /\ age' = [age EXCEPT ![o] = @ + 1]
  /\ UNCHANGED <<order, pay, sub, counters, remote, acked, date, crashes, proc>>

\* The cutoff of the delivery date passes, or an admin closes the date.
DateCloses ==
  /\ date = "open" /\ date' \in {"cut", "closed"}
  /\ UNCHANGED <<order, pay, sub, counters, remote, acked, age, crashes, proc>>

\* The API process dies with every handler; what was committed stays.
Crash ==
  /\ crashes < MaxCrashes /\ \E h \in Roles \X Checkouts : proc[h] # Idle
  /\ proc' = [h \in Roles \X Checkouts |-> Idle] /\ crashes' = crashes + 1
  /\ UNCHANGED <<order, pay, sub, counters, remote, acked, age, date>>

Request(o) == \/ ReadDraft(o) \/ Place(o) \/ SettleReply(o)
              \/ OpenPage(o) \/ InitFails(o) \/ ChargeCard(o)
Handle(h) == Mark(h) \/ ReadOrder(h) \/ CommitPaid(h) \/ FailOrder(h)

Next == \/ \E o \in Checkouts : \/ Begin(o) \/ Request(o) \/ CustomerPays(o) \/ Notified(o)
                                \/ Ask(o) \/ ReadStale(o) \/ Abandon(o)
                                \/ CancelByCustomer(o) \/ Age(o)
        \/ \E h \in Roles \X Checkouts : Handle(h)
        \/ DateCloses \/ Crash

Spec == Init /\ [][Next]_vars

\* A handler runs on, the provider repeats its notification until OK, time passes and
\* payments:reconcile serves every stale order.  The customer owes nothing.
Fairness ==
  /\ \A o \in Checkouts : /\ WF_vars(Request(o)) /\ WF_vars(Notified(o)) /\ WF_vars(Age(o))
                          /\ SF_vars(ReadStale(o)) /\ WF_vars(Abandon(o))
  /\ \A h \in Roles \X Checkouts : WF_vars(Handle(h))

FairSpec == Spec /\ Fairness
-------------------------------------------------------------------------------
PCs == {"idle", "draft", "place", "start", "settle", "mark", "read", "commit", "fail", "abandon"}
Reading == [pay : PaymentStatus \cup {None}, order : OrderStatus \cup {None},
            sub : SubStatus \cup {None}]

\* Columns hold values of their enums, the counters never go below zero (the code clamps
\* them, which would hide a double release), and handlers remember only what they read.
TypeOK ==
  /\ order \in [Checkouts -> OrderStatus \cup {None}]
  /\ pay \in [Checkouts -> PaymentStatus \cup {None}]
  /\ sub \in [Checkouts -> SubStatus \cup {None}]
  /\ reserved \in Nat /\ used \in Nat /\ redeemed \subseteq Couponed
  /\ remote \in [Checkouts -> {None, "OPEN", "SUCCEEDED", "FAILED"}]
  /\ acked \subseteq Checkouts
  /\ age \in [Checkouts -> 0..2] /\ date \in {"open", "closed", "cut"} /\ crashes \in Nat
  /\ proc \in [Roles \X Checkouts -> [pc : PCs, ok : BOOLEAN, drafts : SUBSET Checkouts,
                                      seen : Reading]]

Live(o) == IF o \in Boxes THEN sub[o] \in {"PENDING", "ACTIVE"}
           ELSE order[o] \in Unpaid \cup {"PAID"}

\* Whatever mix of callbacks, jobs, retried checkouts and customer cancellations ran, the
\* date counts exactly the checkouts still alive, and never more than it can serve.
SlotsExact == /\ reserved = Cardinality({o \in Checkouts : Live(o)})
              /\ reserved <= Capacity

\* The coupon counts exactly the paid orders that hold it, and a closed order lets it go.
CouponExact == /\ redeemed = {o \in Couponed : order[o] \in Unpaid \cup {"PAID"}}
               /\ used = Cardinality({o \in redeemed : order[o] = "PAID"})

\* A box is delivered to whom paid for it, and whoever paid gets one: the order of a box is
\* PAID exactly when its subscription is ACTIVE, also when giving up races the payment.
PaidBoxIsActive == \A o \in Boxes : order[o] = "PAID" <=> sub[o] = "ACTIVE"

\* A checkout nobody completes gives its slot, coupon and subscription back.
UnpaidEnds == \A o \in Checkouts : order[o] \in Unpaid ~> order[o] \notin Unpaid

\* docs/adr/0008: one subscription at a time, unpaid drafts included.
OneSubscription ==
  Cardinality({o \in Boxes : sub[o] \in {"PENDING", "ACTIVE"}}) <= 1
===============================================================================
