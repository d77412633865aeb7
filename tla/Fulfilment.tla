----------------------------- MODULE Fulfilment -----------------------------
(***************************************************************************)
(* From a paid order to the doorstep, or back to the customer's account:   *)
(* OrdersService.transition with its callers (one order's status, the      *)
(* customer's cancellation, the bulk desk), CyclesService.adminSetStatus   *)
(* for the boxes that are packed, OpsService.bulkStatus and the refunds of *)
(* PaymentsAdminService and PaymentsService.                               *)
(*                                                                         *)
(* Every order starts paid, with one successful payment of Amount; the     *)
(* order of a box has a charged cycle beside it.  A handler reads, asserts *)
(* and writes in separate steps; `proc` keeps what it read.  How an order  *)
(* comes to be paid is Checkout's and CycleEngine's subject.               *)
(***************************************************************************)
EXTENDS Integers, FiniteSets, Functions, Sequences, StateMachines

CONSTANTS
  Orders,
  Boxes,      \* orders of a subscription's boxes
  Couponed,   \* orders that used the coupon
  Desk,       \* admins
  Refunders,  \* admins who also pay back
  Targets,    \* statuses the desk sets on single orders
  Selections, \* what is selected for a bulk request: sets of <<"cycle" or "order", o>>
  Amount,     \* Payment.amount
  Trusting,   \* does the provider pay back more than it took? (ManualProvider does)
  LostReplies,\* may the provider's answer get lost?
  MaxRefunds  \* bound on refunds of one payment

ASSUME OrdersAssumption == IsFiniteSet(Orders) /\ Boxes \cup Couponed \subseteq Orders
ASSUME AmountAssumption == {Amount, MaxRefunds} \subseteq Nat /\ {Trusting, LostReplies} \subseteq BOOLEAN

VARIABLES
  order,    \* order[o]: Order.status
  cycle,    \* cycle[b]: SubscriptionCycle.status
  freed,    \* freed[o]: slots given back by the order's own transitions
  used,     \* Coupon.usedCount
  redeemed, \* orders with a CouponRedemption row
  pay,      \* pay[o]: Payment.status
  refund,   \* refund[o]: the Refund rows of the payment, in order
  returned, \* returned[o]: what the provider has paid back
  cut,      \* has the delivery date's cutoff passed?
  proc      \* proc[p]: the local state of handler p

orderVars == <<order, freed, used, redeemed>>
moneyVars == <<pay, refund, returned>>
vars == <<orderVars, cycle, moneyVars, cut, proc>>

Customer == "customer"
Procs == Desk \cup {Customer}
None == "NONE"
Idle == [pc |-> "idle", by |-> None, o |-> None, to |-> None, from |-> None,
         todo |-> {}, done |-> {}, failed |-> {}, sum |-> 0, n |-> 0, status |-> None]
dbVars == <<orderVars, cycle, moneyVars, cut>>

\* The desk is not the customer, and a bulk selection is of boxes and of orders.
Items == ({"cycle"} \X Boxes) \cup ({"order"} \X Orders)
ASSUME DeskAssumption == Customer \notin Desk /\ Targets \subseteq OrderStatus
                         /\ UNION Selections \subseteq Items

Init == /\ order = [o \in Orders |-> "PAID"]
        /\ cycle = [b \in Boxes |-> "CHARGED"]
        /\ freed = [o \in Orders |-> 0]
        /\ used = Cardinality(Couponed) /\ redeemed = Couponed
        /\ pay = [o \in Orders |-> "SUCCEEDED"]
        /\ refund = [o \in Orders |-> <<>>] /\ returned = [o \in Orders |-> 0]
        /\ cut = FALSE
        /\ proc = [p \in Procs |-> Idle]

At(p, pc) == proc[p].pc = pc
Goto(p, pc) == proc' = [proc EXCEPT ![p].pc = pc]
\* A request for one row answers; a bulk request notes the row and goes on.
AfterRow(h, ok) ==
  IF h.by \notin {"bulk", "some"} THEN Idle
  ELSE [h EXCEPT !.pc = "apply", !.done = IF ok THEN @ \cup {h.o} ELSE @,
                 !.failed = IF ok THEN @ ELSE @ \cup {h.o}]
Ended(p, ok) == proc' = [proc EXCEPT ![p] = AfterRow(@, ok)]
-------------------------------------------------------------------------------
(* OrdersService.transition, a transaction of its own.                      *)

\* Mutant: a cancelled order gives its slot back only if it was not in preparation.
ReleasesUntouched(from, to) == to \in {"CANCELLED", "REFUNDED"} /\ from = "PAID"

\* shouldReleaseDeliveryDate
Releases(from, to) == to = "CANCELLED" \/ (to = "REFUNDED" /\ from = "PAID")

\* The slot of a box belongs to its cycle.
OwnsSlot(o) == o \notin Boxes

\* updateStatusIf: the update matches only the status that was read.
Matches(o, from) == order[o] = from

\* releaseRedemption; every order here was paid.
FreesCoupon(o, to) == o \in redeemed /\ to \in {"CANCELLED", "REFUNDED"}

TransitionRead(p) ==
  /\ At(p, "read")
  /\ IF CanOrder(order[proc[p].o], proc[p].to)
     THEN proc' = [proc EXCEPT ![p] = [@ EXCEPT !.pc = "write", !.from = order[proc[p].o]]]
     ELSE Ended(p, FALSE)
  /\ UNCHANGED dbVars

TransitionWrite(p) ==
  /\ At(p, "write")
  /\ LET o == proc[p].o  from == proc[p].from  to == proc[p].to IN
     IF Matches(o, from)
     THEN /\ order' = [order EXCEPT ![o] = to]
          /\ freed' = [freed EXCEPT ![o] = IF OwnsSlot(o) /\ Releases(from, to) THEN @ + 1 ELSE @]
          /\ redeemed' = IF FreesCoupon(o, to) THEN redeemed \ {o} ELSE redeemed
          /\ used' = IF FreesCoupon(o, to) /\ used > 0 THEN used - 1 ELSE used
          /\ Ended(p, TRUE)
     ELSE Ended(p, FALSE) /\ UNCHANGED orderVars
  /\ UNCHANGED <<cycle, moneyVars, cut>>

\* PATCH /admin/orders/:id/status
UpdateStatusAdmin(p, o, to) ==
  /\ p \in Desk /\ At(p, "idle") /\ to \in Targets
  /\ proc' = [proc EXCEPT ![p] = [Idle EXCEPT !.pc = "read", !.by = "desk", !.o = o, !.to = to]]
  /\ UNCHANGED dbVars

\* isOrderCustomerCancellable
CustomerCancellable == {"PENDING_PAYMENT", "PAID", "PAYMENT_FAILED"}

\* POST /orders/:orderNo/cancel looks first, and leaves the rest to the transition.
CancelByCustomer(o) ==
  /\ At(Customer, "idle")
  /\ o \notin Boxes /\ order[o] \in CustomerCancellable /\ ~cut
  /\ proc' = [proc EXCEPT ![Customer] = [Idle EXCEPT !.pc = "read", !.by = "customer", !.o = o,
                                                     !.to = "CANCELLED"]]
  /\ UNCHANGED dbVars
-------------------------------------------------------------------------------
(* adminSetStatus of a box that is packed: the cycle is read and asserted   *)
(* before the transaction and written by id; its order follows if it can.   *)

CycleTargets == {"PREPARING", "OUT_FOR_DELIVERY", "DELIVERED"}
\* The transaction holds the subscription's row.
BoxFree(p, b) == \A q \in Procs \ {p} : ~(At(q, "move") /\ proc[q].o = b)

AdminSetStatus(p, b, to) ==
  /\ p \in Desk /\ At(p, "idle") /\ b \in Boxes /\ to \in CycleTargets
  /\ proc' = [proc EXCEPT ![p] = [Idle EXCEPT !.pc = "cycle", !.by = "desk", !.o = b, !.to = to]]
  /\ UNCHANGED dbVars

\* Mutant: the machine is not asked.
CycleReadUnasserted(p) ==
  /\ At(p, "cycle") /\ Goto(p, "lock") /\ UNCHANGED dbVars

CycleRead(p) ==
  /\ At(p, "cycle")
  /\ IF CanCycle(cycle[proc[p].o], proc[p].to) THEN Goto(p, "lock") ELSE Ended(p, FALSE)
  /\ UNCHANGED dbVars

CycleLock(p) ==
  /\ At(p, "lock") /\ BoxFree(p, proc[p].o)
  /\ proc' = [proc EXCEPT ![p] = [@ EXCEPT !.pc = "move", !.from = order[proc[p].o]]]
  /\ UNCHANGED dbVars

\* A refused transition of the order is logged; the cycle moves on.
CycleMove(p) ==
  /\ At(p, "move")
  /\ LET b == proc[p].o  from == proc[p].from  to == proc[p].to IN
     /\ cycle' = [cycle EXCEPT ![b] = to]
     /\ order' = [order EXCEPT ![b] = IF CanOrder(from, to) /\ Matches(b, from) THEN to ELSE @]
  /\ Ended(p, TRUE)
  /\ UNCHANGED <<freed, used, redeemed, moneyVars, cut>>
-------------------------------------------------------------------------------
(* POST /admin/ops/bulk-status, all or nothing: check every row, then apply *)
(* them one by one, the cycles first.  The rows of one check are read       *)
(* together here; it is the gap before the writes that matters.             *)

Applicable(item, to) ==
  IF item[1] = "cycle" THEN to \in CycleTargets /\ CanCycle(cycle[item[2]], to)
  ELSE order[item[2]] # to /\ CanOrder(order[item[2]], to)

AllApplicable(sel, to) == \A item \in sel : Applicable(item, to)

BulkTargets == CycleTargets \cup {"DELIVERY_FAILED"}

\* With skipInvalid the rows that pass the check go ahead without the others.
BulkStatus(p, sel, to, skipInvalid) ==
  /\ p \in Desk /\ At(p, "idle") /\ to \in BulkTargets
  /\ skipInvalid \/ AllApplicable(sel, to)
  /\ proc' = [proc EXCEPT ![p] = [Idle EXCEPT !.pc = "apply", !.to = to,
       !.by = IF skipInvalid THEN "some" ELSE "bulk", !.todo = {x \in sel : Applicable(x, to)}]]
  /\ UNCHANGED dbVars

ApplyNext(p) ==
  /\ At(p, "apply") /\ proc[p].todo # {}
  /\ \E item \in proc[p].todo :
       /\ item[1] = "order" => \A x \in proc[p].todo : x[1] = "order"
       /\ proc' = [proc EXCEPT ![p] = [@ EXCEPT !.pc = IF item[1] = "cycle" THEN "cycle" ELSE "read",
                                                !.o = item[2], !.todo = proc[p].todo \ {item}]]
  /\ UNCHANGED dbVars

BulkReply(p) ==
  /\ At(p, "apply") /\ proc[p].todo = {}
  /\ proc' = [proc EXCEPT ![p] = Idle]
  /\ UNCHANGED dbVars
-------------------------------------------------------------------------------
(* POST /admin/payments/:id/refund: no transaction around its statements.   *)

Succeeded(o) == SumFunction([i \in DOMAIN refund[o] |->
                   IF refund[o][i].status = "SUCCEEDED" THEN refund[o][i].amount ELSE 0])

\* remaining = amount of the payment minus the refunds that succeeded
WithinRemaining(o, amount) == amount <= Amount - Succeeded(o)

\* The reads and the PENDING row, which no other handler counts.
Refund(p, o, amount) ==
  /\ p \in Refunders /\ At(p, "idle") /\ Len(refund[o]) < MaxRefunds
  /\ pay[o] \in {"SUCCEEDED", "PARTIAL_REFUNDED"}
  /\ WithinRemaining(o, amount)
  /\ refund' = [refund EXCEPT ![o] = Append(@, [amount |-> amount, status |-> "PENDING"])]
  /\ proc' = [proc EXCEPT ![p] = [Idle EXCEPT !.pc = "call", !.by = "refund", !.o = o,
       !.from = order[o], !.status = pay[o], !.sum = Succeeded(o), !.n = Len(refund[o]) + 1]]
  /\ UNCHANGED <<orderVars, cycle, pay, returned, cut>>

RefundAmount(p) == refund[proc[p].o][proc[p].n].amount
SetRefund(p, s) == refund' = [refund EXCEPT ![proc[p].o][proc[p].n].status = s]

\* The provider pays back and says so, or its answer is lost; it may refuse.
ProviderPays(p) ==
  /\ At(p, "call")
  /\ Trusting \/ returned[proc[p].o] + RefundAmount(p) <= Amount
  /\ returned' = [returned EXCEPT ![proc[p].o] = @ + RefundAmount(p)]
  /\ Goto(p, "paid") \/ (LostReplies /\ proc' = [proc EXCEPT ![p] = Idle])
  /\ UNCHANGED <<orderVars, cycle, pay, refund, cut>>
ProviderRefuses(p) ==
  /\ At(p, "call")
  /\ SetRefund(p, "FAILED")
  /\ proc' = [proc EXCEPT ![p] = Idle]
  /\ UNCHANGED <<orderVars, cycle, pay, returned, cut>>

RefundSucceeds(p) ==
  /\ At(p, "paid")
  /\ SetRefund(p, "SUCCEEDED")
  /\ Goto(p, "settle")
  /\ UNCHANGED <<orderVars, cycle, pay, returned, cut>>

\* Mutant: the refunds made before are not counted.
TotalOfThis(p) == RefundAmount(p)

RefundedTotal(p) == proc[p].sum + RefundAmount(p)

\* The payment's new status, and with a full refund the order's.
SettleRefund(p) ==
  /\ At(p, "settle")
  /\ LET o == proc[p].o
         target == IF RefundedTotal(p) >= Amount THEN "REFUNDED" ELSE "PARTIAL_REFUNDED" IN
     /\ pay' = [pay EXCEPT ![o] = IF proc[p].status # target THEN target ELSE @]
     /\ proc' = [proc EXCEPT ![p] = IF target = "REFUNDED" /\ CanOrder(proc[p].from, "REFUNDED")
                                    THEN [@ EXCEPT !.pc = "read", !.to = "REFUNDED"] ELSE Idle]
  /\ UNCHANGED <<orderVars, cycle, refund, returned, cut>>

CutoffPasses == ~cut /\ cut' = TRUE /\ UNCHANGED <<orderVars, cycle, moneyVars, proc>>
-------------------------------------------------------------------------------
Continue(p) == \/ TransitionRead(p) \/ TransitionWrite(p)
               \/ CycleRead(p) \/ CycleLock(p) \/ CycleMove(p)
               \/ ApplyNext(p) \/ BulkReply(p)
               \/ ProviderPays(p) \/ ProviderRefuses(p) \/ RefundSucceeds(p) \/ SettleRefund(p)
Next == \/ \E p \in Procs : Continue(p)
        \/ \E p \in Desk, o \in Orders :
             \/ \E to \in Targets : UpdateStatusAdmin(p, o, to)
             \/ \E to \in CycleTargets : AdminSetStatus(p, o, to)
             \/ \E amount \in 1..Amount : Refund(p, o, amount)
        \/ \E p \in Desk, sel \in Selections, to \in BulkTargets, skipInvalid \in BOOLEAN :
             BulkStatus(p, sel, to, skipInvalid)
        \/ \E o \in Orders : CancelByCustomer(o)
        \/ CutoffPasses
Spec == Init /\ [][Next]_vars
-------------------------------------------------------------------------------
TypeOK ==
  /\ order \in [Orders -> OrderStatus] /\ cycle \in [Boxes -> CycleStatus]
  /\ freed \in [Orders -> 0..1]
  /\ used \in 0..Cardinality(Couponed) /\ redeemed \subseteq Couponed
  /\ pay \in [Orders -> PaymentStatus] /\ cut \in BOOLEAN
  /\ \A o \in Orders : /\ Len(refund[o]) <= MaxRefunds /\ returned[o] \in Nat
                       /\ \A i \in DOMAIN refund[o] :
                            refund[o][i] \in [amount : 1..Amount, status : {"PENDING", "SUCCEEDED", "FAILED"}]
  /\ proc \in [Procs -> [pc : {"idle", "read", "write", "cycle", "lock", "move", "apply", "call",
                               "paid", "settle"},
                         by : {None, "desk", "customer", "bulk", "some", "refund"},
                         o : Orders \cup {None}, to : OrderStatus \cup {None},
                         from : OrderStatus \cup {None}, todo : SUBSET UNION Selections,
                         done : SUBSET Orders, failed : SUBSET Orders, sum : 0..Amount,
                         n : 0..MaxRefunds, status : PaymentStatus \cup {None}]]

\* However the desk, the customer and the refunds meet, the slot of a single purchase is given
\* back once, and the purchase is closed by then (a box's slot belongs to its cycle).
SlotBackOnce == \A o \in Orders :
  /\ order[o] = "CANCELLED" /\ OwnsSlot(o) => freed[o] = 1
  /\ freed[o] > 0 => OwnsSlot(o) /\ order[o] \in {"CANCELLED", "REFUNDED"}

\* The coupon counts the orders that were paid and not given up, each once.
CouponCounted == /\ redeemed = {o \in Couponed : order[o] \notin {"CANCELLED", "REFUNDED"}}
                 /\ used = Cardinality(redeemed)

Refunding(o) == \E p \in Procs : proc[p].o = o /\ proc[p].pc \in {"call", "paid", "settle"}

\* When no refund is under way: the money paid back is what the refunds say, never more than was
\* taken, and the payment's status tells a part from the whole.
RefundsAddUp == \A o \in Orders : ~Refunding(o) =>
  /\ returned[o] = Succeeded(o) /\ returned[o] <= Amount
  /\ pay[o] = (IF returned[o] = 0 THEN "SUCCEEDED"
               ELSE IF returned[o] < Amount THEN "PARTIAL_REFUNDED" ELSE "REFUNDED")

\* A box moves along the table of its machine.
BoxStepsLegal ==
  [][\A b \in Boxes : cycle'[b] # cycle[b] => CanCycle(cycle[b], cycle'[b])]_vars

\* Whoever closes an order, it gives its slot and its coupon back once (OrdersService.transition).
ClosedOnce == TypeOK /\ SlotBackOnce /\ CouponCounted
=============================================================================
