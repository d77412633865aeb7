----------------------------- MODULE CycleEngine -----------------------------
(***************************************************************************)
(* The collection engine of one subscription: CyclesService with its       *)
(* repository, the charge strategies and the payment callback.             *)
(*                                                                         *)
(* Every cycle is locked at its cutoff, charged from a stored card or by a *)
(* payment link, retried (dunning) and either CHARGED or skipped as UNPAID *)
(* with its delivery slot given back.  The code runs as asynchronous       *)
(* handlers of one Node process over READ COMMITTED transactions, so a     *)
(* handler is a process `p` with a program counter here, and one action is *)
(* one of: a transaction that takes the row lock it depends on, the READ   *)
(* of a transaction (or handler) that does not, its COMMIT, one call of    *)
(* the payment provider.  Between a read and a commit other handlers run,  *)
(* and the commit still uses what the read saw (`from`, `sub`, `failed`).  *)
(* Instants are abstracted: "due" may become true at any moment, and the   *)
(* 08:00 limit of the delivery day is the flag `late`.                     *)
(***************************************************************************)
EXTENDS Integers, FiniteSets, StateMachines

CONSTANTS
  Cycles,        \* cycle numbers of the subscription; cycle 1 was prepaid at checkout
  Admins,        \* concurrent admin requests
  AdminTargets,  \* statuses an admin may set by hand
  AdminCharging, \* whether admins use charge / send-payment-link
  Strategy,      \* Subscription.chargeStrategy
  RetrySlots,    \* entries of dunning.retryHours that fall before the 08:00 limit
  PastDueAfter,  \* dunning.pastDueAfterUnpaid
  OneTime,       \* Subscription.isOneTime
  LostReplies,   \* whether a provider call may charge the card and lose the reply
  MaxAttempt,    \* bound on the attempt numbers of one cycle
  MaxDrift,      \* bound on un-skips: how far slots may have drifted from the truth
  MaxCrashes     \* bound on crashes of the API process

ASSUME CyclesAssumption == Cycles \subseteq Nat \ {0}
ASSUME AdminsAssumption == Admins \cap {"lock", "retry", "psp"} = {}
ASSUME TargetsAssumption == AdminTargets \subseteq CycleStatus
ASSUME BoundsAssumption == /\ RetrySlots \in Nat
                           /\ PastDueAfter \in Nat \ {0}
                           /\ MaxAttempt \in Nat \ {0}
                           /\ MaxDrift \in Nat
                           /\ MaxCrashes \in Nat
ASSUME SwitchesAssumption == /\ Strategy \in {"MERCHANT_INITIATED", "PAYMENT_LINK"}
                             /\ {AdminCharging, OneTime, LostReplies} \subseteq BOOLEAN

VARIABLES
  sub,      \* Subscription.status
  failed,   \* Subscription.failedCycles
  card,     \* an active stored card is attached to the subscription
  late,     \* late[c]: 08:00 of the delivery day of c has passed
  cycle,    \* cycle[c]: status, skipSource, retryCount, nextRetryAt set?
  order,    \* order[c]: status of cycle.order
  delta,    \* delta[c]: status of cycle.deltaOrder
  pay,      \* pay[id]: status of the Payment with that conversationId
  slots,    \* slots[c]: net DeliveryDate reservations taken for c
  captures, \* captures[id]: times the provider moved money for id
  notified, \* webhook deliveries recorded as PROCESSED
  proc,     \* proc[p]: the local state of handler p
  crashes

subVars == <<sub, failed>>
orderVars == <<order, delta>>
pspVars == <<captures, notified>>
envVars == <<card, late, crashes>>
\* Everything but the local states of the handlers.
dbVars == <<subVars, card, late, cycle, orderVars, pay, slots, pspVars, crashes>>
vars == <<sub, failed, card, late, cycle, order, delta, pay, slots, captures,
          notified, proc, crashes>>

Procs == {"lock", "retry", "psp"} \cup Admins
\* A conversationId: cyc_<cycle>_<n> for stored-card charges, lnk_<cycle>_<n> for links.
PayIds == Cycles \X {"cyc", "lnk"} \X (1..MaxAttempt)
None == "NONE"

Idle == [pc |-> "idle", path |-> None, c |-> 0, n |-> 0, kind |-> "cyc",
         from |-> None, sub |-> None, failed |-> 0, ok |-> FALSE]

Init == /\ sub = "ACTIVE" /\ failed = 0 /\ card \in BOOLEAN
        /\ late = [c \in Cycles |-> FALSE]
        /\ cycle = [c \in Cycles |-> [status |-> "SCHEDULED", skip |-> None,
                                      retry |-> 0, retryAt |-> FALSE]]
        /\ order = [c \in Cycles |-> IF c = 1 THEN "PAID" ELSE None]
        /\ delta = [c \in Cycles |-> None]
        /\ pay = [id \in PayIds |-> None]
        /\ slots = [c \in Cycles |-> 1]
        /\ captures = [id \in PayIds |-> 0]
        /\ notified = {}
        /\ proc = [p \in Procs |-> Idle]
        /\ crashes = 0
-------------------------------------------------------------------------------
(* Helpers shared by the handlers. *)

Status(c) == cycle[c].status
SetStatus(c, s) == cycle' = [cycle EXCEPT ![c].status = s]
Finish(p) == proc' = [proc EXCEPT ![p] = Idle]
Goto(p, pc) == proc' = [proc EXCEPT ![p].pc = pc]

\* A failed commit rolls everything back: the handler just ends.
Abort(p) == Finish(p) /\ UNCHANGED dbVars

\* Mutant: the delta order is never told apart from the prepaid one.
NeverDelta(c) == FALSE

\* The order the engine charges: cycle 1 with a delta order charges the delta.
IsDelta(c) == c = 1 /\ delta[c] # None
ChargedOrder(c) == IF IsDelta(c) THEN delta[c] ELSE order[c]

\* Mutant: a cancelled order can be paid.
PayableOrCancelled == {None, "PAID", "PENDING_PAYMENT", "PAYMENT_FAILED", "CANCELLED"}

\* payOrder: PAID is a no-op, PAYMENT_FAILED goes through PENDING_PAYMENT.
Payable == {None, "PAID", "PENDING_PAYMENT", "PAYMENT_FAILED"}
Paid(s) == IF s = None THEN None ELSE "PAID"

\* Mutant: an order that refuses payment is skipped over instead of failing the commit.
PayOrderIfPayable(c) == IF ~IsDelta(c) /\ ChargedOrder(c) \in Payable
                        THEN order' = [order EXCEPT ![c] = Paid(@)] /\ UNCHANGED delta
                        ELSE UNCHANGED orderVars

PayOrder(c) == /\ ChargedOrder(c) \in Payable
               /\ IF IsDelta(c)
                  THEN delta' = [delta EXCEPT ![c] = Paid(@)] /\ UNCHANGED order
                  ELSE order' = [order EXCEPT ![c] = Paid(@)] /\ UNCHANGED delta

\* An order that a failed collection closes: PENDING_PAYMENT, PAYMENT_FAILED, CANCELLED.
AfterFailure(s) == IF s = "PENDING_PAYMENT" THEN "PAYMENT_FAILED" ELSE s
Closable(s) == s \in {None, "CANCELLED"} \/ CanOrder(AfterFailure(s), "CANCELLED")

\* Mutant: the cycle's status is written to the order.
ClosedAsSkipped(s) == IF s = None THEN None ELSE "SKIPPED"

Closed(s) == IF s = None THEN None ELSE "CANCELLED"

IsLink(id) == id[2] = "lnk"

\* Mutant: links are left for their own expiry time.
KeepLinks(c) == pay

\* findOpenLinkPayments and expirePaymentLink, one row after the other.
ExpireLinks(c) == [id \in PayIds |-> IF id[1] = c /\ IsLink(id) /\ pay[id] = "PENDING"
                                     THEN "EXPIRED" ELSE pay[id]]
\* issuePaymentLink: the first attempt number without a link row (the code probes from the
\* caller's number on; which free number a link takes changes nothing, so gaps are left out).
Fresh(c, n) == /\ pay[<<c, "lnk", n>>] = None
               /\ \A m \in 1..(n - 1) : pay[<<c, "lnk", m>>] # None
PaymentsOf(c) == {id \in PayIds : id[1] = c /\ pay[id] # None}

\* Mutant: the charge strategy is ignored.
UsesAnyCard == card

\* The stored card of chargeLocked / retryCycle; without it the engine sends a link.
UsesCard == Strategy = "MERCHANT_INITIATED" /\ card

\* adminSetStatus(CHARGED) holds the subscription row from its lock to its commit.
HoldsSub(p) == proc[p].pc = "commitCharged" /\ proc[p].path = "set"
SubFree(p) == \A q \in Procs \ {p} : ~HoldsSub(q)
NobodyHoldsSub == \A q \in Procs : ~HoldsSub(q)
-------------------------------------------------------------------------------
(* Dunning: scheduleRetryOrSkip and markUnpaidSkipped, given the cycle's    *)
(* order after the failure and what the transaction read of the            *)
(* subscription.                                                           *)

HasRetry(c) == cycle[c].retry < RetrySlots

MarkUnpaidSkipped(c, seenSub, seenFailed) ==
  /\ Closable(order[c])
  /\ cycle' = [cycle EXCEPT ![c] = [@ EXCEPT !.status = "SKIPPED", !.skip = "UNPAID",
                                             !.retryAt = FALSE]]
  /\ order' = [order EXCEPT ![c] = Closed(@)]
  /\ pay' = ExpireLinks(c)
  /\ slots' = [slots EXCEPT ![c] = @ - 1]
  /\ failed' = seenFailed + 1
  /\ sub' = IF seenFailed + 1 >= PastDueAfter /\ seenSub = "ACTIVE" THEN "PAST_DUE" ELSE sub

\* markFailed of a cycle with its own order: UNPAID with a retry, or skipped at once.
FailCycle(c, payments) ==
  \/ /\ HasRetry(c)
     /\ cycle' = [cycle EXCEPT ![c] = [@ EXCEPT !.status = "UNPAID", !.retryAt = TRUE]]
     /\ order' = [order EXCEPT ![c] = AfterFailure(@)]
     /\ pay' = payments
     /\ UNCHANGED <<slots, subVars>>
  \/ ~HasRetry(c) /\ MarkUnpaidSkipped(c, sub, failed)

\* markFailed of the delta of cycle 1: the extras go, the prepaid box stays CHARGED.
FailDelta(c) ==
  /\ Closable(delta[c])
  /\ delta' = [delta EXCEPT ![c] = "CANCELLED"]
  /\ cycle' = [cycle EXCEPT ![c] = [@ EXCEPT !.status = "CHARGED", !.retryAt = FALSE]]
  /\ UNCHANGED <<order, slots, subVars>>
-------------------------------------------------------------------------------
(* cycles:lock-and-charge *)

LockGuard(c) == /\ proc["lock"].pc = "idle"
                /\ Status(c) = "SCHEDULED"
                /\ NobodyHoldsSub

\* lockPhaseA when the subscription is no longer engine-active.
LockInactive(c) ==
  /\ LockGuard(c)
  /\ sub \notin EngineActive
  /\ SetStatus(c, "CANCELLED")
  /\ slots' = [slots EXCEPT ![c] = @ - 1]
  /\ UNCHANGED <<pay, proc, subVars, orderVars, pspVars, envVars>>

\* lockPhaseA with nothing due: straight to CHARGED.
LockFree(c) ==
  /\ LockGuard(c)
  /\ sub \in EngineActive
  /\ cycle' = [cycle EXCEPT ![c] = [@ EXCEPT !.status = "CHARGED", !.retryAt = FALSE]]
  /\ failed' = 0
  /\ sub' = IF sub = "PAST_DUE" THEN "ACTIVE" ELSE sub
  /\ UNCHANGED <<pay, slots, proc, orderVars, pspVars, envVars>>

\* lockPhaseA: LOCKED with a new order, or a delta order for the prepaid cycle 1.
\* A cycle that already has its order makes the transaction throw (CYCLE_ORDER_EXISTS).
LockPhaseA(c) ==
  /\ LockGuard(c)
  /\ sub \in EngineActive
  /\ \/ /\ c = 1 /\ order[c] # None /\ delta[c] = None
        /\ delta' = [delta EXCEPT ![c] = "PENDING_PAYMENT"] /\ UNCHANGED order
     \/ /\ c # 1 /\ order[c] = None
        /\ order' = [order EXCEPT ![c] = "PENDING_PAYMENT"] /\ UNCHANGED delta
  /\ SetStatus(c, "LOCKED")
  /\ proc' = [proc EXCEPT !["lock"] = [Idle EXCEPT !.pc = "charge", !.path = "lock", !.c = c]]
  /\ UNCHANGED <<pay, slots, subVars, pspVars, envVars>>

\* The job's second pass: LOCKED rows whose charge was never attempted.
PickStranded(c) ==
  /\ proc["lock"].pc = "idle"
  /\ Status(c) = "LOCKED"
  /\ PaymentsOf(c) = {}
  /\ proc' = [proc EXCEPT !["lock"] = [Idle EXCEPT !.pc = "charge", !.path = "lock", !.c = c]]
  /\ UNCHANGED dbVars

\* chargeLocked: re-read the cycle, choose the strategy.
ChargeLocked(p) ==
  /\ proc[p].pc = "charge"
  /\ IF Status(proc[p].c) # "LOCKED"
     THEN Finish(p)
     ELSE IF UsesCard
          THEN proc' = [proc EXCEPT ![p] = [@ EXCEPT !.pc = "probe", !.n = 1]]
          ELSE Goto(p, "issue")
  /\ UNCHANGED dbVars

\* issuePaymentLink, committed before the cycle is touched.
IssueLink(p) ==
  /\ proc[p].pc = "issue"
  /\ \E n \in 1..MaxAttempt : /\ Fresh(proc[p].c, n)
                              /\ pay' = [pay EXCEPT ![<<proc[p].c, "lnk", n>>] = "PENDING"]
  /\ Goto(p, "await")
  /\ UNCHANGED <<cycle, slots, subVars, orderVars, pspVars, envVars>>

\* ... and the transaction that follows, which does not look at the cycle again.
AwaitPayment(p) ==
  /\ proc[p].pc = "await"
  /\ SetStatus(proc[p].c, "AWAITING_PAYMENT")
  /\ Finish(p)
  /\ UNCHANGED <<pay, slots, subVars, orderVars, pspVars, envVars>>
-------------------------------------------------------------------------------
(* chargeStoredCard and MerchantInitiatedCharge, outside any transaction.   *)

PayId(p) == <<proc[p].c, proc[p].kind, proc[p].n>>

\* Mutant: conversationId is not unique.
NeverRecorded(id) == FALSE

\* conversationId is unique: a second row for the same attempt is refused.
Recorded(id) == pay[id] # None

\* What an earlier row of the same attempt means for the caller of chargeStoredCard.
CollectedBefore(s) == s = "SUCCEEDED"

\* The idempotency probe: the first attempt number that is not FAILED / EXPIRED.
Probe(p) ==
  /\ proc[p].pc = "probe"
  /\ \E n \in proc[p].n..MaxAttempt :
       /\ pay[<<proc[p].c, "cyc", n>>] \notin {"FAILED", "EXPIRED"}
       /\ \A m \in proc[p].n..(n - 1) : pay[<<proc[p].c, "cyc", m>>] \in {"FAILED", "EXPIRED"}
       /\ LET s == pay[<<proc[p].c, "cyc", n>>] IN
          proc' = [proc EXCEPT ![p] = [@ EXCEPT !.n = n, !.kind = "cyc",
                                                !.pc = IF s = None THEN "record" ELSE "outcome",
                                                !.ok = CollectedBefore(s)]]
  /\ UNCHANGED dbVars

\* recordPayment: a lost race throws PAYMENT_DUPLICATE.
RecordPayment(p) ==
  /\ proc[p].pc = "record"
  /\ IF Recorded(PayId(p))
     THEN Finish(p) /\ UNCHANGED pay
     ELSE pay' = [pay EXCEPT ![PayId(p)] = "PENDING"] /\ Goto(p, "provider")
  /\ UNCHANGED <<cycle, slots, subVars, orderVars, pspVars, envVars>>

\* The provider: charged, declined, or charged with the reply lost (an exception here).
CallProvider(p) ==
  /\ proc[p].pc = "provider"
  /\ \E charged \in BOOLEAN, reply \in BOOLEAN :
       /\ reply => charged
       /\ charged /\ ~reply => LostReplies
       /\ captures' = [captures EXCEPT ![PayId(p)] = IF charged THEN @ + 1 ELSE @]
       /\ proc' = [proc EXCEPT ![p] = [@ EXCEPT !.pc = "mark", !.ok = reply]]
  /\ UNCHANGED <<cycle, pay, slots, notified, subVars, orderVars, envVars>>

\* markSucceeded / markFailed; a callback may have settled the row meanwhile.
MarkPayment(p) ==
  /\ proc[p].pc = "mark"
  /\ LET to == IF proc[p].ok THEN "SUCCEEDED" ELSE "FAILED" IN
     IF pay[PayId(p)] = to /\ proc[p].ok
     THEN Goto(p, "outcome") /\ UNCHANGED pay
     ELSE IF CanPayment(pay[PayId(p)], to)
          THEN pay' = [pay EXCEPT ![PayId(p)] = to] /\ Goto(p, "outcome")
          ELSE Finish(p) /\ UNCHANGED pay
  /\ UNCHANGED <<cycle, slots, subVars, orderVars, pspVars, envVars>>
-------------------------------------------------------------------------------
(* The transactions that follow a charge: markCharged, markFailed,         *)
(* scheduleRetryOrSkip.  None of them locks the cycle row: they assert     *)
(* the transition against the status they read and write by id.            *)

\* A callback that ends, even on a swallowed 409, is recorded as PROCESSED.
Acknowledged(p) == IF p = "psp" THEN {PayId(p)} ELSE {}

\* markCharged after a successful charge (job, retry, admin charge, paid link).
ReadForCharged(p) ==
  /\ proc[p].pc = "outcome" /\ proc[p].ok
  /\ IF CanCycle(Status(proc[p].c), "CHARGED")
     THEN /\ proc' = [proc EXCEPT ![p] = [@ EXCEPT !.pc = "commitCharged", !.sub = sub]]
          /\ UNCHANGED notified
     ELSE Finish(p) /\ notified' = notified \cup Acknowledged(p)
  /\ UNCHANGED <<cycle, pay, slots, captures, subVars, orderVars, envVars>>

CommitCharged(p) ==
  /\ proc[p].pc = "commitCharged"
  /\ SubFree(p)
  /\ LET c == proc[p].c IN
     \/ /\ cycle' = [cycle EXCEPT ![c] = [@ EXCEPT !.status = "CHARGED", !.retryAt = FALSE]]
        /\ PayOrder(c)
        /\ failed' = 0
        /\ sub' = IF proc[p].sub = "PAST_DUE" THEN "ACTIVE" ELSE sub
        /\ pay' = IF proc[p].path = "charge" THEN ExpireLinks(c) ELSE pay
        /\ notified' = notified \cup Acknowledged(p)
        /\ Finish(p)
        /\ UNCHANGED <<slots, captures, envVars>>
     \/ /\ ChargedOrder(c) \notin Payable
        /\ notified' = notified \cup Acknowledged(p)
        /\ Finish(p)
        /\ UNCHANGED <<cycle, pay, slots, captures, subVars, orderVars, envVars>>

\* markFailed after a declined charge of a LOCKED cycle.
FailsLocked(p) == proc[p].path = "lock" \/ (proc[p].path = "charge" /\ proc[p].from = "LOCKED")
ReadForFailed(p) ==
  /\ proc[p].pc = "outcome" /\ ~proc[p].ok /\ FailsLocked(p)
  /\ LET s == Status(proc[p].c) IN
     IF CanCycle(s, IF IsDelta(proc[p].c) THEN "CHARGED" ELSE "UNPAID") \/ s = "UNPAID"
     THEN Goto(p, "commitFailed")
     ELSE Finish(p)
  /\ UNCHANGED dbVars

CommitFailed(p) ==
  /\ proc[p].pc = "commitFailed"
  /\ SubFree(p)
  /\ LET c == proc[p].c IN
     \/ IsDelta(c) /\ FailDelta(c) /\ UNCHANGED pay /\ Finish(p)
        /\ UNCHANGED <<pspVars, envVars>>
     \/ ~IsDelta(c) /\ FailCycle(c, pay) /\ Finish(p)
        /\ UNCHANGED <<delta, pspVars, envVars>>
     \/ /\ IF IsDelta(c) THEN ~Closable(delta[c]) ELSE ~HasRetry(c) /\ ~Closable(order[c])
        /\ Abort(p)

\* A declined admin charge of an AWAITING_PAYMENT cycle only writes an event.
ChargeDeclined(p) ==
  /\ proc[p].pc = "outcome" /\ ~proc[p].ok
  /\ proc[p].path = "charge" /\ proc[p].from # "LOCKED"
  /\ Abort(p)

\* scheduleRetryOrSkip after a declined retry: next slot of the calendar, or skip.
ReadForSchedule(p) ==
  /\ proc[p].pc = "outcome" /\ ~proc[p].ok /\ proc[p].path = "retry"
  /\ IF Status(proc[p].c) = "UNPAID"
     THEN proc' = [proc EXCEPT ![p] = [@ EXCEPT !.pc = IF HasRetry(proc[p].c)
                                                       THEN "commitRetryAt" ELSE "commitSkip",
                                                !.sub = sub, !.failed = failed]]
     ELSE Finish(p)
  /\ UNCHANGED dbVars

CommitRetryAt(p) ==
  /\ proc[p].pc = "commitRetryAt"
  /\ cycle' = [cycle EXCEPT ![proc[p].c].retryAt = TRUE]
  /\ Finish(p)
  /\ UNCHANGED <<pay, slots, subVars, orderVars, pspVars, envVars>>

CommitSkip(p) ==
  /\ proc[p].pc = "commitSkip"
  /\ SubFree(p)
  /\ \/ /\ MarkUnpaidSkipped(proc[p].c, proc[p].sub, proc[p].failed)
        /\ Finish(p)
        /\ UNCHANGED <<delta, pspVars, envVars>>
     \/ ~Closable(order[proc[p].c]) /\ Abort(p)
-------------------------------------------------------------------------------
(* payments:retry *)

\* retryCycle, phase A (row locked): count the attempt and clear nextRetryAt.
\* MaxAttempt bounds the attempts; one is kept for after the delivery-day limit.
StartRetry(p, c) ==
  /\ Status(c) = "UNPAID"
  /\ cycle[c].retry + 2 <= (IF late[c] THEN MaxAttempt ELSE MaxAttempt - 1)
  /\ cycle' = [cycle EXCEPT ![c] = [@ EXCEPT !.retry = cycle[c].retry + 1, !.retryAt = FALSE]]
  /\ proc' = [proc EXCEPT ![p] = [Idle EXCEPT !.pc = IF UsesCard THEN "probe" ELSE "relink",
                                              !.path = "retry", !.c = c,
                                              !.n = cycle[c].retry + 2]]
  /\ UNCHANGED <<pay, slots, subVars, orderVars, pspVars, envVars>>

\* Mutant: the job stops at the last slot of the calendar, with a link still out.
RetryWithinSlots(c) == /\ proc["retry"].pc = "idle"
                       /\ cycle[c].retryAt /\ HasRetry(c)
                       /\ StartRetry("retry", c)

\* payments:retry selects by nextRetryAt; "due" may come at any time.
RetryCycle(c) == /\ proc["retry"].pc = "idle"
                 /\ cycle[c].retryAt
                 /\ StartRetry("retry", c)

\* Without a card, past the 08:00 limit: re-read, and skip if still UNPAID.
RelinkTooLate(p) ==
  /\ proc[p].pc = "relink" /\ late[proc[p].c]
  /\ IF Status(proc[p].c) = "UNPAID"
     THEN proc' = [proc EXCEPT ![p] = [@ EXCEPT !.pc = "commitSkip", !.sub = sub,
                                                !.failed = failed]]
     ELSE Finish(p)
  /\ UNCHANGED dbVars

\* Without a card, before the limit: old links expire, a new one is sent, UNPAID stays.
Relink(p) ==
  /\ proc[p].pc = "relink" /\ ~late[proc[p].c]
  /\ \E n \in 1..MaxAttempt :
       /\ Fresh(proc[p].c, n)
       /\ pay' = [ExpireLinks(proc[p].c) EXCEPT ![<<proc[p].c, "lnk", n>>] = "PENDING"]
  /\ cycle' = [cycle EXCEPT ![proc[p].c].retryAt = TRUE]
  /\ Finish(p)
  /\ UNCHANGED <<slots, subVars, orderVars, pspVars, envVars>>

(* cycles:expire-payment-links: one locked transaction per cycle, then the *)
(* open links of cycles that left AWAITING_PAYMENT.                        *)
ExpireAwaiting(c) ==
  /\ Status(c) = "AWAITING_PAYMENT"
  /\ NobodyHoldsSub
  /\ \/ IsDelta(c) /\ FailDelta(c) /\ pay' = ExpireLinks(c)
     \/ ~IsDelta(c) /\ FailCycle(c, ExpireLinks(c)) /\ UNCHANGED delta
  /\ UNCHANGED <<proc, pspVars, envVars>>

ExpireStaleLink(id) ==
  /\ IsLink(id) /\ pay[id] = "PENDING"
  /\ pay' = [pay EXCEPT ![id] = "EXPIRED"]
  /\ UNCHANGED <<cycle, slots, proc, subVars, orderVars, pspVars, envVars>>
-------------------------------------------------------------------------------
(* The payment provider's side: the customer pays a link, the provider     *)
(* notifies us until a delivery is recorded as PROCESSED.                  *)

\* The customer learns of a link once its cycle has left LOCKED (mail, member page).
PayLink(id) ==
  /\ IsLink(id) /\ pay[id] = "PENDING" /\ captures[id] = 0
  /\ Status(id[1]) # "LOCKED"
  /\ captures' = [captures EXCEPT ![id] = 1]
  /\ UNCHANGED <<cycle, pay, slots, notified, proc, subVars, orderVars, envVars>>

\* Mutant: a repeat of a payment marked SUCCEEDED is not settled again.
SettledOnce == {"PENDING"}

Settleable == {"PENDING", "SUCCEEDED"}

\* settlePayment reads the payment: PENDING goes on to markSucceeded, SUCCEEDED is settled
\* again, and a closed payment is a "soft" failure (409, the money is left to the operator).
Settle(id) ==
  /\ proc["psp"].pc = "idle"
  /\ captures[id] > 0 /\ id \notin notified
  /\ pay[id] \in Settleable
  /\ proc' = [proc EXCEPT !["psp"] = [Idle EXCEPT !.pc = "settle", !.path = "link", !.c = id[1],
                                                  !.kind = id[2], !.n = id[3], !.from = pay[id]]]
  /\ UNCHANGED dbVars

\* markSucceeded writes by id: whatever closed the payment since the read is overwritten.
MarkSettled ==
  /\ proc["psp"].pc = "settle"
  /\ pay' = IF proc["psp"].from = "PENDING" THEN [pay EXCEPT ![PayId("psp")] = "SUCCEEDED"] ELSE pay
  /\ proc' = [proc EXCEPT !["psp"] = [@ EXCEPT !.pc = "settled", !.ok = TRUE]]
  /\ UNCHANGED <<cycle, slots, subVars, orderVars, pspVars, envVars>>

\* A "failed" notification: a declined link, or a declined card charge still in flight.
SettleFailed(id) ==
  /\ captures[id] = 0 /\ pay[id] = "PENDING"
  /\ \/ IsLink(id) /\ Status(id[1]) # "LOCKED"
     \/ \E p \in Procs : proc[p].pc = "mark" /\ PayId(p) = id
  /\ pay' = [pay EXCEPT ![id] = "FAILED"]
  /\ UNCHANGED <<cycle, slots, proc, subVars, orderVars, pspVars, envVars>>

\* A stored-card payment settled by callback pays the order and leaves the cycle alone.
SettleOrder ==
  /\ proc["psp"].pc = "settled" /\ proc["psp"].kind = "cyc"
  /\ LET c == proc["psp"].c IN
     \/ PayOrder(c)
     \/ ChargedOrder(c) \notin Payable /\ UNCHANGED orderVars
  /\ notified' = notified \cup {PayId("psp")}
  /\ Finish("psp")
  /\ UNCHANGED <<cycle, pay, slots, captures, subVars, envVars>>

\* completeLinkCycle: only AWAITING_PAYMENT, UNPAID or LOCKED cycles go on to markCharged.
LinkSettleable == {"AWAITING_PAYMENT", "UNPAID", "LOCKED"}
SettleLink ==
  /\ proc["psp"].pc = "settled" /\ proc["psp"].kind = "lnk"
  /\ IF Status(proc["psp"].c) \in LinkSettleable
     THEN Goto("psp", "outcome") /\ UNCHANGED notified
     ELSE Finish("psp") /\ notified' = notified \cup {PayId("psp")}
  /\ UNCHANGED <<cycle, pay, slots, captures, subVars, orderVars, envVars>>
-------------------------------------------------------------------------------
(* Admin endpoints: every one reads the cycle before its transaction.      *)

AdminIdle(p) == p \in Admins /\ proc[p].pc = "idle"

\* adminSetStatus: the transition is asserted on this read, outside the transaction.
AdminSetStatus(p, c, to) ==
  /\ AdminIdle(p)
  /\ to \in AdminTargets \ {"LOCKED", "UNPAID", "AWAITING_PAYMENT"}
  /\ CanCycle(Status(c), to)
  /\ to = "SCHEDULED" => slots[c] \in -MaxDrift..MaxDrift
  /\ proc' = [proc EXCEPT ![p] = [Idle EXCEPT !.pc = "set", !.path = to, !.c = c,
                                              !.from = Status(c), !.sub = sub]]
  /\ UNCHANGED dbVars

Setting(p, to) == proc[p].pc = "set" /\ proc[p].path = to /\ SubFree(p)

\* CHARGED by hand: markCharged inside the transaction that locked the subscription.
SetCharged(p) ==
  /\ Setting(p, "CHARGED")
  /\ IF CanCycle(Status(proc[p].c), "CHARGED")
     THEN proc' = [proc EXCEPT ![p] = [@ EXCEPT !.pc = "commitCharged", !.path = "set",
                                                !.sub = sub]]
     ELSE Finish(p)
  /\ UNCHANGED dbVars

\* PREPARING .. DELIVERED: the order follows when its own machine allows it.
Advance == {"PREPARING", "OUT_FOR_DELIVERY", "DELIVERED"}
SetAdvance(p) ==
  /\ \E to \in Advance : Setting(p, to)
  /\ LET c == proc[p].c  to == proc[p].path IN
     /\ SetStatus(c, to)
     /\ order' = [order EXCEPT ![c] = IF @ # None /\ CanOrder(@, to) THEN to ELSE @]
     /\ sub' = IF to = "DELIVERED" /\ OneTime /\ proc[p].sub = "ACTIVE" THEN "COMPLETED" ELSE sub
  /\ Finish(p)
  /\ UNCHANGED <<failed, delta, pay, slots, pspVars, envVars>>

CancelOrder(s) == IF s # None /\ s # "DELIVERED" /\ CanOrder(s, "CANCELLED") THEN "CANCELLED" ELSE s

SetCancelled(p) ==
  /\ Setting(p, "CANCELLED")
  /\ LET c == proc[p].c IN
     /\ cycle' = [cycle EXCEPT ![c] = [@ EXCEPT !.status = "CANCELLED", !.retryAt = FALSE]]
     /\ slots' = [slots EXCEPT ![c] = IF proc[p].from = "SKIPPED" THEN @ ELSE @ - 1]
     /\ pay' = ExpireLinks(c)
     /\ order' = [order EXCEPT ![c] = CancelOrder(@)]
     /\ delta' = [delta EXCEPT ![c] = CancelOrder(@)]
  /\ Finish(p)
  /\ UNCHANGED <<subVars, pspVars, envVars>>

SetSkipped(p) ==
  /\ Setting(p, "SKIPPED")
  /\ cycle' = [cycle EXCEPT ![proc[p].c] = [@ EXCEPT !.status = "SKIPPED", !.skip = "OPS"]]
  /\ slots' = [slots EXCEPT ![proc[p].c] = @ - 1]
  /\ Finish(p)
  /\ UNCHANGED <<pay, subVars, orderVars, pspVars, envVars>>

\* Un-skip: the slot must be reserved again, and the date may be full or closed by now.
SetScheduled(p) ==
  /\ Setting(p, "SCHEDULED")
  /\ \/ /\ cycle' = [cycle EXCEPT ![proc[p].c] = [@ EXCEPT !.status = "SCHEDULED", !.skip = None]]
        /\ slots' = [slots EXCEPT ![proc[p].c] = @ + 1]
        /\ Finish(p)
        /\ UNCHANGED <<pay, subVars, orderVars, pspVars, envVars>>
     \/ Abort(p)

\* adminCharge of a LOCKED / AWAITING_PAYMENT cycle: attempt number = payments + 1.
AdminCharge(p, c) ==
  /\ AdminIdle(p) /\ AdminCharging /\ card
  /\ Status(c) \in {"LOCKED", "AWAITING_PAYMENT"}
  /\ ChargedOrder(c) # None
  /\ Cardinality(PaymentsOf(c)) < MaxAttempt
  /\ proc' = [proc EXCEPT ![p] = [Idle EXCEPT !.pc = "probe", !.path = "charge", !.c = c,
                                              !.n = Cardinality(PaymentsOf(c)) + 1,
                                              !.from = Status(c)]]
  /\ UNCHANGED dbVars

\* adminCharge of an UNPAID cycle: nextRetryAt = now, then the retry path by force.
AdminRetry(p, c) ==
  /\ AdminIdle(p) /\ AdminCharging /\ card
  /\ Status(c) = "UNPAID"
  /\ ChargedOrder(c) # None
  /\ cycle' = [cycle EXCEPT ![c].retryAt = TRUE]
  /\ proc' = [proc EXCEPT ![p] = [Idle EXCEPT !.pc = "force", !.c = c]]
  /\ UNCHANGED <<pay, slots, subVars, orderVars, pspVars, envVars>>

ForceRetry(p) == \/ proc[p].pc = "force" /\ StartRetry(p, proc[p].c)
                 \/ proc[p].pc = "force" /\ Status(proc[p].c) # "UNPAID" /\ Abort(p)

AdminSendLink(p, c) ==
  /\ AdminIdle(p) /\ AdminCharging
  /\ Status(c) \in LinkSettleable
  /\ ChargedOrder(c) # None
  /\ proc' = [proc EXCEPT ![p] = [Idle EXCEPT !.pc = "sendLink", !.c = c, !.from = Status(c)]]
  /\ UNCHANGED dbVars

SendLink(p) ==
  /\ proc[p].pc = "sendLink"
  /\ LET c == proc[p].c IN
     /\ \E n \in 1..MaxAttempt :
          Fresh(c, n) /\ pay' = [ExpireLinks(c) EXCEPT ![<<c, "lnk", n>>] = "PENDING"]
     /\ cycle' = [cycle EXCEPT ![c] =
          [@ EXCEPT !.status = IF proc[p].from = "LOCKED" THEN "AWAITING_PAYMENT" ELSE Status(c),
                    !.retryAt = proc[p].from = "UNPAID" \/ cycle[c].retryAt]]
  /\ Finish(p)
  /\ UNCHANGED <<slots, subVars, orderVars, pspVars, envVars>>
-------------------------------------------------------------------------------
(* The subscription's own handlers, reduced to what they do to the engine. *)

\* Mutant: the prepaid box is forgotten.
AheadUnordered == {c \in Cycles : Status(c) = "SCHEDULED" /\ order[c] = None}

\* The boxes a cancellation takes back.
Ahead == {c \in Cycles : Status(c) = "SCHEDULED"}

\* cancelSubscription under the subscription lock; `gone`: skipped weeks still ahead.
CancelSubscription(gone) ==
  /\ NobodyHoldsSub
  /\ CanSub(sub, "CANCELLED")
  /\ gone \subseteq {c \in Cycles : Status(c) = "SKIPPED" /\ cycle[c].skip # "UNPAID"}
  /\ sub' = "CANCELLED"
  /\ cycle' = [c \in Cycles |-> IF c \in Ahead \cup gone
                                THEN [cycle[c] EXCEPT !.status = "CANCELLED"] ELSE cycle[c]]
  /\ slots' = [c \in Cycles |-> IF c \in Ahead THEN slots[c] - 1 ELSE slots[c]]
  /\ order' = [c \in Cycles |->
       IF c = 1 /\ c \in Ahead
       THEN IF order[c] = "PAID" THEN "REFUNDED"
            ELSE IF order[c] \in {"PENDING_PAYMENT", "PAYMENT_FAILED"} THEN "CANCELLED" ELSE order[c]
       ELSE order[c]]
  /\ UNCHANGED <<failed, delta, pay, proc, pspVars, envVars>>

\* applyPatch with a new card: open UNPAID cycles are due for a retry at once.
UpdateCard ==
  /\ NobodyHoldsSub
  /\ card' = TRUE
  /\ cycle' = [c \in Cycles |-> IF Status(c) = "UNPAID"
                                THEN [cycle[c] EXCEPT !.retryAt = TRUE] ELSE cycle[c]]
  /\ UNCHANGED <<late, pay, slots, proc, crashes, subVars, orderVars, pspVars>>

\* deactivateCard: the PaymentMethod row goes inactive, the subscription is untouched.
DeactivateCard ==
  /\ card /\ card' = FALSE
  /\ UNCHANGED <<late, cycle, pay, slots, proc, crashes, subVars, orderVars, pspVars>>

\* 08:00 of the delivery day passes.
DeadlinePasses(c) ==
  /\ ~late[c] /\ late' = [late EXCEPT ![c] = TRUE]
  /\ UNCHANGED <<card, cycle, pay, slots, proc, crashes, subVars, orderVars, pspVars>>

\* The API process dies: every handler is gone, what was committed stays.
Crash ==
  /\ crashes < MaxCrashes /\ \E p \in Procs : proc[p] # Idle
  /\ proc' = [p \in Procs |-> Idle] /\ crashes' = crashes + 1
  /\ UNCHANGED <<card, late, cycle, pay, slots, subVars, orderVars, pspVars>>
-------------------------------------------------------------------------------
LockJob == \E c \in Cycles : LockInactive(c) \/ LockFree(c) \/ LockPhaseA(c) \/ PickStranded(c)
ExpireJob == \/ \E c \in Cycles : ExpireAwaiting(c)
             \/ \E id \in PayIds : ExpireStaleLink(id)
RetryJob == \E c \in Cycles : RetryCycle(c)

\* The steps of a handler already under way.
Continue(p) ==
  \/ ChargeLocked(p) \/ IssueLink(p) \/ AwaitPayment(p)
  \/ Probe(p) \/ RecordPayment(p) \/ CallProvider(p) \/ MarkPayment(p)
  \/ ReadForCharged(p) \/ CommitCharged(p) \/ ReadForFailed(p) \/ CommitFailed(p)
  \/ ChargeDeclined(p) \/ ReadForSchedule(p) \/ CommitRetryAt(p) \/ CommitSkip(p)
  \/ RelinkTooLate(p) \/ Relink(p)

Callback == \/ \E id \in PayIds : Settle(id) \/ SettleFailed(id)
            \/ MarkSettled \/ SettleOrder \/ SettleLink

AdminStart(p) ==
  \E c \in Cycles : \/ \E to \in AdminTargets : AdminSetStatus(p, c, to)
                    \/ AdminCharge(p, c) \/ AdminRetry(p, c) \/ AdminSendLink(p, c)
AdminStep(p) == SetCharged(p) \/ SetAdvance(p) \/ SetCancelled(p) \/ SetSkipped(p)
                \/ SetScheduled(p) \/ ForceRetry(p) \/ SendLink(p)

Customer == \/ \E id \in PayIds : PayLink(id)
            \/ \E gone \in SUBSET Cycles : CancelSubscription(gone)
            \/ UpdateCard \/ DeactivateCard

Next == \/ LockJob \/ ExpireJob \/ RetryJob \/ Callback \/ Customer
        \/ \E p \in Procs : Continue(p)
        \/ \E p \in Admins : AdminStart(p) \/ AdminStep(p)
        \/ \E c \in Cycles : DeadlinePasses(c)
        \/ Crash

Spec == Init /\ [][Next]_vars

\* node-cron starts every job again and again, and a job serves every due cycle; a handler
\* runs on; the provider repeats a notification until it is acknowledged; time passes.
\* Admins and customers owe nothing.
Fairness ==
  /\ \A c \in Cycles : /\ WF_vars(LockInactive(c) \/ LockFree(c) \/ LockPhaseA(c))
                       /\ WF_vars(PickStranded(c)) /\ WF_vars(RetryCycle(c))
                       /\ WF_vars(ExpireAwaiting(c)) /\ WF_vars(DeadlinePasses(c))
  /\ \A p \in Procs : WF_vars(Continue(p))
  /\ \A id \in PayIds : WF_vars(Settle(id))
  /\ WF_vars(MarkSettled \/ SettleOrder \/ SettleLink)

FairSpec == Spec /\ Fairness
-------------------------------------------------------------------------------
(* Type invariant *)

PCs == {"idle", "charge", "issue", "await", "probe", "record", "provider", "mark", "outcome",
        "commitCharged", "commitFailed", "commitRetryAt", "commitSkip", "relink", "settle",
        "settled", "set", "force", "sendLink"}
Paths == {None, "lock", "retry", "link", "charge", "set"} \cup CycleStatus
Handler == [pc : PCs, path : Paths, c : Cycles \cup {0}, n : Nat, kind : {"cyc", "lnk"},
            from : CycleStatus \cup PaymentStatus \cup {None}, sub : SubStatus \cup {None},
            failed : Nat, ok : BOOLEAN]

\* Every column holds a value of its enum, counters do not go below zero, and a handler
\* remembers only what it may have read.
TypeOK ==
  /\ sub \in SubStatus /\ failed \in Nat /\ card \in BOOLEAN
  /\ late \in [Cycles -> BOOLEAN]
  /\ cycle \in [Cycles -> [status : CycleStatus, skip : {None, "UNPAID", "OPS"},
                           retry : Nat, retryAt : BOOLEAN]]
  /\ order \in [Cycles -> OrderStatus \cup {None}]
  /\ delta \in [Cycles -> OrderStatus \cup {None}]
  /\ pay \in [PayIds -> PaymentStatus \cup {None}]
  /\ slots \in [Cycles -> Int]
  /\ captures \in [PayIds -> Nat]
  /\ notified \subseteq Cycles \X {"cyc", "lnk"} \X Nat
  /\ proc \in [Procs -> Handler]
  /\ crashes \in Nat
-------------------------------------------------------------------------------
(* Safety *)

\* One attempt number moves money at most once, whatever retries, crashes and admins do
\* (Payment.conversationId is unique and the provider is called once per recorded row).
AttemptChargedOnce == \A id \in PayIds : captures[id] <= 1

\* The engine gives a delivery slot back exactly when it gives the box up: the releases
\* scattered over dunning, link expiry, lock and cancellation never double up or go missing.
SlotHeldWhileLive ==
  \A c \in Cycles : slots[c] = IF Status(c) \in {"SKIPPED", "CANCELLED"} THEN 0 ELSE 1

\* A charged box has a paid order: no race of a job, a callback and an admin charge leaves
\* CHARGED over an order that is still open, failed or closed.
ChargedIsPaid ==
  \A c \in Cycles : Status(c) = "CHARGED" => order[c] \in {None, "PAID"}

\* An order the engine opened is PAID only if the provider moved money for its cycle.
PaidMoneyBacked ==
  \A c \in Cycles : ("PAID" \in {delta[c]} \cup (IF c = 1 THEN {} ELSE {order[c]})) =>
                      \E id \in PayIds : id[1] = c /\ captures[id] > 0

\* Box, order and money agree (markCharged, payOrder, settlement).
MoneyAccounted == ChargedIsPaid /\ PaidMoneyBacked

\* A box given up for non-payment leaves no way to pay it: order CANCELLED, no open link.
SkippedUnpaidClosed ==
  \A c \in Cycles : (Status(c) = "SKIPPED" /\ cycle[c].skip = "UNPAID") =>
    /\ order[c] = "CANCELLED"
    /\ \A id \in PayIds : id[1] = c /\ IsLink(id) => pay[id] # "PENDING"

\* A customer never holds two open links for one box (paying both would collect it twice).
OneOpenLink ==
  \A a, b \in PayIds : (a[1] = b[1] /\ a # b /\ IsLink(a) /\ IsLink(b)) =>
                       ~(pay[a] = "PENDING" /\ pay[b] = "PENDING")

\* A CANCELLED or REFUNDED order is final, also under stale admin requests.
ClosedOrderStays ==
  [][\A c \in Cycles : order[c] \in {"CANCELLED", "REFUNDED"} => order[c]' = order[c]]_vars

\* A cancelled subscription has no box left to be locked and collected.
CancelledSubHasNoBoxAhead ==
  sub = "CANCELLED" => \A c \in Cycles : Status(c) # "SCHEDULED"

\* Rule 18: the prepaid first box never goes into dunning over its extras; when it is CHARGED
\* its delta order is paid or cancelled, and the prepaid order is refunded only with the box.
PrepaidBoxKept ==
  1 \in Cycles =>
    /\ Status(1) \notin {"UNPAID", "SKIPPED"}
    /\ Status(1) = "CHARGED" => delta[1] \in {None, "PAID", "CANCELLED"}
    /\ order[1] \in {"PAID", "REFUNDED"}
    /\ order[1] = "REFUNDED" => Status(1) = "CANCELLED"
    /\ Status(1) = "CANCELLED" /\ sub = "CANCELLED" => order[1] = "REFUNDED"
-------------------------------------------------------------------------------
(* Liveness, under FairSpec.  A crash may strand a cycle (see the violation *)
(* run on retries), so the first two speak of runs without one.            *)

\* A locked box is charged, linked, failed or given up; no handler parks it.
LockedLeaves == \A c \in Cycles : Status(c) = "LOCKED" ~> (Status(c) # "LOCKED" \/ crashes > 0)

\* Dunning ends: an unpaid box is paid or skipped, though every new link rearms the retry.
UnpaidLeaves == \A c \in Cycles : Status(c) = "UNPAID" ~> (Status(c) # "UNPAID" \/ crashes > 0)

\* Money taken for a link that is not closed settles the box (or finds it closed), even if
\* the API dies between marking the payment and charging the cycle: the repeat finishes it.
PaidLinkSettles ==
  \A id \in PayIds :
    (IsLink(id) /\ captures[id] > 0 /\ pay[id] \in {"PENDING", "SUCCEEDED"}) ~>
      \/ Status(id[1]) \notin LinkSettleable
      \/ pay[id] \in {"EXPIRED", "FAILED"}
-------------------------------------------------------------------------------
(* What the documentation says and the code does not do.                   *)

\* docs/state-machines.md 8: on a provider timeout the payment stays PENDING, so a FAILED
\* payment has taken no money.
FailedTookNothing == \A id \in PayIds : pay[id] = "FAILED" => captures[id] = 0

\* docs/state-machines.md 9: an unpaid cycle stays selectable by payments:retry until its
\* attempt has an outcome.
UnpaidStaysDue ==
  \A c \in Cycles : Status(c) = "UNPAID" => cycle[c].retryAt \/ \E p \in Procs : proc[p].c = c

\* docs/state-machines.md 0.1 and 3.2: a cycle moves along the table; the code adds the free
\* box (SCHEDULED to CHARGED in one transaction) and the close of a skipped week.
CycleStepsLegal ==
  [][\A c \in Cycles : Status(c)' # Status(c) =>
       \/ CanCycle(Status(c), Status(c)')
       \/ <<Status(c), Status(c)'>> \in {<<"SCHEDULED", "CHARGED">>, <<"SKIPPED", "CANCELLED">>}]_vars
===============================================================================
