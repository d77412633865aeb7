---------------------------- MODULE StateMachines ----------------------------
(***************************************************************************)
(* The transition tables of packages/shared/src/state-machines.  Every     *)
(* service asserts `canTransition(from, to)` before it writes a status; a  *)
(* table is a function from a state to the set of states it may move to.   *)
(* REQUIRES_3DS stays in the table; the modules that never open a hosted   *)
(* payment page treat it, like the code, as one of the open states.        *)
(***************************************************************************)

CycleStatus == {"SCHEDULED", "LOCKED", "AWAITING_PAYMENT", "SKIPPED", "CHARGED",
                "UNPAID", "PREPARING", "OUT_FOR_DELIVERY", "DELIVERED", "CANCELLED"}

CycleTransitions == [
  SCHEDULED        |-> {"LOCKED", "SKIPPED", "CANCELLED"},
  LOCKED           |-> {"CHARGED", "AWAITING_PAYMENT", "UNPAID", "CANCELLED"},
  AWAITING_PAYMENT |-> {"CHARGED", "UNPAID", "CANCELLED"},
  SKIPPED          |-> {"SCHEDULED"},
  CHARGED          |-> {"PREPARING"},
  UNPAID           |-> {"CHARGED", "SKIPPED", "CANCELLED"},
  PREPARING        |-> {"OUT_FOR_DELIVERY"},
  OUT_FOR_DELIVERY |-> {"DELIVERED"},
  DELIVERED        |-> {},
  CANCELLED        |-> {}]

OrderStatus == {"PENDING_PAYMENT", "PAID", "PREPARING", "OUT_FOR_DELIVERY", "DELIVERED",
                "DELIVERY_FAILED", "CANCELLED", "REFUNDED", "PAYMENT_FAILED"}

OrderTransitions == [
  PENDING_PAYMENT  |-> {"PAID", "PAYMENT_FAILED", "CANCELLED"},
  PAID             |-> {"PREPARING", "CANCELLED", "REFUNDED"},
  PREPARING        |-> {"OUT_FOR_DELIVERY", "CANCELLED"},
  OUT_FOR_DELIVERY |-> {"DELIVERED", "DELIVERY_FAILED"},
  DELIVERED        |-> {"REFUNDED"},
  DELIVERY_FAILED  |-> {"OUT_FOR_DELIVERY", "CANCELLED", "REFUNDED"},
  CANCELLED        |-> {},
  REFUNDED         |-> {},
  PAYMENT_FAILED   |-> {"PENDING_PAYMENT", "CANCELLED"}]

SubStatus == {"PENDING", "ACTIVE", "PAST_DUE", "PAUSED", "CANCEL_REQUESTED",
              "CANCELLED", "COMPLETED"}

SubTransitions == [
  PENDING          |-> {"ACTIVE", "CANCELLED"},
  ACTIVE           |-> {"PAST_DUE", "CANCEL_REQUESTED", "CANCELLED", "COMPLETED", "PAUSED"},
  PAST_DUE         |-> {"ACTIVE", "CANCELLED"},
  PAUSED           |-> {"ACTIVE", "CANCELLED"},
  CANCEL_REQUESTED |-> {"ACTIVE", "CANCELLED"},
  CANCELLED        |-> {},
  COMPLETED        |-> {}]

\* The subscriptions the engine works for: ensure, lock-and-charge.
EngineActive == {"ACTIVE", "PAST_DUE", "CANCEL_REQUESTED"}

PaymentStatus == {"PENDING", "REQUIRES_3DS", "SUCCEEDED", "FAILED", "EXPIRED",
                  "REFUNDED", "PARTIAL_REFUNDED"}

PaymentTransitions == [
  PENDING          |-> {"REQUIRES_3DS", "SUCCEEDED", "FAILED", "EXPIRED"},
  REQUIRES_3DS     |-> {"SUCCEEDED", "FAILED", "EXPIRED"},
  SUCCEEDED        |-> {"REFUNDED", "PARTIAL_REFUNDED"},
  FAILED           |-> {},
  REFUNDED         |-> {},
  PARTIAL_REFUNDED |-> {"REFUNDED"},
  EXPIRED          |-> {}]

CanCycle(from, to)   == to \in CycleTransitions[from]
CanOrder(from, to)   == to \in OrderTransitions[from]
CanSub(from, to)     == to \in SubTransitions[from]
CanPayment(from, to) == to \in PaymentTransitions[from]
===============================================================================
