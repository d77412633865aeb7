------------------------ MODULE CycleEngineRefinement ------------------------
(***************************************************************************)
(* CycleEngine implements BoxPromise.  The statuses of a cycle and of its  *)
(* order are read as the phase of the box and the state of its bill.  The  *)
(* extras of the prepaid box (its delta order) are not part of the promise.*)
(***************************************************************************)
EXTENDS CycleEngine

PhaseOf(s) == IF s = "SCHEDULED" THEN "planned"
              ELSE IF s \in {"LOCKED", "AWAITING_PAYMENT", "UNPAID"} THEN "owed"
              ELSE IF s \in {"SKIPPED", "CANCELLED"} THEN "dropped" ELSE "settled"
BillOf(s) == IF s = None THEN "none"
             ELSE IF s \in {"PENDING_PAYMENT", "PAYMENT_FAILED"} THEN "open"
             ELSE IF s \in {"CANCELLED", "REFUNDED"} THEN "closed" ELSE "paid"
Taken(c) == c = 1 \/ \E id \in PayIds : id[1] = c /\ captures[id] > 0

Promise == INSTANCE BoxPromise WITH
  Boxes <- Cycles,
  Prepaid <- Cycles \cap {1},
  phase <- [c \in Cycles |-> PhaseOf(Status(c))],
  order <- [c \in Cycles |-> BillOf(order[c])],
  taken <- [c \in Cycles |-> Taken(c)],
  slot <- slots

\* Whatever jobs, callbacks, admins, lost replies and crashes do, every step of the engine is
\* one the promise allows, or none of its business.
KeepsPromise == Promise!Spec
==============================================================================
