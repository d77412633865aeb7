----------------------------- MODULE BoxPromise -----------------------------
(***************************************************************************)
(* What the collection engine promises of every box, without its handlers, *)
(* attempts, links and retries: a box is planned, owed once its cutoff has *)
(* passed, settled when its order is paid, or dropped.  CycleEngine is     *)
(* shown to implement this specification (CycleEngineRefinement).          *)
(***************************************************************************)
EXTENDS Integers

CONSTANTS
  Boxes,
  Prepaid  \* boxes paid for at checkout

VARIABLES
  phase, \* phase[b]: "planned", "owed", "settled", "dropped"
  order, \* order[b]: "none", "open", "paid", "closed"
  taken, \* taken[b]: has money moved for b?
  slot   \* slot[b]: delivery slots held for b

vars == <<phase, order, taken, slot>>

Init == /\ phase = [b \in Boxes |-> "planned"]
        /\ order = [b \in Boxes |-> IF b \in Prepaid THEN "paid" ELSE "none"]
        /\ taken = [b \in Boxes |-> b \in Prepaid]
        /\ slot = [b \in Boxes |-> 1]

\* The cutoff: the box is owed and its order opened, unless it was paid for or is free.
Lock(b) == /\ phase[b] = "planned"
           /\ phase' = [phase EXCEPT ![b] = "owed"]
           /\ order' = [order EXCEPT ![b] = IF @ = "none" THEN "open" ELSE @]
           /\ UNCHANGED <<taken, slot>>
LockFree(b) == /\ phase[b] = "planned"
               /\ phase' = [phase EXCEPT ![b] = "settled"]
               /\ UNCHANGED <<order, taken, slot>>

\* The provider moves the customer's money, whatever the system knows of it.
Take(b) == /\ phase[b] # "planned"
           /\ taken' = [taken EXCEPT ![b] = TRUE]
           /\ UNCHANGED <<phase, order, slot>>

\* Only money that was taken pays an order, and only a paid order settles a box.
Pay(b) == /\ phase[b] = "owed" /\ order[b] = "open" /\ taken[b]
          /\ order' = [order EXCEPT ![b] = "paid"]
          /\ phase' \in {phase, [phase EXCEPT ![b] = "settled"]}
          /\ UNCHANGED <<taken, slot>>
Settle(b) == /\ phase[b] = "owed" /\ order[b] = "paid"
             /\ phase' = [phase EXCEPT ![b] = "settled"]
             /\ UNCHANGED <<order, taken, slot>>

\* Boxes are given up, by dunning one at a time, by a cancellation together: each gives its
\* slot back and closes its order in the same step.
Drop(B) == /\ \A b \in B : phase[b] \in {"planned", "owed"}
           /\ phase' = [b \in Boxes |-> IF b \in B THEN "dropped" ELSE phase[b]]
           /\ order' = [b \in Boxes |-> IF b \in B /\ order[b] # "none" THEN "closed" ELSE order[b]]
           /\ slot' = [b \in Boxes |-> IF b \in B THEN slot[b] - 1 ELSE slot[b]]
           /\ UNCHANGED taken

\* The one exception: a box that was settled while dunning was giving it up is dropped all
\* the same (CycleEngine, CycleStepsLegal).
Overturn(b) == /\ phase[b] = "settled" /\ b \notin Prepaid
               /\ phase' = [phase EXCEPT ![b] = "dropped"]
               /\ order' = [order EXCEPT ![b] = "closed"]
               /\ slot' = [slot EXCEPT ![b] = @ - 1]
               /\ UNCHANGED taken

Next == \/ \E b \in Boxes : Lock(b) \/ LockFree(b) \/ Take(b) \/ Pay(b) \/ Settle(b) \/ Overturn(b)
        \/ \E B \in SUBSET Boxes : Drop(B)
Spec == Init /\ [][Next]_vars
-------------------------------------------------------------------------------
(* What a customer may rely on, whichever handlers stand behind the steps. *)

TypeOK == /\ phase \in [Boxes -> {"planned", "owed", "settled", "dropped"}]
          /\ order \in [Boxes -> {"none", "open", "paid", "closed"}]
          /\ taken \in [Boxes -> BOOLEAN]
          /\ slot \in [Boxes -> 0..1]

\* Every box given up has given its one slot back and nothing is left to pay; every settled
\* box is free or paid, and what counts as paid is backed by money that moved.
BooksAgree == \A b \in Boxes : /\ slot[b] = IF phase[b] = "dropped" THEN 0 ELSE 1
                               /\ phase[b] = "dropped" => order[b] \in {"none", "closed"}
                               /\ phase[b] = "settled" => order[b] \in {"none", "paid"}
                               /\ order[b] = "paid" => taken[b]

\* A box given up is not planned again, and its order is not reopened.
StaysGivenUp == \A b \in Boxes : phase[b] = "dropped" => phase'[b] = phase[b] /\ order'[b] = order[b]
GivenUpForGood == [][StaysGivenUp]_vars
=============================================================================
