---------------------------- MODULE MCCycleEngine ----------------------------
(* TLC instances of CycleEngine; the values are in the cfg files. *)
EXTENDS CycleEngine

\* Bound of the admin run, as a state constraint: two payments of the box, none of them a link
\* the customer pays (the other runs pay links).
CardMoney == /\ Cardinality({id \in PayIds : pay[id] # None}) <= 2
             /\ \A id \in PayIds : IsLink(id) => captures[id] = 0
===============================================================================
