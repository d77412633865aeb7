---- MODULE MCCycleEngineRefinement ----
EXTENDS CycleEngineRefinement
====
