----------------------- MODULE MCSubscriptionLifecycle -----------------------
(* The TLC instance of SubscriptionLifecycle. *)
EXTENDS SubscriptionLifecycle

\* Bound, as a state constraint: nothing more happens once the last week's cutoff has passed.
BeforeLastCutoff == now < Weeks * DaysPerWeek
===============================================================================
