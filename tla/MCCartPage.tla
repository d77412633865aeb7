----------------------------- MODULE MCCartPage -----------------------------
(* Small instances of CartPage for TLC. *)
EXTENDS CartPage
=============================================================================
