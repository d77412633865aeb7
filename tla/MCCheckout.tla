----------------------------- MODULE MCCheckout -----------------------------
EXTENDS Checkout
===============================================================================
