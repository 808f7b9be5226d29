------------------------------- MODULE MCBilling -------------------------------
(* TLC instances of Billing.                                                *)
EXTENDS Billing, TLC
=============================================================================
