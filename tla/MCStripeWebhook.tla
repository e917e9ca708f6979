--------------------------- MODULE MCStripeWebhook ---------------------------
(* StripeWebhook for TLC: two requests and the reconciliation.              *)
EXTENDS StripeWebhook, TLC
=============================================================================
