-------------------------- MODULE MCPartnerWebhooks --------------------------
(* Instances of PartnerWebhooks.                                            *)
EXTENDS PartnerWebhooks
CONSTANTS e1, e2, r1, s
=============================================================================
