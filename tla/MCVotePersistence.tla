------------------------- MODULE MCVotePersistence -------------------------
(* Instances of VotePersistence: an account, a browser, a few requests.     *)
EXTENDS VotePersistence
CONSTANTS u1, f1, v1, v2, v3, d1, d2, m1, m2, yes, no
=============================================================================
