--------------------------- MODULE MCBriefDelivery ---------------------------
(* Instances of BriefDelivery: one or two recipients, schedulers, requests.  *)
EXTENDS BriefDelivery, TLC
CONSTANTS r1, r2, s1, s2, w1, w2
Symmetry == Permutations(Early)
=============================================================================
