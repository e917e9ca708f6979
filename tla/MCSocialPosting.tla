--------------------------- MODULE MCSocialPosting ---------------------------
(* Instances of SocialPosting.                                              *)
EXTENDS SocialPosting
CONSTANTS b1, b2, x1, i1, i2
=============================================================================
