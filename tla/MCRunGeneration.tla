--------------------------- MODULE MCRunGeneration ---------------------------
(* Instances of RunGeneration.                                              *)
EXTENDS RunGeneration
CONSTANTS i1, i2
=============================================================================
