-------------------------- MODULE MCGenerationQueue --------------------------
(* Instances of GenerationQueue: one or two jobs, one or two schedulers.     *)
EXTENDS GenerationQueue
CONSTANTS a, b, s1, s2, q1, q2
===============================================================================
