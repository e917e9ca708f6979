------------------------------ MODULE MCJobQueue ------------------------------
(* Instances of JobQueue: jobs a and b compete for one dedupe key.           *)
EXTENDS JobQueue
CONSTANTS a, b, k1, w1, w2, s1, q1, q2
MCKeyOf == [j \in Job |-> k1]
===============================================================================
