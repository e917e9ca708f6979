-------------------------- MODULE MCSchedulerLock --------------------------
(* Instances of SchedulerLock: two containers.                              *)
EXTENDS SchedulerLock
CONSTANTS p1, p2
=============================================================================
