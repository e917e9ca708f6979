---------------------------- MODULE ExclusiveRetry ----------------------------
(***************************************************************************)
(* What a job queue promises of each job: it is in the hands of one worker *)
(* at a time, it is begun a bounded number of times, and once it has given *)
(* its result, or was dropped, it is never begun again.                    *)
(***************************************************************************)
EXTENDS Naturals

CONSTANTS Job, MaxTries

VARIABLES tries, busy, done

Init ==
    /\ tries = [j \in Job |-> 0]
    /\ busy = {} /\ done = {}

Begin(j) ==
    /\ j \notin busy \cup done /\ tries[j] < MaxTries
    /\ tries' = [tries EXCEPT ![j] = @ + 1]
    /\ busy' = busy \cup {j}
    /\ UNCHANGED done

\* The job gives its result; the worker may let it go with that or later.
Succeed(j) ==
    /\ j \in busy \ done
    /\ done' = done \cup {j}
    /\ busy' \in {busy, busy \ {j}}
    /\ UNCHANGED tries

\* The worker lets the job go: it finished, failed or died.
Release(j) ==
    /\ j \in busy
    /\ busy' = busy \ {j}
    /\ UNCHANGED <<tries, done>>

\* Jobs nobody works on are forgotten.
Drop(S) ==
    /\ S \cap busy = {}
    /\ done' = done \cup S
    /\ UNCHANGED <<tries, busy>>

Next ==
    \/ \E j \in Job : Begin(j) \/ Succeed(j) \/ Release(j)
    \/ \E S \in SUBSET Job : Drop(S)

Spec == Init /\ [][Next]_<<tries, busy, done>>
===============================================================================
