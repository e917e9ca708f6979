---------------------------- MODULE DeliveryLedger ----------------------------
(***************************************************************************)
(* What the delivery of one edition promises each recipient, whatever the  *)
(* processes that carry it out: she is tried a bounded number of times     *)
(* while her case is open, she is recorded as delivered only after a try,  *)
(* and a case once closed (delivered or abandoned) is never reopened.      *)
(***************************************************************************)
EXTENDS Naturals

CONSTANTS Recipient, MaxSends

VARIABLES outcome, tries

Init ==
    /\ outcome = [r \in Recipient |-> "open"]
    /\ tries = [r \in Recipient |-> 0]

Try(r) ==
    /\ outcome[r] = "open" /\ tries[r] < MaxSends
    /\ tries' = [tries EXCEPT ![r] = @ + 1]
    /\ UNCHANGED outcome

Confirm(r) ==
    /\ outcome[r] = "open" /\ tries[r] > 0
    /\ outcome' = [outcome EXCEPT ![r] = "delivered"]
    /\ UNCHANGED tries

\* One clean-up transaction may close several cases.
Abandon(S) ==
    /\ \A r \in S : outcome[r] = "open"
    /\ outcome' = [r \in Recipient |-> IF r \in S THEN "abandoned" ELSE outcome[r]]
    /\ UNCHANGED tries

Next ==
    \/ \E r \in Recipient : Try(r) \/ Confirm(r)
    \/ \E S \in SUBSET Recipient : Abandon(S)

Spec == Init /\ [][Next]_<<outcome, tries>>
===============================================================================
