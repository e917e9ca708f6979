------------------------- MODULE BriefDeliveryProofs -------------------------
(***************************************************************************)
(* Proofs about BriefDelivery, for every number of recipients, schedulers, *)
(* requests, crashes and units of time.                                    *)
(***************************************************************************)
EXTENDS BriefDelivery, FiniteSetTheorems, TLAPS

(* Type correctness *)

LEMMA RowSteps ==
    ASSUME NEW s \in Row, NEW c \in Int
    PROVE  FailStale(s, c) \in Row /\ GiveUp(s) \in Row /\ Reopen(s) \in Row
BY ConstantsAssumption DEF Row, RowSt, FailStale, GiveUp, Reopen, Failed

\* The clean-up transactions, composed as the code composes them.
LEMMA RowCleanups ==
    ASSUME NEW s \in Row, NEW c \in Int
    PROVE  GiveUp(FailStale(s, c)) \in Row /\ Reopen(GiveUp(FailStale(s, c))) \in Row
<1>1. FailStale(s, c) \in Row BY RowSteps
<1>2. GiveUp(FailStale(s, c)) \in Row BY <1>1, RowSteps
<1> QED BY <1>2, RowSteps

LEMMA TypeInit == Init => TypeOK
<1> SUFFICES ASSUME Init PROVE TypeOK OBVIOUS
<1>1. pc \in [Proc -> ProcPc]
  BY DEF Init, ProcPc
<1>2. row \in [Recipient -> Row]
  BY DEF Init, Row, RowSt
<1> QED
  BY <1>1, <1>2, ConstantsAssumption DEF Init, TypeOK, Status, Phase, Never

\* The parts of TypeOK about the processes alone.
LEMMA RestType ==
    ASSUME TypeOK, NEW p \in Proc, Rest(p)
    PROVE  /\ pc' \in [Proc -> ProcPc]
           /\ todo' \in [Proc -> SUBSET Recipient] /\ hold' \in [Proc -> SUBSET Recipient]
           /\ any' \in [Proc -> BOOLEAN] /\ at' \in [Proc -> Nat] /\ seen' \in [Proc -> Status]
BY DEF TypeOK, Rest, Move, ProcPc, Status

LEMMA TypeSend == ASSUME TypeOK, NEW p \in Proc, Send(p) PROVE TypeOK'
<1> USE ConstantsAssumption DEF TypeOK, runVars, envVars, histVars, memVars, procVars,
        jobVars, Goto, Move, At
<1>1. CASE ClaimRun(p)
  BY <1>1 DEF ClaimRun, ProcPc, Status
<1>2. CASE LoseRun(p)
  BY <1>2, RestType DEF LoseRun
<1>3. CASE Subscribed(p)
  BY <1>3 DEF Subscribed, ProcPc
<1>4. CASE NotSubscribed(p)
  BY <1>4, RestType DEF NotSubscribed, ResetToApproved, Status, Never
<1>5. CASE Prepare(p)
  <2>1. row' \in [Recipient -> Row]
    <3>1. now - Stale \in Int OBVIOUS
    <3> QED BY <1>5, <3>1, RowCleanups DEF Prepare
  <2> QED BY <1>5, <2>1 DEF Prepare, ProcPc
<1>6. CASE List(p)
  BY <1>6 DEF List, ProcPc
<1>7. CASE Count(p)
  BY <1>7, RestType DEF Count, ProcPc
<1>8. CASE ClaimRecipient(p)
  <2>1. PICK r \in todo[p] :
           /\ todo' = [todo EXCEPT ![p] = @ \ {r}]
           /\ \/ /\ row' = [row EXCEPT ![r] = [st |-> "claimed", at |-> now,
                                n |-> IF row[r].st = "none" THEN 1 ELSE row[r].n]]
                 /\ Move(p, "deliver") /\ hold' = [hold EXCEPT ![p] = {r}]
              \/ UNCHANGED <<row, pc, hold>>
    BY <1>8 DEF ClaimRecipient
  <2>2. r \in Recipient /\ row[r] \in Row
    OBVIOUS
  <2>3. row' \in [Recipient -> Row]
    BY <2>1, <2>2 DEF Row, RowSt
  <2>4. pc' \in [Proc -> ProcPc] /\ hold' \in [Proc -> SUBSET Recipient]
    BY <2>1, <2>2 DEF ProcPc, Calling
  <2> QED BY <1>8, <2>1, <2>3, <2>4 DEF ClaimRecipient
<1>9. CASE Deliver(p)
  BY <1>9 DEF Deliver, ProcPc, Calling
<1>10. CASE RecordSent(p)
  BY <1>10 DEF RecordSent, Release, ProcPc, Row, RowSt
<1>11. CASE RecordFailed(p)
  BY <1>11 DEF RecordFailed, Release, Failed, ProcPc, Row, RowSt
<1>12. CASE EndLoop(p)
  BY <1>12, RestType DEF EndLoop, ProcPc
<1>13. CASE MarkRunSent(p)
  BY <1>13, RestType DEF MarkRunSent, Status
<1> QED
  BY <1>1, <1>2, <1>3, <1>4, <1>5, <1>6, <1>7, <1>8, <1>9, <1>10, <1>11, <1>12, <1>13 DEF Send

LEMMA TypeJob == ASSUME TypeOK, NEW j \in Sched, JobStep(j) PROVE TypeOK'
<1> USE ConstantsAssumption DEF TypeOK, runVars, envVars, histVars, memVars, procVars,
        jobVars, Goto, Move, At, Advance, FailRunIf, Status, Phase
<1>1. CASE JobStart(j)
  BY <1>1 DEF JobStart
<1>2. CASE ExpireStale(j)
  BY <1>2 DEF ExpireStale
<1>3. CASE ClearUnsendable(j)
  BY <1>3 DEF ClearUnsendable
<1>4. CASE FailExhausted(j)
  BY <1>4 DEF FailExhausted
<1>5. CASE Select(j)
  BY <1>5 DEF Select, Proc, ProcPc
<1>6. CASE RecoverStuck(j)
  BY <1>6 DEF RecoverStuck, Never
<1>7. CASE FailStuck(j)
  BY <1>7 DEF FailStuck
<1>8. CASE CleanClaims(j)
  <2>1. row' \in [Recipient -> Row]
    <3>1. start[j] - Stuck \in Int OBVIOUS
    <3> QED BY <1>8, <3>1, RowCleanups DEF CleanClaims
  <2> QED BY <1>8, <2>1 DEF CleanClaims
<1> QED
  BY <1>1, <1>2, <1>3, <1>4, <1>5, <1>6, <1>7, <1>8 DEF JobStep

LEMMA TypeWeb == ASSUME TypeOK, NEW w \in Web, WebStep(w) PROVE TypeOK'
<1> w \in Proc BY DEF Proc
<1> USE DEF TypeOK, runVars, envVars, histVars, memVars, procVars,
        jobVars, Goto, Move, At, NewRequest, Status, ProcPc
<1>1. CASE LoadForEdit(w)
  BY <1>1 DEF LoadForEdit
<1>2. CASE Approve(w)
  BY <1>2, RestType DEF Approve
<1>3. CASE Skip(w)
  BY <1>3, RestType DEF Skip
<1>4. CASE SendRun(w)
  BY <1>4 DEF SendRun
<1>5. CASE Redraft(w)
  BY <1>5, RestType DEF Redraft
<1> QED
  BY <1>1, <1>2, <1>3, <1>4, <1>5 DEF WebStep

LEMMA TypeFault == ASSUME TypeOK, NEW p \in Proc, Fault(p) PROVE TypeOK'
<1> USE DEF TypeOK, runVars, envVars, histVars, memVars, procVars,
        jobVars, Goto, Move, At, NewFault
<1>1. CASE Crash(p)
  BY <1>1, RestType DEF Crash, Advance, Phase
<1>2. CASE Abort(p)
  BY <1>2, RestType DEF Abort, ResetToApproved, Status, Never
<1>3. CASE MissRecipient(p)
  BY <1>3 DEF MissRecipient
<1>4. CASE LoseRecord(p)
  BY <1>4 DEF LoseRecord, Release, ProcPc
<1>5. CASE DbError(p)
  BY <1>5, RestType DEF DbError
<1>6. CASE p \in Sched /\ PhaseFails(p)
  BY <1>6 DEF PhaseFails, Advance, Phase
<1> QED
  BY <1>1, <1>2, <1>3, <1>4, <1>5, <1>6 DEF Fault

LEMMA TypeNext == TypeOK /\ [Next]_vars => TypeOK'
<1> SUFFICES ASSUME TypeOK, [Next]_vars PROVE TypeOK'
  OBVIOUS
<1>1. CASE \E r \in Recipient : ChangeRecipient(r)
  BY <1>1 DEF ChangeRecipient, NewRequest, TypeOK, runVars, procVars, memVars, jobVars
<1>2. CASE Tick
  BY <1>2 DEF Tick, TypeOK, runVars, procVars, memVars, jobVars, histVars
<1>3. CASE UNCHANGED vars
  BY <1>3 DEF vars, TypeOK, runVars, procVars, memVars, jobVars, envVars, histVars
<1> QED
  BY <1>1, <1>2, <1>3, TypeSend, TypeFault, TypeJob, TypeWeb DEF Next

\* In every state every variable has its type: in particular the run's status
\* stays in the workflow BriefRun.status names.
THEOREM TypeCorrect == Spec => []TypeOK
BY TypeInit, TypeNext, PTL DEF Spec

-----------------------------------------------------------------------------
(* Exclusion: who holds a recipient's claim                                *)

\* A process holds one recipient exactly while it is sending to her.
Holding ==
    \A p \in Proc : IF pc[p] \in Calling THEN \E r \in Recipient : hold[p] = {r}
                                        ELSE hold[p] = {}

\* The row of a recipient being sent to is claimed, and too young to be given up.
HeldClaimed ==
    \A p \in Proc : \A r \in hold[p] : row[r].st = "claimed" /\ row[r].at >= now - Stuck

JobsInPast == \A j \in Sched : start[j] <= now

Exclusion == Holding /\ OneSenderPerRecipient /\ HeldClaimed /\ JobsInPast

\* What every step but the claim of a recipient does to a process: it lets go of
\* its recipient, or keeps her with her row untouched.
Kept ==
    \A q \in Proc :
        \/ hold'[q] = {} /\ pc'[q] \notin Calling
        \/ /\ hold'[q] = hold[q]
           /\ pc'[q] \in Calling <=> pc[q] \in Calling
           /\ \A r \in hold[q] : row'[r] = row[r]

LEMMA ExclusionInit == Init => Exclusion
BY ConstantsAssumption
   DEF Init, Exclusion, Holding, OneSenderPerRecipient, HeldClaimed, JobsInPast, Calling

LEMMA ExclusionKept ==
    ASSUME Exclusion, Kept, now' = now, \A j \in Sched : start'[j] <= now
    PROVE  Exclusion'
<1>1. Holding'
  BY DEF Exclusion, Holding, Kept
<1>2. OneSenderPerRecipient'
  BY DEF Exclusion, OneSenderPerRecipient, Kept
<1>3. HeldClaimed'
  BY DEF Exclusion, HeldClaimed, Kept
<1>4. JobsInPast'
  BY DEF JobsInPast
<1> QED BY <1>1, <1>2, <1>3, <1>4 DEF Exclusion

\* No clean-up touches a row that is claimed and young enough.
LEMMA YoungClaimStays ==
    ASSUME NEW s \in Row, s.st = "claimed", NEW c \in Int, s.at >= c
    PROVE  GiveUp(FailStale(s, c)) = s /\ Reopen(GiveUp(FailStale(s, c))) = s
<1>1. FailStale(s, c) = s BY DEF FailStale, Row
<1>2. GiveUp(s) = s /\ Reopen(s) = s BY DEF GiveUp, Reopen
<1> QED BY <1>1, <1>2

\* A process that holds nobody may move between labels outside a call.
LEMMA KeptByMove ==
    ASSUME TypeOK, Exclusion, NEW p \in Proc, NEW l \in ProcPc \ Calling,
           pc[p] \notin Calling, pc' = [pc EXCEPT ![p] = l], hold' = hold, row' = row
    PROVE  Kept
BY DEF TypeOK, Kept, Exclusion, Holding

LEMMA KeptByRest ==
    ASSUME TypeOK, NEW p \in Proc, Rest(p), row' = row
    PROVE  Kept
BY DEF TypeOK, Kept, Rest, Move, Calling

LEMMA KeptIdly ==
    ASSUME pc' = pc, hold' = hold, row' = row
    PROVE  Kept
BY DEF Kept

LEMMA KeptByPrepare ==
    ASSUME TypeOK, Exclusion, NEW p \in Proc, Prepare(p)
    PROVE  Kept
<1>1. ASSUME NEW q \in Proc, NEW r \in hold[q] PROVE row'[r] = row[r]
  <2>1. r \in Recipient /\ row[r] \in Row /\ now - Stale \in Int
    BY ConstantsAssumption DEF TypeOK
  <2>2. row[r].st = "claimed" /\ row[r].at >= now - Stale
    BY <2>1, ConstantsAssumption DEF Exclusion, HeldClaimed, TypeOK, Row
  <2> QED BY <2>1, <2>2, YoungClaimStays DEF Prepare
<1> QED BY <1>1 DEF Prepare, Move, At, Kept, TypeOK, Exclusion, Holding, Calling

LEMMA KeptByCleaning ==
    ASSUME TypeOK, Exclusion, NEW j \in Sched, CleanClaims(j)
    PROVE  Kept
<1>1. ASSUME NEW q \in Proc, NEW r \in hold[q] PROVE row'[r] = row[r]
  <2>1. r \in Recipient /\ row[r] \in Row /\ start[j] - Stuck \in Int
    BY ConstantsAssumption DEF TypeOK
  <2>2. row[r].st = "claimed" /\ row[r].at >= start[j] - Stuck
    BY <2>1, ConstantsAssumption DEF Exclusion, HeldClaimed, JobsInPast, TypeOK, Row
  <2> QED BY <2>1, <2>2, YoungClaimStays DEF CleanClaims
<1> QED BY <1>1 DEF CleanClaims, procVars, memVars, Kept

LEMMA ExclusionSend == ASSUME TypeOK, Exclusion, NEW p \in Proc, Send(p) PROVE Exclusion'
<1> USE DEF At, Goto, Move, runVars, envVars, histVars, jobVars, memVars
<1>j. \A j \in Sched : start[j] <= now
  BY DEF Exclusion, JobsInPast
<1>n. now' = now /\ start' = start
  BY DEF Send, ClaimRun, LoseRun, Subscribed, NotSubscribed, Prepare, List, Count,
         ClaimRecipient, Deliver, RecordSent, RecordFailed, EndLoop, MarkRunSent
<1>1. CASE ClaimRun(p) \/ Subscribed(p)
  <2>1. Kept BY <1>1, KeptByMove DEF ClaimRun, Subscribed, ProcPc, Calling
  <2> QED BY <2>1, <1>j, <1>n, ExclusionKept
<1>2. CASE LoseRun(p) \/ NotSubscribed(p) \/ MarkRunSent(p)
  <2>1. Kept BY <1>2, KeptByRest DEF LoseRun, NotSubscribed, MarkRunSent
  <2> QED BY <2>1, <1>j, <1>n, ExclusionKept
<1>3. CASE Count(p) \/ EndLoop(p) \/ List(p)
  <2>1. Kept
    BY <1>3, KeptByRest, KeptByMove DEF Count, EndLoop, List, ProcPc, Calling
  <2> QED BY <2>1, <1>j, <1>n, ExclusionKept
<1>4. CASE Prepare(p)
  BY <1>4, <1>j, <1>n, KeptByPrepare, ExclusionKept
<1>5. CASE ClaimRecipient(p)
  <2>1. PICK r \in todo[p] :
           \/ /\ row[r].st \in {"none", "pending"}
              /\ row' = [row EXCEPT ![r] = [st |-> "claimed", at |-> now,
                             n |-> IF row[r].st = "none" THEN 1 ELSE row[r].n]]
              /\ pc' = [pc EXCEPT ![p] = "deliver"] /\ hold' = [hold EXCEPT ![p] = {r}]
           \/ UNCHANGED <<row, pc, hold>>
    BY <1>5 DEF ClaimRecipient, Claimable
  <2>2. CASE UNCHANGED <<row, pc, hold>>
    BY <2>2, <1>j, <1>n, KeptIdly, ExclusionKept
  <2>3. CASE /\ row[r].st \in {"none", "pending"}
             /\ row' = [row EXCEPT ![r] = [st |-> "claimed", at |-> now,
                             n |-> IF row[r].st = "none" THEN 1 ELSE row[r].n]]
             /\ pc' = [pc EXCEPT ![p] = "deliver"] /\ hold' = [hold EXCEPT ![p] = {r}]
    <3>1. r \in Recipient BY DEF TypeOK
    <3>2. \A q \in Proc : r \notin hold[q]
      BY <2>3 DEF Exclusion, HeldClaimed
    <3>3. Holding'
      BY <2>3, <3>1 DEF Exclusion, Holding, TypeOK, Calling
    <3>4. OneSenderPerRecipient'
      BY <2>3, <3>2 DEF Exclusion, OneSenderPerRecipient, TypeOK
    <3>5. HeldClaimed'
      BY <2>3, <3>1, <3>2, <1>n, ConstantsAssumption DEF Exclusion, HeldClaimed, TypeOK
    <3> QED BY <3>3, <3>4, <3>5, <1>j, <1>n DEF Exclusion, JobsInPast
  <2> QED BY <2>1, <2>2, <2>3
<1>6. CASE Deliver(p)
  <2>1. Kept BY <1>6 DEF Deliver, Kept, TypeOK, Calling
  <2> QED BY <2>1, <1>j, <1>n, ExclusionKept
<1>7. CASE RecordSent(p) \/ RecordFailed(p)
  <2>1. PICK r \in hold[p] : \A x \in Recipient \ {r} : row'[x] = row[x]
    BY <1>7 DEF RecordSent, RecordFailed, TypeOK
  <2>2. \A q \in Proc \ {p} : r \notin hold[q]
    BY DEF Exclusion, OneSenderPerRecipient
  <2>3. /\ pc' = [pc EXCEPT ![p] = "loop"] /\ hold' = [hold EXCEPT ![p] = {}]
    BY <1>7 DEF RecordSent, RecordFailed, Release
  <2>4. Kept
    BY <2>1, <2>2, <2>3 DEF Kept, TypeOK, Calling
  <2> QED BY <2>4, <1>j, <1>n, ExclusionKept
<1> QED
  BY <1>1, <1>2, <1>3, <1>4, <1>5, <1>6, <1>7 DEF Send

LEMMA ExclusionJob == ASSUME TypeOK, Exclusion, NEW j \in Sched, JobStep(j) PROVE Exclusion'
<1> USE DEF At, Goto, Move, Advance, runVars, envVars, histVars, jobVars, memVars, procVars
<1>j. now' = now /\ \A i \in Sched : start'[i] <= now
  BY DEF Exclusion, JobsInPast, TypeOK, JobStep, JobStart, ExpireStale, ClearUnsendable,
         FailExhausted, Select, RecoverStuck, FailStuck, CleanClaims
<1>1. CASE JobStart(j) \/ ExpireStale(j) \/ ClearUnsendable(j) \/ FailExhausted(j)
           \/ RecoverStuck(j) \/ FailStuck(j)
  <2>1. Kept
    BY <1>1, KeptIdly DEF JobStart, ExpireStale, ClearUnsendable, FailExhausted,
                          RecoverStuck, FailStuck
  <2> QED BY <2>1, <1>j, ExclusionKept
<1>2. CASE Select(j)
  <2>1. Kept
    BY <1>2, KeptIdly, KeptByMove DEF Select, Proc, ProcPc, Calling
  <2> QED BY <2>1, <1>j, ExclusionKept
<1>3. CASE CleanClaims(j)
  BY <1>3, <1>j, KeptByCleaning, ExclusionKept
<1> QED
  BY <1>1, <1>2, <1>3 DEF JobStep

LEMMA ExclusionWeb == ASSUME TypeOK, Exclusion, NEW w \in Web, WebStep(w) PROVE Exclusion'
<1> w \in Proc BY DEF Proc
<1> USE DEF At, Goto, Move, NewRequest, runVars, envVars, histVars, jobVars, memVars
<1>j. now' = now /\ \A i \in Sched : start'[i] <= now
  BY DEF Exclusion, JobsInPast, TypeOK, WebStep, LoadForEdit, Approve, Skip, SendRun, Redraft
<1>1. Kept
  BY KeptByMove, KeptByRest
     DEF WebStep, LoadForEdit, Approve, Skip, SendRun, Redraft, ProcPc, Calling
<1> QED BY <1>1, <1>j, ExclusionKept

LEMMA ExclusionFault == ASSUME TypeOK, Exclusion, NEW p \in Proc, Fault(p) PROVE Exclusion'
<1> USE DEF At, NewFault, runVars, envVars, histVars, jobVars
<1>j. now' = now /\ \A i \in Sched : start'[i] <= now
  BY DEF Exclusion, JobsInPast, TypeOK, Fault, Crash, Abort, MissRecipient, LoseRecord,
         DbError, PhaseFails, Advance
<1>1. CASE Crash(p) \/ Abort(p) \/ DbError(p)
  <2>1. Kept BY <1>1, KeptByRest DEF Crash, Abort, DbError
  <2> QED BY <2>1, <1>j, ExclusionKept
<1>2. CASE MissRecipient(p) \/ PhaseFails(p)
  <2>1. Kept BY <1>2, KeptIdly DEF MissRecipient, PhaseFails, procVars, memVars
  <2> QED BY <2>1, <1>j, ExclusionKept
<1>3. CASE LoseRecord(p)
  <2>1. Kept BY <1>3 DEF LoseRecord, Release, Move, Kept, TypeOK, Calling
  <2> QED BY <2>1, <1>j, ExclusionKept
<1> QED BY <1>1, <1>2, <1>3 DEF Fault

LEMMA ExclusionNext == TypeOK /\ Exclusion /\ [Next]_vars => Exclusion'
<1> SUFFICES ASSUME TypeOK, Exclusion, [Next]_vars PROVE Exclusion'
  OBVIOUS
<1>1. CASE \E r \in Recipient : ChangeRecipient(r)
  <2>1. Kept /\ now' = now /\ start' = start
    BY <1>1, KeptIdly DEF ChangeRecipient, procVars, memVars, jobVars
  <2> QED BY <2>1, ExclusionKept DEF Exclusion, JobsInPast
<1>2. CASE Tick
  <2>1. now' = now + 1 /\ UNCHANGED <<row, pc, hold, start>>
    BY <1>2 DEF Tick, procVars, memVars, jobVars
  <2>2. HeldClaimed'
    <3>1. \A p \in Proc : \A r \in hold[p] : row[r].at >= (now + 1) - Stuck
      BY <1>2 DEF Tick, CallsAreShort
    <3> QED BY <2>1, <3>1 DEF Exclusion, HeldClaimed
  <2>3. JobsInPast'
    BY <2>1 DEF Exclusion, JobsInPast, TypeOK
  <2> QED BY <2>1, <2>2, <2>3 DEF Exclusion, Holding, OneSenderPerRecipient
<1>3. CASE UNCHANGED vars
  BY <1>3 DEF vars, procVars, memVars, jobVars, envVars, Exclusion, Holding,
              OneSenderPerRecipient, HeldClaimed, JobsInPast
<1> QED
  BY <1>1, <1>2, <1>3, ExclusionSend, ExclusionJob, ExclusionWeb, ExclusionFault DEF Next

\* The upsert of _claim_recipient_for_send keeps any two processes from sending
\* to one recipient at the same time, whatever happens to the run.
THEOREM OneSender == Spec => []OneSenderPerRecipient
<1>1. Init => Exclusion /\ TypeOK BY ExclusionInit, TypeInit
<1>2. Exclusion /\ TypeOK /\ [Next]_vars => (Exclusion /\ TypeOK)'
  BY ExclusionNext, TypeNext
<1>3. Exclusion => OneSenderPerRecipient BY DEF Exclusion
<1> QED BY <1>1, <1>2, <1>3, PTL DEF Spec

-----------------------------------------------------------------------------
(* Accounts: calls made, copies accepted and what the rows say of them     *)

\* attempt_count bounds the calls made: by less than it once the call of the
\* current claim is over, by itself while the claim lasts.
TriesOK(s, c) ==
    CASE s.st = "none" -> c = 0
      [] s.st = "pending" -> c < s.n /\ s.n < MaxSendAttempts
      [] s.st = "claimed" -> c <= s.n /\ s.n < MaxSendAttempts
      [] s.st = "sent" -> 0 < c /\ c < MaxSendAttempts
      [] OTHER -> c < s.n /\ s.n <= MaxSendAttempts

Tries == \A r \in Recipient : TriesOK(row[r], calls[r])

InCall ==
    \A p \in Proc : \A r \in hold[p] :
        /\ pc[p] = "deliver" => calls[r] < row[r].n
        /\ pc[p] = "accepted" => calls[r] > 0

\* A copy not yet recorded as sent nor counted as lost is about to be recorded.
Recorded(r) ==
    \/ row[r].st = "sent"
    \/ \E p \in Proc : pc[p] = "accepted" /\ r \in hold[p]

Copies ==
    \A r \in Recipient : /\ copies[r] <= lost[r] + 1
                         /\ ~Recorded(r) => copies[r] <= lost[r]

Accounts == Tries /\ InCall /\ Copies

LEMMA AccountsInit == Init => Accounts
BY DEF Init, Accounts, Tries, TriesOK, InCall, Copies, Recorded

LEMMA TriesCleaned ==
    ASSUME NEW s \in Row, NEW c \in Nat, TriesOK(s, c), NEW x \in Int
    PROVE  /\ TriesOK(GiveUp(FailStale(s, x)), c)
           /\ TriesOK(Reopen(GiveUp(FailStale(s, x))), c)
           /\ GiveUp(FailStale(s, x)).st = "sent" <=> s.st = "sent"
           /\ Reopen(GiveUp(FailStale(s, x))).st = "sent" <=> s.st = "sent"
<1>1. /\ FailStale(s, x) \in Row /\ TriesOK(FailStale(s, x), c)
      /\ FailStale(s, x).st = "sent" <=> s.st = "sent"
  BY ConstantsAssumption, RowSteps DEF FailStale, Failed, TriesOK, Row, RowSt
<1>2. ASSUME NEW t \in Row, TriesOK(t, c)
      PROVE  /\ GiveUp(t) \in Row /\ TriesOK(GiveUp(t), c) /\ TriesOK(Reopen(t), c)
             /\ GiveUp(t).st = "sent" <=> t.st = "sent"
             /\ Reopen(t).st = "sent" <=> t.st = "sent"
  BY <1>2, ConstantsAssumption, RowSteps DEF GiveUp, Reopen, TriesOK, Row, RowSt
<1> QED BY <1>1, <1>2

\* Steps that neither call the provider nor write one recipient's row.
LEMMA AccountsKept ==
    ASSUME TypeOK, TypeOK', Accounts, calls' = calls, copies' = copies,
           \A r \in Recipient : /\ lost'[r] >= lost[r]
                                /\ TriesOK(row'[r], calls[r])
                                /\ row'[r].st = "sent" <=> row[r].st = "sent",
           \A q \in Proc :
               \/ /\ hold'[q] = {}
                  /\ pc[q] = "accepted" => \A r \in hold[q] : lost'[r] > lost[r]
               \/ /\ hold'[q] = hold[q] /\ pc'[q] = pc[q]
                  /\ \A r \in hold[q] : row'[r] = row[r]
    PROVE  Accounts'
<1>1. Tries'
  BY DEF Tries
<1>2. InCall'
  BY DEF Accounts, InCall
<1>3. Copies'
  <2> SUFFICES ASSUME NEW r \in Recipient
               PROVE  /\ copies[r] <= lost'[r] + 1
                      /\ ~Recorded(r)' => copies[r] <= lost'[r]
    BY DEF Copies
  <2>0. /\ copies[r] \in Nat /\ lost[r] \in Nat /\ lost'[r] \in Nat
        /\ lost'[r] >= lost[r] /\ copies[r] <= lost[r] + 1
    BY DEF TypeOK, Accounts, Copies
  <2>1. CASE ~Recorded(r)
    BY <2>0, <2>1 DEF Accounts, Copies
  <2>2. CASE row[r].st = "sent"
    BY <2>0, <2>2 DEF Recorded
  <2>3. ASSUME NEW p \in Proc, pc[p] = "accepted", r \in hold[p]
        PROVE  /\ copies[r] <= lost'[r] + 1
               /\ ~Recorded(r)' => copies[r] <= lost'[r]
    BY <2>0, <2>3 DEF Recorded
  <2> QED BY <2>1, <2>2, <2>3 DEF Recorded
<1> QED BY <1>1, <1>2, <1>3 DEF Accounts

\* A step that leaves rows and counts alone, of a process that is not in a call.
LEMMA AccountsQuiet ==
    ASSUME TypeOK, TypeOK', Exclusion, Accounts, NEW p \in Proc, pc[p] \notin Calling,
           row' = row, calls' = calls, copies' = copies, lost' = lost,
           \A q \in Proc \ {p} : hold'[q] = hold[q] /\ pc'[q] = pc[q],
           hold'[p] = {}
    PROVE  Accounts'
<1>1. \A q \in Proc :
        \/ hold'[q] = {} /\ pc[q] # "accepted"
        \/ /\ hold'[q] = hold[q] /\ pc'[q] = pc[q]
           /\ \A r \in hold[q] : row'[r] = row[r]
  BY DEF Calling
<1>2. \A r \in Recipient : /\ lost'[r] >= lost[r]
                           /\ TriesOK(row'[r], calls[r])
                           /\ row'[r].st = "sent" <=> row[r].st = "sent"
  BY DEF TypeOK, Accounts, Tries
<1> QED BY <1>1, <1>2, AccountsKept

\* A clean-up of all the rows.
LEMMA AccountsCleaned ==
    ASSUME TypeOK, TypeOK', Exclusion, Accounts, Kept, NEW x \in Int,
           \/ row' = [r \in Recipient |-> GiveUp(FailStale(row[r], x))]
           \/ row' = [r \in Recipient |-> Reopen(GiveUp(FailStale(row[r], x)))],
           hold' = hold, \A q \in Proc : pc[q] \in Calling => pc'[q] = pc[q],
           calls' = calls, copies' = copies, lost' = lost
    PROVE  Accounts'
<1>1. \A r \in Recipient : /\ lost'[r] >= lost[r]
                           /\ TriesOK(row'[r], calls[r])
                           /\ row'[r].st = "sent" <=> row[r].st = "sent"
  <2> SUFFICES ASSUME NEW r \in Recipient
               PROVE  /\ TriesOK(row'[r], calls[r])
                      /\ row'[r].st = "sent" <=> row[r].st = "sent"
    BY DEF TypeOK
  <2>1. row[r] \in Row /\ calls[r] \in Nat /\ TriesOK(row[r], calls[r])
    BY DEF TypeOK, Accounts, Tries
  <2> QED BY <2>1, TriesCleaned
<1>2. \A q \in Proc :
        \/ hold'[q] = {} /\ pc[q] # "accepted"
        \/ /\ hold'[q] = hold[q] /\ pc'[q] = pc[q]
           /\ \A r \in hold[q] : row'[r] = row[r]
  BY DEF Kept, Exclusion, Holding, Calling
<1> QED BY <1>1, <1>2, AccountsKept

LEMMA AccountsSend ==
    ASSUME TypeOK, TypeOK', Exclusion, Accounts, NEW p \in Proc, Send(p)
    PROVE  Accounts'
<1> USE DEF At, Goto, Move, runVars, envVars, histVars, jobVars, memVars
<1>1. CASE ClaimRun(p) \/ LoseRun(p) \/ Subscribed(p) \/ NotSubscribed(p) \/ List(p)
           \/ Count(p) \/ EndLoop(p) \/ MarkRunSent(p)
  <2>1. /\ pc[p] \notin Calling /\ row' = row /\ calls' = calls /\ copies' = copies
        /\ lost' = lost
    BY <1>1 DEF ClaimRun, LoseRun, Subscribed, NotSubscribed, List, Count, EndLoop,
                MarkRunSent, Calling
  <2>2. hold[p] = {} BY <2>1 DEF Exclusion, Holding
  <2>3. /\ \A q \in Proc \ {p} : hold'[q] = hold[q] /\ pc'[q] = pc[q]
        /\ hold'[p] = {}
    BY <1>1, <2>2 DEF ClaimRun, LoseRun, Subscribed, NotSubscribed, List, Count, EndLoop,
                      MarkRunSent, Rest, TypeOK
  <2> QED BY <2>1, <2>3, AccountsQuiet
<1>2. CASE Prepare(p)
  <2>1. now - Stale \in Int /\ Kept
    BY <1>2, KeptByPrepare, ConstantsAssumption DEF TypeOK
  <2>2. \A q \in Proc : pc[q] \in Calling => pc'[q] = pc[q]
    BY <1>2 DEF Prepare, TypeOK, Calling
  <2> QED BY <1>2, <2>1, <2>2, AccountsCleaned DEF Prepare
<1>3. CASE ClaimRecipient(p)
  <2>0. pc[p] = "loop" /\ hold[p] = {} /\ UNCHANGED <<calls, copies, lost>>
    BY <1>3 DEF ClaimRecipient, Exclusion, Holding, Calling
  <2>1. PICK r \in todo[p] :
           \/ /\ row[r].st \in {"none", "pending"}
              /\ row' = [row EXCEPT ![r] = [st |-> "claimed", at |-> now,
                             n |-> IF row[r].st = "none" THEN 1 ELSE row[r].n]]
              /\ pc' = [pc EXCEPT ![p] = "deliver"] /\ hold' = [hold EXCEPT ![p] = {r}]
           \/ UNCHANGED <<row, pc, hold>>
    BY <1>3 DEF ClaimRecipient, Claimable
  <2>2. CASE UNCHANGED <<row, pc, hold>>
    BY <2>0, <2>2, AccountsQuiet DEF Calling
  <2>3. CASE /\ row[r].st \in {"none", "pending"}
             /\ row' = [row EXCEPT ![r] = [st |-> "claimed", at |-> now,
                             n |-> IF row[r].st = "none" THEN 1 ELSE row[r].n]]
             /\ pc' = [pc EXCEPT ![p] = "deliver"] /\ hold' = [hold EXCEPT ![p] = {r}]
    <3>1. r \in Recipient /\ row[r] \in Row /\ calls[r] \in Nat /\ TriesOK(row[r], calls[r])
      BY DEF TypeOK, Accounts, Tries
    <3>2. \A q \in Proc : r \notin hold[q]
      BY <2>3 DEF Exclusion, HeldClaimed
    <3>3. calls[r] < row'[r].n /\ row'[r].n < MaxSendAttempts /\ row'[r].st = "claimed"
      <4>1. row'[r] = [st |-> "claimed", at |-> now,
                       n |-> IF row[r].st = "none" THEN 1 ELSE row[r].n]
        BY <2>3, <3>1 DEF TypeOK
      <4> QED BY <2>3, <3>1, <4>1, ConstantsAssumption DEF TriesOK, Row
    <3>4. Tries'
      <4> SUFFICES ASSUME NEW x \in Recipient PROVE TriesOK(row'[x], calls[x])
        BY <2>0 DEF Tries
      <4>1. CASE x = r
        BY <4>1, <3>1, <3>3, <2>0 DEF TriesOK, TypeOK, Row
      <4>2. CASE x # r
        BY <4>2, <2>3 DEF Accounts, Tries, TypeOK
      <4> QED BY <4>1, <4>2
    <3>5. InCall'
      BY <2>0, <2>3, <3>1, <3>2, <3>3 DEF Accounts, InCall, TypeOK
    <3>6. Copies'
      BY <2>0, <2>3, <3>1, <3>2 DEF Accounts, Copies, Recorded, TypeOK
    <3> QED BY <3>4, <3>5, <3>6 DEF Accounts
  <2> QED BY <2>1, <2>2, <2>3
<1>4. CASE Deliver(p)
  <2>1. PICK r \in hold[p], answer \in Answer :
           /\ calls' = [calls EXCEPT ![r] = @ + 1]
           /\ copies' = IF answer \in {"accepted", "unanswered"}
                        THEN [copies EXCEPT ![r] = @ + 1] ELSE copies
           /\ lost' = IF answer = "unanswered" THEN [lost EXCEPT ![r] = @ + 1] ELSE lost
           /\ pc' = [pc EXCEPT ![p] = IF answer = "accepted" THEN "accepted" ELSE "refused"]
    BY <1>4 DEF Deliver
  <2>2. pc[p] = "deliver" /\ hold' = hold /\ row' = row
    BY <1>4 DEF Deliver
  <2>3. /\ r \in Recipient /\ row[r] \in Row /\ calls[r] \in Nat /\ calls[r] < row[r].n
        /\ row[r].st = "claimed" /\ TriesOK(row[r], calls[r])
    BY <2>2 DEF TypeOK, Accounts, Tries, InCall, Exclusion, HeldClaimed
  <2>4. hold[p] = {r} /\ \A q \in Proc \ {p} : r \notin hold[q]
    BY <2>2 DEF Exclusion, Holding, OneSenderPerRecipient, Calling
  <2>5. copies[r] <= lost[r] /\ copies[r] \in Nat /\ lost[r] \in Nat
    BY <2>2, <2>3, <2>4 DEF Accounts, Copies, Recorded, TypeOK
  <2>6. Tries'
    <3> SUFFICES ASSUME NEW x \in Recipient PROVE TriesOK(row[x], calls'[x])
      BY <2>2 DEF Tries
    <3>1. CASE x = r
      BY <3>1, <2>1, <2>3 DEF TriesOK, TypeOK, Row
    <3>2. CASE x # r
      BY <3>2, <2>1 DEF Accounts, Tries, TypeOK
    <3> QED BY <3>1, <3>2
  <2>7. InCall'
    <3> SUFFICES ASSUME NEW q \in Proc, NEW x \in hold[q]
                 PROVE  /\ pc'[q] = "deliver" => calls'[x] < row[x].n
                        /\ pc'[q] = "accepted" => calls'[x] > 0
      BY <2>2 DEF InCall
    <3>1. CASE q = p
      BY <3>1, <2>1, <2>2, <2>3, <2>4 DEF TypeOK
    <3>2. CASE q # p
      BY <3>2, <2>1, <2>4 DEF Accounts, InCall, TypeOK
    <3> QED BY <3>1, <3>2
  <2>8. Copies'
    <3> SUFFICES ASSUME NEW x \in Recipient
                 PROVE  /\ copies'[x] <= lost'[x] + 1
                        /\ ~Recorded(x)' => copies'[x] <= lost'[x]
      BY DEF Copies
    <3>1. CASE x = r /\ answer = "accepted"
      BY <3>1, <2>1, <2>2, <2>5 DEF Recorded, TypeOK
    <3>2. CASE x = r /\ answer # "accepted"
      BY <3>2, <2>1, <2>5 DEF TypeOK
    <3>3. CASE x # r
      <4>1. copies'[x] = copies[x] /\ lost'[x] = lost[x]
        BY <3>3, <2>1 DEF TypeOK
      <4>2. Recorded(x)' <=> Recorded(x)
        BY <3>3, <2>1, <2>2, <2>4 DEF Recorded, TypeOK
      <4> QED BY <4>1, <4>2 DEF Accounts, Copies
    <3> QED BY <3>1, <3>2, <3>3
  <2> QED BY <2>6, <2>7, <2>8 DEF Accounts
<1>5. CASE RecordSent(p)
  <2>1. PICK r \in hold[p] :
           row' = [row EXCEPT ![r] = IF row[r].st = "claimed"
                                     THEN [row[r] EXCEPT !.st = "sent"] ELSE row[r]]
    BY <1>5 DEF RecordSent
  <2>2. /\ pc[p] = "accepted" /\ UNCHANGED <<calls, copies, lost>>
        /\ hold' = [hold EXCEPT ![p] = {}] /\ pc' = [pc EXCEPT ![p] = "loop"]
    BY <1>5 DEF RecordSent, Release
  <2>3. /\ r \in Recipient /\ row[r] \in Row /\ calls[r] \in Nat /\ calls[r] > 0
        /\ row[r].st = "claimed" /\ TriesOK(row[r], calls[r])
    BY <2>2 DEF TypeOK, Accounts, Tries, InCall, Exclusion, HeldClaimed
  <2>4. hold[p] = {r} /\ \A q \in Proc \ {p} : r \notin hold[q]
    BY <2>2 DEF Exclusion, Holding, OneSenderPerRecipient, Calling
  <2>5. row' = [row EXCEPT ![r] = [row[r] EXCEPT !.st = "sent"]]
    BY <2>1, <2>3
  <2>6. Tries'
    <3> SUFFICES ASSUME NEW x \in Recipient PROVE TriesOK(row'[x], calls[x])
      BY <2>2 DEF Tries
    <3>1. CASE x = r
      <4>1. row'[x].st = "sent" BY <3>1, <2>5, <2>3 DEF TypeOK, Row
      <4> QED BY <3>1, <4>1, <2>3, ConstantsAssumption DEF TriesOK, Row
    <3>2. CASE x # r
      BY <3>2, <2>5 DEF Accounts, Tries, TypeOK
    <3> QED BY <3>1, <3>2
  <2>7. InCall'
    BY <2>2, <2>4, <2>5 DEF Accounts, InCall, TypeOK
  <2>8. Copies'
    <3> SUFFICES ASSUME NEW x \in Recipient PROVE Recorded(x) => Recorded(x)'
      BY <2>2 DEF Accounts, Copies
    <3>1. CASE x = r
      BY <3>1, <2>3, <2>5 DEF Recorded, TypeOK, Row
    <3>2. CASE x # r
      BY <3>2, <2>2, <2>4, <2>5 DEF Recorded, TypeOK
    <3> QED BY <3>1, <3>2
  <2> QED BY <2>6, <2>7, <2>8 DEF Accounts
<1>6. CASE RecordFailed(p)
  <2>1. PICK r \in hold[p] :
           row' = [row EXCEPT ![r] = IF row[r].st = "claimed" THEN Failed(row[r]) ELSE row[r]]
    BY <1>6 DEF RecordFailed
  <2>2. /\ pc[p] = "refused" /\ UNCHANGED <<calls, copies, lost>>
        /\ hold' = [hold EXCEPT ![p] = {}] /\ pc' = [pc EXCEPT ![p] = "loop"]
    BY <1>6 DEF RecordFailed, Release
  <2>3. /\ r \in Recipient /\ row[r] \in Row /\ calls[r] \in Nat
        /\ row[r].st = "claimed" /\ TriesOK(row[r], calls[r])
    BY <2>2 DEF TypeOK, Accounts, Tries, Exclusion, HeldClaimed
  <2>4. \A q \in Proc \ {p} : r \notin hold[q]
    BY DEF Exclusion, OneSenderPerRecipient
  <2>5. \A x \in Recipient : /\ lost'[x] >= lost[x]
                             /\ TriesOK(row'[x], calls[x])
                             /\ row'[x].st = "sent" <=> row[x].st = "sent"
    <3> SUFFICES ASSUME NEW x \in Recipient
                 PROVE  TriesOK(row'[x], calls[x]) /\ (row'[x].st = "sent" <=> row[x].st = "sent")
      BY <2>2 DEF TypeOK
    <3>1. CASE x = r
      BY <3>1, <2>1, <2>3, ConstantsAssumption DEF TriesOK, Failed, TypeOK, Row
    <3>2. CASE x # r
      BY <3>2, <2>1 DEF Accounts, Tries, TypeOK
    <3> QED BY <3>1, <3>2
  <2>6. \A q \in Proc :
          \/ hold'[q] = {} /\ pc[q] # "accepted"
          \/ /\ hold'[q] = hold[q] /\ pc'[q] = pc[q]
             /\ \A x \in hold[q] : row'[x] = row[x]
    BY <2>1, <2>2, <2>4 DEF TypeOK
  <2> QED BY <2>2, <2>5, <2>6, AccountsKept
<1> QED
  BY <1>1, <1>2, <1>3, <1>4, <1>5, <1>6 DEF Send

LEMMA AccountsJob ==
    ASSUME TypeOK, TypeOK', Exclusion, Accounts, NEW j \in Sched, JobStep(j)
    PROVE  Accounts'
<1> USE DEF At, Goto, Move, runVars, envVars, histVars, jobVars, memVars, procVars
<1>1. CASE CleanClaims(j)
  <2>1. start[j] - Stuck \in Int
    BY ConstantsAssumption DEF TypeOK
  <2> QED BY <1>1, <2>1, KeptByCleaning, AccountsCleaned DEF CleanClaims
<1>2. CASE Select(j)
  <2>1. j \in Proc /\ pc[j] \notin Calling /\ hold[j] = {}
    BY <1>2 DEF Select, Proc, Calling, Exclusion, Holding
  <2>2. \A q \in Proc \ {j} : hold'[q] = hold[q] /\ pc'[q] = pc[q]
    BY <1>2, <2>1 DEF Select, TypeOK
  <2> QED BY <1>2, <2>1, <2>2, AccountsQuiet DEF Select
<1>3. CASE JobStart(j) \/ ExpireStale(j) \/ ClearUnsendable(j) \/ FailExhausted(j)
           \/ RecoverStuck(j) \/ FailStuck(j)
  <2>1. UNCHANGED <<row, pc, hold, calls, copies, lost>>
    BY <1>3 DEF JobStart, ExpireStale, ClearUnsendable, FailExhausted, RecoverStuck, FailStuck
  <2> QED BY <2>1 DEF Accounts, Tries, InCall, Copies, Recorded
<1> QED BY <1>1, <1>2, <1>3 DEF JobStep

LEMMA AccountsWeb ==
    ASSUME TypeOK, TypeOK', Exclusion, Accounts, NEW w \in Web, WebStep(w)
    PROVE  Accounts'
<1> w \in Proc BY DEF Proc
<1> USE DEF At, Goto, Move, NewRequest, runVars, envVars, histVars, jobVars, memVars
<1>1. /\ pc[w] \notin Calling /\ UNCHANGED <<row, calls, copies, lost>>
  BY DEF WebStep, LoadForEdit, Approve, Skip, SendRun, Redraft, Calling
<1>2. hold[w] = {}
  BY <1>1 DEF Exclusion, Holding
<1>3. hold'[w] = {} /\ \A q \in Proc \ {w} : hold'[q] = hold[q] /\ pc'[q] = pc[q]
  BY <1>2 DEF WebStep, LoadForEdit, Approve, Skip, SendRun, Redraft, Rest, TypeOK
<1> QED BY <1>1, <1>3, AccountsQuiet

LEMMA AccountsFault ==
    ASSUME TypeOK, TypeOK', Exclusion, Accounts, NEW p \in Proc, Fault(p)
    PROVE  Accounts'
<1> USE DEF At, NewFault, runVars, envVars, histVars, jobVars, procVars, memVars
<1>1. CASE Abort(p) \/ MissRecipient(p) \/ DbError(p) \/ PhaseFails(p)
  <2>1. /\ pc[p] \notin Calling /\ UNCHANGED <<row, calls, copies, lost>>
    BY <1>1 DEF Abort, MissRecipient, DbError, PhaseFails, Calling
  <2>2. hold[p] = {}
    BY <2>1 DEF Exclusion, Holding
  <2>3. hold'[p] = {} /\ \A q \in Proc \ {p} : hold'[q] = hold[q] /\ pc'[q] = pc[q]
    BY <1>1, <2>2 DEF Abort, MissRecipient, DbError, PhaseFails, Rest, Move, TypeOK
  <2> QED BY <2>1, <2>3, AccountsQuiet
<1>2. CASE Crash(p) \/ LoseRecord(p)
  <2>1. /\ UNCHANGED <<row, calls, copies>> /\ hold'[p] = {}
        /\ \A q \in Proc \ {p} : hold'[q] = hold[q] /\ pc'[q] = pc[q]
    BY <1>2 DEF Crash, LoseRecord, Rest, Release, Move, TypeOK
  <2>2. \A r \in Recipient : lost'[r] = IF pc[p] = "accepted" /\ r \in hold[p]
                                        THEN lost[r] + 1 ELSE lost[r]
    BY <1>2 DEF Crash, LoseRecord
  <2>3. \A r \in Recipient : /\ lost'[r] >= lost[r]
                             /\ TriesOK(row'[r], calls[r])
                             /\ row'[r].st = "sent" <=> row[r].st = "sent"
    BY <2>1, <2>2 DEF TypeOK, Accounts, Tries
  <2>4. \A q \in Proc :
           \/ /\ hold'[q] = {}
              /\ pc[q] = "accepted" => \A r \in hold[q] : lost'[r] > lost[r]
           \/ /\ hold'[q] = hold[q] /\ pc'[q] = pc[q]
              /\ \A r \in hold[q] : row'[r] = row[r]
    <3> SUFFICES ASSUME NEW q \in Proc, q = p, pc[q] = "accepted", NEW r \in hold[q]
                 PROVE  lost'[r] > lost[r]
      BY <2>1
    <3> QED BY <2>2 DEF TypeOK
  <2> QED BY <2>1, <2>3, <2>4, AccountsKept
<1> QED BY <1>1, <1>2 DEF Fault

LEMMA AccountsNext ==
    TypeOK /\ TypeOK' /\ Exclusion /\ Accounts /\ [Next]_vars => Accounts'
<1> SUFFICES ASSUME TypeOK, TypeOK', Exclusion, Accounts, [Next]_vars PROVE Accounts'
  OBVIOUS
<1>1. CASE (\E r \in Recipient : ChangeRecipient(r)) \/ Tick \/ UNCHANGED vars
  <2>1. UNCHANGED <<row, pc, hold, calls, copies, lost>>
    BY <1>1 DEF ChangeRecipient, Tick, vars, procVars, memVars, histVars
  <2> QED BY <2>1 DEF Accounts, Tries, InCall, Copies, Recorded
<1> QED
  BY <1>1, AccountsSend, AccountsFault, AccountsJob, AccountsWeb DEF Next

\* The invariant all the rest follows from.
IInv == TypeOK /\ Exclusion /\ Accounts

LEMMA Invariance == Spec => []IInv
<1>1. Init => IInv
  BY TypeInit, ExclusionInit, AccountsInit DEF IInv
<1>2. IInv /\ [Next]_vars => IInv'
  BY TypeNext, ExclusionNext, AccountsNext DEF IInv
<1> QED BY <1>1, <1>2, PTL DEF Spec

\* No run of crashes, recoveries and approvals makes the provider be called
\* MAX_SEND_ATTEMPTS times for one recipient of one edition.
THEOREM FewCalls == Spec => []SendsBounded
<1>1. IInv => SendsBounded
  BY ConstantsAssumption DEF IInv, Accounts, Tries, TriesOK, SendsBounded, TypeOK, Row
<1> QED BY <1>1, Invariance, PTL

\* A second copy needs a lost record of the first: claims alone never let two
\* processes, or one process twice, deliver the same edition to a recipient.
THEOREM DuplicatesExplained == Spec => []DuplicateNeedsLostRecord
<1>1. IInv => DuplicateNeedsLostRecord
  BY DEF IInv, Accounts, Copies, DuplicateNeedsLostRecord
<1> QED BY <1>1, Invariance, PTL

-----------------------------------------------------------------------------
(* Refinement: every step is a step of the ledger, or none                 *)

LEMMA OutcomeIsCase ==
    /\ Outcome = [r \in Recipient |-> Case(row[r])]
    /\ Outcome' = [r \in Recipient |-> Case(row'[r])]
BY DEF Outcome

\* A step that closes no case and makes no call.
LEMMA OpenStutters ==
    ASSUME TypeOK, TypeOK', calls' = calls, \A r \in Recipient : Case(row'[r]) = Case(row[r])
    PROVE  UNCHANGED <<Outcome, calls>>
BY OutcomeIsCase

LEMMA CaseCleaned ==
    ASSUME NEW s \in Row, NEW x \in Int
    PROVE  /\ \/ Case(GiveUp(FailStale(s, x))) = Case(s)
              \/ Case(s) = "open" /\ Case(GiveUp(FailStale(s, x))) = "abandoned"
           /\ Case(Reopen(GiveUp(FailStale(s, x)))) = Case(GiveUp(FailStale(s, x)))
<1>1. FailStale(s, x) \in Row /\ Case(FailStale(s, x)) = Case(s)
  BY RowSteps DEF FailStale, Failed, Case, Row
<1>2. ASSUME NEW t \in Row
      PROVE  \/ Case(GiveUp(t)) = Case(t)
             \/ Case(t) = "open" /\ Case(GiveUp(t)) = "abandoned"
  BY DEF GiveUp, Case, Row
<1>3. ASSUME NEW t \in Row PROVE Case(Reopen(t)) = Case(t)
  BY DEF Reopen, Case, Row
<1>4. GiveUp(FailStale(s, x)) \in Row
  BY RowCleanups
<1> QED BY <1>1, <1>2, <1>3, <1>4

\* A clean-up of all the rows abandons the cases it finds exhausted.
LEMMA CleaningAbandons ==
    ASSUME TypeOK, TypeOK', NEW x \in Int, calls' = calls,
           \/ row' = [r \in Recipient |-> GiveUp(FailStale(row[r], x))]
           \/ row' = [r \in Recipient |-> Reopen(GiveUp(FailStale(row[r], x)))]
    PROVE  Ledger!Next
<1> DEFINE S == {r \in Recipient : Case(row'[r]) # Case(row[r])}
<1>1. \A r \in Recipient : \/ Case(row'[r]) = Case(row[r])
                           \/ Case(row[r]) = "open" /\ Case(row'[r]) = "abandoned"
  BY CaseCleaned DEF TypeOK
<1>2. \A r \in S : Outcome[r] = "open"
  BY <1>1, OutcomeIsCase
<1>3. Outcome' = [r \in Recipient |-> IF r \in S THEN "abandoned" ELSE Outcome[r]]
  BY <1>1, OutcomeIsCase
<1>4. Ledger!Abandon(S)
  BY <1>2, <1>3 DEF Ledger!Abandon
<1> QED BY <1>4 DEF Ledger!Next

LEMMA SendRefines ==
    ASSUME IInv, TypeOK', NEW p \in Proc, Send(p)
    PROVE  Ledger!Next \/ UNCHANGED <<Outcome, calls>>
<1> USE DEF At, Goto, Move, Release, runVars, histVars
<1> TypeOK /\ Exclusion /\ Accounts BY DEF IInv
<1>1. CASE Prepare(p)
  <2>1. now - Stale \in Int BY ConstantsAssumption DEF TypeOK
  <2> QED BY <1>1, <2>1, CleaningAbandons DEF Prepare
<1>2. CASE Deliver(p)
  <2>1. PICK r \in hold[p] : calls' = [calls EXCEPT ![r] = @ + 1]
    BY <1>2 DEF Deliver
  <2>2. r \in Recipient /\ row[r] \in Row /\ row[r].st = "claimed"
    BY <2>1 DEF TypeOK, Exclusion, HeldClaimed
  <2>3. calls[r] < row[r].n /\ row[r].n < MaxSendAttempts /\ calls[r] \in Nat
    BY <1>2, <2>1, <2>2 DEF Deliver, Accounts, InCall, Tries, TriesOK, TypeOK
  <2>4. calls[r] < MaxSendAttempts - 1
    BY <2>2, <2>3, ConstantsAssumption DEF Row
  <2>5. Outcome[r] = "open" /\ Outcome' = Outcome
    BY <1>2, <2>2, OutcomeIsCase DEF Deliver, Case
  <2> QED BY <2>1, <2>2, <2>4, <2>5 DEF Ledger!Next, Ledger!Try
<1>3. CASE RecordSent(p)
  <2>1. PICK r \in hold[p] :
          row' = [row EXCEPT ![r] = IF @.st = "claimed" THEN [@ EXCEPT !.st = "sent"] ELSE @]
    BY <1>3 DEF RecordSent
  <2>2. r \in Recipient /\ row[r] \in Row /\ row[r].st = "claimed" /\ calls[r] > 0
    BY <1>3, <2>1 DEF RecordSent, TypeOK, Exclusion, HeldClaimed, Accounts, InCall
  <2>3. row'[r].st = "sent" /\ \A x \in Recipient \ {r} : row'[x] = row[x]
    BY <2>1, <2>2 DEF TypeOK, Row
  <2>4. Outcome[r] = "open" /\ Outcome' = [Outcome EXCEPT ![r] = "delivered"]
    BY <2>2, <2>3, OutcomeIsCase DEF Case
  <2> QED BY <1>3, <2>2, <2>4 DEF RecordSent, Ledger!Next, Ledger!Confirm
<1>4. CASE ClaimRecipient(p) \/ RecordFailed(p)
  <2>1. calls' = calls
    BY <1>4 DEF ClaimRecipient, RecordFailed
  <2>2. \A r \in Recipient :
          \/ row'[r] = row[r]
          \/ row[r].st \in {"none", "pending", "claimed"} /\ row'[r].st \in {"claimed", "failed"}
    <3>1. CASE ClaimRecipient(p)
      BY <3>1 DEF ClaimRecipient, Claimable, TypeOK
    <3>2. CASE RecordFailed(p)
      BY <3>2 DEF RecordFailed, Failed, TypeOK
    <3> QED BY <1>4, <3>1, <3>2
  <2>3. \A r \in Recipient : Case(row'[r]) = Case(row[r])
    BY <2>2 DEF Case
  <2> QED BY <2>1, <2>3, OpenStutters
<1>5. CASE ClaimRun(p) \/ LoseRun(p) \/ Subscribed(p) \/ NotSubscribed(p) \/ List(p)
           \/ Count(p) \/ EndLoop(p) \/ MarkRunSent(p)
  <2>1. row' = row /\ calls' = calls
    BY <1>5 DEF ClaimRun, LoseRun, Subscribed, NotSubscribed, List, Count, EndLoop, MarkRunSent
  <2> QED BY <2>1, OpenStutters
<1> QED BY <1>1, <1>2, <1>3, <1>4, <1>5 DEF Send

LEMMA NextRefines ==
    IInv /\ TypeOK' /\ [Next]_vars => [Ledger!Next]_<<Outcome, calls>>
<1> SUFFICES ASSUME IInv, TypeOK', [Next]_vars
             PROVE  Ledger!Next \/ UNCHANGED <<Outcome, calls>>
  OBVIOUS
<1> USE DEF runVars, histVars, vars
<1> TypeOK BY DEF IInv
<1>1. ASSUME NEW j \in Sched, JobStep(j)
      PROVE  Ledger!Next \/ UNCHANGED <<Outcome, calls>>
  <2>1. CASE CleanClaims(j)
    <3>1. start[j] - Stuck \in Int BY ConstantsAssumption DEF TypeOK
    <3> QED BY <2>1, <3>1, CleaningAbandons DEF CleanClaims
  <2>2. CASE ~CleanClaims(j)
    <3>1. row' = row /\ calls' = calls
      BY <1>1, <2>2 DEF JobStep, JobStart, ExpireStale, ClearUnsendable, FailExhausted,
                        Select, RecoverStuck, FailStuck
    <3> QED BY <3>1, OpenStutters
  <2> QED BY <2>1, <2>2
<1>2. ASSUME NEW p \in Proc, Fault(p) PROVE UNCHANGED <<Outcome, calls>>
  <2>1. row' = row /\ calls' = calls
    BY <1>2 DEF Fault, Crash, Abort, MissRecipient, LoseRecord, DbError, PhaseFails
  <2> QED BY <2>1, OpenStutters
<1>3. ASSUME NEW w \in Web, WebStep(w) PROVE UNCHANGED <<Outcome, calls>>
  <2>1. row' = row /\ calls' = calls
    BY <1>3 DEF WebStep, LoadForEdit, Approve, Skip, SendRun, Redraft
  <2> QED BY <2>1, OpenStutters
<1>4. CASE (\E r \in Recipient : ChangeRecipient(r)) \/ Tick \/ UNCHANGED vars
  <2>1. row' = row /\ calls' = calls
    BY <1>4 DEF ChangeRecipient, Tick
  <2> QED BY <2>1, OpenStutters
<1> QED BY <1>1, <1>2, <1>3, <1>4, SendRefines DEF Next

\* The delivery implements the ledger: whatever senders, crashes and retries
\* interleave, each recipient's case goes through tries to one final outcome.
THEOREM Refinement == Spec => ImplementsLedger
<1>1. Init => Ledger!Init
  BY DEF Init, Ledger!Init, Outcome, Case
<1>2. IInv /\ TypeOK' /\ [Next]_vars => [Ledger!Next]_<<Outcome, calls>>
  BY NextRefines
<1>3. IInv => TypeOK
  BY DEF IInv
<1> QED BY <1>1, <1>2, <1>3, Invariance, PTL DEF Spec, ImplementsLedger, Ledger!Spec

-----------------------------------------------------------------------------
(***************************************************************************)
(* The run as a whole: its counter of mails agrees with the rows of its    *)
(* recipients, and a run marked sent left nobody untried.                  *)
(***************************************************************************)

(* What a step does to the rows *)

\* The clean-up transactions neither record a mail nor forget a recipient.
LEMMA CleaningKeeps ==
    ASSUME NEW s \in Row, NEW c \in Int, NEW k \in {"none", "sent"}
    PROVE  /\ GiveUp(FailStale(s, c)).st = k <=> s.st = k
           /\ Reopen(GiveUp(FailStale(s, c))).st = k <=> s.st = k
<1>1. FailStale(s, c) \in Row /\ (FailStale(s, c).st = k <=> s.st = k)
  BY RowSteps DEF FailStale, Failed, Row
<1>2. GiveUp(FailStale(s, c)) \in Row /\ (GiveUp(FailStale(s, c)).st = k <=> s.st = k)
  BY <1>1, RowSteps DEF GiveUp, Row
<1> QED BY <1>2 DEF Reopen, Row

\* Rows whose state "none" or "sent" no step but a claim and a record changes.
Settled(r) == /\ row'[r].st = "none" <=> row[r].st = "none"
              /\ row'[r].st = "sent" <=> row[r].st = "sent"

LEMMA CleaningSettled ==
    ASSUME TypeOK, NEW c \in Int, NEW r \in Recipient,
           \/ row' = [x \in Recipient |-> GiveUp(FailStale(row[x], c))]
           \/ row' = [x \in Recipient |-> Reopen(GiveUp(FailStale(row[x], c)))]
    PROVE  Settled(r)
<1>1. row[r] \in Row BY DEF TypeOK
<1>2. ASSUME NEW k \in {"none", "sent"} PROVE row'[r].st = k <=> row[r].st = k
  BY <1>1, CleaningKeeps
<1> QED BY <1>2 DEF Settled

-----------------------------------------------------------------------------
(* emails_sent                                                             *)

\* A step of the sender either leaves the recorded rows and the counter alone, or
\* records one row and counts it.
LEMMA SendRecords ==
    ASSUME TypeOK, Exclusion, NEW p \in Proc, Send(p)
    PROVE  \/ emails' = emails /\ \A r \in Recipient : row'[r].st = "sent" <=> row[r].st = "sent"
           \/ /\ emails' = emails + 1
              /\ \E r \in Recipient :
                    /\ row[r].st # "sent" /\ row'[r].st = "sent"
                    /\ \A x \in Recipient \ {r} : row'[x] = row[x]
<1>1. CASE ClaimRun(p) \/ LoseRun(p) \/ Subscribed(p) \/ NotSubscribed(p) \/ List(p)
           \/ Count(p) \/ Deliver(p) \/ EndLoop(p) \/ MarkRunSent(p)
  <2>1. row' = row /\ emails' = emails
    BY <1>1 DEF ClaimRun, LoseRun, Subscribed, NotSubscribed, List, Count, Deliver,
                EndLoop, MarkRunSent, runVars
  <2> QED BY <2>1
<1>2. CASE Prepare(p)
  <2>1. now - Stale \in Int BY ConstantsAssumption DEF TypeOK
  <2>2. \A r \in Recipient : Settled(r) BY <1>2, <2>1, CleaningSettled DEF Prepare
  <2> QED BY <1>2, <2>2 DEF Prepare, Settled, runVars
<1>3. CASE ClaimRecipient(p)
  <2>1. emails' = emails BY <1>3 DEF ClaimRecipient, runVars
  <2>2. \/ row' = row
        \/ \E r \in Recipient : /\ row[r].st \in {"none", "pending"}
                                /\ row'[r].st = "claimed"
                                /\ \A x \in Recipient \ {r} : row'[x] = row[x]
    BY <1>3 DEF ClaimRecipient, Claimable, TypeOK
  <2> QED BY <2>1, <2>2
<1>4. CASE RecordSent(p)
  <2>1. PICK r \in hold[p] :
           row' = [row EXCEPT ![r] = IF @.st = "claimed" THEN [@ EXCEPT !.st = "sent"] ELSE @]
    BY <1>4 DEF RecordSent
  <2>2. r \in Recipient /\ row[r] \in Row /\ row[r].st = "claimed"
    BY DEF TypeOK, Exclusion, HeldClaimed
  <2>3. row'[r].st = "sent" /\ \A x \in Recipient \ {r} : row'[x] = row[x]
    BY <2>1, <2>2 DEF TypeOK, Row
  <2> QED BY <1>4, <2>2, <2>3 DEF RecordSent
<1>5. CASE RecordFailed(p)
  <2>1. PICK r \in hold[p] :
           row' = [row EXCEPT ![r] = IF @.st = "claimed" THEN Failed(@) ELSE @]
    BY <1>5 DEF RecordFailed
  <2>2. \A x \in Recipient : row'[x].st = "sent" <=> row[x].st = "sent"
    BY <2>1 DEF TypeOK, Row, Failed
  <2> QED BY <1>5, <2>2 DEF RecordFailed, runVars
<1> QED BY <1>1, <1>2, <1>3, <1>4, <1>5 DEF Send

LEMMA OthersRecordNothing ==
    ASSUME TypeOK, [Next]_vars, \A p \in Proc : ~Send(p)
    PROVE  emails' = emails /\ \A r \in Recipient : Settled(r)
<1>1. CASE \E p \in Proc : Fault(p)
  <2>1. row' = row /\ emails' = emails
    BY <1>1 DEF Fault, Crash, Abort, MissRecipient, LoseRecord, DbError, PhaseFails, runVars
  <2> QED BY <2>1 DEF Settled
<1>2. CASE \E j \in Sched : JobStep(j)
  <2> PICK j \in Sched : JobStep(j) BY <1>2
  <2>1. CASE CleanClaims(j)
    <3>1. start[j] - Stuck \in Int BY ConstantsAssumption DEF TypeOK
    <3>2. \A r \in Recipient : Settled(r) BY <2>1, <3>1, CleaningSettled DEF CleanClaims
    <3> QED BY <2>1, <3>2 DEF CleanClaims, runVars
  <2>2. CASE ~CleanClaims(j)
    <3>1. row' = row /\ emails' = emails
      BY <2>2 DEF JobStep, JobStart, ExpireStale, ClearUnsendable, FailExhausted, Select,
                  RecoverStuck, FailStuck, runVars
    <3> QED BY <3>1 DEF Settled
  <2> QED BY <2>1, <2>2
<1>3. CASE (\E w \in Web : WebStep(w)) \/ (\E r \in Recipient : ChangeRecipient(r)) \/ Tick
           \/ UNCHANGED vars
  <2>1. row' = row /\ emails' = emails
    BY <1>3 DEF WebStep, LoadForEdit, Approve, Skip, SendRun, Redraft, ChangeRecipient, Tick,
                vars, runVars
  <2> QED BY <2>1 DEF Settled
<1> QED BY <1>1, <1>2, <1>3 DEF Next

SentRows == {r \in Recipient : row[r].st = "sent"}

LEMMA CounterNext ==
    TypeOK /\ Exclusion /\ EmailsSentCountsRows /\ [Next]_vars => EmailsSentCountsRows'
<1> SUFFICES ASSUME TypeOK, Exclusion, EmailsSentCountsRows, [Next]_vars
             PROVE  emails' = Cardinality(SentRows')
  BY DEF EmailsSentCountsRows, SentRows
<1>0. emails = Cardinality(SentRows) /\ IsFiniteSet(SentRows)
  BY FiniteAssumption, FS_Subset DEF EmailsSentCountsRows, SentRows
<1>1. CASE emails' = emails /\ \A r \in Recipient : row'[r].st = "sent" <=> row[r].st = "sent"
  <2>1. SentRows' = SentRows BY <1>1 DEF SentRows
  <2> QED BY <1>0, <1>1, <2>1
<1>2. ASSUME emails' = emails + 1, NEW r \in Recipient,
             row[r].st # "sent", row'[r].st = "sent",
             \A x \in Recipient \ {r} : row'[x] = row[x]
      PROVE  emails' = Cardinality(SentRows')
  <2>1. SentRows' = SentRows \cup {r} /\ r \notin SentRows
    BY <1>2 DEF SentRows
  <2>2. Cardinality(SentRows \cup {r}) = Cardinality(SentRows) + 1
    BY <1>0, <2>1, FS_AddElement
  <2> QED BY <1>0, <1>2, <2>1, <2>2
<1> QED
  BY <1>1, <1>2, SendRecords, OthersRecordNothing DEF Settled

\* brief_run.emails_sent is the number of rows recorded as sent, for any number of
\* recipients and senders: _mark_recipient_sent may add 1 unseen because the row it
\* updates is still claimed whenever it runs.
THEOREM CounterAgrees == Spec => []EmailsSentCountsRows
<1>1. Init => TypeOK /\ Exclusion /\ EmailsSentCountsRows
  <2>1. ASSUME Init PROVE EmailsSentCountsRows
    <3>1. {r \in Recipient : row[r].st = "sent"} = {} BY <2>1 DEF Init
    <3> QED BY <2>1, <3>1, FS_EmptySet DEF Init, EmailsSentCountsRows
  <2> QED BY <2>1, TypeInit, ExclusionInit
<1>2. TypeOK /\ Exclusion /\ EmailsSentCountsRows /\ [Next]_vars
      => (TypeOK /\ Exclusion /\ EmailsSentCountsRows)'
  BY TypeNext, ExclusionNext, CounterNext
<1> QED BY <1>1, <1>2, PTL DEF Spec

-----------------------------------------------------------------------------
(* A run marked sent was tried for everybody                               *)

Tried(r) == r \in missed \/ row[r].st # "none"

\* Who is not active was missed, or retired by a refusal of her own mail.
Reachable == \A r \in Recipient : r \in active \/ Tried(r)

Sending == {"list", "count", "loop", "finish"} \cup Calling

\* Each sender has still to come to whom nobody has tried; one that closes the run
\* has nobody left to come to.
Covers(p) ==
    /\ pc[p] \in Sending => \A r \in Early : r \in todo[p] \/ Tried(r)
    /\ pc[p] \in {"count", "finish"} => todo[p] = {}

Coverage ==
    /\ Reachable
    /\ \A p \in Proc : Covers(p)
    /\ status = "sent" => \A r \in Early : Tried(r)

\* Once tried, always tried: no step deletes a row or forgets a miss.
LEMMA TriedStays ==
    ASSUME TypeOK, Exclusion, [Next]_vars, NEW r \in Recipient, Tried(r)
    PROVE  Tried(r)'
<1>1. missed \subseteq missed'
  BY DEF Next, vars, histVars, Send, ClaimRun, LoseRun, Subscribed, NotSubscribed, Prepare,
         List, Count, ClaimRecipient, Deliver, RecordSent, RecordFailed, EndLoop, MarkRunSent,
         Fault, Crash, Abort, MissRecipient, LoseRecord, DbError, PhaseFails,
         JobStep, JobStart, ExpireStale, ClearUnsendable, FailExhausted, Select,
         RecoverStuck, FailStuck, CleanClaims,
         WebStep, LoadForEdit, Approve, Skip, SendRun, Redraft, ChangeRecipient, Tick
<1>2. ASSUME row[r].st # "none" PROVE row'[r].st # "none"
  <2>1. CASE \A p \in Proc : ~Send(p)
    BY <1>2, <2>1, OthersRecordNothing DEF Settled
  <2>2. CASE \E p \in Proc : Send(p)
    <3> PICK p \in Proc : Send(p) BY <2>2
    <3>1. CASE Prepare(p)
      <4>1. now - Stale \in Int BY ConstantsAssumption DEF TypeOK
      <4>2. Settled(r) BY <3>1, <4>1, CleaningSettled DEF Prepare
      <4> QED BY <1>2, <4>2 DEF Settled
    <3>2. CASE ClaimRecipient(p)
      BY <1>2, <3>2 DEF ClaimRecipient, TypeOK
    <3>3. CASE RecordSent(p) \/ RecordFailed(p)
      <4>1. row'[r].st \in {row[r].st, "sent", "failed"}
        <5>1. row[r] \in Row BY DEF TypeOK
        <5>2. CASE RecordSent(p) BY <5>1, <5>2 DEF RecordSent, TypeOK, Row
        <5>3. CASE RecordFailed(p) BY <5>1, <5>3 DEF RecordFailed, Failed, TypeOK, Row
        <5> QED BY <3>3, <5>2, <5>3
      <4> QED BY <1>2, <4>1
    <3>4. CASE ~(Prepare(p) \/ ClaimRecipient(p) \/ RecordSent(p) \/ RecordFailed(p))
      <4>1. row' = row
        BY <3>4 DEF Send, ClaimRun, LoseRun, Subscribed, NotSubscribed, List, Count,
                    Deliver, EndLoop, MarkRunSent
      <4> QED BY <1>2, <4>1
    <3> QED BY <3>1, <3>2, <3>3, <3>4
  <2> QED BY <2>1, <2>2
<1> QED BY <1>1, <1>2 DEF Tried

LEMMA ReachableStays ==
    ASSUME TypeOK, Exclusion, Reachable, [Next]_vars
    PROVE  Reachable'
<1> SUFFICES ASSUME NEW r \in Recipient, ~Tried(r)' PROVE r \in active'
  BY DEF Reachable
<1>1. ~Tried(r) /\ r \in active BY TriedStays DEF Reachable
<1>2. CASE \E p \in Proc : Deliver(p)
  BY <1>1, <1>2 DEF Deliver, Exclusion, HeldClaimed, Tried
<1>3. CASE \E x \in Recipient : ChangeRecipient(x)
  BY <1>1, <1>3 DEF ChangeRecipient, Tried
<1>4. CASE ~(\E p \in Proc : Deliver(p)) /\ ~(\E x \in Recipient : ChangeRecipient(x))
  <2>1. active' = active
    BY <1>4 DEF Next, vars, Send, ClaimRun, LoseRun, Subscribed, NotSubscribed, Prepare,
         List, Count, ClaimRecipient, RecordSent, RecordFailed, EndLoop, MarkRunSent,
         Fault, Crash, Abort, MissRecipient, LoseRecord, DbError, PhaseFails,
         JobStep, JobStart, ExpireStale, ClearUnsendable, FailExhausted, Select,
         RecoverStuck, FailStuck, CleanClaims,
         WebStep, LoadForEdit, Approve, Skip, SendRun, Redraft, Tick
  <2> QED BY <1>1, <2>1
<1> QED BY <1>2, <1>3, <1>4

\* A process is covered after a step that leaves it alone, lets it rest, or moves it
\* to a label at which it covers nobody.
LEMMA CoveredStill ==
    ASSUME TypeOK, Exclusion, Coverage, [Next]_vars, NEW p \in Proc,
           \/ pc'[p] = pc[p] /\ todo'[p] = todo[p]
           \/ pc'[p] \notin Sending
    PROVE  Covers(p)'
<1>1. CASE pc'[p] \notin Sending
  BY <1>1 DEF Covers, Sending
<1>2. CASE pc'[p] = pc[p] /\ todo'[p] = todo[p]
  <2>1. \A r \in Early : Tried(r) => Tried(r)'
    BY TriedStays, ConstantsAssumption
  <2> QED BY <1>2, <2>1 DEF Covers, Coverage
<1> QED BY <1>1, <1>2

LEMMA SenderCovers ==
    ASSUME TypeOK, Exclusion, Coverage, [Next]_vars, NEW p \in Proc, Send(p)
    PROVE  Covers(p)'
<1> USE DEF At, Goto, Move, memVars, TypeOK
<1>t. \A r \in Early : Tried(r) => Tried(r)'
  BY TriedStays, ConstantsAssumption
<1>c. Covers(p) /\ Reachable BY DEF Coverage
<1>1. CASE ClaimRun(p) \/ LoseRun(p) \/ Subscribed(p) \/ NotSubscribed(p) \/ MarkRunSent(p)
  <2>1. pc'[p] \notin Sending
    BY <1>1 DEF ClaimRun, LoseRun, Subscribed, NotSubscribed, MarkRunSent, Rest, Sending, Calling
  <2> QED BY <2>1, CoveredStill
<1>2. CASE Prepare(p)
  <2>1. pc'[p] = "list" /\ todo'[p] = active \cap Early BY <1>2 DEF Prepare
  <2>2. \A r \in Early : r \in todo'[p] \/ Tried(r)
    BY <2>1, <1>c, ConstantsAssumption DEF Reachable
  <2> QED BY <2>1, <2>2, <1>t DEF Covers
<1>3. CASE List(p)
  <2>1. row' = row /\ missed' = missed /\ pc[p] = "list"
    BY <1>3 DEF List, histVars
  <2>2. \A r \in todo[p] : r \in todo'[p] \/ Handled(row[r], at[p] - Stale)
    BY <1>3 DEF List
  <2>3. \A r \in Early : r \in todo'[p] \/ Tried(r)
    BY <2>1, <2>2, <1>c DEF Covers, Sending, Handled, InProgress, Tried
  <2>4. pc'[p] = "count" => todo'[p] = {}
    BY <1>3 DEF List
  <2>5. pc'[p] # "finish" BY <1>3 DEF List
  <2> QED BY <2>3, <2>4, <2>5, <1>t DEF Covers
<1>4. CASE Count(p)
  <2>1. pc[p] = "count" /\ (pc'[p] = "idle" \/ (pc'[p] = "finish" /\ todo' = todo))
    BY <1>4 DEF Count, Rest
  <2> QED BY <2>1, <1>c, <1>t DEF Covers, Sending, Calling
<1>5. CASE ClaimRecipient(p)
  <2>1. PICK r \in todo[p] :
           /\ todo' = [todo EXCEPT ![p] = @ \ {r}]
           /\ IF Claimable(row[r])
              THEN /\ row' = [row EXCEPT ![r] =
                       [st |-> "claimed", at |-> now,
                        n |-> IF @.st = "none" THEN 1 ELSE @.n]]
                   /\ pc' = [pc EXCEPT ![p] = "deliver"]
              ELSE UNCHANGED <<row, pc, hold>>
    BY <1>5 DEF ClaimRecipient
  <2>2. Tried(r)'
    BY <2>1 DEF Tried, Claimable
  <2>3. pc[p] = "loop" /\ pc'[p] \in {"loop", "deliver"}
    BY <1>5, <2>1 DEF ClaimRecipient
  <2>4. \A x \in Early : x \in todo[p] \/ Tried(x)
    BY <2>3, <1>c DEF Covers, Sending
  <2>5. \A x \in Early : x \in todo'[p] \/ Tried(x)'
    BY <2>1, <2>2, <2>4, <1>t
  <2> QED BY <2>3, <2>5 DEF Covers
<1>6. CASE Deliver(p) \/ RecordSent(p) \/ RecordFailed(p)
  <2>1. pc[p] \in Calling /\ pc'[p] \in {"accepted", "refused", "loop"} /\ todo' = todo
    BY <1>6 DEF Deliver, RecordSent, RecordFailed, Release, Calling
  <2> QED BY <2>1, <1>c, <1>t DEF Covers, Sending, Calling
<1>7. CASE EndLoop(p)
  <2>1. pc[p] = "loop" /\ todo[p] = {}
        /\ (pc'[p] = "idle" \/ (pc'[p] = "finish" /\ todo' = todo))
    BY <1>7 DEF EndLoop, Rest
  <2> QED BY <2>1, <1>c, <1>t DEF Covers, Sending, Calling
<1> QED BY <1>1, <1>2, <1>3, <1>4, <1>5, <1>6, <1>7 DEF Send

LEMMA FaultCovers ==
    ASSUME TypeOK, Exclusion, Coverage, [Next]_vars, NEW p \in Proc, Fault(p)
    PROVE  Covers(p)'
<1> USE DEF At, Goto, Move, memVars, procVars, TypeOK
<1>t. \A r \in Early : Tried(r) => Tried(r)'
  BY TriedStays, ConstantsAssumption
<1>c. Covers(p) BY DEF Coverage
<1>1. CASE Crash(p) \/ Abort(p) \/ DbError(p) \/ (p \in Sched /\ PhaseFails(p))
  <2>1. pc'[p] = "idle" \/ (pc' = pc /\ todo' = todo)
    BY <1>1 DEF Crash, Abort, DbError, PhaseFails, Rest
  <2> QED BY <2>1, CoveredStill DEF Sending, Calling
<1>2. CASE MissRecipient(p)
  <2>1. PICK r \in todo[p] : todo' = [todo EXCEPT ![p] = @ \ {r}] /\ missed' = missed \cup {r}
    BY <1>2 DEF MissRecipient
  <2>2. Tried(r)' BY <2>1 DEF Tried
  <2>3. pc[p] = "loop" /\ pc' = pc BY <1>2 DEF MissRecipient
  <2>4. \A x \in Early : x \in todo[p] \/ Tried(x)
    BY <2>3, <1>c DEF Covers, Sending
  <2>5. \A x \in Early : x \in todo'[p] \/ Tried(x)'
    BY <2>1, <2>2, <2>4, <1>t
  <2> QED BY <2>3, <2>5 DEF Covers
<1>3. CASE LoseRecord(p)
  <2>1. pc[p] \in Calling /\ pc'[p] = "loop" /\ todo' = todo
    BY <1>3 DEF LoseRecord, Release, Calling
  <2> QED BY <2>1, <1>c, <1>t DEF Covers, Sending, Calling
<1> QED BY <1>1, <1>2, <1>3 DEF Fault

\* Every other process keeps its place and its list.
LEMMA OthersCover ==
    ASSUME TypeOK, Exclusion, Coverage, NEW p \in Proc, Send(p) \/ Fault(p), [Next]_vars,
           NEW q \in Proc \ {p}
    PROVE  Covers(q)'
<1>1. pc'[q] = pc[q] /\ todo'[q] = todo[q]
  BY DEF TypeOK, At, Goto, Move, Rest, Release, memVars, procVars, Send, ClaimRun, LoseRun,
         Subscribed, NotSubscribed, Prepare, List, Count, ClaimRecipient, Deliver,
         RecordSent, RecordFailed, EndLoop, MarkRunSent, Fault, Crash, Abort, MissRecipient,
         LoseRecord, DbError, PhaseFails
<1> QED BY <1>1, CoveredStill

LEMMA RequestsCover ==
    ASSUME TypeOK, Exclusion, Coverage, [Next]_vars, NEW q \in Proc,
           \/ \E j \in Sched : JobStep(j)
           \/ \E w \in Web : WebStep(w)
           \/ \E r \in Recipient : ChangeRecipient(r)
           \/ Tick
           \/ UNCHANGED vars
    PROVE  Covers(q)'
<1>1. \/ pc'[q] = pc[q] /\ todo'[q] = todo[q]
      \/ pc'[q] \in {"idle", "claim", "editing"}
  BY DEF TypeOK, At, Goto, Move, Rest, Advance, memVars, procVars, vars, Proc, JobStep,
         JobStart, ExpireStale, ClearUnsendable, FailExhausted, Select, RecoverStuck,
         FailStuck, CleanClaims, WebStep, LoadForEdit, Approve, Skip, SendRun, Redraft,
         ChangeRecipient, Tick
<1> QED BY <1>1, CoveredStill DEF Sending, Calling

\* Only the end of a send marks the run sent.
LEMMA OnlyAnEndMarks ==
    ASSUME TypeOK, [Next]_vars, status' = "sent", status # "sent"
    PROVE  \E p \in Proc : At(p, "finish")
<1>1. CASE \E p \in Proc : Send(p)
  BY <1>1 DEF Send, ClaimRun, LoseRun, Subscribed, NotSubscribed, ResetToApproved, Prepare,
         List, Count, ClaimRecipient, Deliver, RecordSent, RecordFailed, EndLoop, MarkRunSent,
         runVars
<1>2. CASE ~\E p \in Proc : Send(p)
  BY <1>2 DEF Next, vars, runVars, Fault, Crash, Abort, ResetToApproved, MissRecipient,
         LoseRecord, DbError, PhaseFails, JobStep, JobStart, ExpireStale, ClearUnsendable,
         FailExhausted, Select, RecoverStuck, FailStuck, FailRunIf, CleanClaims,
         WebStep, LoadForEdit, Approve, Skip, SendRun, Redraft, ChangeRecipient, Tick
<1> QED BY <1>1, <1>2

LEMMA CoverageNext == TypeOK /\ Exclusion /\ Coverage /\ [Next]_vars => Coverage'
<1> SUFFICES ASSUME TypeOK, Exclusion, Coverage, [Next]_vars PROVE Coverage'
  OBVIOUS
<1>1. Reachable' BY ReachableStays DEF Coverage
<1>2. ASSUME NEW q \in Proc PROVE Covers(q)'
  BY SenderCovers, FaultCovers, OthersCover, RequestsCover DEF Next
<1>3. ASSUME status' = "sent", NEW r \in Early PROVE Tried(r)'
  <2>1. Tried(r)
    BY <1>3, OnlyAnEndMarks DEF Coverage, Covers, At, Sending
  <2> QED BY <2>1, TriedStays, ConstantsAssumption
<1> QED BY <1>1, <1>2, <1>3 DEF Coverage

\* A run marked sent was tried for every eligible recipient, whoever marked it and
\* however many senders shared it, unless she was inactive at some time or her claim
\* failed in the database.
THEOREM EverybodyTried == Spec => []SentRunTriedEveryone
<1>1. Init => TypeOK /\ Exclusion /\ Coverage
  <2>1. ASSUME Init PROVE Coverage
    BY <2>1 DEF Init, Coverage, Reachable, Covers, Sending, Calling
  <2> QED BY <2>1, TypeInit, ExclusionInit
<1>2. TypeOK /\ Exclusion /\ Coverage /\ [Next]_vars => (TypeOK /\ Exclusion /\ Coverage)'
  BY TypeNext, ExclusionNext, CoverageNext
<1>3. Coverage => SentRunTriedEveryone
  BY DEF Coverage, SentRunTriedEveryone, Tried
<1> QED BY <1>1, <1>2, <1>3, PTL DEF Spec
=============================================================================
