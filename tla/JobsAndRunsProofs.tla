-------------------------- MODULE JobsAndRunsProofs --------------------------
(***************************************************************************)
(* Proofs about two kinds of work that several processes do from           *)
(* PostgreSQL: JobQueue, for every number of rows, keys, workers, sweepers *)
(* and requests; and RunGeneration, for days and weeks of any length,      *)
(* clocks that change in any hour but the first, and any number of         *)
(* instances, failures and users' actions.  The two have no state in       *)
(* common: every theorem is about the specification it names.              *)
(***************************************************************************)
EXTENDS JobQueue, RunGeneration, FiniteSetTheorems, TLAPS

(* JobQueue: the inductive invariant *)

\* A worker that is not idle has exactly one job.
Holding ==
    \A w \in Worker : IF workerPc[w] = "idle" THEN hold[w] = {}
                                              ELSE \E j \in Job : hold[w] = {j}

\* A job in a worker's hands is running, or was marked stale meanwhile.
HeldRuns == \A w \in Worker : \A j \in hold[w] : status[j] \in {"running", "stale"}

\* A job that waits has an attempt left.
AttemptsLeft ==
    \A j \in Job : /\ attempts[j] <= MaxAttempts
                   /\ status[j] \in {"none", "queued"} => attempts[j] < MaxAttempts

\* A job with a result neither waits nor is being worked on again.
ResultIsLast ==
    \A j \in Job :
        /\ results[j] <= 1
        /\ results[j] > 0 => status[j] \notin {"none", "queued"}
        /\ \A w \in Worker : j \in hold[w] /\ workerPc[w] = "working" => results[j] = 0

\* What a request found is still true, unless it was overtaken or a stale job
\* came back.
LookedStillTrue ==
    \A q \in Requester : \A k \in asking[q] :
        q \in overtaken \/ ActiveFor(k) \subseteq excused

\* The inductive invariant.
JobInv ==
    /\ JobTypeOK
    /\ Holding /\ OneWorkerPerJob /\ HeldRuns
    /\ AttemptsLeft /\ ResultIsLast
    /\ LookedStillTrue /\ DuplicateJobExplained

LEMMA JobInvInit == JobInit => JobInv
BY JobAssumption
   DEF JobInit, JobInv, JobTypeOK, Status, Active, Holding, OneWorkerPerJob, HeldRuns, AttemptsLeft,
       ResultIsLast, LookedStillTrue, DuplicateJobExplained, ActiveFor

-----------------------------------------------------------------------------
(* JobQueue: type correctness *)

LEMMA JobTypeNext == JobTypeOK /\ [JobNext]_queueVars => JobTypeOK'
<1> SUFFICES ASSUME JobTypeOK, [JobNext]_queueVars PROVE JobTypeOK' OBVIOUS
<1> USE JobAssumption
    DEF JobTypeOK, Status, Active, rowVars, envVars, wrkVars, reqVars, Rest
<1>1. ASSUME NEW q \in Requester, LookForActive(q) \/ Insert(q) PROVE JobTypeOK'
  BY <1>1 DEF LookForActive, Insert
<1>2. ASSUME NEW w \in Worker, Claim(w) PROVE JobTypeOK'
  BY <1>2 DEF Claim
<1>3. ASSUME NEW w \in Worker, FinishJob(w) PROVE JobTypeOK'
  <2>1. CASE NotReady(w) \/ Complete(w)
    BY <2>1 DEF NotReady, Complete
  <2>2. CASE SaveResult(w)
    BY <2>2 DEF SaveResult
  <2>3. CASE Fail(w)
    BY <2>3 DEF Fail, Requeue, Bury
  <2> QED BY <1>3, <2>1, <2>2, <2>3 DEF FinishJob
<1>4. ASSUME NEW w \in Worker, Abandon(w) PROVE JobTypeOK'
  BY <1>4 DEF Abandon
<1>5. ASSUME NEW j \in Job, Overrun(j) PROVE JobTypeOK'
  BY <1>5 DEF Overrun
<1>6. ASSUME NEW s \in Sweeper, FindStale(s) \/ MarkStale(s) PROVE JobTypeOK'
  BY <1>6 DEF FindStale, MarkStale
<1>7. CASE UNCHANGED queueVars
  BY <1>7 DEF queueVars
<1> QED BY <1>1, <1>2, <1>3, <1>4, <1>5, <1>6, <1>7 DEF JobNext

-----------------------------------------------------------------------------
(* JobQueue: the steps                                                     *)

\* The requests: a new job is nobody's, and is excused if it has a rival.
LEMMA RequestSteps ==
    ASSUME JobInv, JobTypeOK', NEW q \in Requester, LookForActive(q) \/ Insert(q)
    PROVE  JobInv'
<1> USE DEF JobInv, JobTypeOK, rowVars, envVars, wrkVars, reqVars
<1>1. CASE LookForActive(q)
  <2>1. LookedStillTrue'
    BY <1>1 DEF LookForActive, LookedStillTrue, ActiveFor
  <2>2. (Holding /\ OneWorkerPerJob /\ HeldRuns /\ AttemptsLeft /\ ResultIsLast)'
    BY <1>1 DEF LookForActive, Holding, OneWorkerPerJob, HeldRuns, AttemptsLeft, ResultIsLast
  <2>3. DuplicateJobExplained'
    BY <1>1 DEF LookForActive, DuplicateJobExplained
  <2> QED BY <2>1, <2>2, <2>3
<1>2. CASE Insert(q)
  <2>1. PICK j \in Job :
          /\ KeyOf[j] \in asking[q] /\ status[j] = "none"
          /\ status' = [status EXCEPT ![j] = "queued"]
          /\ overtaken' = overtaken \cup {r \in Requester \ {q} : KeyOf[j] \in asking[r]}
          /\ excused' = IF q \in overtaken THEN excused \cup {j} ELSE excused
    BY <1>2 DEF Insert
  <2>2. (Holding /\ OneWorkerPerJob /\ HeldRuns)'
    BY <1>2, <2>1 DEF Insert, Holding, OneWorkerPerJob, HeldRuns
  <2>3. (AttemptsLeft /\ ResultIsLast)'
    BY <1>2, <2>1 DEF Insert, AttemptsLeft, ResultIsLast
  <2>4. LookedStillTrue'
    BY <1>2, <2>1 DEF Insert, LookedStillTrue, ActiveFor, Active
  <2>5. DuplicateJobExplained'
    <3> SUFFICES ASSUME NEW i \in Job, NEW k \in Job, i # k, KeyOf[i] = KeyOf[k],
                        status'[i] \in Active, status'[k] \in Active
                 PROVE  i \in excused' \/ k \in excused'
      BY DEF DuplicateJobExplained
    <3>1. CASE i # j /\ k # j
      BY <2>1, <3>1 DEF DuplicateJobExplained
    <3>2. CASE i = j \/ k = j
      <4>1. PICK other \in {i, k} : other # j
        OBVIOUS
      <4>2. KeyOf[other] = KeyOf[j] /\ status[other] \in Active
        BY <2>1, <3>2, <4>1
      <4>3. q \in overtaken \/ other \in excused
        BY <2>1, <4>2 DEF LookedStillTrue, ActiveFor
      <4> QED BY <2>1, <3>2, <4>1, <4>3
    <3> QED BY <3>1, <3>2
  <2> QED BY <2>2, <2>3, <2>4, <2>5
<1> QED BY <1>1, <1>2

\* The claim: a queued job is in nobody's hands.
LEMMA ClaimSteps ==
    ASSUME JobInv, JobTypeOK', NEW w \in Worker, Claim(w)
    PROVE  JobInv'
<1> USE DEF JobInv, JobTypeOK, rowVars, envVars, wrkVars, reqVars
<1>1. PICK j \in Job :
          /\ status[j] = "queued"
          /\ status' = [status EXCEPT ![j] = "running"]
          /\ attempts' = [attempts EXCEPT ![j] = @ + 1]
          /\ hold' = [hold EXCEPT ![w] = {j}]
  BY DEF Claim, Claimable
<1>2. \A v \in Worker : j \notin hold[v]
  BY <1>1 DEF HeldRuns
<1>3. (Holding /\ OneWorkerPerJob /\ HeldRuns)'
  BY <1>1, <1>2 DEF Claim, Holding, OneWorkerPerJob, HeldRuns
<1>4. AttemptsLeft'
  BY <1>1, JobAssumption DEF Claim, AttemptsLeft
<1>5. ResultIsLast'
  BY <1>1, <1>2 DEF Claim, ResultIsLast
<1>6. LookedStillTrue'
  BY <1>1 DEF Claim, LookedStillTrue, ActiveFor, Active
<1>7. DuplicateJobExplained'
  BY <1>1 DEF Claim, DuplicateJobExplained, Active
<1> QED BY <1>3, <1>4, <1>5, <1>6, <1>7

\* The end of a job, whatever it is, makes no new active job but a requeued one.
LEMMA FinishSteps ==
    ASSUME JobInv, JobTypeOK', NEW w \in Worker, FinishJob(w) \/ Abandon(w)
    PROVE  JobInv'
<1> USE DEF JobInv, JobTypeOK, rowVars, envVars, wrkVars, reqVars, Rest
<1>1. CASE NotReady(w) \/ Complete(w) \/ Abandon(w)
  <2>1. \A i \in Job : \/ status'[i] = status[i]
                       \/ i \in hold[w] /\ status'[i] \in {"failed", "completed"}
    BY <1>1 DEF NotReady, Complete, Abandon
  <2>2. /\ workerPc' = [workerPc EXCEPT ![w] = "idle"] /\ hold' = [hold EXCEPT ![w] = {}]
        /\ UNCHANGED <<attempts, results, reqVars, excused>>
    BY <1>1 DEF NotReady, Complete, Abandon
  <2>3. (Holding /\ OneWorkerPerJob /\ HeldRuns)'
    BY <2>1, <2>2 DEF Holding, OneWorkerPerJob, HeldRuns
  <2>4. (AttemptsLeft /\ ResultIsLast)'
    BY <2>1, <2>2 DEF AttemptsLeft, ResultIsLast
  <2>5. (LookedStillTrue /\ DuplicateJobExplained)'
    BY <2>1, <2>2 DEF LookedStillTrue, DuplicateJobExplained, ActiveFor, Active
  <2> QED BY <2>3, <2>4, <2>5
<1>2. CASE SaveResult(w)
  <2>1. (Holding /\ OneWorkerPerJob /\ HeldRuns)'
    BY <1>2 DEF SaveResult, Holding, OneWorkerPerJob, HeldRuns
  <2>2. (AttemptsLeft /\ LookedStillTrue /\ DuplicateJobExplained)'
    BY <1>2 DEF SaveResult, AttemptsLeft, LookedStillTrue, DuplicateJobExplained, ActiveFor
  <2>3. ResultIsLast'
    BY <1>2 DEF SaveResult, ResultIsLast, HeldRuns, OneWorkerPerJob
  <2> QED BY <2>1, <2>2, <2>3
<1>3. CASE Fail(w)
  <2>1. PICK j \in hold[w] : IF attempts[j] >= MaxAttempts THEN Bury(j) ELSE Requeue(j)
    BY <1>3 DEF Fail
  <2>2. /\ workerPc[w] = "working" /\ hold[w] = {j} /\ j \in Job
        /\ workerPc' = [workerPc EXCEPT ![w] = "idle"] /\ hold' = [hold EXCEPT ![w] = {}]
        /\ UNCHANGED <<attempts, results, reqVars>>
    BY <1>3, <2>1 DEF Fail, Holding
  <2>3. \/ status' = [status EXCEPT ![j] = "dead_letter"] /\ excused' = excused
        \/ /\ attempts[j] < MaxAttempts
           /\ status' = [status EXCEPT ![j] = "queued"]
           /\ excused' = IF status[j] = "stale" THEN excused \cup {j} ELSE excused
    BY <2>1, <2>2, JobAssumption DEF Bury, Requeue
  <2>4. status[j] \in {"running", "stale"} /\ results[j] = 0
    BY <2>2 DEF HeldRuns, ResultIsLast
  <2>5. (Holding /\ OneWorkerPerJob /\ HeldRuns)'
    BY <2>2, <2>3 DEF Holding, OneWorkerPerJob, HeldRuns
  <2>6. (AttemptsLeft /\ ResultIsLast)'
    BY <2>2, <2>3, <2>4 DEF AttemptsLeft, ResultIsLast
  <2>7. \A i \in Job : status'[i] \in Active => status[i] \in Active \/ i \in excused'
    BY <2>2, <2>3, <2>4 DEF Active
  <2>8. excused \subseteq excused' /\ asking' = asking /\ overtaken' = overtaken
    BY <2>2, <2>3
  <2>9. LookedStillTrue'
    BY <2>7, <2>8 DEF LookedStillTrue, ActiveFor
  <2>10. DuplicateJobExplained'
    BY <2>7, <2>8 DEF DuplicateJobExplained
  <2> QED BY <2>5, <2>6, <2>9, <2>10
<1> QED BY <1>1, <1>2, <1>3 DEF FinishJob

\* Time and the sweep only take jobs out of the queue.
LEMMA SweepSteps ==
    ASSUME JobInv, JobTypeOK', 
           \/ \E j \in Job : Overrun(j)
           \/ \E s \in Sweeper : FindStale(s) \/ MarkStale(s)
           \/ UNCHANGED queueVars
    PROVE  JobInv'
<1> USE DEF JobInv, JobTypeOK, rowVars, envVars, wrkVars, reqVars, queueVars
<1>1. /\ \A i \in Job : status'[i] = status[i] \/ status'[i] = "stale"
      /\ UNCHANGED <<attempts, results, workerPc, hold, asking, overtaken, excused>>
  BY DEF Overrun, FindStale, MarkStale
<1>2. (Holding /\ OneWorkerPerJob /\ HeldRuns)'
  BY <1>1 DEF Holding, OneWorkerPerJob, HeldRuns
<1>3. (AttemptsLeft /\ ResultIsLast)'
  BY <1>1 DEF AttemptsLeft, ResultIsLast
<1>4. (LookedStillTrue /\ DuplicateJobExplained)'
  BY <1>1 DEF LookedStillTrue, DuplicateJobExplained, ActiveFor, Active
<1> QED BY <1>2, <1>3, <1>4

LEMMA JobInvNext == JobInv /\ [JobNext]_queueVars => JobInv'
<1> SUFFICES ASSUME JobInv, [JobNext]_queueVars PROVE JobInv' OBVIOUS
<1>1. JobTypeOK'
  BY JobTypeNext DEF JobInv
<1> QED BY <1>1, RequestSteps, ClaimSteps, FinishSteps, SweepSteps DEF JobNext

THEOREM JobInvariance == JobSpec => []JobInv
BY JobInvInit, JobInvNext, PTL DEF JobSpec

-----------------------------------------------------------------------------
(* JobQueue: the properties                                                *)

\* Every variable keeps its type.
THEOREM JobTypeCorrect == JobSpec => []JobTypeOK
BY JobInvariance, PTL DEF JobInv

\* A job is in the hands of one worker at a time.
THEOREM OneWorker == JobSpec => []OneWorkerPerJob
BY JobInvariance, PTL DEF JobInv

\* A job saves one result at most.
THEOREM OneResult == JobSpec => []OneResultPerJob
<1>1. JobInv => OneResultPerJob
  BY DEF JobInv, ResultIsLast, OneResultPerJob
<1> QED BY <1>1, JobInvariance, PTL

\* Two active jobs of one key are explained by an overtaken request or a stale
\* job that came back.
THEOREM DuplicatesExplained == JobSpec => []DuplicateJobExplained
BY JobInvariance, PTL DEF JobInv

-----------------------------------------------------------------------------
(* JobQueue: refinement                                                    *)

JobsHeld == UNION {hold[w] : w \in Worker}
JobsDone == {j \in Job : results[j] > 0}

LEMMA JobInitRefines == JobInit => Tries!Init
BY DEF JobInit, Tries!Init

LEMMA JobNextRefines ==
    ASSUME JobInv, [JobNext]_queueVars
    PROVE  Tries!Next \/ UNCHANGED <<attempts, JobsHeld, JobsDone>>
<1> USE DEF JobInv, JobTypeOK, rowVars, envVars, wrkVars, reqVars, Rest, JobsHeld, JobsDone
<1>1. ASSUME NEW w \in Worker, Claim(w) PROVE Tries!Next
  <2>1. PICK j \in Job :
          /\ status[j] = "queued"
          /\ attempts' = [attempts EXCEPT ![j] = @ + 1]
          /\ hold' = [hold EXCEPT ![w] = {j}]
    BY <1>1 DEF Claim, Claimable
  <2>2. j \notin JobsHeld \cup JobsDone /\ attempts[j] < MaxAttempts
    BY <2>1 DEF HeldRuns, ResultIsLast, AttemptsLeft
  <2>3. hold[w] = {}
    BY <1>1 DEF Claim, Holding
  <2>4. JobsHeld' = JobsHeld \cup {j}
    BY <2>1, <2>3
  <2>5. JobsDone' = JobsDone
    BY <1>1 DEF Claim
  <2> QED BY <2>1, <2>2, <2>4, <2>5 DEF Tries!Next, Tries!Begin
<1>2. ASSUME NEW w \in Worker, SaveResult(w) PROVE Tries!Next
  <2>1. PICK j \in Job : hold[w] = {j}
    BY <1>2 DEF SaveResult, Holding
  <2>2. results[j] = 0
    BY <1>2, <2>1 DEF SaveResult, ResultIsLast
  <2>3. /\ results'[j] = 1
        /\ \A i \in Job \ {j} : results'[i] = results[i]
    BY <1>2, <2>1, <2>2 DEF SaveResult
  <2>5. j \in JobsHeld \ JobsDone /\ JobsDone' = JobsDone \cup {j}
    BY <2>1, <2>2, <2>3
  <2>4. attempts' = attempts /\ JobsHeld' = JobsHeld
    BY <1>2 DEF SaveResult
  <2> QED BY <2>4, <2>5 DEF Tries!Next, Tries!Succeed
<1>3. ASSUME NEW w \in Worker, NotReady(w) \/ Complete(w) \/ Fail(w) \/ Abandon(w)
      PROVE  Tries!Next
  <2>1. /\ workerPc[w] # "idle" /\ hold' = [hold EXCEPT ![w] = {}]
        /\ attempts' = attempts /\ results' = results
    BY <1>3 DEF NotReady, Complete, Fail, Abandon
  <2>2. PICK j \in Job : hold[w] = {j}
    BY <2>1 DEF Holding
  <2>3. JobsHeld' = JobsHeld \ {j}
    BY <2>1, <2>2 DEF OneWorkerPerJob
  <2> QED BY <2>1, <2>2, <2>3 DEF Tries!Next, Tries!Release
<1>4. ASSUME \/ \E q \in Requester : LookForActive(q) \/ Insert(q)
             \/ \E j \in Job : Overrun(j)
             \/ \E s \in Sweeper : FindStale(s) \/ MarkStale(s)
             \/ UNCHANGED queueVars
      PROVE  UNCHANGED <<attempts, JobsHeld, JobsDone>>
  BY <1>4 DEF LookForActive, Insert, Overrun, FindStale, MarkStale, queueVars
<1> QED BY <1>1, <1>2, <1>3, <1>4 DEF JobNext, FinishJob

\* The queue implements the abstract retry: one worker at a time, a bounded
\* number of attempts, none after the result.
THEOREM JobsAreExclusiveRetry == JobSpec => ImplementsExclusiveRetry
<1>1. JobInv /\ [JobNext]_queueVars => [Tries!Next]_<<attempts, JobsHeld, JobsDone>>
  BY JobNextRefines
<1> QED BY <1>1, JobInitRefines, JobInvariance, PTL
        DEF JobSpec, ImplementsExclusiveRetry, Tries!Spec, JobsHeld, JobsDone

-----------------------------------------------------------------------------
(* RunGeneration: days and weeks *)


LEMMA Quotient ==
    ASSUME NEW a \in Int, NEW k \in Int, NEW n \in Nat, n > 0
    PROVE  /\ a \div n \in Int
           /\ (a \div n) * n <= a /\ a < (a \div n) * n + n
           /\ a < k * n => a \div n < k
           /\ k * n <= a => k <= a \div n
<1>1. /\ a \div n \in Int
      /\ (a \div n) * n <= a /\ a < (a \div n) * n + n
  BY SMT
<1>2. a < k * n => a \div n < k BY <1>1, SMT
<1>3. k * n <= a => k <= a \div n BY <1>1, SMT
<1> QED BY <1>1, <1>2, <1>3

\* The briefing's cadence and its zone, which no step changes.
Zone == shift \in {-1, 0, 1} /\ weekly \in BOOLEAN

LEMMA Lengths == Zone => Length \in Nat /\ Length > 0 /\ Length >= Hours
<1>1. Hours \in Nat /\ Hours > 0 /\ Days \in Nat /\ Days > 0 BY ConstantsAssumption
<1>2. Days * Hours \in Nat /\ Days * Hours >= Hours BY <1>1, SMT
<1> QED BY <1>1, <1>2 DEF Length, Zone

LEMMA LocalFacts ==
    ASSUME Zone, NEW u \in Int
    PROVE  /\ Local(u) \in Int /\ (u \in Nat => Local(u) \in Nat)
           /\ u < ShiftAt => Local(u) = u
           /\ u >= ShiftAt => Local(u) = u + shift
BY ConstantsAssumption DEF Zone, Local, Offset

\* A moment is in period k or a later one if its local time is.
LEMMA PeriodFacts ==
    ASSUME Zone, NEW u \in Int
    PROVE  /\ Period(u) \in Int /\ (u \in Nat => Period(u) \in Nat)
           /\ Period(u) * Length <= Local(u) /\ Local(u) < Period(u) * Length + Length
           /\ \A k \in Int : Local(u) < k * Length => Period(u) < k
           /\ \A k \in Int : k * Length <= Local(u) => k <= Period(u)
<1>1. Length \in Nat /\ Length > 0 BY Lengths
<1>2. Local(u) \in Int /\ (u \in Nat => Local(u) \in Nat) BY LocalFacts
<1>3. /\ Period(u) \in Int
      /\ Period(u) * Length <= Local(u) /\ Local(u) < Period(u) * Length + Length
  BY <1>1, <1>2, Quotient DEF Period
<1>4. ASSUME NEW k \in Int
      PROVE  /\ Local(u) < k * Length => Period(u) < k
             /\ k * Length <= Local(u) => k <= Period(u)
  BY <1>1, <1>2, Quotient DEF Period
<1>5. 0 * Length = 0 BY <1>1, SMT
<1>6. u \in Nat => Period(u) \in Nat BY <1>2, <1>3, <1>4, <1>5
<1> QED BY <1>3, <1>4, <1>6

LEMMA PeriodGrows ==
    ASSUME Zone, NEW u \in Int, NEW v \in Int, u <= v
    PROVE  Period(u) <= Period(v)
<1>1. ShiftAt \in Nat BY ConstantsAssumption
<1>2. Local(u) <= Local(v) BY <1>1, LocalFacts DEF Zone
<1>3. Period(u) * Length <= Local(v) BY <1>2, PeriodFacts, LocalFacts, Lengths
<1> QED BY <1>3, PeriodFacts

-----------------------------------------------------------------------------
(* The hour preferred                                                      *)

\* The hour clocks leave out is the last of a day or a week.
DisplacedAt(t) == shift > 0 /\ t = ShiftAt /\ Period(ShiftAt) # ShiftAt \div Length

LEMMA TargetFacts ==
    ASSUME Zone, NEW k \in Nat, NEW h \in Hour
    PROVE  /\ Target(k, h) \in Nat /\ k <= Period(Target(k, h))
           /\ ~DisplacedAt(Target(k, h)) => Period(Target(k, h)) = k
           /\ Local(Target(k, h)) = k * Length + h \/ Target(k, h) = k * Length + h
<1> DEFINE l == k * Length + h
           t == Target(k, h)
<1>1. Length \in Nat /\ Length >= Hours /\ Hours \in Nat /\ Hours > 0
  BY Lengths, ConstantsAssumption
<1>2. k * Length \in Nat BY <1>1, SMT
<1>h. h \in Nat /\ h < Length BY <1>1 DEF Hour
<1>3. l \in Nat /\ l >= k * Length /\ l < k * Length + Length BY <1>1, <1>2, <1>h
<1>4. ShiftAt \in Nat BY ConstantsAssumption
<1>5. t = IF l >= ShiftAt /\ l - shift >= ShiftAt THEN l - shift ELSE l
  BY DEF Target, SafeLocalize
<1> HIDE DEF l, t
<1>6. t \in Nat BY <1>3, <1>4, <1>5 DEF Zone
<1>7. Local(t) = l \/ (t = l /\ shift > 0 /\ t = ShiftAt /\ Local(t) = l + 1)
  BY <1>3, <1>4, <1>5, <1>6, LocalFacts DEF Zone
<1>8. k <= Period(t)
  <2>1. k * Length <= Local(t) BY <1>2, <1>3, <1>7
  <2> QED BY <2>1, <1>6, PeriodFacts
<1>9. k + 1 \in Int /\ (k + 1) * Length = k * Length + Length BY <1>1, SMT
<1>10. CASE Local(t) = l
  <2>1. Period(t) < k + 1 BY <1>3, <1>6, <1>9, <1>10, PeriodFacts
  <2>2. Period(t) = k BY <2>1, <1>6, <1>8, PeriodFacts
  <2> QED BY <2>2, <1>6, <1>8, <1>10 DEF l, t
<1>11. CASE t = l /\ shift > 0 /\ t = ShiftAt
  <2>1. l \div Length \in Int /\ l \div Length < k + 1 /\ k <= l \div Length
    BY <1>1, <1>3, <1>9, Quotient
  <2>2. ShiftAt \div Length = k BY <2>1, <1>11
  <2>3. ~DisplacedAt(t) => Period(t) = k BY <2>2, <1>11 DEF DisplacedAt
  <2> QED BY <2>3, <1>6, <1>8, <1>11 DEF l, t
<1> QED BY <1>7, <1>10, <1>11

\* The hour preferred of a period is one moment.
LEMMA OneTarget ==
    ASSUME Zone, NEW j \in Nat, NEW k \in Nat, NEW h \in Hour,
           ~DisplacedAt(Target(j, h)), ~DisplacedAt(Target(k, h)),
           Period(Target(j, h)) = Period(Target(k, h))
    PROVE  Target(j, h) = Target(k, h)
BY TargetFacts

\* Clocks put back hide a run from the query for one of the period.
Below(a, b) == IF shift >= 0 THEN a < b ELSE a <= b

\* What the query for a run of the period finds, and what it leaves out.
LEMMA StartFacts ==
    ASSUME Zone, now \in Nat, NEW u \in Nat
    PROVE  /\ u < PeriodStart => Below(Period(u), Period(now))
           /\ u >= PeriodStart => Period(now) <= Period(u) \/ Misread(Period(now))
<1> DEFINE k == Period(now)
           m == k * Length
<1>1. k \in Nat /\ Length \in Nat /\ m \in Int BY PeriodFacts, Lengths, SMT
<1>2. m <= Local(now) BY PeriodFacts
<1>3. PeriodStart = IF now >= ShiftAt THEN m - shift ELSE m
  BY <1>1 DEF PeriodStart, Offset
<1>4. ShiftAt \in Nat BY ConstantsAssumption
<1>5. /\ Local(u) < m => Period(u) < k
      /\ m <= Local(u) => k <= Period(u)
  BY <1>1, PeriodFacts
<1>6. Period(ShiftAt) \in Int /\ (m <= Local(ShiftAt) => k <= Period(ShiftAt))
  BY <1>1, <1>4, PeriodFacts
<1>7. now >= ShiftAt => Period(ShiftAt) <= k BY <1>4, PeriodGrows
<1> HIDE DEF k, m
<1>8. u < PeriodStart => Below(Period(u), Period(now))
  <2>1. CASE shift >= 0
    <3>1. u < PeriodStart => Local(u) < m
      BY <2>1, <1>1, <1>2, <1>3, <1>4, LocalFacts DEF Zone
    <3> QED BY <2>1, <3>1, <1>5 DEF Below, k
  <2>2. CASE ~(shift >= 0)
    <3>1. PeriodStart <= now BY <1>1, <1>2, <1>3, <1>4, LocalFacts DEF Zone
    <3>2. PeriodStart \in Int BY <1>1, <1>3 DEF Zone
    <3>3. u < PeriodStart => u <= now BY <3>1, <3>2
    <3> QED BY <2>2, <3>3, PeriodGrows DEF Below
  <2> QED BY <2>1, <2>2
<1>9. ASSUME u >= PeriodStart PROVE k <= Period(u) \/ Misread(k)
  <2>1. CASE m <= Local(u) BY <2>1, <1>5
  <2>2. CASE Local(u) < m
    <3>1. shift > 0 /\ now >= ShiftAt /\ m <= Local(ShiftAt)
      BY <2>2, <1>1, <1>2, <1>3, <1>4, <1>9, LocalFacts DEF Zone
    <3>2. Period(ShiftAt) = k BY <3>1, <1>1, <1>6, <1>7
    <3> QED BY <3>1, <3>2 DEF Misread
  <2> QED BY <2>1, <2>2, <1>1, LocalFacts
<1> QED BY <1>8, <1>9 DEF k

-----------------------------------------------------------------------------
(* Type correctness *)

AtMostOne == lock = {} \/ \E i \in Instance : lock = {i}

LEMMA PlanType ==
    /\ NoPlan \in Plan
    /\ \A p \in Plan, h \in Hour : [p EXCEPT !.hour = h] \in Plan
    /\ \A p \in Plan, n \in Nat : [p EXCEPT !.age = n] \in Plan
    /\ \A p \in Plan : [NoPlan EXCEPT !.age = p.age] \in Plan
    /\ \A p \in Plan, n, k \in Nat, b \in BOOLEAN :
          [p EXCEPT !.at = n, !.period = k, !.seen = b] \in Plan
    /\ \A p \in Plan, n \in Nat, b \in BOOLEAN : [p EXCEPT !.at = n, !.seen = b] \in Plan
<1>1. 0 \in Hour BY ConstantsAssumption DEF Hour
<1> QED BY <1>1 DEF Plan, NoPlan

LEMMA ZoneOK == TypeOK => Zone /\ now \in Nat
BY ConstantsAssumption DEF TypeOK, Zone

LEMMA NextTimes ==
    ASSUME TypeOK, NEW h \in Hour
    PROVE  /\ Period(now) \in Nat /\ Passed(h) \in BOOLEAN
           /\ Target(Period(now), h) \in Nat /\ NextScheduled(h) \in Nat
           /\ \E k \in Nat : NextScheduled(h) = Target(k, h) /\ Period(now) <= k
<1>1. Zone /\ now \in Nat BY ZoneOK
<1>2. Period(now) \in Nat /\ Period(now) + 1 \in Nat BY <1>1, PeriodFacts
<1>3. NextScheduled(h) = Target(Period(now), h) \/ NextScheduled(h) = Target(Period(now) + 1, h)
  BY DEF NextScheduled
<1>4. Passed(h) \in BOOLEAN
  <2>1. CASE weekly
    <3>1. Passed(h) = (Local(now) - Period(now) * Length >= h) BY <2>1 DEF Passed
    <3> QED BY <3>1, SMT
  <2>2. CASE ~weekly
    <3>1. Passed(h) = (now >= Target(Period(now), h)) BY <2>2 DEF Passed
    <3> QED BY <3>1, SMT
  <2> QED BY <2>1, <2>2
<1> QED BY <1>1, <1>2, <1>3, <1>4, TargetFacts

LEMMA OneLess ==
    ASSUME AtMostOne, lock \subseteq Instance, NEW i \in Instance
    PROVE  lock \ {i} = {} \/ \E j \in Instance : lock \ {i} = {j}
BY DEF AtMostOne

LEMMA TypeInit == Init => TypeOK /\ AtMostOne
<1> SUFFICES ASSUME Init PROVE TypeOK /\ AtMostOne OBVIOUS
<1>1. NoPlan \in Plan BY PlanType
<1>2. Cardinality({}) = 0 BY FS_EmptySet
<1>3. 0 <= 1 /\ 0 \in 0..MaxNow /\ 0 \in 0..MaxFaults /\ 0 \in 0..MaxHand BY ConstantsAssumption
<1> QED BY <1>1, <1>2, <1>3 DEF Init, TypeOK, AtMostOne

\* The steps of a pass, and what else may happen to it.
LEMMA TypePass ==
    ASSUME TypeOK, AtMostOne, NEW i \in Instance, Step(i) \/ Nothing(i) \/ LoseLock(i) \/ Crash(i)
    PROVE  TypeOK' /\ AtMostOne'
<1> USE DEF history, Goto
<1>1. Zone /\ now \in Nat BY ZoneOK
<1>2. plan[i] \in Plan /\ plan[i].hour \in Hour /\ plan[i].age \in Nat
      /\ plan[i].at \in Nat /\ plan[i].period \in Nat
  BY DEF TypeOK, Plan
<1>3. /\ UNCHANGED <<now, shift, weekly, hour, hand, byHand>>
      /\ pc' \in [Instance -> {"idle", "locked", "next", "work", "insert", "unlock"}]
  BY DEF Step, Lock, Check, Choose, Generate, Commit, Finish, Nothing, LoseLock, Crash, Done, Leave,
         TypeOK, jobVars
<1>4. plan' \in [Instance -> Plan]
  <2>1. CASE Lock(i)
    BY <2>1, <1>2, PlanType DEF Lock, TypeOK
  <2>2. CASE Check(i)
    <3>1. Period(now) \in Nat /\ Target(Period(now), plan[i].hour) \in Nat
          /\ Passed(plan[i].hour) \in BOOLEAN
      BY <1>2, NextTimes
    <3>2. [NoPlan EXCEPT !.age = plan[i].age] \in Plan BY <1>2, PlanType
    <3>3. [plan[i] EXCEPT !.at = Target(Period(now), plan[i].hour), !.period = Period(now),
                          !.seen = Passed(plan[i].hour)] \in Plan
      BY <1>2, <3>1, PlanType
    <3>4. CASE Existing BY <2>2, <3>2, <3>4 DEF Check, Done, TypeOK
    <3>5. CASE ~Existing
      <4>1. plan' = [plan EXCEPT ![i] = [plan[i] EXCEPT !.at = Target(Period(now), plan[i].hour),
                                       !.period = Period(now), !.seen = Passed(plan[i].hour)]]
        BY <2>2, <3>5 DEF Check, TypeOK
      <4> QED BY <3>3, <4>1 DEF TypeOK
    <3> QED BY <3>4, <3>5
  <2>3. CASE Choose(i)
    BY <2>3, <1>2, NextTimes, PlanType DEF Choose, TypeOK
  <2>4. CASE Generate(i) \/ Commit(i) \/ Nothing(i)
    BY <2>4, <1>2, PlanType DEF Generate, Commit, Nothing, Done, TypeOK
  <2>5. CASE Finish(i) \/ Crash(i)
    BY <2>5, PlanType DEF Finish, Crash, Leave, TypeOK
  <2>6. CASE LoseLock(i)
    BY <2>6 DEF LoseLock, jobVars, TypeOK
  <2> QED BY <2>1, <2>2, <2>3, <2>4, <2>5, <2>6 DEF Step
<1>5. runs' \subseteq Run
  <2>1. CASE Commit(i)
    <3>1. [at |-> plan[i].at, hour |-> plan[i].hour, by |-> i] \in Run BY <1>2 DEF Run
    <3> QED BY <2>1, <3>1 DEF Commit, TypeOK
  <2>2. CASE ~Commit(i)
    BY <2>2 DEF Step, Lock, Check, Choose, Generate, Finish, Nothing, LoseLock, Crash, TypeOK
  <2> QED BY <2>1, <2>2
<1>6. lock' \subseteq Instance /\ AtMostOne'
  <2>1. lock' = lock \/ lock' = {} \/ lock' = {i} \/ lock' = lock \ {i}
    BY DEF Step, Lock, Check, Choose, Generate, Commit, Finish, Unlock, Nothing, LoseLock, Crash
  <2> QED BY <2>1, OneLess DEF TypeOK, AtMostOne
<1>7. Cardinality(lock') <= 1
  <2>1. Cardinality({}) = 0 /\ \A j \in Instance : Cardinality({j}) = 1
    BY FS_EmptySet, FS_Singleton
  <2>2. Cardinality(lock') = 0 \/ Cardinality(lock') = 1 BY <1>6, <2>1 DEF AtMostOne
  <2> QED BY <2>2
<1>8. faults' \in 0..MaxFaults /\ lost' \in BOOLEAN
  <2>1. faults' = faults \/ (faults < MaxFaults /\ faults' = faults + 1)
    BY DEF Step, Lock, Check, Choose, Generate, Commit, Finish, Nothing, LoseLock, Crash, Fault
  <2>2. lost' = lost \/ lost' = TRUE
    BY DEF Step, Lock, Check, Choose, Generate, Commit, Finish, Nothing, LoseLock, Crash
  <2>3. faults' \in 0..MaxFaults BY <2>1, ConstantsAssumption DEF TypeOK
  <2> QED BY <2>2, <2>3 DEF TypeOK
<1>9. served' \subseteq Nat
  BY <1>1, <1>2, PeriodFacts
     DEF Step, Lock, Check, Choose, Generate, Commit, Finish, Nothing, LoseLock, Crash, Serve,
         TypeOK
<1>10. late' \subseteq Nat
  <2>1. CASE Choose(i)
    <3>1. Period(NextScheduled(plan[i].hour)) \in Nat BY <1>1, <1>2, NextTimes, PeriodFacts
    <3> QED BY <2>1, <1>2, <3>1 DEF Choose, TypeOK
  <2>2. CASE ~Choose(i)
    BY <2>2 DEF Step, Lock, Check, Generate, Commit, Finish, Nothing, LoseLock, Crash, TypeOK
  <2> QED BY <2>1, <2>2
<1> QED BY <1>3, <1>4, <1>5, <1>6, <1>7, <1>8, <1>9, <1>10 DEF TypeOK

LEMMA TypeNext == TypeOK /\ AtMostOne /\ [Next]_vars => TypeOK' /\ AtMostOne'
<1> SUFFICES ASSUME TypeOK, AtMostOne, [Next]_vars PROVE TypeOK' /\ AtMostOne' OBVIOUS
<1> USE DEF history, jobVars
<1>1. 0 \in Hour /\ MaxHand \in Nat /\ MaxNow \in Nat BY ConstantsAssumption DEF Hour
<1>2. ASSUME NEW i \in Instance, Step(i) \/ Nothing(i) \/ LoseLock(i) \/ Crash(i)
      PROVE  TypeOK' /\ AtMostOne'
  BY <1>2, TypePass
<1>3. CASE HandBegin
  <2>1. [at |-> now, hour |-> 0, by |-> "hand"] \in [at : 0..now, hour : Hour, by : {"hand"}]
    BY <1>1 DEF TypeOK
  <2> QED BY <1>1, <1>3, <2>1 DEF HandBegin, Act, TypeOK, AtMostOne
<1>4. ASSUME NEW r \in hand, HandEnd(r) PROVE TypeOK' /\ AtMostOne'
  <2>1. r \in Run BY ConstantsAssumption DEF TypeOK, Run
  <2> QED BY <1>4, <2>1 DEF HandEnd, TypeOK, AtMostOne
<1>5. ASSUME NEW h \in Hour, Edit(h) PROVE TypeOK' /\ AtMostOne'
  BY <1>1, <1>5 DEF Edit, Act, TypeOK, AtMostOne
<1>6. CASE Tick
  <2>1. plan' \in [Instance -> Plan]
    <3>1. ASSUME NEW i \in Instance
          PROVE  plan[i] \in Plan /\ [plan[i] EXCEPT !.age = plan[i].age + 1] \in Plan
      <4>1. plan[i] \in Plan /\ plan[i].age + 1 \in Nat BY DEF TypeOK, Plan
      <4> QED BY <4>1, PlanType
    <3>2. plan' = [i \in Instance |-> IF i \in Busy THEN [plan[i] EXCEPT !.age = plan[i].age + 1]
                                                   ELSE plan[i]]
      BY <1>6 DEF Tick
    <3> QED BY <3>1, <3>2
  <2>2. now' \in 0..MaxNow /\ 0..now \subseteq 0..now' BY <1>1, <1>6 DEF Tick, TypeOK
  <2>3. hand \subseteq [at : 0..now', hour : Hour, by : {"hand"}] BY <2>2 DEF TypeOK
  <2> QED BY <1>6, <2>1, <2>2, <2>3 DEF Tick, TypeOK, AtMostOne
<1>7. CASE UNCHANGED vars BY <1>7 DEF vars, TypeOK, AtMostOne
<1> QED BY <1>2, <1>3, <1>4, <1>5, <1>6, <1>7 DEF Next

\* Rows, locks and plans have their types, and no two connections hold the lock.
THEOREM TypeCorrect == Spec => []TypeOK
<1>1. Init => TypeOK /\ AtMostOne BY TypeInit
<1>2. TypeOK /\ AtMostOne /\ [Next]_vars => (TypeOK /\ AtMostOne)' BY TypeNext
<1> QED BY <1>1, <1>2, PTL DEF Spec

-----------------------------------------------------------------------------
(* What a pass has read and chosen                                         *)

\* The run a pass makes is for the hour preferred of some period, not before the one
\* its query was for; the periods between are late.  Before the choice a daily pass
\* has seen the hour still to come.
Planned(i) ==
    /\ pc[i] \in {"next", "work", "insert"} => plan[i].period <= Period(now)
    /\ pc[i] = "next" => weekly \/ ~plan[i].seen
    /\ pc[i] \in {"work", "insert"} =>
          /\ \E k \in Nat : plan[i].at = Target(k, plan[i].hour)
          /\ plan[i].period <= Period(plan[i].at)
          /\ \A k \in Nat : plan[i].period <= k /\ k < Period(plan[i].at) => k \in late

\* Runs of the job are for an hour that was preferred, each for a moment of its own, and
\* an instance that inserts one finds that moment free.
Wanted == \A r \in Scheduled : \E k \in Nat : r.at = Target(k, r.hour)

Apart ==
    /\ \A x, y \in Scheduled : x.at = y.at => x = y
    /\ \A i \in Instance : pc[i] = "insert" => ~Taken(plan[i].at)
    /\ \A i, j \in Instance :
          pc[i] = "insert" /\ pc[j] = "insert" /\ plan[i].at = plan[j].at => i = j

\* The periods between now and a run made ahead are late.
Ahead == \A r \in runs : \A k \in Nat : Period(now) <= k /\ k < Period(r.at) => k \in late

\* While no lock is lost one pass is under way, and it makes a run for a later period than
\* all before, or the last of them again if clocks are put back.
Later(i) ==
    \A r \in Scheduled :
        /\ pc[i] = "next" => Below(Period(r.at), plan[i].period)
        /\ pc[i] \in {"work", "insert"} => Below(Period(r.at), Period(plan[i].at))

InTurn ==
    /\ \A i \in Instance : pc[i] # "idle" => lock = {i}
    /\ \A i \in Instance : Later(i)
    /\ shift >= 0 => \A x, y \in Scheduled : Period(x.at) = Period(y.at) => x = y

IInv ==
    /\ TypeOK /\ AtMostOne
    /\ \A i \in Instance : Planned(i)
    /\ Wanted /\ Apart /\ Ahead
    /\ ~lost => InTurn
    /\ ServedHasRun

-----------------------------------------------------------------------------
(* What steps do                                                           *)

\* No step changes the zone or the cadence, and time goes forward.
LEMMA Steady ==
    ASSUME TypeOK, [Next]_vars
    PROVE  UNCHANGED <<shift, weekly>> /\ now \in Nat /\ now' \in Nat /\ now <= now'
<1> USE DEF history, jobVars
<1>1. UNCHANGED <<shift, weekly>>
  BY DEF Next, Step, Lock, Check, Choose, Generate, Commit, Finish, Nothing, LoseLock, Crash,
         HandBegin, HandEnd, Edit, Tick, vars
<1>2. now' = now \/ now' = now + 1
  BY DEF Next, Step, Lock, Check, Choose, Generate, Commit, Finish, Nothing, LoseLock, Crash,
         HandBegin, HandEnd, Edit, Tick, vars
<1> QED BY <1>1, <1>2, ZoneOK

LEMMA SameArithmetic ==
    ASSUME UNCHANGED <<shift, weekly>>
    PROVE  /\ \A u : Period(u)' = Period(u)
           /\ \A k, h : Target(k, h)' = Target(k, h)
BY DEF Period, Target, SafeLocalize, Local, Offset, Length

\* A pass ends, or gives up what it has chosen.
Ends(i) ==
    /\ \A j \in Instance \ {i} : pc'[j] = pc[j] /\ plan'[j] = plan[j]
    /\ \/ pc[i] # "idle" /\ pc'[i] = "unlock" /\ lock' = lock
       \/ pc'[i] = "idle" /\ lock' = lock \ {i}
    /\ UNCHANGED <<now, runs, served, late, lost>>

\* No pass acts: time, users, and the connection that is lost.
Waits ==
    /\ pc' = pc
    /\ \A i \in Instance : /\ plan'[i].at = plan[i].at /\ plan'[i].hour = plan[i].hour
                           /\ plan'[i].period = plan[i].period /\ plan'[i].seen = plan[i].seen
    /\ runs \subseteq runs' /\ runs' \subseteq runs \cup hand
    /\ lost' \/ UNCHANGED <<lock, lost>>
    /\ UNCHANGED <<served, late>>

LEMMA Kinds ==
    ASSUME TypeOK, [Next]_vars
    PROVE  \/ \E i \in Instance :
                 Lock(i) \/ Check(i) \/ Choose(i) \/ Generate(i) \/ Commit(i) \/ Ends(i)
           \/ Waits
<1> USE DEF history, jobVars
<1>1. ASSUME NEW i \in Instance, Finish(i) \/ Nothing(i) \/ Crash(i) PROVE Ends(i)
  BY <1>1 DEF Finish, Nothing, Crash, Ends, Done, Leave, Goto, Unlock, TypeOK
<1>2. ASSUME NEW i \in Instance, LoseLock(i) PROVE Waits
  BY <1>2 DEF LoseLock, Waits
<1>3. CASE HandBegin BY <1>3 DEF HandBegin, Waits
<1>4. ASSUME NEW r \in hand, HandEnd(r) PROVE Waits
  BY <1>4 DEF HandEnd, Waits
<1>5. ASSUME NEW h \in Hour, Edit(h) PROVE Waits
  BY <1>5 DEF Edit, Waits
<1>6. CASE Tick
  <2>1. ASSUME NEW i \in Instance
        PROVE  plan'[i] = plan[i] \/ plan'[i] = [plan[i] EXCEPT !.age = plan[i].age + 1]
    BY <1>6 DEF Tick
  <2>2. \A i \in Instance : plan[i] \in Plan BY DEF TypeOK
  <2> QED BY <1>6, <2>1, <2>2 DEF Tick, Waits, Plan
<1>7. CASE UNCHANGED vars BY <1>7 DEF vars, Waits
<1> QED BY <1>1, <1>2, <1>3, <1>4, <1>5, <1>6, <1>7 DEF Next, Step

\* Who else is not concerned by a step of i.
LEMMA OthersStay ==
    ASSUME TypeOK, NEW i \in Instance, NEW j \in Instance, j # i,
           Lock(i) \/ Check(i) \/ Choose(i) \/ Generate(i) \/ Commit(i) \/ Ends(i)
    PROVE  pc'[j] = pc[j] /\ plan'[j] = plan[j]
<1> USE DEF TypeOK, Goto, Done
<1>1. CASE Lock(i) BY <1>1 DEF Lock
<1>2. CASE Check(i) BY <1>2 DEF Check
<1>3. CASE Choose(i) BY <1>3 DEF Choose
<1>4. CASE Generate(i) \/ Commit(i) BY <1>4 DEF Generate, Commit
<1>5. CASE Ends(i) BY <1>5 DEF Ends
<1> QED BY <1>1, <1>2, <1>3, <1>4, <1>5

\* What each step of i does to i's plan.
LEMMA LockDoes ==
    ASSUME TypeOK, NEW i \in Instance, Lock(i)
    PROVE  /\ pc'[i] = "locked" /\ lock = {} /\ lock' = {i}
           /\ UNCHANGED <<now, runs, served, late, lost>>
BY DEF Lock, Goto, TypeOK, history

LEMMA CheckDoes ==
    ASSUME TypeOK, NEW i \in Instance, Check(i)
    PROVE  /\ UNCHANGED <<now, runs, lock, late, lost>> /\ pc[i] = "locked"
           /\ \/ pc'[i] = "unlock" /\ Existing /\ served' = served \cup {Period(now)}
              \/ /\ pc'[i] \in {"next", "work"} /\ ~Existing /\ UNCHANGED served
                 /\ plan'[i].hour = plan[i].hour /\ plan'[i].period = Period(now)
                 /\ plan'[i].at = Target(Period(now), plan[i].hour)
                 /\ pc'[i] = "next" => weekly \/ ~plan'[i].seen
                 /\ pc'[i] = "work" => ~weekly /\ Passed(plan[i].hour)
<1> USE DEF Goto, TypeOK
<1>1. plan[i] \in Plan OBVIOUS
<1>2. CASE Existing BY <1>2 DEF Check, Done, Serve
<1>3. CASE ~Existing
  <2>1. plan'[i] = [plan[i] EXCEPT !.at = Target(Period(now), plan[i].hour),
                                   !.period = Period(now), !.seen = Passed(plan[i].hour)]
    BY <1>3 DEF Check
  <2>2. /\ plan'[i].hour = plan[i].hour /\ plan'[i].period = Period(now)
        /\ plan'[i].at = Target(Period(now), plan[i].hour)
        /\ plan'[i].seen = Passed(plan[i].hour)
    BY <1>1, <2>1 DEF Plan
  <2>3. pc'[i] = IF CatchUp(plan[i].hour) THEN "work" ELSE "next" BY <1>3 DEF Check
  <2>4. UNCHANGED <<now, runs, lock, late, lost, served>> /\ pc[i] = "locked" BY <1>3 DEF Check
  <2> QED BY <1>3, <2>2, <2>3, <2>4 DEF CatchUp
<1> QED BY <1>2, <1>3

LEMMA ChooseDoes ==
    ASSUME TypeOK, NEW i \in Instance, Choose(i)
    PROVE  /\ UNCHANGED <<now, runs, lock, served, lost>> /\ pc[i] = "next" /\ pc'[i] = "work"
           /\ plan'[i].hour = plan[i].hour /\ plan'[i].period = plan[i].period
           /\ plan'[i].at = NextScheduled(plan[i].hour)
           /\ late' = late \cup {k \in plan[i].period..Period(NextScheduled(plan[i].hour)) - 1 :
                                     weekly \/ ~plan[i].seen}
<1>1. plan[i] \in Plan BY DEF TypeOK
<1>2. plan'[i] = [plan[i] EXCEPT !.at = NextScheduled(plan[i].hour), !.seen = FALSE]
  BY DEF Choose, Goto, TypeOK
<1>3. /\ plan'[i].hour = plan[i].hour /\ plan'[i].period = plan[i].period
      /\ plan'[i].at = NextScheduled(plan[i].hour)
  BY <1>1, <1>2 DEF Plan
<1> QED BY <1>3 DEF Choose, Goto, TypeOK

LEMMA GenerateDoes ==
    ASSUME TypeOK, NEW i \in Instance, Generate(i)
    PROVE  /\ UNCHANGED <<now, runs, lock, late, lost>> /\ pc[i] = "work"
           /\ \/ /\ pc'[i] = "unlock" /\ Taken(plan[i].at)
                 /\ served' = served \cup {plan[i].period}
              \/ /\ pc'[i] = "insert" /\ ~Taken(plan[i].at) /\ Inserting(plan[i].at) = {}
                 /\ plan'[i] = plan[i] /\ UNCHANGED served
BY DEF Generate, Done, Goto, Serve, TypeOK

LEMMA CommitDoes ==
    ASSUME TypeOK, NEW i \in Instance, Commit(i)
    PROVE  /\ UNCHANGED <<now, lock, late, lost>> /\ pc[i] = "insert" /\ pc'[i] = "unlock"
           /\ runs' = runs \cup {[at |-> plan[i].at, hour |-> plan[i].hour, by |-> i]}
           /\ served' = served \cup {plan[i].period}
BY DEF Commit, Done, Goto, Serve, TypeOK

\* Whether a run of a period was late or a run was made is not forgotten.
LEMMA NothingForgotten ==
    ASSUME TypeOK, [Next]_vars
    PROVE  late \subseteq late' /\ runs \subseteq runs' /\ (lost => lost')
<1>1. ASSUME NEW i \in Instance,
             Lock(i) \/ Check(i) \/ Choose(i) \/ Generate(i) \/ Commit(i) \/ Ends(i)
      PROVE  late \subseteq late' /\ runs \subseteq runs' /\ lost' = lost
  BY <1>1, LockDoes, CheckDoes, ChooseDoes, GenerateDoes, CommitDoes DEF Ends
<1>2. CASE Waits BY <1>2 DEF Waits
<1> QED BY <1>1, <1>2, Kinds

LEMMA SameNow ==
    ASSUME UNCHANGED <<shift, weekly>>
    PROVE  /\ Period(now)' = Period(now')
           /\ \A i : /\ Period(plan[i].at)' = Period(plan'[i].at)
                    /\ \A k : Target(k, plan[i].hour)' = Target(k, plan'[i].hour)
BY DEF Period, Target, SafeLocalize, Local, Offset, Length

-----------------------------------------------------------------------------
(* Plans *)

\* A plan that is kept stays good while time goes on.
LEMMA KeptPlan ==
    ASSUME TypeOK, [Next]_vars, NEW i \in Instance, Planned(i),
           pc'[i] = pc[i] \/ (pc[i] = "work" /\ pc'[i] = "insert"),
           plan'[i].at = plan[i].at, plan'[i].hour = plan[i].hour,
           plan'[i].period = plan[i].period, plan'[i].seen = plan[i].seen
    PROVE  Planned(i)'
<1>1. /\ UNCHANGED <<shift, weekly>> /\ now \in Nat /\ now' \in Nat /\ now <= now'
      /\ late \subseteq late'
  BY Steady, NothingForgotten
<1>2. Zone BY ZoneOK
<1>3. Period(now) <= Period(now)' BY <1>1, <1>2, PeriodGrows, SameNow
<1>4. Period(now) \in Int /\ Period(now)' \in Int BY <1>1, <1>2, PeriodFacts, SameNow
<1>5. plan[i].period \in Nat BY DEF TypeOK, Plan
<1>6. pc'[i] \in {"next", "work", "insert"} => plan'[i].period <= Period(now)'
  BY <1>3, <1>4, <1>5 DEF Planned
<1>7. pc'[i] = "next" => weekly' \/ ~plan'[i].seen BY <1>1 DEF Planned
<1>8. ASSUME pc'[i] \in {"work", "insert"}
      PROVE  /\ \E k \in Nat : plan'[i].at = Target(k, plan[i].hour)'
             /\ plan'[i].period <= Period(plan[i].at)'
             /\ \A k \in Nat : plan'[i].period <= k /\ k < Period(plan[i].at)' => k \in late'
  <2>1. /\ Period(plan[i].at)' = Period(plan[i].at)
        /\ \A k : Target(k, plan[i].hour)' = Target(k, plan[i].hour)
    BY <1>1, SameNow
  <2> QED BY <1>1, <1>8, <2>1 DEF Planned
<1> QED BY <1>6, <1>7, <1>8 DEF Planned
\* A daily run that is caught up is of the day it is wanted for.
LEMMA CaughtUp ==
    ASSUME Zone, now \in Nat, NEW h \in Hour, ~weekly, Passed(h)
    PROVE  Period(Target(Period(now), h)) = Period(now)
<1> DEFINE t == Target(Period(now), h)
<1>1. Period(now) \in Nat BY PeriodFacts
<1>2. t \in Nat /\ Period(now) <= Period(t) BY <1>1, TargetFacts
<1>3. t <= now BY <1>2 DEF Passed
<1>4. Period(t) <= Period(now) BY <1>2, <1>3, PeriodGrows
<1>5. Period(t) \in Int BY <1>2, PeriodFacts
<1> HIDE DEF t
<1> QED BY <1>1, <1>2, <1>4, <1>5 DEF t

LEMMA MadePlan ==
    ASSUME TypeOK, [Next]_vars, NEW i \in Instance, Planned(i),
           Lock(i) \/ Check(i) \/ Choose(i) \/ Generate(i) \/ Commit(i) \/ Ends(i)
    PROVE  Planned(i)'
<1>1. /\ UNCHANGED <<shift, weekly>> /\ Zone /\ now \in Nat /\ Period(now) \in Nat
      /\ plan[i] \in Plan /\ plan[i].hour \in Hour /\ plan[i].period \in Nat
  BY Steady, ZoneOK, PeriodFacts DEF TypeOK, Plan
<1>2. /\ Period(now)' = Period(now')
      /\ Period(plan[i].at)' = Period(plan'[i].at)
      /\ \A k : Target(k, plan[i].hour)' = Target(k, plan'[i].hour)
  BY <1>1, SameNow
<1>3. CASE Lock(i) BY <1>3, LockDoes DEF Planned
<1>4. CASE Check(i)
  <2>1. CASE pc'[i] = "unlock" BY <2>1 DEF Planned
  <2>2. CASE pc'[i] # "unlock"
    <3>1. /\ pc'[i] \in {"next", "work"} /\ now' = now
          /\ plan'[i].hour = plan[i].hour /\ plan'[i].period = Period(now)
          /\ plan'[i].at = Target(Period(now), plan[i].hour)
          /\ pc'[i] = "next" => weekly \/ ~plan'[i].seen
          /\ pc'[i] = "work" => ~weekly /\ Passed(plan[i].hour)
      BY <1>4, <2>2, CheckDoes
    <3>2. pc'[i] = "work" => Period(plan'[i].at) = Period(now) BY <1>1, <3>1, CaughtUp
    <3>3. pc'[i] = "work" => \E k \in Nat : plan'[i].at = Target(k, plan'[i].hour)
      BY <1>1, <3>1
    <3> QED BY <1>1, <1>2, <3>1, <3>2, <3>3 DEF Planned
  <2> QED BY <2>1, <2>2
<1>5. CASE Choose(i)
  <2> DEFINE t == NextScheduled(plan[i].hour)
  <2>1. /\ now' = now /\ pc[i] = "next" /\ pc'[i] = "work"
        /\ plan'[i].hour = plan[i].hour /\ plan'[i].period = plan[i].period /\ plan'[i].at = t
        /\ late' = late \cup {k \in plan[i].period..Period(t) - 1 : weekly \/ ~plan[i].seen}
    BY <1>5, ChooseDoes
  <2>2. plan[i].period <= Period(now) /\ (weekly \/ ~plan[i].seen) BY <2>1 DEF Planned
  <2> HIDE DEF t
  <2>3. t \in Nat /\ \E k \in Nat : t = Target(k, plan[i].hour) /\ Period(now) <= k
    BY <1>1, NextTimes DEF t
  <2>4. Period(t) \in Nat /\ Period(now) <= Period(t)
    <3>1. PICK k \in Nat : t = Target(k, plan[i].hour) /\ Period(now) <= k BY <2>3
    <3>2. k <= Period(t) BY <1>1, <3>1, TargetFacts
    <3>3. Period(t) \in Nat BY <1>1, <2>3, PeriodFacts
    <3> QED BY <1>1, <3>1, <3>2, <3>3
  <2>5. \A k \in Nat : plan[i].period <= k /\ k < Period(t) => k \in late'
    BY <1>1, <2>1, <2>2, <2>4
  <2> QED BY <1>1, <1>2, <2>1, <2>2, <2>3, <2>4, <2>5 DEF Planned
<1>6. CASE Generate(i)
  <2>1. pc[i] = "work" /\ (pc'[i] = "unlock" \/ (pc'[i] = "insert" /\ plan'[i] = plan[i]))
    BY <1>6, GenerateDoes
  <2>2. CASE pc'[i] = "unlock" BY <2>2 DEF Planned
  <2>3. CASE pc'[i] = "insert" /\ plan'[i] = plan[i] BY <2>1, <2>3, KeptPlan
  <2> QED BY <2>1, <2>2, <2>3
<1>7. CASE Commit(i) BY <1>7, CommitDoes DEF Planned
<1>8. CASE Ends(i) BY <1>8 DEF Ends, Planned
<1> QED BY <1>3, <1>4, <1>5, <1>6, <1>7, <1>8

LEMMA PlannedNext ==
    ASSUME TypeOK, [Next]_vars, \A i \in Instance : Planned(i)
    PROVE  \A i \in Instance : Planned(i)'
<1> TAKE j \in Instance
<1>1. ASSUME NEW i \in Instance,
             Lock(i) \/ Check(i) \/ Choose(i) \/ Generate(i) \/ Commit(i) \/ Ends(i)
      PROVE  Planned(j)'
  <2>1. CASE j = i BY <1>1, <2>1, MadePlan
  <2>2. CASE j # i BY <1>1, <2>2, OthersStay, KeptPlan
  <2> QED BY <2>1, <2>2
<1>2. CASE Waits BY <1>2, KeptPlan DEF Waits
<1> QED BY <1>1, <1>2, Kinds

-----------------------------------------------------------------------------
(* Runs *)

Made(i) == [at |-> plan[i].at, hour |-> plan[i].hour, by |-> i]

\* The job's runs become more only by a commit.
LEMMA ScheduledNext ==
    ASSUME TypeOK, [Next]_vars
    PROVE  \/ \E i \in Instance : Commit(i) /\ Scheduled' \subseteq Scheduled \cup {Made(i)}
           \/ Scheduled' \subseteq Scheduled
<1>1. ASSUME NEW i \in Instance, Commit(i) PROVE Scheduled' \subseteq Scheduled \cup {Made(i)}
  BY <1>1, CommitDoes DEF Scheduled, Made
<1>2. ASSUME NEW i \in Instance, Lock(i) \/ Check(i) \/ Choose(i) \/ Generate(i) \/ Ends(i)
      PROVE  Scheduled' \subseteq Scheduled
  BY <1>2, LockDoes, CheckDoes, ChooseDoes, GenerateDoes DEF Ends, Scheduled
<1>3. CASE Waits
  <2>1. \A r \in hand : r.by = "hand" BY DEF TypeOK
  <2> QED BY <1>3, <2>1 DEF Waits, Scheduled
<1> QED BY <1>1, <1>2, <1>3, Kinds

LEMMA WantedNext ==
    ASSUME TypeOK, [Next]_vars, \A i \in Instance : Planned(i), Wanted
    PROVE  Wanted'
<1>1. \A k, h : Target(k, h)' = Target(k, h) BY Steady, SameArithmetic
<1>2. \A r \in Scheduled : \E k \in Nat : r.at = Target(k, r.hour) BY DEF Wanted
<1>3. ASSUME NEW i \in Instance, Commit(i) PROVE \E k \in Nat : Made(i).at = Target(k, Made(i).hour)
  BY <1>3, CommitDoes DEF Planned, Made
<1>4. \A r \in Scheduled' : \E k \in Nat : r.at = Target(k, r.hour)
  BY <1>2, <1>3, ScheduledNext
<1> QED BY <1>1, <1>4 DEF Wanted

\* An instance that inserts a run has found its moment free, and still does.
LEMMA Inserts ==
    ASSUME TypeOK, [Next]_vars, NEW j \in Instance, pc'[j] = "insert"
    PROVE  /\ plan'[j].at = plan[j].at
           /\ \/ pc[j] = "insert"
              \/ ~Taken(plan[j].at) /\ Inserting(plan[j].at) = {} /\ runs' = runs
<1>1. ASSUME NEW i \in Instance,
             Lock(i) \/ Check(i) \/ Choose(i) \/ Generate(i) \/ Commit(i) \/ Ends(i)
      PROVE  /\ plan'[j].at = plan[j].at
             /\ \/ pc[j] = "insert"
                \/ ~Taken(plan[j].at) /\ Inserting(plan[j].at) = {} /\ runs' = runs
  <2>1. CASE j # i BY <1>1, <2>1, OthersStay
  <2>2. CASE j = i
    <3>1. CASE Generate(i) BY <2>2, <3>1, GenerateDoes
    <3>2. CASE ~Generate(i)
      BY <1>1, <2>2, <3>2, LockDoes, CheckDoes, ChooseDoes, CommitDoes DEF Ends
    <3> QED BY <3>1, <3>2
  <2> QED BY <2>1, <2>2
<1>2. CASE Waits BY <1>2 DEF Waits
<1> QED BY <1>1, <1>2, Kinds

\* A commit takes the moment its own instance inserts at, which no other does.
LEMMA ApartNext ==
    ASSUME TypeOK, [Next]_vars, Apart
    PROVE  Apart'
<1>1. ASSUME NEW i \in Instance, Commit(i), NEW r \in Scheduled
      PROVE  pc[i] = "insert" /\ r.at # plan[i].at
  BY <1>1, CommitDoes DEF Apart, Taken, Scheduled
<1>2. ASSUME NEW x \in Scheduled', NEW y \in Scheduled', x.at = y.at PROVE x = y
  <2>1. CASE Scheduled' \subseteq Scheduled BY <1>2, <2>1 DEF Apart
  <2>2. ASSUME NEW i \in Instance, Commit(i), Scheduled' \subseteq Scheduled \cup {Made(i)}
        PROVE  x = y
    <3>1. Made(i).at = plan[i].at BY DEF Made
    <3>2. (x \in Scheduled \/ x = Made(i)) /\ (y \in Scheduled \/ y = Made(i)) BY <2>2
    <3> QED BY <1>1, <1>2, <2>2, <3>1, <3>2 DEF Apart
  <2> QED BY <2>1, <2>2, ScheduledNext
<1>3. ASSUME NEW j \in Instance, pc'[j] = "insert", NEW k \in Instance, pc'[k] = "insert",
             plan'[j].at = plan'[k].at
      PROVE  j = k
  <2>1. plan'[j].at = plan[j].at /\ plan'[k].at = plan[k].at BY <1>3, Inserts
  <2>2. CASE pc[j] = "insert" /\ pc[k] = "insert" BY <1>3, <2>1, <2>2 DEF Apart
  <2>3. CASE pc[j] = "insert" /\ pc[k] # "insert"
    BY <1>3, <2>1, <2>3, Inserts DEF Inserting
  <2>4. CASE pc[j] # "insert" /\ pc[k] = "insert"
    BY <1>3, <2>1, <2>4, Inserts DEF Inserting
  <2>5. CASE pc[j] # "insert" /\ pc[k] # "insert"
    <3>1. \A l \in Instance : pc[l] # "insert" /\ pc'[l] = "insert" => Generate(l)
      <4> TAKE l \in Instance
      <4> HAVE pc[l] # "insert" /\ pc'[l] = "insert"
      <4>1. ASSUME NEW i \in Instance,
                   Lock(i) \/ Check(i) \/ Choose(i) \/ Generate(i) \/ Commit(i) \/ Ends(i)
            PROVE  Generate(l)
        <5>1. l = i BY <4>1, OthersStay
        <5> QED BY <4>1, <5>1, LockDoes, CheckDoes, ChooseDoes, CommitDoes DEF Ends
      <4>2. ~Waits BY DEF Waits
      <4> QED BY <4>1, <4>2, Kinds
    <3>2. Generate(j) /\ pc'[j] # pc[j] /\ pc'[k] # pc[k] BY <1>3, <2>5, <3>1
    <3> QED BY <3>2, OthersStay
  <2> QED BY <2>2, <2>3, <2>4, <2>5
<1>4. ASSUME NEW j \in Instance, pc'[j] = "insert", NEW r \in Scheduled', r.at = plan'[j].at
      PROVE  FALSE
  <2>1. plan'[j].at = plan[j].at BY <1>4, Inserts
  <2>2. ASSUME r \in Scheduled PROVE FALSE
    <3>1. Taken(plan[j].at) BY <1>4, <2>1, <2>2 DEF Taken, Scheduled
    <3> QED BY <1>4, <3>1, Inserts DEF Apart
  <2>3. ASSUME NEW i \in Instance, Commit(i), r = Made(i) PROVE FALSE
    <3>1. pc[i] = "insert" /\ pc'[i] = "unlock" /\ j # i BY <1>4, <2>3, CommitDoes
    <3>2. pc[j] = "insert" BY <1>4, <2>3, <3>1, OthersStay
    <3> QED BY <1>4, <2>1, <2>3, <3>1, <3>2 DEF Apart, Made
  <2> QED BY <1>4, <2>2, <2>3, ScheduledNext
<1>5. ASSUME NEW j \in Instance, pc'[j] = "insert" PROVE ~Taken(plan[j].at)'
  BY <1>4, <1>5 DEF Taken, Scheduled
<1> QED BY <1>2, <1>3, <1>5 DEF Apart

LEMMA AheadNext ==
    ASSUME TypeOK, [Next]_vars, \A i \in Instance : Planned(i), Ahead
    PROVE  Ahead'
<1>1. /\ UNCHANGED <<shift, weekly>> /\ Zone /\ now \in Nat /\ now' \in Nat /\ now <= now'
      /\ late \subseteq late'
  BY Steady, ZoneOK, NothingForgotten
<1>2. /\ Period(now) \in Nat /\ Period(now') \in Nat /\ Period(now) <= Period(now')
      /\ Period(now)' = Period(now')
  BY <1>1, PeriodFacts, PeriodGrows, SameNow
<1>3. \A u : Period(u)' = Period(u) BY <1>1, SameArithmetic
<1>4. ASSUME NEW r \in runs', NEW k \in Nat, Period(now') <= k, k < Period(r.at) PROVE k \in late'
  <2>1. CASE r \in runs BY <1>1, <1>2, <1>4, <2>1 DEF Ahead
  <2>2. CASE r \in hand
    <3>1. r.at \in Nat /\ r.at <= now BY <1>1, <2>2 DEF TypeOK
    <3>2. Period(r.at) \in Nat /\ Period(r.at) <= Period(now)
      BY <1>1, <3>1, PeriodFacts, PeriodGrows
    <3> QED BY <1>2, <1>4, <3>2
  <2>3. ASSUME NEW i \in Instance, Commit(i), r = Made(i) PROVE k \in late'
    <3>1. now' = now /\ pc[i] = "insert" /\ r.at = plan[i].at /\ plan[i].period \in Nat
      BY <2>3, CommitDoes DEF Made, TypeOK, Plan
    <3>2. plan[i].period <= Period(now) BY <3>1 DEF Planned
    <3>3. plan[i].period <= k /\ k < Period(plan[i].at) BY <1>2, <1>4, <3>1, <3>2
    <3> QED BY <1>1, <3>1, <3>3 DEF Planned
  <2>4. \/ r \in runs \/ r \in hand \/ \E i \in Instance : Commit(i) /\ r = Made(i)
    <3>1. ASSUME NEW i \in Instance, Commit(i) PROVE r \in runs \/ r = Made(i)
      BY <3>1, CommitDoes DEF Made
    <3>2. ASSUME NEW i \in Instance, Lock(i) \/ Check(i) \/ Choose(i) \/ Generate(i) \/ Ends(i)
          PROVE  r \in runs
      BY <3>2, LockDoes, CheckDoes, ChooseDoes, GenerateDoes DEF Ends
    <3>3. CASE Waits BY <3>3 DEF Waits
    <3> QED BY <3>1, <3>2, <3>3, Kinds
  <2> QED BY <2>1, <2>2, <2>3, <2>4
<1> QED BY <1>2, <1>3, <1>4 DEF Ahead
-----------------------------------------------------------------------------
(* One pass at a time *)

LEMMA LockNext ==
    ASSUME TypeOK, [Next]_vars, ~lost', InTurn, NEW j \in Instance, pc'[j] # "idle"
    PROVE  lock' = {j}
<1>1. ASSUME NEW i \in Instance, pc[i] # "idle" PROVE lock = {i} BY <1>1 DEF InTurn
<1>2. ASSUME NEW i \in Instance,
             Lock(i) \/ Check(i) \/ Choose(i) \/ Generate(i) \/ Commit(i) \/ Ends(i)
      PROVE  lock' = {j}
  <2>1. CASE Lock(i)
    <3>1. lock = {} /\ lock' = {i} BY <2>1, LockDoes
    <3>2. j = i BY <1>1, <2>1, <3>1, OthersStay
    <3> QED BY <3>1, <3>2
  <2>2. CASE Check(i) \/ Choose(i) \/ Generate(i) \/ Commit(i)
    <3>1. pc[i] # "idle" /\ lock' = lock BY <2>2, CheckDoes, ChooseDoes, GenerateDoes, CommitDoes
    <3>2. pc[j] # "idle" BY <2>2, <3>1, OthersStay
    <3> QED BY <1>1, <3>1, <3>2
  <2>3. CASE Ends(i)
    <3>1. CASE j = i BY <1>1, <2>3, <3>1 DEF Ends
    <3>2. CASE j # i
      <4>1. pc[j] # "idle" BY <2>3, <3>2 DEF Ends
      <4>2. lock = {j} BY <1>1, <4>1
      <4> QED BY <2>3, <3>2, <4>2 DEF Ends
    <3> QED BY <3>1, <3>2
  <2> QED BY <1>2, <2>1, <2>2, <2>3
<1>3. CASE Waits
  <2>1. lock' = lock /\ pc[j] # "idle" BY <1>3 DEF Waits, TypeOK
  <2> QED BY <1>1, <2>1
<1> QED BY <1>2, <1>3, Kinds
\* A pass that finds no run of its period finds only runs of periods before it, or of its
\* own if clocks are put back, and the run it makes is of that period or a later one.
LEMMA LaterNext ==
    ASSUME TypeOK, [Next]_vars, ~lost', InTurn, \A i \in Instance : Planned(i), NEW j \in Instance
    PROVE  Later(j)'
<1>1. /\ Zone /\ now \in Nat /\ Period(now) \in Nat /\ plan[j].hour \in Hour
      /\ plan[j].period \in Nat /\ plan[j].at \in Nat /\ Period(plan[j].at) \in Nat
  BY ZoneOK, PeriodFacts DEF TypeOK, Plan
<1>2. /\ \A u : Period(u)' = Period(u)
      /\ Period(plan[j].at)' = Period(plan'[j].at)
  BY Steady, SameArithmetic, SameNow
<1>3. \A r \in Scheduled : r \in runs /\ r.at \in Nat /\ Period(r.at) \in Nat
  BY <1>1, PeriodFacts DEF TypeOK, Run, Scheduled
<1>4. Later(j) BY DEF InTurn
<1>5. ASSUME NEW r \in Scheduled, Scheduled' \subseteq Scheduled
      PROVE  /\ pc'[j] = "next" => Below(Period(r.at), plan'[j].period)
             /\ pc'[j] \in {"work", "insert"} => Below(Period(r.at), Period(plan'[j].at))
  <2>1. ASSUME pc'[j] = pc[j] \/ (pc[j] = "work" /\ pc'[j] = "insert"),
               plan'[j].at = plan[j].at, plan'[j].period = plan[j].period
        PROVE  /\ pc'[j] = "next" => Below(Period(r.at), plan'[j].period)
               /\ pc'[j] \in {"work", "insert"} => Below(Period(r.at), Period(plan'[j].at))
    BY <1>4, <1>5, <2>1 DEF Later
  <2>2. CASE Check(j)
    <3>1. ASSUME pc'[j] \in {"next", "work"}
          PROVE  /\ ~Existing /\ plan'[j].period = Period(now)
                 /\ pc'[j] = "work" => Period(plan'[j].at) = Period(now)
      BY <1>1, <2>2, <3>1, CheckDoes, CaughtUp
    <3>2. ~Existing => Below(Period(r.at), Period(now))
      <4>1. ~Existing => ~(r.at >= PeriodStart) BY <1>3 DEF Existing
      <4>2. PeriodStart \in Int
        BY <1>1, Lengths DEF PeriodStart, Offset, Zone
      <4> QED BY <1>1, <1>3, <4>1, <4>2, StartFacts
    <3>3. pc'[j] # "insert" BY <2>2, CheckDoes
    <3> QED BY <3>1, <3>2, <3>3
  <2>3. CASE Choose(j)
    <3>1. /\ pc[j] = "next" /\ pc'[j] = "work" /\ plan'[j].at = NextScheduled(plan[j].hour)
      BY <2>3, ChooseDoes
    <3>2. Below(Period(r.at), plan[j].period) /\ plan[j].period <= Period(now)
      BY <1>4, <1>5, <3>1 DEF Later, Planned
    <3>3. Period(plan'[j].at) \in Nat /\ Period(now) <= Period(plan'[j].at)
      <4>1. PICK k \in Nat : plan'[j].at = Target(k, plan[j].hour) /\ Period(now) <= k
        BY <1>1, <3>1, NextTimes
      <4>2. plan'[j].at \in Nat /\ k <= Period(plan'[j].at) BY <1>1, <4>1, TargetFacts
      <4>3. Period(plan'[j].at) \in Nat BY <1>1, <4>2, PeriodFacts
      <4> QED BY <1>1, <4>1, <4>2, <4>3
    <3>4. Below(Period(r.at), Period(plan'[j].at)) BY <1>1, <1>3, <3>2, <3>3 DEF Below
    <3> QED BY <3>1, <3>4
  <2>4. CASE Generate(j) BY <2>1, <2>4, GenerateDoes
  <2>5. CASE Lock(j) \/ Commit(j) \/ Ends(j) BY <2>5, LockDoes, CommitDoes DEF Ends
  <2>6. ASSUME NEW i \in Instance, i # j,
               Lock(i) \/ Check(i) \/ Choose(i) \/ Generate(i) \/ Commit(i) \/ Ends(i)
        PROVE  /\ pc'[j] = "next" => Below(Period(r.at), plan'[j].period)
               /\ pc'[j] \in {"work", "insert"} => Below(Period(r.at), Period(plan'[j].at))
    BY <2>1, <2>6, OthersStay
  <2>7. CASE Waits BY <2>1, <2>7 DEF Waits
  <2> QED BY <2>2, <2>3, <2>4, <2>5, <2>6, <2>7, Kinds
<1>6. ASSUME NEW i \in Instance, Commit(i) PROVE pc'[j] \notin {"next", "work", "insert"}
  <2>1. pc[i] = "insert" /\ pc'[i] = "unlock" /\ lock' = lock BY <1>6, CommitDoes
  <2>2. lock = {i} BY <2>1 DEF InTurn
  <2>3. pc'[j] # "idle" => lock' = {j} BY LockNext
  <2> QED BY <2>1, <2>2, <2>3
<1>7. UNCHANGED shift BY Steady
<1>8. ASSUME NEW r \in Scheduled'
      PROVE  /\ pc'[j] = "next" => Below(Period(r.at), plan[j].period)'
             /\ pc'[j] \in {"work", "insert"} => Below(Period(r.at), Period(plan[j].at))'
  <2>1. /\ pc'[j] = "next" => Below(Period(r.at), plan'[j].period)
        /\ pc'[j] \in {"work", "insert"} => Below(Period(r.at), Period(plan'[j].at))
    BY <1>5, <1>6, ScheduledNext
  <2> QED BY <1>2, <1>7, <2>1 DEF Below
<1> QED BY <1>8 DEF Later

LEMMA InTurnNext ==
    ASSUME TypeOK, [Next]_vars, ~lost', InTurn, \A i \in Instance : Planned(i)
    PROVE  InTurn'
<1>1. UNCHANGED <<shift, weekly>> BY Steady
<1>2. ASSUME shift >= 0, NEW x \in Scheduled', NEW y \in Scheduled', Period(x.at) = Period(y.at)
      PROVE  x = y
  <2>1. CASE Scheduled' \subseteq Scheduled BY <1>2, <2>1 DEF InTurn
  <2>2. ASSUME NEW i \in Instance, Commit(i), Scheduled' \subseteq Scheduled \cup {Made(i)}
        PROVE  x = y
    <3>1. \A r \in Scheduled : Period(r.at) < Period(Made(i).at) /\ Period(r.at) \in Nat
      <4>1. pc[i] = "insert" /\ Later(i) BY <1>2, <2>2, CommitDoes DEF InTurn
      <4>2. \A r \in Scheduled : Period(r.at) \in Nat
        BY ZoneOK, PeriodFacts DEF TypeOK, Run, Scheduled
      <4> QED BY <1>2, <4>1, <4>2 DEF Later, Below, Made
    <3>2. (x \in Scheduled \/ x = Made(i)) /\ (y \in Scheduled \/ y = Made(i)) BY <2>2
    <3>3. Period(Made(i).at) \in Nat
      BY ZoneOK, PeriodFacts DEF TypeOK, Plan, Made
    <3> QED BY <1>2, <3>1, <3>2, <3>3 DEF InTurn
  <2> QED BY <2>1, <2>2, ScheduledNext
<1>3. \A u : Period(u)' = Period(u) BY <1>1, SameArithmetic
<1>4. \A j \in Instance : pc'[j] # "idle" => lock' = {j} BY LockNext
<1>5. \A i \in Instance : Later(i)' BY LaterNext
<1>6. shift' >= 0 => \A x, y \in Scheduled' : Period(x.at)' = Period(y.at)' => x = y
  BY <1>1, <1>2, <1>3
<1> QED BY <1>4, <1>5, <1>6 DEF InTurn

-----------------------------------------------------------------------------
(* Runs of the periods served *)

LEMMA ServedNext ==
    ASSUME TypeOK, [Next]_vars, \A i \in Instance : Planned(i), Ahead, ServedHasRun
    PROVE  ServedHasRun'
<1>1. /\ UNCHANGED <<shift, weekly>> /\ Zone /\ now \in Nat /\ Period(now) \in Nat
      /\ late \subseteq late' /\ runs \subseteq runs'
  BY Steady, ZoneOK, PeriodFacts, NothingForgotten
<1>2. /\ \A u : Period(u)' = Period(u)
      /\ \A k : Misread(k)' <=> Misread(k)
  BY <1>1, SameArithmetic DEF Misread, Period, Local, Offset, Length
<1>3. \A r \in runs : r.at \in Nat /\ Period(r.at) \in Nat
  BY <1>1, PeriodFacts DEF TypeOK, Run
<1>4. ASSUME NEW k \in served' \ late'
      PROVE  (\E r \in runs' : Period(r.at) = k) \/ Misread(k)
  <2>1. CASE k \in served BY <1>1, <1>4, <2>1 DEF ServedHasRun
  <2>2. ASSUME NEW i \in Instance, Check(i), k \notin served
        PROVE  (\E r \in runs' : Period(r.at) = k) \/ Misread(k)
    <3>1. Existing /\ k = Period(now) /\ late' = late BY <1>4, <2>2, CheckDoes
    <3>2. PICK r \in runs : r.at >= PeriodStart BY <3>1 DEF Existing
    <3>3. k <= Period(r.at) \/ Misread(k) BY <1>1, <1>3, <3>1, <3>2, StartFacts
    <3>4. ~(k < Period(r.at)) BY <1>1, <1>4, <3>1 DEF Ahead
    <3> QED BY <1>1, <1>3, <3>1, <3>3, <3>4
  <2>3. ASSUME NEW i \in Instance, Generate(i) \/ Commit(i), k \notin served
        PROVE  \E r \in runs' : Period(r.at) = k
    <3>1. k = plan[i].period /\ pc[i] \in {"work", "insert"} /\ late' = late
      BY <1>4, <2>3, GenerateDoes, CommitDoes
    <3>2. PICK r \in runs' : r.at = plan[i].at
      <4>1. CASE Generate(i)
        <5>1. Taken(plan[i].at) BY <1>4, <2>3, <4>1, GenerateDoes
        <5> QED BY <1>1, <5>1 DEF Taken
      <4>2. CASE Commit(i)
        <5>1. Made(i) \in runs' BY <4>2, CommitDoes DEF Made
        <5> QED BY <5>1 DEF Made
      <4> QED BY <2>3, <4>1, <4>2
    <3>3. k \in Nat /\ plan[i].at \in Nat /\ Period(plan[i].at) \in Nat
      BY <1>1, <3>1, PeriodFacts DEF TypeOK, Plan
    <3>4. k <= Period(plan[i].at) /\ ~(k < Period(plan[i].at)) BY <1>4, <3>1, <3>3 DEF Planned
    <3> QED BY <3>2, <3>3, <3>4
  <2>4. \/ k \in served
        \/ \E i \in Instance : Check(i) \/ Generate(i) \/ Commit(i)
    <3>1. ASSUME NEW i \in Instance, Lock(i) \/ Choose(i) \/ Ends(i) PROVE served' = served
      BY <3>1, LockDoes, ChooseDoes DEF Ends
    <3>2. Waits => served' = served BY DEF Waits
    <3> QED BY <1>4, <3>1, <3>2, Kinds
  <2> QED BY <2>1, <2>2, <2>3, <2>4
<1> QED BY <1>2, <1>4 DEF ServedHasRun

-----------------------------------------------------------------------------
(* The inductive invariant *)

LEMMA InvInit == Init => IInv
<1> SUFFICES ASSUME Init PROVE IInv OBVIOUS
<1>1. TypeOK /\ AtMostOne BY TypeInit
<1>2. Scheduled = {} BY DEF Init, Scheduled
<1>3. \A i \in Instance : Planned(i) /\ Later(i) BY DEF Init, Planned, Later
<1>4. Wanted /\ Apart /\ Ahead /\ InTurn /\ ServedHasRun
  BY <1>2, <1>3 DEF Init, Wanted, Apart, Ahead, InTurn, ServedHasRun
<1> QED BY <1>1, <1>3, <1>4 DEF IInv

LEMMA InvNext == IInv /\ [Next]_vars => IInv'
<1> SUFFICES ASSUME IInv, [Next]_vars PROVE IInv' OBVIOUS
<1> USE DEF IInv
<1>1. TypeOK' /\ AtMostOne' BY TypeNext
<1>2. \A i \in Instance : Planned(i)' BY PlannedNext
<1>3. Wanted' /\ Apart' /\ Ahead' BY WantedNext, ApartNext, AheadNext
<1>4. ~lost' => InTurn' BY NothingForgotten, InTurnNext
<1>5. ServedHasRun' BY ServedNext
<1> QED BY <1>1, <1>2, <1>3, <1>4, <1>5

\* Two runs for one hour preferred that clocks do not move are one run; two others are
\* made in turn while no lock is lost.
LEMMA InvOnePerPeriod == IInv => OnePerPeriod
<1> SUFFICES ASSUME IInv, NEW x \in Scheduled, NEW y \in Scheduled, x # y,
                    Period(x.at) = Period(y.at)
             PROVE  \/ x.hour # y.hour /\ (lost \/ shift < 0)
                    \/ lost /\ Displaced(x)
                    \/ lost /\ Displaced(y)
  BY DEF OnePerPeriod
<1>1. Zone /\ shift \in Int BY ZoneOK DEF IInv, Zone
<1>2. PICK j \in Nat : x.at = Target(j, x.hour) BY DEF IInv, Wanted
<1>3. PICK k \in Nat : y.at = Target(k, y.hour) BY DEF IInv, Wanted
<1>4. x.hour \in Hour /\ y.hour \in Hour BY DEF IInv, TypeOK, Run, Scheduled
<1>5. x.at # y.at BY DEF IInv, Apart
<1>6. ~Displaced(x) /\ ~Displaced(y) => x.hour # y.hour
  BY <1>1, <1>2, <1>3, <1>4, <1>5, OneTarget DEF Displaced, DisplacedAt
<1>7. ~lost => shift < 0 BY <1>1 DEF IInv, InTurn
<1>8. shift < 0 => ~Displaced(x) /\ ~Displaced(y) BY <1>1 DEF Displaced
<1> QED BY <1>6, <1>7, <1>8

LEMMA Invariant == Spec => []IInv
<1> QED BY InvInit, InvNext, PTL DEF Spec

\* A commit makes the run of the period its pass chose, and the pass alone is under way.
LEMMA StepInOrder ==
    ASSUME IInv, [Next]_vars, NEW r \in Scheduled' \ Scheduled, NEW x \in Scheduled, ~lost
    PROVE  Period(x.at) <= Period(r.at)
<1> USE DEF IInv
<1>1. PICK i \in Instance : Commit(i) /\ r = Made(i) BY ScheduledNext
<1>2. pc[i] = "insert" /\ Later(i) BY <1>1, CommitDoes DEF InTurn
<1>3. Below(Period(x.at), Period(r.at)) BY <1>1, <1>2 DEF Later, Made
<1>4. Period(x.at) \in Int /\ Period(r.at) \in Int
  BY <1>1, ZoneOK, PeriodFacts DEF TypeOK, Run, Plan, Scheduled, Made
<1> QED BY <1>3, <1>4 DEF Below

\* The job makes one run for a day or a week, for any number of instances, failures and
\* users' actions and wherever the clocks change, but in the cases the property names.
THEOREM OneRunPerPeriod == Spec => []OnePerPeriod
<1> QED BY Invariant, InvOnePerPeriod, PTL

\* A day or week that a pass has served has its run, unless its hour was over or clocks
\* put forward hide it.
THEOREM ServedPeriodsHaveRuns == Spec => []ServedHasRun
<1>1. IInv => ServedHasRun BY DEF IInv
<1> QED BY <1>1, Invariant, PTL

\* No run is made for a day or a week before one that has its run, while no lock is lost.
THEOREM RunsAreInOrder == Spec => InOrder
<1>1. ASSUME IInv, [Next]_vars
      PROVE  [\A r \in Scheduled' \ Scheduled, x \in Scheduled :
                 lost \/ Period(x.at) <= Period(r.at)]_vars
  BY <1>1, StepInOrder
<1> QED BY <1>1, Invariant, PTL DEF Spec, InOrder
=============================================================================
