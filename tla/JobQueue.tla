------------------------------ MODULE JobQueue ------------------------------
(***************************************************************************)
(* The two job queues kept in PostgreSQL: consensus analyses               *)
(* (discussions/jobs.py) and programme exports (programmes/export_jobs.py).*)
(* Both follow one protocol: a request looks for an active job with the    *)
(* same dedupe key and inserts one if there is none; workers claim the     *)
(* oldest queued job, save its result and complete it; a sweep marks jobs  *)
(* that have run for too long as stale.  Every action is one transaction   *)
(* (or one upload), so anything can come between two of them.              *)
(*                                                                         *)
(* The specification's own names begin with Job, so that a module can      *)
(* extend another specification beside it.                                 *)
(***************************************************************************)
EXTENDS Integers, FiniteSets

CONSTANTS
    Job,           \* bound: the rows that may be inserted
    Key,           \* dedupe keys
    KeyOf,         \* the key of each row
    Worker,        \* processes that run process_next_..._job
    Sweeper,       \* processes that run mark_stale_..._jobs
    Requester,     \* requests and scheduler jobs that enqueue
    MaxAttempts,   \* max_attempts
    MayBeUnready   \* TRUE for consensus, whose plan may find too few votes

ASSUME JobAssumption ==
    /\ KeyOf \in [Job -> Key]
    /\ MaxAttempts \in Nat \ {0}
    /\ MayBeUnready \in BOOLEAN

VARIABLES
    status, attempts, queuedAt,   \* the columns of each row
    overdue,    \* jobs whose started_at is more than timeout_seconds ago
    results,    \* results saved for the job: analyses or uploads
    stamp,      \* the next queued_at
    workerPc, hold,  \* each worker: where it is, the job it has
    found,      \* each sweeper: the timed-out jobs it has loaded
    asking,     \* each requester: the key it found no active job for
    overtaken,  \* history: requesters overtaken by another insert of their key
    excused     \* history: jobs inserted so, or requeued after they were stale

rowVars == <<status, attempts, queuedAt>>
envVars == <<overdue, stamp>>
wrkVars == <<workerPc, hold>>
reqVars == <<asking, overtaken>>
queueVars == <<rowVars, envVars, results, wrkVars, found, reqVars, excused>>

Active == {"queued", "running"}
Status == Active \cup {"none", "completed", "failed", "stale", "dead_letter"}

JobTypeOK ==
    /\ status \in [Job -> Status]
    /\ attempts \in [Job -> Nat] /\ queuedAt \in [Job -> Nat]
    /\ overdue \subseteq Job
    /\ results \in [Job -> Nat]
    /\ stamp \in Nat
    /\ workerPc \in [Worker -> {"idle", "working", "saved"}]
    /\ hold \in [Worker -> SUBSET Job]
    /\ found \in [Sweeper -> SUBSET Job]
    /\ asking \in [Requester -> SUBSET Key]
    /\ overtaken \subseteq Requester /\ excused \subseteq Job

JobInit ==
    /\ status = [j \in Job |-> "none"]
    /\ attempts = [j \in Job |-> 0] /\ queuedAt = [j \in Job |-> 0]
    /\ overdue = {} /\ stamp = 0
    /\ results = [j \in Job |-> 0]
    /\ workerPc = [w \in Worker |-> "idle"] /\ hold = [w \in Worker |-> {}]
    /\ found = [s \in Sweeper |-> {}]
    /\ asking = [q \in Requester |-> {}]
    /\ overtaken = {} /\ excused = {}

-----------------------------------------------------------------------------
(* enqueue_consensus_job, enqueue_programme_export_job                     *)

ActiveForQueued(k) ==      \* mutant: a running job does not count as active
    {j \in Job : KeyOf[j] = k /\ status[j] = "queued"}

ActiveFor(k) == {j \in Job : KeyOf[j] = k /\ status[j] \in Active}

\* No active job has the key; if one has, the request ends with that job.
LookForActive(q) ==
    /\ asking[q] = {}
    /\ \E k \in Key : /\ ActiveFor(k) = {}
                      /\ asking' = [asking EXCEPT ![q] = {k}]
    /\ overtaken' = overtaken \ {q}
    /\ UNCHANGED <<rowVars, envVars, results, wrkVars, found, excused>>

Insert(q) ==
    /\ \E j \in Job :
          /\ KeyOf[j] \in asking[q] /\ status[j] = "none"
          /\ status' = [status EXCEPT ![j] = "queued"]
          /\ queuedAt' = [queuedAt EXCEPT ![j] = stamp] /\ stamp' = stamp + 1
          /\ overtaken' = overtaken \cup {r \in Requester \ {q} : KeyOf[j] \in asking[r]}
          /\ excused' = IF q \in overtaken THEN excused \cup {j} ELSE excused
    /\ asking' = [asking EXCEPT ![q] = {}]
    /\ UNCHANGED <<attempts, overdue, results, wrkVars, found>>

-----------------------------------------------------------------------------
(* process_next_consensus_job, process_next_programme_export_job           *)

Rest(w) == workerPc' = [workerPc EXCEPT ![w] = "idle"] /\ hold' = [hold EXCEPT ![w] = {}]

ClaimableAny(j) ==         \* mutant: a stale job may be claimed again
    status[j] \in {"queued", "stale"}

\* The first row of the SELECT: the oldest queued job that no one has locked.
Claimable(j) ==
    /\ status[j] = "queued"
    /\ \A i \in Job : status[i] = "queued" => queuedAt[j] <= queuedAt[i]

Claim(w) ==
    /\ workerPc[w] = "idle"
    /\ \E j \in Job :
          /\ Claimable(j)
          /\ status' = [status EXCEPT ![j] = "running"]
          /\ attempts' = [attempts EXCEPT ![j] = @ + 1]
          /\ overdue' = overdue \ {j}            \* started_at = now
          /\ hold' = [hold EXCEPT ![w] = {j}]
    /\ workerPc' = [workerPc EXCEPT ![w] = "working"]
    /\ UNCHANGED <<queuedAt, results, stamp, found, reqVars, excused>>

\* The plan is not ready: too few votes or participants.
NotReady(w) ==
    /\ MayBeUnready
    /\ workerPc[w] = "working"
    /\ status' = [j \in Job |-> IF j \in hold[w] THEN "failed" ELSE status[j]]
    /\ Rest(w)
    /\ UNCHANGED <<attempts, queuedAt, envVars, results, found, reqVars, excused>>

\* The result is saved on its own: a commit of its own, or an upload.
SaveResult(w) ==
    /\ workerPc[w] = "working"
    /\ results' = [j \in Job |-> IF j \in hold[w] THEN results[j] + 1 ELSE results[j]]
    /\ workerPc' = [workerPc EXCEPT ![w] = "saved"]
    /\ UNCHANGED <<rowVars, envVars, hold, found, reqVars, excused>>

\* The status is overwritten whatever it has become meanwhile.
Complete(w) ==
    /\ workerPc[w] = "saved"
    /\ status' = [j \in Job |-> IF j \in hold[w] THEN "completed" ELSE status[j]]
    /\ Rest(w)
    /\ UNCHANGED <<attempts, queuedAt, envVars, results, found, reqVars, excused>>

Requeue(j) ==
    /\ status' = [status EXCEPT ![j] = "queued"]
    /\ queuedAt' = [queuedAt EXCEPT ![j] = stamp] /\ stamp' = stamp + 1
    /\ excused' = IF status[j] = "stale" THEN excused \cup {j} ELSE excused

Bury(j) ==
    /\ status' = [status EXCEPT ![j] = "dead_letter"]
    /\ UNCHANGED <<queuedAt, stamp, excused>>

FailSaved(w) ==            \* mutant: an error after the result is saved requeues too
    /\ workerPc[w] # "idle"
    /\ \E j \in hold[w] : IF attempts[j] >= MaxAttempts THEN Bury(j) ELSE Requeue(j)
    /\ Rest(w)
    /\ UNCHANGED <<attempts, overdue, results, found, reqVars>>

FailLate(w) ==             \* mutant: > for >=
    /\ workerPc[w] = "working"
    /\ \E j \in hold[w] : IF attempts[j] > MaxAttempts THEN Bury(j) ELSE Requeue(j)
    /\ Rest(w)
    /\ UNCHANGED <<attempts, overdue, results, found, reqVars>>

\* An exception that leaves the database session usable.
Fail(w) ==
    /\ workerPc[w] = "working"
    /\ \E j \in hold[w] : IF attempts[j] >= MaxAttempts THEN Bury(j) ELSE Requeue(j)
    /\ Rest(w)
    /\ UNCHANGED <<attempts, overdue, results, found, reqVars>>

\* The worker is killed, or a database error breaks the session: the handler's
\* own commit fails too, and the row is left as it is.
Abandon(w) ==
    /\ workerPc[w] # "idle"
    /\ Rest(w)
    /\ UNCHANGED <<rowVars, envVars, results, found, reqVars, excused>>

FinishJob(w) == NotReady(w) \/ SaveResult(w) \/ Complete(w) \/ Fail(w)

-----------------------------------------------------------------------------
(* mark_stale_consensus_jobs, mark_stale_programme_export_jobs             *)

Overrun(j) ==
    /\ status[j] = "running" /\ j \notin overdue
    /\ overdue' = overdue \cup {j}
    /\ UNCHANGED <<rowVars, stamp, results, wrkVars, found, reqVars, excused>>

FindStaleNever(s) ==       \* mutant: the sweep waits for completed_at
    /\ found[s] = {}
    /\ found' = [found EXCEPT ![s] = {j \in overdue : status[j] = "completed"}]
    /\ found'[s] # {}
    /\ UNCHANGED <<rowVars, envVars, results, wrkVars, reqVars, excused>>

\* The running jobs are loaded without a lock.
FindStale(s) ==
    /\ found[s] = {}
    /\ found' = [found EXCEPT ![s] = {j \in overdue : status[j] = "running"}]
    /\ found'[s] # {}
    /\ UNCHANGED <<rowVars, envVars, results, wrkVars, reqVars, excused>>

\* The UPDATE of each row has no condition but its id.
MarkStale(s) ==
    /\ found[s] # {}
    /\ status' = [j \in Job |-> IF j \in found[s] THEN "stale" ELSE status[j]]
    /\ found' = [found EXCEPT ![s] = {}]
    /\ UNCHANGED <<attempts, queuedAt, envVars, results, wrkVars, reqVars, excused>>

JobNext ==
    \/ \E q \in Requester : LookForActive(q) \/ Insert(q)
    \/ \E w \in Worker : Claim(w) \/ FinishJob(w) \/ Abandon(w)
    \/ \E j \in Job : Overrun(j)
    \/ \E s \in Sweeper : FindStale(s) \/ MarkStale(s)

JobSpec == JobInit /\ [][JobNext]_queueVars

\* The workers' loop and the sweep run for ever, and time passes.
Fairness ==
    /\ \A w \in Worker : WF_queueVars(Claim(w)) /\ WF_queueVars(FinishJob(w))
    /\ \A j \in Job : WF_queueVars(Overrun(j))
    /\ \A s \in Sweeper : WF_queueVars(FindStale(s)) /\ WF_queueVars(MarkStale(s))

FairJobSpec == JobSpec /\ Fairness

-----------------------------------------------------------------------------
(* Properties                                                              *)

\* A job is in the hands of one worker at a time, although it may be marked
\* stale, requeued late and claimed again while its first worker lives.
OneWorkerPerJob ==
    \A v, w \in Worker : v # w => hold[v] \cap hold[w] = {}

\* A job saves one result at most: retries and late completions included, no
\* discussion gets a second analysis from the same job.
OneResultPerJob == \A j \in Job : results[j] <= 1

\* Two active jobs share a dedupe key only if one was inserted by a request that
\* another insert had overtaken, or was requeued after it had been marked stale.
DuplicateJobExplained ==
    \A i, j \in Job :
        i # j /\ KeyOf[i] = KeyOf[j] /\ {status[i], status[j]} \subseteq Active
            => {i, j} \cap excused # {}

\* Each job is begun at most MaxAttempts times, by one worker at a time, and
\* never again once its result is saved.
Tries == INSTANCE ExclusiveRetry WITH
    MaxTries <- MaxAttempts, tries <- attempts,
    busy <- UNION {hold[w] : w \in Worker},
    done <- {j \in Job : results[j] > 0}

ImplementsExclusiveRetry == Tries!Spec

\* Every active job leaves the queue in the end: completed, failed, stale or dead.
JobSettles == \A j \in Job : (status[j] \in Active) ~> (status[j] \notin Active)

=============================================================================
