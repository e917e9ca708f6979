--------------------------- MODULE GenerationQueue ---------------------------
(***************************************************************************)
(* The queue of on-demand brief generations (briefing/jobs.py): a list, a  *)
(* retry set, one key per job and one lock per job, all in Redis, and two  *)
(* counters per user (billing/abuse_guardrails.py).  Web requests put jobs *)
(* in; the scheduler's process_pending_jobs moves due retries back to the  *)
(* list and processes up to Burst jobs a pass.  Every action is one Redis  *)
(* call or one database transaction.  The model has one user.              *)
(***************************************************************************)
EXTENDS Integers, Sequences, FiniteSets

CONSTANTS
    Job,          \* bound: the jobs that may be queued
    Sched,        \* processes running process_pending_jobs (one, if the leader lock holds)
    Request,      \* web requests that queue a generation
    MaxRetries,   \* MAX_RETRIES
    MaxActive,    \* CONCURRENCY_LIMITS['max_concurrent_jobs']
    MaxQueued,    \* CONCURRENCY_LIMITS['max_queued_jobs']
    Burst,        \* max_jobs of process_pending_jobs
    MaxFaults     \* bound: crashes and failed Redis calls

ASSUME ConstantsAssumption ==
    /\ {MaxRetries, MaxActive, MaxQueued, Burst, MaxFaults} \subseteq Nat
    /\ Sched \cap Request = {}

ASSUME FiniteAssumption == IsFiniteSet(Sched)

Proc == Sched \cup Request

VARIABLES
    status, retries,    \* the job's key: status ("gone" once expired) and retry_count
    queue, retryQueue,  \* generation_queue and retry_queue
    lock,               \* jobs whose lock key exists
    count,              \* abuse:queued and abuse:active of the user
    deadLetter,         \* jobs in dead_letter_queue
    pc, hold,           \* each process: where it is, the job it has
    due, done,          \* each scheduler: due retries it has read, jobs processed this pass
    tried,              \* retry_count in the copy a scheduler has loaded
    faults,
    begun, lost,        \* history: times a job was begun; jobs dropped by a fault
    missed, unsaved,    \* history: increments of 'active' that failed; jobs whose key a fault
                        \* left at odds with the worker that has them
    robbed, early       \* history: jobs whose lock was deleted under the worker about to begin
                        \* them; retries removed before the worker that added them let go

keyVars == <<status, retries>>
locVars == <<pc, hold, due, done, tried>>
oddVars == <<robbed, early>>
histVars == <<faults, begun, lost, missed, unsaved, oddVars>>
vars == <<keyVars, queue, retryQueue, lock, count, deadLetter, locVars, histVars>>

Status   == {"none", "queued", "processing", "completed", "failed", "dead", "gone"}
Started  == {"take", "untake", "count", "work", "finish"}
Counted  == {"work", "finish", "requeue", "leave", "uncount"}   \* holds a slot of 'active'
ReqPc    == {"save", "enqueue", "record"}
SchedPc  == {"move", "push", "pop", "lock", "load", "start", "unlock"} \cup Started \cup Counted

TypeOK ==
    /\ status \in [Job -> Status] /\ retries \in [Job -> Nat]
    /\ queue \in Seq(Job) /\ retryQueue \subseteq Job /\ lock \subseteq Job
    /\ count \in [{"queued", "active"} -> Int]
    /\ deadLetter \subseteq Job
    /\ pc \in [Proc -> {"idle"} \cup ReqPc \cup SchedPc]
    /\ hold \in [Proc -> SUBSET Job]
    /\ due \in [Sched -> SUBSET Job] /\ done \in [Sched -> Nat]
    /\ tried \in [Sched -> Nat]
    /\ faults \in Nat
    /\ begun \in [Job -> Nat] /\ lost \subseteq Job /\ missed \in Nat /\ unsaved \subseteq Job
    /\ robbed \subseteq Job /\ early \subseteq Job

Init ==
    /\ status = [j \in Job |-> "none"] /\ retries = [j \in Job |-> 0]
    /\ queue = <<>> /\ retryQueue = {} /\ lock = {}
    /\ count = [c \in {"queued", "active"} |-> 0]
    /\ deadLetter = {}
    /\ pc = [p \in Proc |-> "idle"] /\ hold = [p \in Proc |-> {}]
    /\ due = [s \in Sched |-> {}] /\ done = [s \in Sched |-> 0]
    /\ tried = [s \in Sched |-> 0]
    /\ faults = 0
    /\ begun = [j \in Job |-> 0] /\ lost = {} /\ missed = 0 /\ unsaved = {}
    /\ robbed = {} /\ early = {}

At(p, label)   == pc[p] = label
Move(p, label) == pc' = [pc EXCEPT ![p] = label]
Has(p, j)      == hold[p] = {j}
Goto(p, label) == Move(p, label) /\ UNCHANGED <<hold, due, done, tried>>
Add(c, n)      == count' = [count EXCEPT ![c] = @ + n]

\* GenerationJob.save
Save(j, st, n) ==
    /\ status' = [status EXCEPT ![j] = st]
    /\ retries' = [retries EXCEPT ![j] = n]

-----------------------------------------------------------------------------
(* queue_brief_generation                                                  *)

\* check_user_concurrency lets the user through.
Admit(r) ==
    /\ At(r, "idle")
    /\ count["active"] < MaxActive /\ count["queued"] < MaxQueued
    /\ Goto(r, "save")
    /\ UNCHANGED <<keyVars, queue, retryQueue, lock, count, deadLetter, histVars>>

SaveNew(r) ==
    /\ At(r, "save")
    /\ \E j \in Job :
          /\ status[j] = "none" /\ Save(j, "queued", 0)
          /\ hold' = [hold EXCEPT ![r] = {j}]
    /\ Move(r, "enqueue")
    /\ UNCHANGED <<queue, retryQueue, lock, count, deadLetter, due, done, tried, histVars>>

Push(j) == queue' = Append(queue, j)

Enqueue(r) ==
    /\ At(r, "enqueue")
    /\ \E j \in Job : Has(r, j) /\ Push(j)
    /\ Move(r, "record") /\ hold' = [hold EXCEPT ![r] = {}]
    /\ UNCHANGED <<keyVars, retryQueue, lock, count, deadLetter, due, done, tried, histVars>>

\* increment_user_jobs, after the push.
RecordQueued(r) ==
    /\ At(r, "record")
    /\ Add("queued", 1)
    /\ Goto(r, "idle")
    /\ UNCHANGED <<keyVars, queue, retryQueue, lock, deadLetter, histVars>>

RequestStep(r) == SaveNew(r) \/ Enqueue(r) \/ RecordQueued(r)

-----------------------------------------------------------------------------
(* process_pending_jobs: the retry queue first, then up to Burst jobs      *)

\* A retry waits for 30 s at least, longer than the steps after its zadd take.
MayBeDue == {j \in retryQueue : \A s \in Sched :
                Has(s, j) => pc[s] \notin {"leave", "uncount", "unlock"}}

\* zrangebyscore: some of the retries are due.
ReadDue(s) ==
    /\ At(s, "idle")
    /\ \E D \in SUBSET MayBeDue :
          /\ due' = [due EXCEPT ![s] = D]
          /\ Move(s, IF D = {} THEN "pop" ELSE "move")
    /\ UNCHANGED <<keyVars, queue, retryQueue, lock, count, deadLetter, hold, done, tried, histVars>>

\* zrem; whether the job was still there is not looked at.
RemoveDue(s) ==
    /\ At(s, "move")
    /\ \E j \in due[s] :
          /\ retryQueue' = retryQueue \ {j}
          /\ due' = [due EXCEPT ![s] = @ \ {j}] /\ hold' = [hold EXCEPT ![s] = {j}]
          /\ early' = IF j \in retryQueue \ MayBeDue THEN early \cup {j} ELSE early
    /\ Move(s, "push")
    /\ UNCHANGED <<keyVars, queue, lock, count, deadLetter, done, tried, faults, begun, lost,
                   missed, unsaved, robbed>>

PushDue(s) ==
    /\ At(s, "push")
    /\ \E j \in Job : Has(s, j) /\ Push(j)
    /\ Move(s, IF due[s] = {} THEN "pop" ELSE "move")
    /\ hold' = [hold EXCEPT ![s] = {}]
    /\ UNCHANGED <<keyVars, retryQueue, lock, count, deadLetter, due, done, tried, histVars>>

Pop(s) ==
    /\ At(s, "pop")
    /\ queue # <<>> /\ done[s] < Burst
    /\ queue' = Tail(queue)
    /\ hold' = [hold EXCEPT ![s] = {Head(queue)}]
    /\ done' = [done EXCEPT ![s] = @ + 1]
    /\ Move(s, "lock")
    /\ UNCHANGED <<keyVars, retryQueue, lock, count, deadLetter, due, tried, histVars>>

EndPass(s) ==
    /\ At(s, "pop")
    /\ queue = <<>> \/ done[s] >= Burst
    /\ Move(s, "idle") /\ done' = [done EXCEPT ![s] = 0]
    /\ UNCHANGED <<keyVars, queue, retryQueue, lock, count, deadLetter, hold, due, tried, histVars>>

-----------------------------------------------------------------------------
(* process_generation_job                                                  *)

\* The job is left; the next one is popped.
LetGo(s) ==
    /\ Move(s, "pop")
    /\ hold' = [hold EXCEPT ![s] = {}] /\ tried' = [tried EXCEPT ![s] = 0]
    /\ UNCHANGED <<due, done>>

\* SETNX and EXPIRE of the lock.
TakeLock(s) ==
    /\ At(s, "lock")
    /\ \E j \in Job \ lock : Has(s, j) /\ lock' = lock \cup {j}
    /\ Goto(s, "load")
    /\ UNCHANGED <<keyVars, queue, retryQueue, count, deadLetter, histVars>>

\* Claimed by another worker: the popped entry is dropped.
LockTaken(s) ==
    /\ At(s, "lock")
    /\ hold[s] \subseteq lock
    /\ LetGo(s)
    /\ UNCHANGED <<keyVars, queue, retryQueue, lock, count, deadLetter, histVars>>

LoadDirty(s) ==            \* mutant: the early return leaves through the active counter
    /\ At(s, "load")
    /\ \E j \in Job :
          /\ Has(s, j)
          /\ tried' = [tried EXCEPT ![s] = retries[j]]
          /\ Move(s, IF status[j] = "queued" THEN "start" ELSE "leave")
    /\ UNCHANGED <<keyVars, queue, retryQueue, lock, count, deadLetter, hold, due, done, histVars>>

LoadAny(s) ==              \* mutant: the status is not checked
    /\ At(s, "load")
    /\ \E j \in Job :
          /\ Has(s, j)
          /\ tried' = [tried EXCEPT ![s] = retries[j]]
          /\ Move(s, IF status[j] # "gone" THEN "start" ELSE "unlock")
    /\ UNCHANGED <<keyVars, queue, retryQueue, lock, count, deadLetter, hold, due, done, histVars>>

\* The job is not found, or is not queued any more: early return.
Load(s) ==
    /\ At(s, "load")
    /\ \E j \in Job :
          /\ Has(s, j)
          /\ tried' = [tried EXCEPT ![s] = retries[j]]
          /\ Move(s, IF status[j] = "queued" THEN "start" ELSE "unlock")
    /\ UNCHANGED <<keyVars, queue, retryQueue, lock, count, deadLetter, hold, due, done, histVars>>

Start(s) ==
    /\ At(s, "start")
    /\ \E j \in Job : /\ Has(s, j) /\ Save(j, "processing", tried[s])
                      /\ begun' = [begun EXCEPT ![j] = @ + 1]
    /\ Goto(s, "take")
    /\ UNCHANGED <<queue, retryQueue, lock, count, deadLetter, faults, lost, missed, unsaved, oddVars>>

\* decrement_user_jobs reads the counter, then decrements it.
Decrement(s, read, write, next, c) ==
    /\ \/ At(s, read) /\ count[c] > 0 /\ Goto(s, write) /\ UNCHANGED count
       \/ At(s, read) /\ count[c] <= 0 /\ Goto(s, next) /\ UNCHANGED count
       \/ At(s, write) /\ Add(c, -1) /\ Goto(s, next)
    /\ UNCHANGED <<keyVars, queue, retryQueue, lock, deadLetter, histVars>>

TakeQueued(s) == Decrement(s, "take", "untake", "count", "queued")

CountActive(s) ==
    /\ At(s, "count")
    /\ Add("active", 1)
    /\ Goto(s, "work")
    /\ UNCHANGED <<keyVars, queue, retryQueue, lock, deadLetter, histVars>>

\* No briefing, no source or no content: the job fails for good.
FailForGood(s) ==
    /\ At(s, "work")
    /\ \E j \in Job : Has(s, j) /\ Save(j, "failed", tried[s])
    /\ Goto(s, "leave")
    /\ UNCHANGED <<queue, retryQueue, lock, count, deadLetter, histVars>>

\* The generator commits the run.
Generate(s) ==
    /\ At(s, "work")
    /\ Goto(s, "finish")
    /\ UNCHANGED <<keyVars, queue, retryQueue, lock, count, deadLetter, histVars>>

\* The run is made a draft and the job completed.
Complete(s) ==
    /\ At(s, "finish")
    /\ \E j \in Job : Has(s, j) /\ Save(j, "completed", tried[s])
    /\ Goto(s, "leave")
    /\ UNCHANGED <<queue, retryQueue, lock, count, deadLetter, histVars>>

CanRetryOnceMore(n) == n <= MaxRetries      \* mutant: <= for <
CanRetry(n) == n < MaxRetries

RescheduleForgotten(s, j) ==   \* mutant: the retry is not put into the retry queue
    /\ CanRetry(tried[s])
    /\ Save(j, "queued", tried[s] + 1)
    /\ Move(s, "leave") /\ tried' = [tried EXCEPT ![s] = @ + 1]
    /\ UNCHANGED deadLetter

\* schedule_retry, which has a test of its own for the last attempt.
Reschedule(s, j) ==
    IF CanRetry(tried[s])
    THEN /\ Save(j, "queued", tried[s] + 1)
         /\ Move(s, "requeue") /\ tried' = [tried EXCEPT ![s] = @ + 1]
         /\ UNCHANGED deadLetter
    ELSE /\ Save(j, "dead", tried[s])
         /\ deadLetter' = deadLetter \cup {j}
         /\ Move(s, "leave") /\ UNCHANGED tried

\* An exception of the generator, or of the commits after it.
Except(s) ==
    /\ pc[s] \in {"work", "finish"}
    /\ \E j \in Job :
          /\ Has(s, j)
          /\ IF CanRetry(tried[s])
             THEN Reschedule(s, j)
             ELSE /\ Save(j, "dead", tried[s])
                  /\ Move(s, "leave") /\ UNCHANGED <<tried, deadLetter>>
    /\ UNCHANGED <<queue, retryQueue, lock, count, hold, due, done, histVars>>

\* zadd; the delay is not modelled: a retry is due when ReadDue says so.
ScheduleRetry(s) ==
    /\ At(s, "requeue")
    /\ retryQueue' = retryQueue \cup hold[s]
    /\ Goto(s, "leave")
    /\ UNCHANGED <<keyVars, queue, lock, count, deadLetter, histVars>>

LeaveActive(s) == Decrement(s, "leave", "uncount", "unlock", "active")

UnlockNot(s) ==            \* mutant: the lock is left to expire
    /\ At(s, "unlock")
    /\ LetGo(s)
    /\ UNCHANGED <<keyVars, queue, retryQueue, lock, count, deadLetter, histVars>>

\* The lock key is deleted, whoever has set it.
Unlock(s) ==
    /\ At(s, "unlock")
    /\ lock' = lock \ hold[s]
    /\ robbed' = robbed \cup {j \in hold[s] : \E t \in Sched : Has(t, j) /\ pc[t] \in {"load", "start"}}
    /\ LetGo(s)
    /\ UNCHANGED <<keyVars, queue, retryQueue, count, deadLetter, faults, begun, lost, missed, unsaved, early>>

SchedStep(s) ==
    \/ ReadDue(s) \/ RemoveDue(s) \/ PushDue(s) \/ Pop(s) \/ EndPass(s)
    \/ TakeLock(s) \/ LockTaken(s) \/ Load(s) \/ Start(s) \/ TakeQueued(s) \/ CountActive(s)
    \/ FailForGood(s) \/ Generate(s) \/ Complete(s) \/ Except(s) \/ ScheduleRetry(s)
    \/ LeaveActive(s) \/ Unlock(s)

-----------------------------------------------------------------------------
(* Failures and the passage of time                                        *)

NewFault == faults < MaxFaults /\ faults' = faults + 1
Lose(p)  == lost' = lost \cup hold[p]

\* A worker is recycled or killed with whatever it holds.
Crash(p) ==
    /\ ~At(p, "idle") /\ NewFault
    /\ Lose(p)
    /\ Move(p, "idle") /\ hold' = [hold EXCEPT ![p] = {}]
    /\ IF p \in Sched
       THEN /\ due' = [due EXCEPT ![p] = {}] /\ done' = [done EXCEPT ![p] = 0]
            /\ tried' = [tried EXCEPT ![p] = 0]
       ELSE UNCHANGED <<due, done, tried>>
    /\ UNCHANGED <<keyVars, queue, retryQueue, lock, count, deadLetter, begun, missed, unsaved, oddVars>>

\* The push of a request fails: the job stays saved, and no one knows its id.
EnqueueFails(r) ==
    /\ At(r, "enqueue") /\ NewFault
    /\ Lose(r)
    /\ Move(r, "idle") /\ hold' = [hold EXCEPT ![r] = {}]
    /\ UNCHANGED <<keyVars, queue, retryQueue, lock, count, deadLetter, due, done, tried, begun, missed, unsaved, oddVars>>

\* The push of a due retry fails after its zrem.
PushDueFails(s) ==
    /\ At(s, "push") /\ NewFault
    /\ Lose(s)
    /\ Move(s, IF due[s] = {} THEN "pop" ELSE "move")
    /\ hold' = [hold EXCEPT ![s] = {}]
    /\ UNCHANGED <<keyVars, queue, retryQueue, lock, count, deadLetter, due, done, tried, begun, missed, unsaved, oddVars>>

\* The SETNX fails, perhaps after it was carried out: the job is rescheduled
\* whatever its status, and neither lock nor counter is given back.
LockError(s) ==
    /\ At(s, "lock") /\ NewFault
    /\ \E j \in Job :
          /\ Has(s, j) /\ status[j] # "gone"
          /\ IF CanRetry(retries[j])
             THEN Save(j, "queued", retries[j] + 1) /\ retryQueue' = retryQueue \cup {j}
             ELSE Save(j, "dead", retries[j]) /\ UNCHANGED retryQueue
          /\ lock' \in {lock, lock \cup {j}}
          /\ unsaved' = IF status[j] = "queued" THEN unsaved ELSE unsaved \cup {j}
    /\ lost' = IF lock' = lock THEN lost ELSE lost \cup hold[s]
    /\ LetGo(s)
    /\ UNCHANGED <<queue, count, deadLetter, begun, missed, oddVars>>

\* The GET of the job fails, which counts as not found.
LoadFails(s) ==
    /\ At(s, "load") /\ NewFault
    /\ Lose(s)
    /\ Goto(s, "unlock")
    /\ UNCHANGED <<keyVars, queue, retryQueue, lock, count, deadLetter, begun, missed, unsaved, oddVars>>

\* The zadd of a retry fails: it is only logged.
RetryFails(s) ==
    /\ At(s, "requeue") /\ NewFault
    /\ Lose(s)
    /\ Goto(s, "leave")
    /\ UNCHANGED <<keyVars, queue, retryQueue, lock, count, deadLetter, begun, missed, unsaved, oddVars>>

\* The save of a status fails: it is only logged, the key stays as it is and
\* the worker goes on.
SaveFails(s) ==
    /\ NewFault
    /\ \/ At(s, "start") /\ Goto(s, "take")
          /\ begun' = [j \in Job |-> IF Has(s, j) THEN begun[j] + 1 ELSE begun[j]]
          /\ unsaved' = unsaved \cup hold[s]
       \/ pc[s] \in {"work", "finish"} /\ Goto(s, "leave") /\ UNCHANGED <<begun, unsaved>>
       \/ /\ pc[s] \in {"work", "finish"} /\ CanRetry(tried[s])
          /\ Move(s, "requeue") /\ tried' = [tried EXCEPT ![s] = @ + 1]
          /\ UNCHANGED <<hold, due, done, begun, unsaved>>
    /\ Lose(s)
    /\ UNCHANGED <<keyVars, queue, retryQueue, lock, count, deadLetter, missed, oddVars>>

\* A call on a counter fails: it is only logged, and a check that fails lets the
\* user through.
CounterFails(p) ==
    /\ NewFault
    /\ \/ p \in Request /\ At(p, "idle") /\ Goto(p, "save") /\ UNCHANGED missed
       \/ At(p, "record") /\ Goto(p, "idle") /\ UNCHANGED missed
       \/ pc[p] \in {"take", "untake"} /\ Goto(p, "count") /\ UNCHANGED missed
       \/ At(p, "count") /\ Goto(p, "work") /\ missed' = missed + 1
       \/ pc[p] \in {"leave", "uncount"} /\ Goto(p, "unlock") /\ UNCHANGED missed
    /\ UNCHANGED <<keyVars, queue, retryQueue, lock, count, deadLetter, begun, lost, unsaved, oddVars>>

\* The rpop fails: the pass ends as if the list were empty.
PopFails(s) ==
    /\ At(s, "pop") /\ NewFault
    /\ Move(s, "idle") /\ done' = [done EXCEPT ![s] = 0]
    /\ UNCHANGED <<keyVars, queue, retryQueue, lock, count, deadLetter, hold, due, tried, begun, lost, missed, unsaved, oddVars>>

\* The delete of the lock fails: it stays until it expires.
UnlockFails(s) ==
    /\ At(s, "unlock") /\ NewFault
    /\ Lose(s)
    /\ LetGo(s)
    /\ UNCHANGED <<keyVars, queue, retryQueue, lock, count, deadLetter, begun, missed, unsaved, oddVars>>

\* The lock key expires after 300 s: an orphan's, or that of a generation that
\* takes longer.  The few calls from SETNX to the status "processing" take less.
LockExpires(j) ==
    /\ j \in lock
    /\ \A s \in Sched : Has(s, j) => pc[s] \notin {"load", "start"}
    /\ lock' = lock \ {j}
    /\ UNCHANGED <<keyVars, queue, retryQueue, count, deadLetter, locVars, histVars>>

\* Nothing is written for an hour: the keys of jobs, locks and counters expire,
\* the lists stay.
HourPasses ==
    /\ \A p \in Proc : At(p, "idle")
    /\ status' = [j \in Job |-> IF status[j] = "none" THEN "none" ELSE "gone"]
    /\ retries' = [j \in Job |-> 0]
    /\ lock' = {} /\ count' = [c \in DOMAIN count |-> 0]
    /\ UNCHANGED <<queue, retryQueue, deadLetter, locVars, histVars>>

Fault(p) ==
    \/ Crash(p) \/ CounterFails(p)
    \/ p \in Request /\ EnqueueFails(p)
    \/ p \in Sched /\ (PushDueFails(p) \/ PopFails(p) \/ LockError(p) \/ LoadFails(p))
    \/ p \in Sched /\ (SaveFails(p) \/ RetryFails(p) \/ UnlockFails(p))

Next ==
    \/ \E r \in Request : Admit(r) \/ RequestStep(r)
    \/ \E s \in Sched : SchedStep(s)
    \/ \E p \in Proc : Fault(p)
    \/ \E j \in Job : LockExpires(j)
    \/ HourPasses

Spec == Init /\ [][Next]_vars

\* The job is rescheduled every 10 s, a request goes on to its end, and every
\* retry becomes due.
Fairness ==
    /\ \A s \in Sched : WF_vars(SchedStep(s)) /\ SF_vars(ReadDue(s) /\ due'[s] = retryQueue)
    /\ \A r \in Request : WF_vars(RequestStep(r))

FairSpec == Spec /\ Fairness

-----------------------------------------------------------------------------
(* Properties                                                              *)

Working == {s \in Sched : pc[s] \in Started}

\* A job is processed by one scheduler at a time, although retries are moved twice
\* and the lock expires, but for jobs whose status a fault left wrong, or whose lock
\* the scheduler before deleted after it had let the job go (Unlock).
OneProcessorPerJob ==
    \A s, t \in Working : s # t => hold[s] \cap hold[t] \subseteq unsaved \cup robbed

\* A job is begun at most once more than it may be retried, with the same exceptions.
BegunBounded == \A j \in Job \ (unsaved \cup robbed) : begun[j] <= MaxRetries + 1

\* A queued job can be found by someone: it is in one of the queues or in the
\* hands of a process, unless a fault dropped it, or another scheduler moved the
\* retry while the one that added it still held the lock (it then meets the lock
\* and is dropped).
QueuedIsSomewhere ==
    \A j \in Job : status[j] = "queued" =>
        \/ \E i \in DOMAIN queue : queue[i] = j
        \/ j \in retryQueue \cup lost \cup early
        \/ \E p \in Proc : Has(p, j)

\* The user's active counter is never below the number of her jobs being
\* processed, but for increments that failed: whatever leaks, and whoever
\* decrements what others counted, the limit on concurrent jobs is kept.
ActiveCoversWorking ==
    count["active"] + missed >= Cardinality({s \in Sched : pc[s] \in Counted})

\* A job is begun by one scheduler at a time and not after it was completed or has
\* expired; attempts whose two saves both fail come free of charge.
Tries == INSTANCE ExclusiveRetry WITH
    MaxTries <- MaxRetries + 1 + MaxFaults \div 2, tries <- begun,
    busy <- UNION {hold[s] : s \in Working},
    done <- {j \in Job : status[j] \in {"completed", "gone"}}

ImplementsExclusiveRetry == Tries!Spec

\* Every job is decided in the end: completed, failed or dead, unless a fault
\* dropped it.
JobDecided ==
    \A j \in Job : (status[j] \in {"queued", "processing"}) ~>
                       (status[j] \notin {"queued", "processing"} \/ j \in lost)

=============================================================================
