# Society Speaks: specifications of the parts that run concurrently

Society Speaks is a Flask application (`src/app`, about 96 000 lines of Python)
over PostgreSQL and Redis. Most of it serves pages. What is hard to test is the
work done behind the pages by several processes at once: sending paid briefings,
generating them, the job queues, webhooks, social posts, votes. This directory
models those parts in TLA+, checks them with TLC and proves the main results with
TLAPS.

1. [The system](#1-the-system)
2. [Modules](#2-modules)
3. [Briefing delivery](#3-briefing-delivery)
4. [Consensus and export job queues](#4-consensus-and-export-job-queues)
5. [Briefing generation queue](#5-briefing-generation-queue)
6. [Votes](#6-votes)
7. [Scheduler leader lock](#7-scheduler-leader-lock)
8. [Generation of runs](#8-generation-of-runs)
9. [Stripe webhook](#9-stripe-webhook)
10. [Partner webhooks](#10-partner-webhooks)
11. [Social posting](#11-social-posting)
12. [Runs](#12-runs)
13. [What is proved](#13-what-is-proved)
14. [What is not modelled, and why](#14-what-is-not-modelled-and-why)
15. [Where the code and its documentation disagree](#15-where-the-code-and-its-documentation-disagree)

## 1. The system

**Processes.** Gunicorn runs four gevent workers (`gunicorn_config.py`), each
recycled after about 1000 requests, so a process may die at any line. Each container
also has a process for APScheduler (`scripts/run_scheduler.py`), restarted when it ends;
the one that holds a Redis lock (`app/__init__.py`) runs the jobs. Another
process, `scripts/run_consensus_worker.py`, works off the consensus and
export queues; it may run several times over.

**Shared state.** PostgreSQL under READ COMMITTED, accessed through SQLAlchemy
sessions (a `commit` is one atomic step, attributes read before it may be stale
after it), and Redis, where each call is atomic and several calls are not.

| component | state | operations | hard behaviour | what makes it correct |
|---|---|---|---|---|
| Paid-briefing delivery (`briefing/email_client.py`, `scheduler.py`) | `brief_run` row: status, sent_at, claimed_at, attempts, emails_sent; `brief_email_send`: one row per recipient | claim a run, list recipients, claim one, call the provider, record, mark sent; the job's phases (expire, clear, exhaust, recover, give up, clean) | several senders of one run, a crash between the provider's answer and its record, claims given up by age | one sender per recipient; bounded calls; duplicates only after a lost record; every run resolves |
| Briefing run generation (`scheduler.py`, `briefing/generator.py`) | `brief_run`, `next_scheduled_at` | generate under an advisory lock, with an existing-run check and a unique constraint | two instances, a crash between the run and the next date | one run per edition, no edition skipped |
| Briefing management (`briefing/routes.py`) | the same rows | edit, approve, skip, send, test run, change recipients | a user acts on a run that is being sent | the user's decision is kept |
| Briefing generation queue (`briefing/jobs.py`, `billing/abuse_guardrails.py`) | Redis: list, retry set, a key and a lock per job, counters per user | queue, pop, lock, process, retry, expire | crash between two calls, expiring keys, counters moved out of step | no job processed twice at once, bounded attempts, no job lost without a fault |
| Scheduler leader lock (`app/__init__.py`) | a Redis key with a 120 s TTL | acquire, heartbeat, re-acquire, shut down, release | a heartbeat that stalls, a lock that expires under its holder | one scheduler, and one in the end |
| Consensus and export job queues (`discussions/jobs.py`, `programmes/export_jobs.py`) | `consensus_job`, `programme_export_job` rows | enqueue with dedupe, claim (`FOR UPDATE SKIP LOCKED`), save the result, complete, fail, mark stale | check-then-insert, a sweep racing a late completion | one worker and one result per job, bounded attempts, no job stuck |
| Votes (`discussions/statements.py`) | votes and denormalised counters | vote, change a vote, anonymous merge, repair | counters moved by differences | counters equal the votes |
| Billing and Stripe webhooks (`billing/routes.py`) | subscriptions, idempotency keys in Redis | webhook events, reconciliation | redelivery during processing, reordering | every event applied once, in the end the state Stripe has |
| Partner webhooks (`partner/webhooks.py`) | outbox of deliveries | enqueue, deliver, retry | two schedulers, retries, crashes | at-least-once, bounded attempts |
| Social posting (`trending/social_poster.py`) | claim columns per post and network | claim, post, record, recover | crash after the post, daily limits | no double post but after a lost record |
| Daily and weekly newsletter (`brief/email_client.py`) | a marker per subscriber | send to all | crash, two instances | one mail per subscriber and issue |
| Mail client (`resend_client.py`) | none | one call, up to three HTTP tries of 30 s | lost answers | the age of a claim exceeds the length of a call |

Components touch each other through rows. Generation leaves a run `approved` or
`awaiting_approval`; delivery takes it from there. The scheduler lock decides how
many processes run every scheduled job; no job relies on it alone, and the models
take "two schedulers" as a case. `PROJECT.json` lists every component, also the ones
that are left out, and the hazards at their lines.

## 2. Modules

| module | models | abstract specification | proofs |
|---|---|---|---|
| `BriefDelivery` | sending of one edition | `DeliveryLedger` | `BriefDeliveryProofs` |
| `JobQueue` | the two database queues | `ExclusiveRetry` | `JobsAndRunsProofs` |
| `GenerationQueue` | the Redis queue | `ExclusiveRetry` | `GenerationQueueProofs` |
| `VotePersistence` | votes on one statement and its counters | | `VotePersistenceProofs` |
| `SchedulerLock` | which process runs the scheduler | | `SchedulerLockProofs` |
| `RunGeneration` | the scheduled runs of one briefing | | `JobsAndRunsProofs` |
| `StripeWebhook` | one subscription between Stripe and the database | | `StripeWebhookProofs` |
| `PartnerWebhooks` | the outbox of one endpoint | | `PartnerWebhooksProofs` |
| `SocialPosting` | scheduled posts to Bluesky and X | | `SocialPostingProofs` |

Each has a module `MC...` with the model values of its instances. They are separate
specifications of separate tables and keys. They meet in three places: `RunGeneration`
ends where `BriefDelivery` begins (a run that is committed); the number of schedulers
which `BriefDelivery`, `GenerationQueue`, `RunGeneration` and `SocialPosting` are given is
two because `SchedulerLock` shows that two can run for a while, and none of them
takes the leader lock for granted; and the clean-ups of `BriefDelivery` are phases of a job
that all of those schedulers run.

No module that is proved about uses a RECURSIVE operator; constants carry named
assumptions as weak as the code allows; a bound on faults, requests or time is a guard,
named in the CONSTANTS.

What could follow: the newsletter (`brief/email_client.py`), whose marker per subscriber
is a simpler `BriefDelivery` without a claim; edits of a briefing's zone and weekday in
`RunGeneration`, for which the lemmas about periods in `JobsAndRunsProofs` are a start.

## 3. Briefing delivery

`BriefDelivery.tla` models one edition (a `BriefRun`) and everyone who works on it.

**State.** `status`, `sentAt`, `claimedAt`, `attempts`, `emails` are columns of
`brief_run`; `row[r]` is the recipient's `brief_email_send` row (status, claim time,
`attempt_count`); `active` says which `brief_recipient` rows are active. For each
process, `pc`, `todo`, `hold`, `any`, `at` and `seen` are the local variables of the
handler it is in: the list of recipients still to do, the one claimed, whether one
succeeded, when `Prepare` ran, the status a request has loaded. For each scheduler
`phase` and `start` are the job's progress and its `now`. `calls`, `copies`, `lost`
and `missed` are history that no action reads.

**Actions.** Every action is one transaction or one call to the provider.

| action | code |
|---|---|
| `ClaimRun`, `LoseRun` | `_claim_brief_run_for_sending` |
| `Subscribed`, `NotSubscribed` | the subscription check of `send_brief_run_emails`; its outcome is free |
| `Prepare` (`FailStale`, `GiveUp`, `Reopen`) | the three bulk UPDATEs at the start of `send_brief_run_to_all_recipients`, one commit |
| `List`, `Count` | the handled rows and the recipients, `recipient_count` |
| `ClaimRecipient`, `Deliver`, `RecordSent`, `RecordFailed` | `_claim_recipient_for_send`, `send_brief_run`, `_mark_recipient_sent`, `_mark_recipient_failed` |
| `EndLoop`, `MarkRunSent` | the end of the send, `_mark_brief_run_sent` |
| `JobStart` ... `CleanClaims` | the phases of `send_approved_brief_runs_job`, each with its own commit |
| `LoadForEdit`, `Approve`, `Skip`, `SendRun`, `Redraft` | `edit_run`, `send_run`, `test_generate`; a request loads the run and writes later |
| `Crash`, `Abort`, `MissRecipient`, `LoseRecord`, `DbError`, `PhaseFails` | a worker dies; an exception at each place where the code catches one, with what the handler there does |
| `Tick` | time; `CallsAreShort` says that a call (3 x 30 s at most) ends within the 15 minutes after which its claim is given up |

**Abstractions.** One call to the provider counts once even when its inner HTTP
retries deliver several copies. "refused" also covers a refusal before the call (rate
limit, missing key), so `calls` is an upper bound. `Early` are the recipients that
exist when the run is scheduled; the others are only mailed by the checks the code
makes on `created_at`. Recipients are not deleted. There is one clock, although
`claimed_at` is written by the database. The ORM writes a status only if it differs
from the loaded one, which `seen` models. Cadences are daily and weekly, through
`Expiry`. `_send_batch_to_recipients` has no caller.

**Abstract specification.** `DeliveryLedger`: per recipient a case, open, delivered or
abandoned; tries while open and below a maximum; delivered only after a try; closed for
good. `ImplementsLedger` maps the case from the row and the tries from `calls`, with
`MaxSends <- MaxSendAttempts - 1`, which is what the code does.

**Fairness** (`FairSpec`). APScheduler restarts the job for ever (WF of `JobStep`); a
send or a request that is not killed goes on (WF of `Send` and of the pending request
step); time passes. With `Punctual`, the job also starts in every unit of time and a
request's first steps fit in one: the interval of the job is five minutes, a unit is
fifteen. Liveness uses no fairness on users or on luck: a fault may end any step.

## 4. Consensus and export job queues

`JobQueue.tla` is one protocol, twice in the code. `status`, `attempts`, `queuedAt` are
columns; `overdue` are the jobs past `timeout_seconds`; `results` counts what was saved
for a job; `workerPc` and `hold` are the workers, `found` what a sweep has loaded, `asking` a
request between its dedupe query and its insert.

`LookForActive` and `Insert` are `enqueue_..._job`; `Claim` is the locked SELECT with the
commit of `running`; `NotReady`, `SaveResult`, `Complete`, `Fail` are the branches of
`process_next_..._job`; `Abandon` is a worker that dies, or whose session a database
error has broken (then the handler's own commit fails and the row stays `running`);
`FindStale` and `MarkStale` are the sweep's SELECT and its unconditional UPDATE;
`Overrun` is time. `MayBeUnready` is TRUE for consensus; since an export's behaviours are
among those with `NotReady` never taken, the runs use TRUE for both.

`overtaken` and `excused` are history: they name the two ways in which two jobs of one key can
be active at once, and `DuplicateJobExplained` says that there is no third.

The abstract `ExclusiveRetry` says of each job: one worker at a time, at most `MaxTries`
tries, none after the result. **Fairness**: the workers' loop and the sweep (every 60 s)
run for ever and time passes; nothing is assumed of the requests, and workers may die
any number of times.

## 5. Briefing generation queue

`GenerationQueue.tla`: every action is one Redis call or one database transaction.
`status` and `retries` are the job's key (`gone` once it has expired), `queue` and
`retryQueue` the list and the sorted set, `lock` the lock keys, `count` the user's two
counters, `pc`, `hold`, `due`, `done`, `tried` the processes' local variables; `tried` is
the `retry_count` in the copy a worker has loaded, which a failed save makes differ from
the key's.

A request is `Admit`, `SaveNew`, `Enqueue`, `RecordQueued`; a pass of the scheduler's job
is `ReadDue`, (`RemoveDue`, `PushDue`)*, then up to `Burst` times `Pop` and
`process_generation_job`: `TakeLock` or `LockTaken`, `Load`, `Start`, `TakeQueued`,
`CountActive`, `FailForGood` / `Generate` / `Complete` / `Except`, `ScheduleRetry`,
`LeaveActive`, `Unlock`. Each place where the code catches the failure of a call has an
action: `EnqueueFails`, `PushDueFails`, `PopFails`, `LockError`, `LoadFails`,
`SaveFails`, `RetryFails`, `CounterFails`, `UnlockFails`; and `Crash` ends a process
anywhere. Time is `LockExpires` and `HourPasses`, and the choice of the due retries
(`MayBeDue`: a retry waits 30 s at least, which is longer than the calls after its zadd).

`lost`, `missed`, `unsaved`, `robbed` and `early` are history, and the properties are stated
up to them:

* `lost`, `missed`, `unsaved`: jobs a fault dropped, increments that failed, jobs whose key a
  fault left wrong.
* `robbed`: a worker that is done deletes the lock by its name, whoever holds it. If the lock
  has lapsed and been taken again, that is the next worker's; while this one has not yet
  set the status to `processing`, a third can come in. It takes two schedulers and
  two retries.
* `early`: a scheduler that stalls with its list of due retries can remove a later retry of
  the same job as soon as it is added, before its delay has passed; the job then meets the
  lock of the worker that added it and is dropped.

One scheduler never does either (`NothingOddAlone`).

Merged: SETNX and EXPIRE. `Start` writes `processing` once; the second save, a moment later and with
the same status (`briefing/jobs.py:435`), is left out, since a failure of it is only logged. Left
out: rate and token limits, `MAX_QUEUE_SIZE`, the
in-memory fallback that deployments refuse, `retry_dead_letter_job` (no caller).

**Fairness**: APScheduler runs the job every 10 s (WF of its steps), a request goes on,
and a retry that waits becomes due (SF of `ReadDue` with all retries: the scheduler is
idle again and again, and the delay ends).

## 6. Votes

`VotePersistence.tla` models one statement: the rows of `statement_vote` and the three
denormalised counters, which three kinds of request and a job write.

**State.** A row is named by the request that inserts it; `holder[r]` is whose it is (an
account or a browser's fingerprint, or nobody), `vote[r]` its vote. `count` are the
counters. `pc[q]` and `ask[q]` say where a request is and what it has read: the row, its
vote, the counters as loaded. `rec` and `tallied` are the reconciliation.

**Actions.** A request is its reads and its commit; the UPDATEs of the statement lock its
row until the commit, so they take effect there.

| action | code |
|---|---|
| `VoteBegin`, `VoteCommit` | `_persist_statement_vote`: `pg_advisory_xact_lock` of the identity, the old vote read, upsert, SQL deltas (`Moved`), commit |
| `TrackCommit`, `TrackFails` | participant and event are recorded in a second commit, which flushes the counters set on the ORM object as absolute values |
| `DailyBegin`, `DailyCommit` | `sync_vote_to_statement`: no advisory lock, the counters written by the ORM as computed from those loaded (`Flush`) |
| `MergeBegin`, `MergeCommit` (`DropRow`, `MoveRow`) | the merge of a browser's votes into the account that logs in |
| `Abort` | a unique index, a row that is gone, a lost connection |
| `FindDrift`, `ReadTally`, `Repair`, `RepairFails` | `reconcile_statement_vote_counters`: the UPDATE reads the rows and may then wait for the statement's lock |

`raced` (requests overtaken by a commit since they read) and `blind` (a counter was
written by such a request) are history: `CountsExact` says that the counters are exact
unless that happened. The absolute writes do happen in the code, so without `blind` the
property is false; `Converges` says that the reconciliation ends the drift.

**Fairness**: requests end and the reconciliation, which runs every ten minutes, does not
fail for ever (SF of `ReadTally` and `Repair`, since a failure may come between).

## 7. Scheduler leader lock

`SchedulerLock.tla`: each container has one scheduler process, whose supervisor thread
takes `scheduler_lock` (SET NX EX), runs the jobs and renews the key. `key` and `ttl` are
the key, `pc[p]` the supervisor (`off`, `rest`, `acquire`, `run`, `reacquire`, `drain`),
`wait[p]` the time until it acts next, `tries` and `fails` its counters, `jobs[p]` whether
the module-level scheduler object has its jobs.

`Start`, `Enter`, `Acquire`, `Fruitless`, `StartFails` are a cycle up to the lock;
`Renew`, `BeatFails`, `Lost` the heartbeat; `Exit`, `Drained`, `Crash` the end of the
process; `Tick` is time. A process acts when its sleep is over and at most as much later as
its calls last (`Calls`), each of them `Call` with the client's own retries: an attempt is
ping, SET, GET and TTL; a heartbeat is the script, and the setex of the shared heartbeat that
followed the last one. The sleep between attempts is `Retry` with up to `Jitter`. A call
that fails may have been executed (`Take` in `Fruitless` and `BeatFails`). `Exit` releases
the key while jobs may still be running (`drain`): `run_scheduler.py` imported the
scheduler object before the first cycle, when it was None, so it is not shut down first.

The value of the key is the process id. A successor of a dead process is taken to have
another one (`Orphan`); with the same id, as after a restart of a container, it would find
its own key and treat it as another's just the same. `faults` counts lost keys, stalled
ticks and processes that end before they take a free key.

**Outages.** Heartbeats that fail need no fault: Redis may be away for as long as it likes.
The code's constants do not keep the key alive through them. A heartbeat takes up to
20 + 21 s, and five failures are allowed: 205 s and more against a key of 120 s. So an outage
that hides Redis from one process can let another take the key while the first still
runs its jobs. `OneScheduler` says exactly when: two run only if the heartbeats of one have
failed for as long as its key lives (`Outlived`; with the code's constants one failure is
enough, 2 x 41 + 42 = 124 s). Two whose last heartbeats came through are never there at once.
`StraysBounded` says for how long: `astray[p]` counts the ticks for which `p` runs without the
key, and never exceeds `Grace` (with the code's constants 512 s: the failing heartbeats, then
three attempts to take the key again) and the ticks of a stall.

**Fairness**: WF of `Tick` and of every process's steps; SF of `Acquire` (Redis answers now
and then) and of `Exit` (`run_scheduler.py` ends after 30 minutes, and at most five more
for jobs that are running, and is started again).

## 8. Generation of runs

`RunGeneration.tla`: `process_briefing_runs_job` on several instances, for one briefing.
`lock` is the advisory lock, on a connection of its own; `plan[i]` what a pass has loaded
and chosen. A pass is `Lock`, `Check` (the query for a run of the period, and the catch-up
of daily briefings), `Choose` (the clock is read again for the next preferred hour),
`Generate` and `Commit` (the query of `generate_brief_run` and the unique constraint),
`Finish` (`pg_advisory_unlock`). `LoseLock`, `Nothing` and `Crash` are what fails.
`HandBegin`/`HandEnd` is a run by hand, which takes no lock; `Edit` changes the hour.

Time is hours of UTC. The clocks of the briefing's zone are put forward, back or left alone
in hour `ShiftAt`; `PeriodStart`, `Target`, `Passed` and `NextScheduled` are the arithmetic
of `timezone_utils.py`, including midnight taken with the offset of the moment. The model
begins before the change (`ShiftAt` is at least 1).

Runs by hand have the hour 0 and a time with microseconds, which collides with no other.
The day of the week and the zone are not edited. `lost`, `served` and `late` are history:
which periods a pass found or gave a run, which ones it left out because their hour went
by between two readings of the clock. `InOrder` says that no day or week is given a run after
a later one has its own; `OnePerPeriod` and `ServedHasRun` name their exceptions: an edit
together with a lost lock or clocks put back; a period in which clocks are put forward
(`Misread`); and, with a lost lock, a run that such clocks moved to the next day because they
leave out the last hour of one (`Displaced`; 23:00 becomes midnight in a few zones, such as
America/Nuuk). One more oddity the model shows without breaking a property: a run of hour 0 on
a day when clocks go back lies before the midnight the query computes, so each later pass
repeats the work until the query for the exact time returns the row.

`config.py` directs Neon's URLs to its pooler, PgBouncer in transaction mode. The lock is taken inside a
transaction that stays open until it is released, which pins the connection, so the
session-level lock is sound there too.

**Fairness**: every instance's pass is carried on; nothing is assumed of time or users.

## 9. Stripe webhook

`StripeWebhook.tla`: one user's subscription. `remote`, `change`, `sent` and `acked` are
Stripe: its status, and which events it has sent and had answered with 200. `processing`
(with `lasting`: claims whose EXPIRE failed) and `processed` are the two Redis keys of an
event; `sub` and `brief` the rows; `req[w]` a request, `sweep` the reconciliation, `visit` the
return from the checkout.

Stripe changes a status (`PaymentFails`, `Recovers`, `Pauses`, `Resumes`, `Cancels`), each
time with one or two events, and sends every event until it is answered, in any order and
at once. A request is `Deliver` (not marked), `Claim` or `Dismiss`, then the handler of its
kind: `Load` and `Fetch` in the order the handler has them, `Write`, `SetBriefings` (a commit
of its own), and `Finish`, or `Refuse` with 500. `Duplicate`, `FailOpen`, `FetchFails`,
`PlanUnknown`, `FinishUnmarked`, `KeyExpires` and `Crash` are the other outcomes.
Merged: the setex and the delete at the end, which nobody can tell apart from one step but
by a crash between them, and that leaves what a claim that has not expired leaves.

The return from the checkout (`checkout_success`, a page that may be reloaded) writes the same
row: `VisitFetch`, `VisitSync`, `VisitFails`. Unlike the handlers it does not reactivate the
briefings.

`handled`, `again`, `givenUp`, `broken`, `excused` and `disorder` are history. An event is
`givenUp` when its handler caught an error, logged it and returned, so the answer is 200
(`PlanUnknown`, `FetchFails`), and `broken` when its handler was broken off (an exception, the
death of the worker) although a delivery of it had been answered, or with its claim left so that
those before its expiry will be. Nothing need repeat such an event. That is the hazard of `already_processing`;
`AckedIsHandled` records the loss by that name, and says that there is no other. An event is
`excused` from being handled once if it was claimed although it had been marked (the delivery
had asked before), if its claim ran out under its handler, or if Redis failed.

`Converges` excepts a row that was never made (`Unrecorded`). A price that no plan has raises a
ValueError in `resolve_plan_from_stripe_subscription` (`billing/service.py:374-382`), which both
handlers of the creation swallow (`billing/routes.py:623`, `:882`), so both events are marked and
answered; the reconciliation sweeps rows only and will never make one.

**Fairness**: Stripe sends again and requests end (WF of `Work`), the reconciliation runs
every day (WF of `Sweep`). Faults are bounded, so both get through.

## 10. Partner webhooks

`PartnerWebhooks.tla`: `row[e]` is a row of `partner_webhook_delivery` (status, attempts,
ticks until `next_attempt_at`), `active` the endpoint. A worker, the scheduled job or a
request that emitted an event, loads what is due (`Load`), visits each row again without
looking at its status (`Visit`), posts (`Post`, or `Inactive`) and records (`Record`). The
ORM writes the columns that differ from what it read (`Written`), so two workers that
overlap mix their columns. `SetActive` and `DeleteEndpoint` are the partner's; a row that is
gone ends the loop. Backoff is `Minute * 2^(n-1)`.

`tries`, `accepted`, `shared`, `crowded` and `paused` are history. `crowded` are the events
that three workers held at once. Such a row can be lost. A worker that read it as `retrying`
and fails writes a due time but no status; if another has delivered it meanwhile, the row is
`delivered` and due. A third that reads this, posts again and is accepted writes NULL as the
due time and nothing else; and if a fourth, which had read the row as `pending`, has failed and
written `retrying` before, what remains is `retrying` with `next_attempt_at` NULL. The query
of `Load` asks for a due time that has come, so no worker sees the row again. Three workers come to the
same with a stall and a pause of the endpoint; two never do, which is `OpenIsDue`. `Resolves`
excepts such rows. The workers are the scheduled job and requests that emit events.
Merged: `Load` and the read of the first row's endpoint. Left out: the size and order of a batch.
**Fairness**: the job runs each minute and time passes (WF of `Tick` and of each worker's
steps).

## 11. Social posting

`SocialPosting.tla`: for each network an instance has a thread. `claim`, `posted`,
`skipped` and `today` are the columns of a discussion, `cur[t]` the post a thread has
claimed, `held[t]` the rows it has loaded and is about to write. A Bluesky run is `Begin`
(stale claims loaded), `Reset`, `LoadOld`, `Skip` (backlog), `Count` (the day's posts),
`Claim` (`FOR UPDATE SKIP LOCKED` and the commit), `Accept` or `Refuse`, `Confirm`; for X it
begins at `Claim` and goes on until nothing is due. X refuses what reads the same as a post it
has, which the code takes for success; but the text is drawn anew at each attempt among variants
of its opening (`trending/social_insights.py:490-509`), so `Accept` lets X take a copy or refuse
it. Time is qualitative: a post is due or
old, a claim fresh or stale, `Midnight` may strike at any moment.

`crowd` is history: the most instances that were counted in under the day's limit and had not
confirmed a post, at once. `LimitKept` allows one post beyond the limit for each of them but the
first, and a copy per instance for each fault; an instance that posts alone, without a fault, keeps
the limit. `Settles` excepts a post of X whose claim its thread has left behind (`Stuck`), by a crash
or a failed commit: the code recovers stale claims of Bluesky only.

**Fairness**: the job runs again and again, time passes, and X takes a post in the end
(there is no backlog skip for X); Bluesky may refuse for ever.

## 12. Runs

Every run gives failures and requests, and the clock where there is one, a bound in the
guards. Where the cfg says CHECK_DEADLOCK FALSE the system may rest, or the bounded clock
stops.

| run | question | instance |
|---|---|---|
| `delivery_retry` | Are calls bounded and duplicates explained, does the ledger hold, does every run and claim resolve? | 1 recipient, scheduler and web request, 3 claims of the run, 12 units, 1 fault, 1 action of the user |
| `delivery_shared` | Do two senders of one run exclude each other per recipient, do the counters agree, is nobody left untried? | 2 recipients, scheduler and web request, 2 units |
| `jobs_protocol` | One worker, one result, bounded attempts, duplicates explained, every job ends | 2 jobs of one key, 2 workers, 2 requests, 1 sweep, 2 attempts |
| `generation_one` | Bounded attempts, none after the end (the refinement), every job decided | 2 jobs, 1 scheduler, 1 request, 1 retry, 1 fault |
| `generation_two` | One processor, bounded attempts, no job lost without a reason, the active counter | 1 job, 2 schedulers, 1 request, 2 retries, 2 faults |
| `votes` | Are the counters exact until an overtaken request writes them, is no vote lost, do they converge? | 1 account, 1 browser, 2 votes, 1 daily answer, 1 merge, 2 values |
| `scheduler_leader` | When do two schedulers run, for how long, and do jobs run again and again? | 2 processes, key of 6 ticks, heartbeat, call and retry 1, 2 failures, 2 attempts, 1 fault |
| `run_generation` | One run per period, in order, none passed over; the briefing comes to have its run | 2 instances, 2 days of 3 hours, clocks changed in hour 4, 1 fault, 1 run by hand or edit |
| `stripe_events` | What becomes of an event that is answered, no event handled twice, convergence, briefings | 2 requests, 5 changes, events and failures together (a checkout and its two events are 3 of them) |
| `webhooks` | No event given up early, accepted twice without cause or stranded; every event ends | 2 events, a request and the scheduler, 2 attempts, 1 fault or change |
| `social_posting` | Copies and the limit bounded by faults, every post settled | 2 posts to Bluesky, 1 to X, 2 instances, limit 1, 1 fault |
| `scheduler_selfheal` | (finds a violation) Does a running scheduler have jobs? | 1 process, 1 fault |

Every property of a passing run has a mutant in `PROJECT.json`: a definition changed the
way a plausible bug would change the code, under which TLC finds the property violated. The type
invariants are proved, and not checked again by the runs.

What the runs show, in a sentence each: a recipient is called fewer than
`MAX_SEND_ATTEMPTS` times whatever happens, and gets a second copy only if the record of
the first was lost; the upsert of her row alone keeps two senders apart; the phases of
the job together leave no run and no claim behind; `SKIP LOCKED` and the commit of
`running` keep a database job with one worker even while stale marks and late completions
overwrite each other; a generation is kept to one processor by lock and status together,
unless the lock is deleted between the two;
votes may overlap as they like and keep the counters exact, only absolute writes do not;
the scheduler lock has two leaders only after heartbeats have failed for as long as the key
lives, or a fault, and then for a bounded time; the advisory lock, the query and the unique constraint together
give a period one run over all changes of clocks; a Stripe event is never lost but by a handler
that gives it up, or breaks off after an `already_processing` dismissal or with its claim left; the
subscription's status converges in any order of events if its row was ever made; column-wise ORM writes of two workers never strand a
partner's event; extra copies of a social post need a fault each, and posts over
the limit a fault or a crowd.

Why the bounds suffice. *Time*: ages matter only relative to `Stuck`, `Stale` and
`Expiry`; with one unit for fifteen minutes, twelve units outlast the longest chain (claim,
stuck, recover, claim, stuck, fail, clean), so that the clock's end cannot hide a missing
step. The scheduler's ticks are 20 s, which keeps the code's proportions (key, heartbeat and call
of 120, 20 and up to 21 s; retries after 15 to 17 s): a key of 6 ticks that one failed heartbeat may
outlive, as in the code. Two heartbeats may fail instead of five, which is one more than that takes,
and two attempts be made instead of eight and three; what more of them add is in `Grace`, and in the
theorems. Three hours
reach before, at and after the preferred hour; hour 4 lies inside the second day; six hours end the second day and see every period served once. *Attempts*: the code's limits are 5
claims of a run, 3 attempts of a job, 3 retries, 5 heartbeats; one to three reach both
sides of each comparison. *Recipients, jobs, rows*: the properties relate one to itself, to
one rival, or to a total. *Faults*: one fault for each property that counts them: a
lost record is enough for a duplicate mail; `generation_two` has two, and two retries, because
it takes that much for a lock to be deleted under a worker. The proofs remove the bounds for
the safety properties they cover. Three exceptions that the properties name lie outside
the runs and were found with larger instances: a third worker of the partner webhooks
(`crowded`; the theorem covers it), copies that several instances post of one stale claim under a
limit of two (`LimitKept` allows for them; proved), and clocks that change in the last hour of a
day (`Displaced`). *Subscription*: five changes, events and failures reach two
failures beside a creation, which is what `Unrecorded` takes, and five for one of long standing.
The theorems cover the last of them too: `OnePerPeriod` is proved for clocks that change in any hour.

## 13. What is proved

Each theorem has the form `Spec => []P` (or, for a refinement, `Spec => Abstract`) and
holds for every value of the constants that meets the module's named assumption. None of
the properties is inductive but the types.

**`BriefDeliveryProofs`**: `TypeCorrect`, `OneSender`, `FewCalls`, `DuplicatesExplained` and
`Refinement` (`Spec => ImplementsLedger`). Assumed: `Stuck <= Stale` (both 15 minutes),
`MaxSendAttempts` at least 2, disjoint kinds of processes. The guard `CallsAreShort` of
`Tick` is part of the model and is what the argument turns on. The invariant is
`IInv == TypeOK /\ Exclusion /\ Accounts`:

* `Exclusion`: a process holds one recipient exactly while it is between claim and record
  (`Holding`), and her row is claimed then, by that very claim (`HeldClaimed`); the job's
  `now` is not in the future (`JobsInPast`). A claim in somebody's hands is younger than
  every cutoff, so neither `FailStale` nor `CleanClaims` can release it
  (`YoungClaimStays`): that is why two senders cannot meet although the run itself may be
  claimed by both.
* `Accounts`: `Tries` bounds the calls by the row's `attempt_count` and status, `InCall`
  ties an answer not yet recorded to the row, `Copies` charges each accepted copy to a
  sent row, an answer in hand, or a lost record.

The same module, for finite sets of recipients (`FiniteAssumption`), has
`CounterAgrees` (each step either leaves the recorded rows and `emails_sent` alone or adds
one to both) and `EverybodyTried` (whoever is sending covers, with the rows handled and the
list still to do, everybody eligible: `Coverage`).

**`JobsAndRunsProofs`** extends `JobQueue` and `RunGeneration`, which have no state in common;
each theorem is about the one it names (`JobSpec` or `Spec`).

About `JobQueue`: `JobTypeCorrect`, `OneWorker`, `OneResult`, `DuplicatesExplained` and
`JobsAreExclusiveRetry`. `JobInv` adds to the properties: a worker holds a job exactly while it
is not idle; a held job is running or stale (so never claimable); attempts below the maximum
while queued; a job with a result is held by a worker that only has to complete it, or is
settled for good; what a request saw of its key is still true unless the request is `overtaken`.

About `RunGeneration`: `TypeCorrect`, `OneRunPerPeriod`, `ServedPeriodsHaveRuns` and
`RunsAreInOrder`, for days and weeks of any length and clocks that change in any hour but the
first. The arithmetic comes first, as lemmas the rest cites instead of the definitions: a
later moment is in no earlier period (`PeriodGrows`); the hour preferred of a period lies in
it, unless clocks leave that hour out and move it to the next (`TargetFacts`), and is one
moment (`OneTarget`); what the query for a run of the period finds and what it overlooks on
the day of a change (`StartFacts`). The invariant is the conjunction of

* `Planned`: a pass makes a run for the hour preferred of some period, none before the one it
  asked for, and the periods it leaps over are in `late`;
* `Wanted` and `Apart`: every run of the job is such a run, and no two are of one moment;
* `Ahead`: the periods between now and a run made ahead are in `late`;
* `InTurn`, while no lock is lost: one pass at a time, and what it makes lies after
  every run there is, or in the last one's period if clocks are put back (`Later`, `Below`).

Two runs of one period for the same hour are then one run, unless clocks moved one of them;
two for different hours contradict `InTurn`, unless a lock was lost or clocks are put back.

**`GenerationQueueProofs`**, each theorem with an invariant of its own:

* `LimitIsKept`, for finite sets of schedulers. A slot is taken when `CountActive` increments,
  and every decrement comes from a scheduler that holds one, so the counter covers the
  processors up to the increments that were missed.
* `OneAtATime` and `BegunIsBounded` (`GuardInv`), for every job that is neither `unsaved` nor
  `robbed`. From SETNX until the status is `processing` the lock keeps others out; from then on
  the status does, and the lock may lapse (`Exclusive`). The count in the key, or in the worker's
  copy of it, covers the attempts begun (`Attempts`).
* `QueuedIsFound` (`TraceInv`): a queued job is in a queue or in a hand, and whoever holds the
  lock that would turn the job's next entry away still brings it back (`Traced`), but for
  jobs in `lost` or `early`.
* With one scheduler (`SingleScheduler`): `QueueIsExclusiveRetry`, that the queue implements
  `ExclusiveRetry`, and `NothingOddAlone`, that `robbed` and `early` stay empty and the bound on the
  attempts holds for every job but the `unsaved`. An undecided job has one copy, in the list,
  the retry set or a hand, and a decided job none (`SingleCopy`); an attempt beyond the counted
  ones has cost two faults, since both of its saves failed (`Paid`). With two schedulers the
  refinement is false (`robbed` jobs have two processors at once); hence the hypothesis,
  which the leader lock meets except during an overlap.

**`VotePersistenceProofs`**: `TypeCorrect`, `CountersExact`, `OpinionsKept`. A voter has one row
and a row one holder (`UniqueRows`); no two open votes share an identity (`Locked`); what a
request read is still so unless it is in `raced` (`Current`). Then every commit moves the
counters and the tally by the same amount. For `OpinionKept`, `Merging` says where the rows
a merge has read may have gone.

**`SchedulerLockProofs`**: `TypeCorrect`, `OneSchedulerRuns` and `StraysAreBounded`, for every
value of the constants with `Call < TTL`, the code's among them. While no key is lost and no
process is stalled, a running scheduler holds the key, for at least until its next heartbeat
is over (`Holds`, from `InTime`), or its heartbeats have failed long enough for the key to
have expired (`Covered`). For the second, a scheduler that is astray has a limited time left
before it stops or gets the key again (`Left`: the heartbeats that may still fail, the attempts that
may still be made), and that time together with the time it has been astray is at most `Grace`
and what faults have paid for (`Spent`).

**`StripeWebhookProofs`**: `TypeCorrect` (with `Told`: events are finite in number and tell of changes
that were made), `AnswersAreHandled`, and `NotHandledTwice`. For the first, an event that was
answered or claimed has ended (handled, given up or broken off) or is in a handler (`Attended`), so
a delivery that is dismissed leaves it to somebody, or to nobody by name. For the second, the handler of
an event that is not excused holds its claim, alone, and the event has not been marked (`Alone`);
what was handled and is not excused has been (`Marked`).

**`PartnerWebhooksProofs`**: `NotGivenUpEarly` (the attempts in a row, and in every copy a
worker has read of it, never exceed the calls made: `RowCounts`, `SeenCounts`) and
`NotAcceptedTwice` (an event that was never shared was accepted as often as its row, its
worker's answer in hand and the faults account for: `OnceFor`). `NothingStrandedByTwo`: of a row
that is not `crowded`, once it is delivered or given up, at most one worker is still busy with
it, and one that has read it as closed finds nobody who could open it again (`Few`); so the
columns it leaves out have the values it read. `TypeCorrect` includes the due times.

**`SocialPostingProofs`**, for finite sets of instances: `TypeCorrect`, `PostedMeansPublished`
(whoever is about to confirm a post has published it: `Confirmable`), `CopiesArePaidFor` and
`DayIsLimited`. `CopiesArePaidFor` gives every post to Bluesky a `Weight`: the copies out,
the instances that are posting or releasing it, those about to clear its claim, one if it can
be claimed, and one for each instance if its claim has been left behind. No step without a
failure adds to the weight (`Exchange`, `Balance`), and a failure adds at most one for each
instance (`Covered`). X may take a copy as well; its claims have no recovery, so its weight is
plainer (`XWeight`, `XCovered`). `DayIsLimited` compares what was sent with what the query
counts (`Quota`): every copy sent is counted, about to be, or paid for by a failure, and those in
flight, sent or still bound to be, are instances that were counted in together (`Crowded`). A copy
is not counted anew when its post already has a row of today; such copies are the `Spare` ones.

Some of these statements are not what was first written down. Where a proof would not go
through, TLC was given the instance that the failing step described, and in three cases
found the property false beyond the bounds of its run: `OneProcessorPerJob` (a third attempt and a
deleted lock), `LimitKept` (an earlier form allowed too few copies per failure) and the stranding of rows in
`PartnerWebhooks` (a third worker). A larger instance did the same to `OnePerPeriod` (clocks
changing before midnight). The properties now name these cases (`Displaced`, and the history
variables `robbed`, `early` and `crowded`), and the theorems hold without bounds.

Every invariant that a run checks is the subject of a theorem, and so are `EmailsSentCountsRows`,
`InOrder` and the three refinements. Only model-checked is liveness (`RunResolves`,
`ClaimsResolve`, `JobSettles`, `JobDecided`, `Converges`, `JobsRunAgain`, `ComesToHaveRun`,
`BriefingsFollow`, `Resolves`, `Settles`), which is beyond the prover.

## 14. What is not modelled, and why

* *Daily and weekly newsletter*: one sender walks a list and sets a marker per subscriber
  and issue; no claim of a row. Its protocol is a part of `BriefDelivery`'s.
* *Trial lifecycle mails*: the same pattern, a marker per user.
* *Source ingestion and extraction*: parsing of feeds and uploads; their queueing follows
  the generation queue.
* *Trending pipeline, brief and item writing, translation*: sequential batches around
  language models.
* *Consensus engine*: floating-point clustering.
* *Discussions, programmes, accounts, administration, partner portal and API, game,
  Polymarket and news pages*: handlers over single rows, and caches.
* *Templates, migrations, scripts, SDKs*: no state of their own.

`PROJECT.json` has a line for each, and says for the modelled ones what they leave out:
rendering and wording of mails, metrics and logs, deletion of recipients and briefings,
several users of the generation queue, the choice of a run's items, partner subscriptions
and several subscriptions of one user, several fingerprints of one browser.

Hazards seen in the code that no property covers, most because the model leaves out what they
turn on:

* `bulk_remove` deletes a recipient's rows by cascade while a sender holds her in its list
  (`briefing/routes.py:2730`); one who unsubscribes after the list was loaded is still mailed
  (`briefing/email_client.py:432`).
* Approving a run that was sent sets it back to approved with `sent_at` kept
  (`briefing/routes.py:2944`); a test run of an auto-send briefing is approved for the length
  of one commit (`briefing/routes.py:3532`).
* `claimed_at` is written with the database's NOW() and compared with the application's
  clock (`briefing/email_client.py:675`).
* The lock's value is the process id, which two hosts may share (`app/__init__.py:1435`).
* The counter of a user's queued jobs is incremented after the push, so a worker may decrement it
  before; the slot leaks until the counter expires, and nothing bounds the counter from
  above (`briefing/jobs.py:352`).
* The dead-letter branch of the generation queue is behind a test that excludes it
  (`briefing/jobs.py:479`).

## 15. Where the code and its documentation disagree

With a run: `scheduler_selfheal`. `app/__init__.py:1491` says "Self-heal: retry after a short
delay if scheduler cycle exits." A cycle that ends with a lost lock or failed heartbeats
removes all jobs; the next cycle's `init_scheduler` returns the same object, because it is
not None, and adds none. The process then holds and renews the lock with an empty scheduler
until it ends, up to half an hour later.

Without a run of their own, from modelling:

| where | the documentation says | the code does |
|---|---|---|
| `models/briefing.py:596` | the claim prevents duplicates even if the process crashes between send and record | an old claim is reopened and mailed again: `DuplicateNeedsLostRecord` |
| `models/briefing.py:613` | `MAX_SEND_ATTEMPTS` send attempts before giving up | gives up one call earlier, since the count starts at 1: `SendsBounded` |
| `briefing/email_client.py:98` | marks a run sent from `approved` or `sending` | the UPDATE does not look at the status: a skipped run becomes sent |
| `briefing/routes.py:2963` | "Skipped today's edition. Nothing will be sent." | a send in progress goes on: no action of a sender reads the run between `Prepare` and `MarkRunSent` |
| `briefing/email_client.py:632` | a failed recipient is marked for retry | one success closes the run and nobody is retried |
| `models/consensus.py:53` | jobs are deduplicated by key | the look and the insert are two steps and the index is not unique: `DuplicateJobExplained` |
| `test_consensus_job_concurrency_contract.py:150` | the sweep needs no row lock | it overwrites `completed` with `stale` |
| `briefing/jobs.py:9` | a dead-letter queue for permanently failed jobs | the branch that fills it is never reached |
| `billing/abuse_guardrails.py:10` | a limit on queued jobs | jobs that wait for a retry do not count |
| `briefing/jobs.py:379` | the lock prevents double-processing | it lapses after 300 s, and a worker that is done deletes it whoever holds it; the status has to keep the second worker out, and cannot before it is written: `OneProcessorPerJob` |
| `discussions/statements.py:80` | counters move by deltas under the advisory lock | the ORM writes the returned values back, absolutely, in the next commit (247-250, 1378) |
| `billing/reconciliation.py:5` | the job corrects drift after missed events | it sweeps rows only: when both events of a creation were missed or given up, no row is ever made (`Unrecorded`, excepted by `Converges`) |
| `trending/social_poster.py:1173` | "Each instance processes only unlocked rows, ensuring no duplicates" | stale claims are cleared by primary key, whoever has taken them meanwhile: `CopiesPaidFor` |

And five effects worth knowing. An event that three or more workers post at once may be left
`retrying` without a due time, and is then never sent again (`OpenIsDue`). A late `paused` or `resumed` event leaves the briefings
wrong, and the reconciliation repairs the status only (`BriefingsFollow` promises them for
events in turn). An event dismissed as `already_processing` is answered with 200, and is
lost if the first delivery then fails (`broken` in `AckedIsHandled`). When EXPIRE fails after
SETNX the claim of an event stays for ever, and each delivery of it that still comes is dismissed.
And the scheduler lock does not outlive an outage of the heartbeats it allows
([Section 7](#7-scheduler-leader-lock)).
