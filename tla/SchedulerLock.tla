---------------------------- MODULE SchedulerLock ----------------------------
(***************************************************************************)
(* Which process runs the scheduler (app/__init__.py, scripts/             *)
(* run_scheduler.py): the supervisor thread of each process takes a Redis  *)
(* key that expires, starts the jobs and renews the key.  Time passes in   *)
(* ticks; a process acts when its sleep is over and at most as much later  *)
(* as its calls to Redis last.                                             *)
(***************************************************************************)
EXTENDS Integers

CONSTANTS
    Proc,           \* scheduler processes, one per container
    Orphan,         \* owner of a key whose process has died: its successor has another pid
    TTL,            \* _SCHEDULER_LOCK_TTL
    Beat,           \* _SCHEDULER_HEARTBEAT_SECONDS
    Retry,          \* _SCHEDULER_RETRY_DELAY_SECONDS
    Jitter,         \* the most that attempt % 3 adds to it
    MaxAttempts,    \* _SCHEDULER_MAX_LOCK_ATTEMPTS
    ReAttempts,     \* attempts to take a lost lock again
    MaxFails,       \* failed heartbeats in a row before the scheduler is shut down
    Call,           \* the longest a Redis call takes, the client's own retries included
    MaxFaults       \* bound: keys lost, ticks a process is stalled, ends before a free key is taken

ASSUME ConstantsAssumption ==
    /\ Orphan \notin Proc
    /\ {TTL, Beat, Retry, MaxAttempts, ReAttempts, MaxFails} \subseteq Nat \ {0}
    /\ {Call, Jitter, MaxFaults} \subseteq Nat /\ Call < TTL

VARIABLES
    key, ttl,       \* scheduler_lock: its value ({} if there is none), the time it has left
    pc,             \* each process: where its supervisor is
    wait,           \* time until it acts next; below 0 it is late
    tries, fails,   \* attempts left; heartbeats failed in a row
    jobs,           \* whether its scheduler object has its jobs
    faults,
    astray          \* history: ticks for which it has been running without the key

procVars == <<pc, wait, tries, fails, jobs>>
vars == <<key, ttl, procVars, faults, astray>>

Pc == {"off", "rest", "acquire", "run", "reacquire", "drain"}

TypeOK ==
    /\ key \subseteq Proc \cup {Orphan} /\ ttl \in 0..TTL
    /\ pc \in [Proc -> Pc] /\ wait \in [Proc -> Int]
    /\ tries \in [Proc -> Nat] /\ fails \in [Proc -> Nat]
    /\ jobs \in [Proc -> BOOLEAN]
    /\ faults \in Nat /\ astray \in [Proc -> Nat]

Init ==
    /\ key = {} /\ ttl = 0
    /\ pc = [p \in Proc |-> "off"] /\ wait = [p \in Proc |-> 0]
    /\ tries = [p \in Proc |-> 0] /\ fails = [p \in Proc |-> 0]
    /\ jobs = [p \in Proc |-> FALSE]
    /\ faults = 0 /\ astray = [p \in Proc |-> 0]

Live    == {p \in Proc : pc[p] \notin {"off", "drain"}}
Running == {p \in Proc : pc[p] \in {"run", "reacquire"}}
Due(p)  == p \in Live /\ wait[p] <= 0

\* p goes on at label after n ticks.
Goto(p, label, n) ==
    /\ pc' = [pc EXCEPT ![p] = label]
    /\ wait' = [wait EXCEPT ![p] = n]

\* scheduler.start and the scheduled_job decorators.
Start(p) ==
    /\ pc[p] = "off"
    /\ Goto(p, "rest", Retry)
    /\ jobs' = [jobs EXCEPT ![p] = TRUE]
    /\ UNCHANGED <<key, ttl, tries, fails, faults, astray>>

\* _run_scheduler_cycle is entered.
Enter(p) ==
    /\ pc[p] = "rest" /\ Due(p)
    /\ Goto(p, "acquire", 0)
    /\ tries' = [tries EXCEPT ![p] = MaxAttempts]
    /\ UNCHANGED <<key, ttl, fails, jobs, faults, astray>>

\* Redis has set the key to p; the answer comes up to Call later.
Take(p) == key' = {p} /\ ttl' \in (TTL - Call)..TTL
NotTaken == UNCHANGED <<key, ttl>>

\* SET NX EX answers that the key was set.
Acquire(p) ==
    /\ pc[p] \in {"acquire", "reacquire"} /\ Due(p)
    /\ key = {} /\ Take(p)
    /\ Goto(p, "run", Beat)
    /\ fails' = [fails EXCEPT ![p] = 0] /\ tries' = [tries EXCEPT ![p] = 0]
    /\ astray' = [astray EXCEPT ![p] = 0]
    /\ UNCHANGED <<jobs, faults>>

\* shutdown_scheduler removes every job and stops the executor for good; the
\* supervisor rests before it enters the next cycle.
Shutdown(p) ==
    /\ Goto(p, "rest", Retry)
    /\ jobs' = [jobs EXCEPT ![p] = FALSE]
    /\ tries' = [tries EXCEPT ![p] = 0] /\ fails' = [fails EXCEPT ![p] = 0]

\* The attempt is used up: wait for the next, or give up.
Again(p) ==
    \/ /\ tries[p] > 1
       /\ \E n \in Retry..(Retry + Jitter) : Goto(p, pc[p], n)
       /\ tries' = [tries EXCEPT ![p] = @ - 1] /\ UNCHANGED <<fails, jobs>>
    \/ /\ tries[p] <= 1 /\ pc[p] = "acquire"
       /\ Goto(p, "rest", Retry)
       /\ tries' = [tries EXCEPT ![p] = 0] /\ UNCHANGED <<fails, jobs>>
    \/ tries[p] <= 1 /\ pc[p] = "reacquire" /\ Shutdown(p)

\* The key is held, or the call failed, perhaps after the key was set.
Fruitless(p) ==
    /\ pc[p] \in {"acquire", "reacquire"} /\ Due(p)
    /\ NotTaken \/ (key = {} /\ Take(p))
    /\ Again(p)
    /\ UNCHANGED <<faults, astray>>

\* The key was set and the scheduler does not start: the key is released, or is not.
StartFails(p) ==
    /\ pc[p] = "acquire" /\ Due(p) /\ key = {}
    /\ NotTaken \/ Take(p)
    /\ Goto(p, "rest", Retry)
    /\ tries' = [tries EXCEPT ![p] = 0]
    /\ UNCHANGED <<fails, jobs, faults, astray>>

\* The heartbeat: the key is still this process's and is set again.
Renew(p) ==
    /\ pc[p] = "run" /\ Due(p)
    /\ key = {p} /\ Take(p)
    /\ Goto(p, "run", Beat)
    /\ fails' = [fails EXCEPT ![p] = 0]
    /\ UNCHANGED <<tries, jobs, faults, astray>>

LostUnheeded(p) ==         \* mutant: the jobs go on, the lock is waited for
    /\ pc[p] = "run" /\ Due(p)
    /\ key # {p}
    /\ Goto(p, "run", Beat)
    /\ UNCHANGED <<key, ttl, tries, fails, jobs, faults, astray>>

\* The key is gone or another's: the jobs go on while it is asked for again.
Lost(p) ==
    /\ pc[p] = "run" /\ Due(p)
    /\ key # {p}
    /\ Goto(p, "reacquire", 0)
    /\ tries' = [tries EXCEPT ![p] = ReAttempts]
    /\ UNCHANGED <<key, ttl, fails, jobs, faults, astray>>

ReleaseAny(p) ==           \* mutant: DEL without the comparison
    (key' = {} /\ ttl' = 0) \/ NotTaken

\* The compare-and-delete script; the call may fail.
Release(p) == (key = {p} /\ key' = {} /\ ttl' = 0) \/ NotTaken

\* The heartbeat fails, perhaps after the key was set again.
BeatFails(p) ==
    /\ pc[p] = "run" /\ Due(p)
    /\ \/ /\ fails[p] + 1 < MaxFails
          /\ NotTaken \/ (key = {p} /\ Take(p))
          /\ Goto(p, "run", Beat)
          /\ fails' = [fails EXCEPT ![p] = @ + 1] /\ UNCHANGED <<tries, jobs>>
       \/ /\ fails[p] + 1 >= MaxFails
          /\ Shutdown(p) /\ Release(p)
    /\ UNCHANGED <<faults, astray>>

\* A process lives long enough to take a key that is free, but for a fault.
Ends(p) ==
    \/ (p \in Running \/ pc[p] = "drain" \/ key # {}) /\ UNCHANGED faults
    \/ faults < MaxFaults /\ faults' = faults + 1

\* The process ends: run_scheduler.py after 30 minutes or on a signal.  The key is
\* released although jobs may still be running: the scheduler object it imported
\* before the first cycle is None, so it is not shut down first.
Exit(p) ==
    /\ p \in Live /\ Ends(p)
    /\ Release(p)
    /\ Goto(p, IF p \in Running THEN "drain" ELSE "off", 0)
    /\ tries' = [tries EXCEPT ![p] = 0] /\ fails' = [fails EXCEPT ![p] = 0]
    /\ jobs' = [jobs EXCEPT ![p] = FALSE]
    /\ UNCHANGED astray

\* The interpreter has waited for the jobs' threads.
Drained(p) ==
    /\ pc[p] = "drain"
    /\ Goto(p, "off", 0)
    /\ UNCHANGED <<key, ttl, tries, fails, jobs, faults, astray>>

\* The process is killed with whatever it does; its key waits for its expiry.
Crash(p) ==
    /\ pc[p] # "off" /\ Ends(p)
    /\ Goto(p, "off", 0)
    /\ key' = IF key = {p} THEN {Orphan} ELSE key
    /\ tries' = [tries EXCEPT ![p] = 0] /\ fails' = [fails EXCEPT ![p] = 0]
    /\ jobs' = [jobs EXCEPT ![p] = FALSE]
    /\ UNCHANGED <<ttl, astray>>

\* Redis loses the key.
LoseKey ==
    /\ key # {} /\ faults < MaxFaults
    /\ key' = {} /\ ttl' = 0 /\ faults' = faults + 1
    /\ UNCHANGED <<procVars, astray>>

\* The calls p makes before it goes on: ping, SET, GET and TTL in an attempt; in a
\* heartbeat the script, after the setex that followed the last one to succeed.
Calls(p) ==
    CASE pc[p] \in {"acquire", "reacquire"} -> 4 * Call
      [] pc[p] = "run" /\ fails[p] = 0      -> 2 * Call
      [] OTHER                              -> Call

\* Time passes.  No process is later than its calls last unless it is stalled.
Late == {p \in Live : wait[p] <= -Calls(p)}

ExpiresNever == FALSE      \* mutant: SET NX without EX

Expires == ttl <= 1

Tick ==
    /\ \/ Late = {} /\ UNCHANGED faults
       \/ faults < MaxFaults /\ faults' = faults + 1
    /\ wait' = [p \in Proc |-> IF p \in Live \ Late THEN wait[p] - 1 ELSE wait[p]]
    /\ ttl' = IF ttl > 0 THEN ttl - 1 ELSE 0
    /\ key' = IF Expires THEN {} ELSE key
    /\ astray' = [p \in Proc |-> IF p \in Running /\ key # {p} THEN astray[p] + 1 ELSE 0]
    /\ UNCHANGED <<pc, tries, fails, jobs>>

Step(p) ==
    \/ Start(p) \/ Enter(p) \/ Acquire(p) \/ Fruitless(p) \/ StartFails(p)
    \/ Renew(p) \/ Lost(p) \/ BeatFails(p) \/ Drained(p)

Next ==
    \/ \E p \in Proc : Step(p) \/ Exit(p) \/ Crash(p)
    \/ LoseKey \/ Tick

Spec == Init /\ [][Next]_vars

\* Time passes, processes go on and are restarted; Redis answers an attempt now and
\* then, and every process ends in the end: run_scheduler.py ends it after 30 minutes.
Fairness ==
    /\ WF_vars(Tick)
    /\ \A p \in Proc : WF_vars(Step(p)) /\ SF_vars(Acquire(p)) /\ SF_vars(Exit(p))

FairSpec == Spec /\ Fairness

-----------------------------------------------------------------------------
(* Properties                                                              *)

\* How old p's key may be when p's next heartbeat is over: the heartbeats that have
\* failed since it was set, the next one, the setex before them and the late answer.
Age(p) == (fails[p] + 1) * (Beat + Call) + 2 * Call

\* p's heartbeats have failed for so long that its key may have expired.  With the
\* code's constants one failed heartbeat is enough: 2 * (20 + 21) + 42 > 120.
Outlived(p) == Age(p) >= TTL

\* While no key is lost and no process is stalled, two schedulers run only if the
\* heartbeats of one have failed for as long as its key lives.
OneScheduler ==
    faults = 0 => \A p, q \in Running : p = q \/ Outlived(p) \/ Outlived(q)

\* The longest a scheduler runs on without the key: heartbeats that fail, then
\* attempts to take it again.
Grace ==
    MaxFails * (Beat + Call) + Call
        + ReAttempts * 4 * Call + (ReAttempts - 1) * (Retry + Jitter)

\* A scheduler that has lost its key, in an outage of Redis or otherwise, runs beside
\* its successor for Grace at most, and for the ticks it is stalled.
StraysBounded == \A p \in Running : astray[p] <= Grace + faults

\* Whatever fails, jobs are scheduled again and again.
JobsRunAgain == []<>(\E p \in Running : jobs[p])

\* app/__init__.py of the supervisor's loop: "Self-heal: retry after a short delay if
\* scheduler cycle exits."
RunningHasJobs == \A p \in Running : jobs[p]
=============================================================================
