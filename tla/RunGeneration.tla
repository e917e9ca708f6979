---------------------------- MODULE RunGeneration ----------------------------
(***************************************************************************)
(* The scheduled runs of one briefing: process_briefing_runs_job of        *)
(* scheduler.py on several instances, with the advisory lock, the query    *)
(* for a run of the period, the choice of the time (timezone_utils.py) and *)
(* the unique constraint of generate_brief_run; beside it the runs made by *)
(* hand, which take no lock (a test run, the first brief of a trial).      *)
(*                                                                         *)
(* The clock counts hours of UTC; now is a moment within its hour. The     *)
(* briefing's zone is UTC until its clocks are changed, by an hour or not. *)
(***************************************************************************)
EXTENDS Integers, FiniteSets

CONSTANTS
    Instance,            \* schedulers that run the job
    Hours, Days,         \* hours of a day, days of a week
    ShiftAt,             \* the hour of UTC in which clocks change
    Slow,                \* hours that may strike during a pass
    MaxNow,              \* bound: hours,
    MaxFaults,           \*   failures,
    MaxHand              \*   runs made by hand and edits of the hour, together

ASSUME ConstantsAssumption ==
    /\ {Hours, Days, ShiftAt} \subseteq Nat \ {0}
    /\ {Slow, MaxNow, MaxFaults, MaxHand} \subseteq Nat

VARIABLES
    now,
    shift,               \* hours the clocks are put forward in ShiftAt
    weekly, hour,        \* Briefing.cadence, preferred_send_hour
    runs,                \* BriefRun: the rows committed
    lock,                \* whose connection holds the advisory lock
    pc, plan,            \* each instance: where it is, the run it makes
    hand,                \* runs by hand that are not committed yet
    faults, byHand,
    lost,                \* history: a lock went with its connection
    served,              \*   periods in which a pass found or made a run
    late                 \*   periods whose hour passed before a pass asked for the next

jobVars == <<pc, plan>>
history == <<lost, served, late>>
vars == <<now, shift, weekly, hour, runs, lock, jobVars, hand, faults, byHand, history>>

Hour == 0..Hours - 1
Run  == [at : Nat, hour : Hour, by : Instance \cup {"hand"}]
\* What a pass has loaded, read and chosen; seen: the hour had passed at the check;
\* age: hours struck since it began.
Plan == [at : Nat, hour : Hour, period : Nat, seen : BOOLEAN, age : Nat]

NoPlan == [at |-> 0, hour |-> 0, period |-> 0, seen |-> FALSE, age |-> 0]

TypeOK ==
    /\ now \in 0..MaxNow /\ shift \in {-1, 0, 1}
    /\ weekly \in BOOLEAN /\ hour \in Hour
    /\ runs \subseteq Run /\ hand \subseteq [at : 0..now, hour : Hour, by : {"hand"}]
    /\ lock \subseteq Instance /\ Cardinality(lock) <= 1
    /\ pc \in [Instance -> {"idle", "locked", "next", "work", "insert", "unlock"}]
    /\ plan \in [Instance -> Plan]
    /\ faults \in 0..MaxFaults /\ byHand \in 0..MaxHand
    /\ lost \in BOOLEAN /\ served \subseteq Nat /\ late \subseteq Nat

Init ==
    /\ now = 0 /\ shift \in {-1, 0, 1}
    /\ weekly \in BOOLEAN /\ hour \in Hour
    /\ runs = {} /\ hand = {} /\ lock = {}
    /\ pc = [i \in Instance |-> "idle"]
    /\ plan = [i \in Instance |-> NoPlan]
    /\ faults = 0 /\ byHand = 0
    /\ lost = FALSE /\ served = {} /\ late = {}

-----------------------------------------------------------------------------
(* The briefing's clock                                                    *)

Offset(u) == IF u >= ShiftAt THEN shift ELSE 0
Local(u)  == u + Offset(u)

\* A local hour that comes twice is the first of the two, one that is left out
\* is the hour after it.
SafeLocalize(l) ==
    IF l >= ShiftAt /\ l - shift >= ShiftAt THEN l - shift ELSE l

Length    == IF weekly THEN Days * Hours ELSE Hours
Period(u) == Local(u) \div Length

\* Midnight of today or of Monday: replace(hour=0) keeps the offset of the moment.
PeriodStart == Period(now) * Length - Offset(now)

Target(k, h) == SafeLocalize(k * Length + h)

\* get_next_scheduled_time compares moments, get_weekly_scheduled_time readings of
\* the clock.
Passed(h) ==
    IF weekly THEN Local(now) - Period(now) * Length >= h
    ELSE now >= Target(Period(now), h)

NextScheduled(h) == Target(IF Passed(h) THEN Period(now) + 1 ELSE Period(now), h)

-----------------------------------------------------------------------------
(* process_briefing_runs_job                                               *)

Fault == faults < MaxFaults /\ faults' = faults + 1

Goto(i, label) == pc' = [pc EXCEPT ![i] = label]
Leave(i) == Goto(i, "idle") /\ plan' = [plan EXCEPT ![i] = NoPlan]
Done(i)  == Goto(i, "unlock") /\ plan' = [plan EXCEPT ![i] = [NoPlan EXCEPT !.age = plan[i].age]]
Serve(k) == served' = served \cup {k}

LockAlways(i) ==                \* mutant: the job does not look whether it got the lock
    /\ pc[i] = "idle"
    /\ lock' = lock \cup {i} /\ Goto(i, "locked") /\ plan' = [plan EXCEPT ![i].hour = hour]
    /\ UNCHANGED <<now, shift, weekly, hour, runs, hand, faults, byHand, history>>

\* The briefing is loaded, with the hour preferred, and pg_try_advisory_lock gets the
\* lock; a pass that does not leaves the briefing alone.
Lock(i) ==
    /\ pc[i] = "idle" /\ lock = {}
    /\ lock' = {i} /\ Goto(i, "locked") /\ plan' = [plan EXCEPT ![i].hour = hour]
    /\ UNCHANGED <<now, shift, weekly, hour, runs, hand, faults, byHand, history>>

\* existing_run
Existing == \E r \in runs : r.at >= PeriodStart

CatchUpNever(h) == FALSE        \* mutant: daily briefings wait for the next hour too
CatchUp(h) == ~weekly /\ Passed(h)

\* The query for a run of the period; a daily briefing whose hour has passed catches up.
Check(i) ==
    LET h == plan[i].hour IN
    /\ pc[i] = "locked"
    /\ IF Existing
       THEN Done(i) /\ Serve(Period(now))
       ELSE /\ Goto(i, IF CatchUp(h) THEN "work" ELSE "next") /\ UNCHANGED served
            /\ plan' = [plan EXCEPT ![i].at = Target(Period(now), h),
                                    ![i].period = Period(now), ![i].seen = Passed(h)]
    /\ UNCHANGED <<now, shift, weekly, hour, runs, lock, hand, faults, byHand, lost, late>>

\* The clock is read once more for the next hour preferred.
Choose(i) ==
    LET h == plan[i].hour IN
    /\ pc[i] = "next"
    /\ Goto(i, "work") /\ plan' = [plan EXCEPT ![i].at = NextScheduled(h), ![i].seen = FALSE]
    /\ late' = late \cup {k \in plan[i].period..Period(NextScheduled(h)) - 1 :
                              weekly \/ ~plan[i].seen}
    /\ UNCHANGED <<now, shift, weekly, hour, runs, lock, hand, faults, byHand, lost, served>>

-----------------------------------------------------------------------------
(* generate_brief_run                                                      *)

Inserting(t) == {i \in Instance : pc[i] = "insert" /\ plan[i].at = t}

TakenNever(t) == FALSE          \* mutant: no query and no unique constraint
Taken(t) == \E r \in runs : r.at = t /\ r.by # "hand"

\* A run of the time is returned, whether the query or the unique constraint finds
\* it; an insert waits for another that is not committed.  Times of runs by hand
\* have microseconds and do not collide.
Generate(i) ==
    /\ pc[i] = "work"
    /\ IF Taken(plan[i].at)
       THEN Done(i) /\ Serve(plan[i].period)
       ELSE Inserting(plan[i].at) = {} /\ Goto(i, "insert") /\ UNCHANGED <<plan, served>>
    /\ UNCHANGED <<now, shift, weekly, hour, runs, lock, hand, faults, byHand, lost, late>>

\* No source has an item, no item could be written, or an exception: rolled back.
Nothing(i) ==
    /\ pc[i] \in {"locked", "next", "work", "insert"} /\ Fault
    /\ Done(i)
    /\ UNCHANGED <<now, shift, weekly, hour, runs, lock, hand, byHand, history>>

\* The run and its items are committed.
Commit(i) ==
    /\ pc[i] = "insert"
    /\ runs' = runs \cup {[at |-> plan[i].at, hour |-> plan[i].hour, by |-> i]}
    /\ Done(i) /\ Serve(plan[i].period)
    /\ UNCHANGED <<now, shift, weekly, hour, lock, hand, faults, byHand, lost, late>>

UnlockNot(i) == lock            \* mutant: the connection goes back to the pool locked

\* pg_advisory_unlock; if it fails the connection is thrown away, and the lock with it.
Unlock(i) == lock \ {i}

Finish(i) ==
    /\ pc[i] = "unlock"
    /\ lock' = Unlock(i) /\ Leave(i)
    /\ UNCHANGED <<now, shift, weekly, hour, runs, hand, faults, byHand, history>>

\* The connection that holds the lock breaks; the work goes on in the session's own.
LoseLock(i) ==
    /\ i \in lock /\ Fault
    /\ lock' = {} /\ lost' = TRUE
    /\ UNCHANGED <<now, shift, weekly, hour, runs, jobVars, hand, byHand, served, late>>

\* The process dies, and its connections with it.
Crash(i) ==
    /\ pc[i] # "idle" /\ Fault
    /\ Leave(i) /\ lock' = lock \ {i}
    /\ UNCHANGED <<now, shift, weekly, hour, runs, hand, byHand, history>>

-----------------------------------------------------------------------------
(* The user, and time                                                      *)

Act == byHand < MaxHand /\ byHand' = byHand + 1

\* A test run or the first brief of a trial: its time is that of its beginning.
HandBegin ==
    /\ Act /\ hand' = hand \cup {[at |-> now, hour |-> 0, by |-> "hand"]}
    /\ UNCHANGED <<now, shift, weekly, hour, runs, lock, jobVars, faults, history>>

\* It is committed, or ends without a run.
HandEnd(r) ==
    /\ hand' = hand \ {r} /\ (runs' = runs \cup {r} \/ UNCHANGED runs)
    /\ UNCHANGED <<now, shift, weekly, hour, lock, jobVars, faults, byHand, history>>

Edit(h) ==
    /\ Act /\ h # hour /\ hour' = h
    /\ UNCHANGED <<now, shift, weekly, runs, lock, jobVars, hand, faults, history>>

Busy == {i \in Instance : pc[i] # "idle"}

\* No pass lasts longer than Slow.
Tick ==
    /\ now < MaxNow /\ now' = now + 1
    /\ \A i \in Busy : plan[i].age < Slow
    /\ plan' = [i \in Instance |-> IF i \in Busy THEN [plan[i] EXCEPT !.age = @ + 1] ELSE plan[i]]
    /\ UNCHANGED <<shift, weekly, hour, runs, lock, pc, hand, faults, byHand, history>>

-----------------------------------------------------------------------------
Step(i) ==
    Lock(i) \/ Check(i) \/ Choose(i) \/ Generate(i) \/ Commit(i) \/ Finish(i)

Next ==
    \/ \E i \in Instance : Step(i) \/ Nothing(i) \/ LoseLock(i) \/ Crash(i)
    \/ HandBegin \/ (\E r \in hand : HandEnd(r)) \/ (\E h \in Hour : Edit(h))
    \/ Tick

Spec == Init /\ [][Next]_vars

\* The job starts every 15 minutes and a pass is carried on; time and users need not.
FairSpec == Spec /\ \A i \in Instance : WF_vars(Step(i))

-----------------------------------------------------------------------------
(* Properties                                                              *)

\* Clocks are put forward in period k: its start is taken for an hour earlier.
Misread(k) == shift > 0 /\ Period(ShiftAt) = k

Scheduled == {r \in runs : r.by # "hand"}

\* The hour clocks leave out is the last of a day: a run wanted in it is the next day's.
Displaced(r) == shift > 0 /\ r.at = ShiftAt /\ Period(ShiftAt) # ShiftAt \div Length

\* The job makes one run for a day or a week, whoever else runs it, however long a
\* pass takes and whatever the clocks do.  Two need an edit of the hour between them,
\* and a lock that was lost or clocks put back before it; or a lock that was lost and a
\* run that clocks moved to the next day.
OnePerPeriod ==
    \A x, y \in Scheduled :
        x # y /\ Period(x.at) = Period(y.at) =>
            \/ x.hour # y.hour /\ (lost \/ shift < 0)
            \/ lost /\ Displaced(x)
            \/ lost /\ Displaced(y)

\* Days and weeks get their runs in order: however long a pass takes, the job makes no
\* run for one before another that has its run, unless a lock was lost.
InOrder ==
    [][\A r \in Scheduled' \ Scheduled, x \in Scheduled :
          lost \/ Period(x.at) <= Period(r.at)]_vars

\* A day or week in which a pass found or made a run has a run of its own, unless the
\* preferred hour had struck before a pass asked for the next one, or clocks put
\* forward in it made the run before it look like its own.
ServedHasRun ==
    \A k \in served \ late : (\E r \in runs : Period(r.at) = k) \/ Misread(k)

\* Whatever fails, the briefing comes to have a run of the current day or week, or of
\* a later one.
ComesToHaveRun == <>[](Misread(Period(now)) \/ \E r \in runs : Period(r.at) >= Period(now))

=============================================================================
