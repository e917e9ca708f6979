--------------------------- MODULE PartnerWebhooks ---------------------------
(***************************************************************************)
(* Delivery of events to one endpoint of a partner (partner/webhooks.py):  *)
(* rows are posted by the request that emitted them and, each minute, by   *)
(* the scheduler; both load rows without a lock.                           *)
(***************************************************************************)
EXTENDS Integers, FiniteSets

CONSTANTS
    Event,          \* rows of partner_webhook_delivery
    NoEvent,
    Request,        \* web requests that emit events
    Scheduler,      \* the process of the scheduled job
    MaxAttempts,    \* MAX_DELIVERY_ATTEMPTS
    Minute,         \* ticks in a minute; a POST times out within a tick
    MaxEvents       \* bound: faults and changes of the endpoint together

ASSUME ConstantsAssumption ==
    /\ Scheduler \notin Request /\ NoEvent \notin Event
    /\ MaxAttempts \in Nat \ {0} /\ Minute \in Nat \ {0} /\ MaxEvents \in Nat

Worker == Request \cup {Scheduler}
NoDue == -1                \* next_attempt_at is NULL

VARIABLES
    row,            \* the table
    active,         \* the endpoint's status is active
    pc,
    batch, cur,     \* each worker's rows still to visit; the one it is at
    seen,           \* what it read of that row and of the endpoint
    answer, age,    \* the answer to be recorded; ticks since it read the row
    faults,         \* crashes, failed commits, lost answers, stalled ticks
    changes,        \* times the endpoint was paused, made active again or deleted
    tries, accepted,    \* history: visits that reached the POST; 2xx answers sent
    shared, crowded,    \* history: rows held by two workers at once; by three;
    paused              \*   visited while the endpoint was not active

table == <<row, active>>
workers == <<pc, batch, cur, seen, answer, age>>
history == <<tries, accepted, shared, crowded, paused>>
vars == <<table, workers, faults, changes, history>>

Status == {"new", "pending", "retrying", "delivered", "failed", "deleted"}
Answer == {"none", "ok", "refused", "error"}
Row    == [st : Status, n : Nat, due : Int]
Open   == {"pending", "retrying"}

\* The values the code can store; a due time counts down to 0 (due now), or is NULL.
TypeOK ==
    /\ row \in [Event -> Row] /\ \A e \in Event : row[e].due >= NoDue
    /\ active \in BOOLEAN
    /\ pc \in [Worker -> {"idle", "load", "visit", "post", "record"}]
    /\ batch \in [Worker -> SUBSET Event] /\ cur \in [Worker -> Event \cup {NoEvent}]
    /\ seen \in [Worker -> [row : Row, active : BOOLEAN]]
    /\ answer \in [Worker -> Answer] /\ age \in [Worker -> Nat]
    /\ faults \in Nat /\ changes \in Nat /\ tries \in [Event -> Nat] /\ accepted \in [Event -> Nat]
    /\ shared \subseteq Event /\ crowded \subseteq Event /\ paused \subseteq Event

NewRow == [st |-> "new", n |-> 0, due |-> NoDue]

Init ==
    /\ row = [e \in Event |-> NewRow] /\ active = TRUE
    /\ pc = [w \in Worker |-> "idle"]
    /\ batch = [w \in Worker |-> {}] /\ cur = [w \in Worker |-> NoEvent]
    /\ seen = [w \in Worker |-> [row |-> NewRow, active |-> TRUE]]
    /\ answer = [w \in Worker |-> "none"] /\ age = [w \in Worker |-> 0]
    /\ faults = 0 /\ changes = 0
    /\ tries = [e \in Event |-> 0] /\ accepted = [e \in Event |-> 0]
    /\ shared = {} /\ crowded = {} /\ paused = {}

Fault == faults + changes < MaxEvents /\ faults' = faults + 1

-----------------------------------------------------------------------------
(* Workers                                                                 *)

\* w's next state with the rest of its rows; others that hold e too are noted.
Holders(e) == {w \in Worker : cur[w] = e \/ e \in batch[w]}
Move(w, label, b, e) ==
    /\ pc' = [pc EXCEPT ![w] = label]
    /\ batch' = [batch EXCEPT ![w] = b] /\ cur' = [cur EXCEPT ![w] = e]
    /\ shared' = shared \cup {x \in Event : x \in b \cup {e} /\ Holders(x) \ {w} # {}}
    /\ crowded' = crowded \cup {x \in Event : x \in b \cup {e} /\
                                   \E u, v \in Holders(x) \ {w} : u # v}

Read(w, e) ==
    /\ seen' = [seen EXCEPT ![w] = [row |-> row[e], active |-> active]]
    /\ age' = [age EXCEPT ![w] = 0]

Stop(w) ==
    /\ Move(w, "idle", {}, NoEvent)
    /\ answer' = [answer EXCEPT ![w] = "none"]
    /\ seen' = [seen EXCEPT ![w] = [row |-> NewRow, active |-> TRUE]]
    /\ age' = [age EXCEPT ![w] = 0]

\* enqueue_partner_event for an endpoint that is active; then the request processes
\* what is due, or in send_test_delivery this row alone.
Emit(w, e) ==
    /\ w \in Request /\ pc[w] = "idle" /\ row[e].st = "new" /\ active
    /\ row' = [row EXCEPT ![e] = [st |-> "pending", n |-> 0, due |-> 0]]
    /\ Move(w, "load", {}, NoEvent) \/ Move(w, "visit", {e}, NoEvent)
    /\ UNCHANGED <<active, seen, answer, age, faults, changes, tries, accepted, paused>>

DuePending ==              \* mutant: a retry is not looked for
    {e \in Event : row[e].st = "pending" /\ row[e].due = 0}

Due == {e \in Event : row[e].st \in Open /\ row[e].due = 0}

\* process_pending_webhook_deliveries: the rows are loaded once.
Load(w) ==
    /\ pc[w] = IF w = Scheduler THEN "idle" ELSE "load"
    /\ \/ Due = {} /\ w # Scheduler /\ Stop(w)
       \/ \E e \in Due :
             Move(w, "post", Due \ {e}, e) /\ Read(w, e) /\ UNCHANGED answer
    /\ UNCHANGED <<table, faults, tries, accepted, paused>>

\* The commit has expired the rows: the next is read again, its status not looked at.
\* A row that is gone raises out of the loop.
Visit(w) ==
    /\ pc[w] = "visit"
    /\ \E e \in batch[w] :
          IF row[e].st = "deleted" THEN Stop(w)
          ELSE Move(w, "post", batch[w] \ {e}, e) /\ Read(w, e) /\ UNCHANGED answer
    /\ UNCHANGED <<table, faults, tries, accepted, paused>>

Answered(w, a) ==
    /\ answer' = [answer EXCEPT ![w] = a] /\ pc' = [pc EXCEPT ![w] = "record"]
    /\ UNCHANGED <<table, batch, cur, seen, age, shared, crowded>>

\* The endpoint was read as inactive: nothing is posted.
Inactive(w) ==
    /\ pc[w] = "post" /\ ~ seen[w].active
    /\ Answered(w, "none")
    /\ paused' = paused \cup {cur[w]} /\ UNCHANGED <<faults, tries, accepted>>

\* The POST: accepted, refused, or failed; an accepted one may lose its answer.
Post(w) ==
    /\ pc[w] = "post" /\ seen[w].active
    /\ tries' = [tries EXCEPT ![cur[w]] = @ + 1]
    /\ \/ Answered(w, "ok") /\ accepted' = [accepted EXCEPT ![cur[w]] = @ + 1] /\ UNCHANGED faults
       \/ Answered(w, "refused") /\ UNCHANGED <<accepted, faults>>
       \/ Answered(w, "error") /\ accepted' = [accepted EXCEPT ![cur[w]] = @ + 1] /\ Fault
    /\ UNCHANGED paused

Backoff(n) == Minute * 2 ^ (n - 1)

RetryUnfailed(r) ==        \* mutant: the last failure sets no status
    [st |-> "retrying", n |-> r.n + 1,
     due |-> IF r.n + 1 >= MaxAttempts THEN NoDue ELSE Backoff(r.n + 1)]
RetryEarly(r) ==           \* mutant: one attempt too few
    IF r.n + 2 >= MaxAttempts THEN [st |-> "failed", n |-> r.n + 1, due |-> NoDue]
    ELSE [st |-> "retrying", n |-> r.n + 1, due |-> Backoff(r.n + 1)]

\* What _deliver_one sets on the row it read as r.
Retry(r) ==
    IF r.n + 1 >= MaxAttempts THEN [st |-> "failed", n |-> r.n + 1, due |-> NoDue]
    ELSE [st |-> "retrying", n |-> r.n + 1, due |-> Backoff(r.n + 1)]
OutcomeStrict(r, a) ==     \* mutant: an acceptance is taken for a failure
    IF a = "none" THEN [r EXCEPT !.st = "failed", !.due = NoDue] ELSE Retry(r)
Outcome(r, a) ==
    CASE a = "none" -> [r EXCEPT !.st = "failed", !.due = NoDue]
      [] a = "ok"   -> [st |-> "delivered", n |-> r.n + 1, due |-> NoDue]
      [] OTHER      -> Retry(r)

\* The UPDATE holds the columns whose value differs from the one read.
Column(old, new, now) == IF new # old THEN new ELSE now
Written(r, o, now) ==
    [st  |-> Column(r.st, o.st, now.st),
     n   |-> Column(r.n, o.n, now.n),
     due |-> IF o.due = NoDue THEN Column(r.due, NoDue, now.due) ELSE o.due]

Record(w) ==
    LET e == cur[w]
        r == seen[w].row
    IN /\ pc[w] = "record"
       /\ \/ /\ row[e].st # "deleted"
             /\ row' = [row EXCEPT ![e] = Written(r, Outcome(r, answer[w]), @)]
             /\ UNCHANGED faults
          \/ row[e].st # "deleted" /\ Fault /\ UNCHANGED row   \* the commit fails
          \/ row[e].st = "deleted" /\ UNCHANGED <<row, faults>>   \* no row matches
       /\ IF batch[w] = {} THEN Stop(w)
          ELSE Move(w, "visit", batch[w], NoEvent)
               /\ answer' = [answer EXCEPT ![w] = "none"] /\ UNCHANGED <<seen, age>>
       /\ UNCHANGED <<active, tries, accepted, paused>>

Crash(w) ==
    /\ pc[w] # "idle" /\ Fault
    /\ Stop(w)
    /\ UNCHANGED <<table, changes, tries, accepted, paused>>

-----------------------------------------------------------------------------
(* The partner                                                             *)

Change == faults + changes < MaxEvents /\ changes' = changes + 1

\* portal_update_webhook: the endpoint is paused, or active again.
SetActive ==
    /\ \A e \in Event : row[e].st # "deleted"
    /\ Change /\ active' = ~ active
    /\ UNCHANGED <<row, workers, faults, history>>

\* portal_delete_webhook: the endpoint goes with its rows.
DeleteEndpoint ==
    /\ \E e \in Event : row[e].st \notin {"new", "deleted"}
    /\ row' = [e \in Event |-> [NewRow EXCEPT !.st = "deleted"]] /\ active' = FALSE
    /\ Change /\ UNCHANGED <<workers, faults, history>>

Late == {w \in Worker : pc[w] \in {"post", "record"} /\ age[w] >= 1}

\* A worker is done with a row within a tick, unless it is stalled.
Tick ==
    /\ IF Late = {} THEN UNCHANGED faults ELSE Fault
    /\ row' = [e \in Event |-> [row[e] EXCEPT !.due = IF @ > 0 THEN @ - 1 ELSE @]]
    /\ age' = [w \in Worker |-> IF pc[w] \in {"post", "record"} /\ age[w] < 1
                                THEN age[w] + 1 ELSE age[w]]
    /\ UNCHANGED <<active, pc, batch, cur, seen, answer, changes, history>>

Step(w) ==
    /\ Load(w) \/ Visit(w) \/ Inactive(w) \/ Post(w) \/ Record(w)
    /\ UNCHANGED changes

Next ==
    \/ \E w \in Worker : Step(w) \/ Crash(w) \/ \E e \in Event : Emit(w, e)
    \/ SetActive \/ DeleteEndpoint \/ Tick

Spec == Init /\ [][Next]_vars

\* The job runs each minute and time passes; a request's thread goes on.
FairSpec == Spec /\ WF_vars(Tick) /\ \A w \in Worker : WF_vars(Step(w))

-----------------------------------------------------------------------------
(* Properties                                                              *)

\* An event is given up only after MAX_DELIVERY_ATTEMPTS calls, or because a visit found
\* the endpoint inactive: overlapping workers never count a call twice.
GivenUpAfterAttempts ==
    \A e \in Event : row[e].st = "failed" => e \in paused \/ tries[e] >= MaxAttempts

\* The partner accepts an event twice only if two workers held it at once, or an answer
\* or a record of it was lost.
AcceptedOnce == \A e \in Event : e \notin shared => accepted[e] <= 1 + faults

\* An open row that no query finds, for it is due at no time, is the work of three workers
\* that held it at once: their UPDATEs, column by column, mix one's status with another's
\* NULL.  Two workers never strand a row.
OpenIsDue ==
    \A e \in Event : row[e].st \in Open /\ row[e].due = NoDue => e \in crowded

\* Every queued event is delivered, given up or deleted, or so left behind.
Resolves ==
    \A e \in Event :
        row[e].st \in Open ~>
            row[e].st \notin Open \/ (row[e].due = NoDue /\ e \in crowded)
=============================================================================
