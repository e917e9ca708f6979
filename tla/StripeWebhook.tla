---------------------------- MODULE StripeWebhook ----------------------------
(***************************************************************************)
(* One user's subscription and her briefings, as Stripe's events, her      *)
(* return from the checkout and the daily reconciliation move them         *)
(* (billing/routes.py, billing/reconciliation.py). Stripe delivers an      *)
(* event until it is answered with 200, in any order; Redis keys tell      *)
(* deliveries apart.                                                       *)
(***************************************************************************)
EXTENDS Integers, FiniteSets

CONSTANTS
    Workers,        \* bound: requests that serve POST /webhook at once
    MaxSpent        \* bound: changes, events, crashes and failures together

\* The checkout and its two events cost three.
ASSUME ConstantsAssumption == Workers \in Nat /\ MaxSpent \in Nat /\ MaxSpent >= 3

VARIABLES
    remote, change,         \* Stripe: its status; changes so far
    sent, acked,            \* Stripe: events; those answered with 200
    processing, lasting,    \* Redis: claims; those whose expiry was not set
    processed,              \* Redis: events marked as processed
    sub, brief,             \* Subscription.status ("none": no row); Briefing.status
    req,                    \* each worker's request
    sweep, visit,           \* the reconciliation; her return from the checkout
    faults,
    handled, again,         \* history: handled to the end; more than once
    givenUp,                \*   given up by a handler, which returns all the same
    broken,                 \*   its handler broke off, with the answer sent or the claim left
    excused,                \*   claimed when marked already, or without its keys
    disorder                \*   an event was begun out of turn

stripe == <<remote, change, sent>>
redis == <<processing, lasting, processed>>
local == <<sub, brief>>
others == <<sweep, visit>>
outcome == <<handled, again, givenUp, broken>>
history == <<outcome, excused, disorder>>
vars == <<stripe, acked, redis, local, req, others, faults, history>>

Worker == 1..Workers
Access == {"active", "past_due"}        \* trialing goes with active
Status == Access \cup {"paused", "canceled"}
None   == "none"

Pausing == {"deleted", "paused"}
ActivatingFew == {"created", "checkout"}     \* mutant: a resumption is forgotten
Activating == {"created", "checkout", "resumed"}
Kind  == Pausing \cup {"created", "checkout", "resumed", "updated", "payment_failed"}
Event == [kind : Kind, n : 0..MaxSpent]
NoEvent == [kind |-> None, n |-> 0]

\* val: the status loaded or retrieved; at a write, the one to be written (None: no change).
Idle  == [pc |-> "idle", e |-> NoEvent, val |-> None, keyed |-> TRUE]
Quiet == [pc |-> "idle", val |-> None]

\* Redis and Stripe keep to what was done: a marked event was handled or given up,
\* and only a claim that is held can lack its expiry.
TypeOK ==
    /\ remote \in Status /\ change \in 0..MaxSpent
    /\ sent \subseteq Event /\ acked \subseteq sent
    /\ processing \subseteq sent /\ lasting \subseteq processing
    /\ processed \subseteq handled \cup givenUp
    /\ sub \in Status \cup {None} /\ brief \in {"active", "paused"}
    /\ req \in [Worker -> [pc : {"idle", "claim", "load", "fetch", "insert", "write", "brief",
                                 "finish", "giveup"},
                           e : sent \cup {NoEvent}, val : Status \cup {None}, keyed : BOOLEAN]]
    /\ sweep \in [pc : {"idle", "fetch", "commit"}, val : Status \cup {None}]
    /\ visit \in [pc : {"idle", "sync"}, val : Status \cup {None}]
    /\ faults \in 0..MaxSpent
    /\ \A h \in {handled, again, givenUp, broken, excused} : h \subseteq sent
    /\ disorder \in BOOLEAN

Creation == [kind : {"created", "checkout"}, n : {1}]

\* A subscriber of long standing, or one whose checkout was just completed.
Init ==
    /\ remote = "active" /\ acked = {}
    /\ \/ change = 0 /\ sub = "active" /\ brief = "active" /\ sent = {}
       \/ change = 1 /\ sub = None /\ brief = "paused" /\ sent = Creation
    /\ processing = {} /\ lasting = {} /\ processed = {}
    /\ req = [w \in Worker |-> Idle] /\ sweep = Quiet /\ visit = Quiet
    /\ faults = 0 /\ handled = {} /\ again = {} /\ givenUp = {} /\ broken = {}
    /\ excused = {} /\ disorder = FALSE

\* Each event, change and fault costs one.
Spent == Cardinality(sent) + change + faults
Fault == Spent < MaxSpent /\ faults' = faults + 1

-----------------------------------------------------------------------------
(* Stripe: each change of the status is told by one or two events          *)

Changes(from, to, kinds) ==
    /\ Spent + Cardinality(kinds) + 1 <= MaxSpent /\ change' = change + 1
    /\ remote \in from /\ remote' = to
    /\ sent' = sent \cup [kind : kinds, n : {change + 1}]
    /\ UNCHANGED <<acked, redis, local, req, others, faults, history>>

PaymentFails == Changes({"active"}, "past_due", {"payment_failed", "updated"})
Recovers     == Changes({"past_due"}, "active", {"updated"})
Pauses       == Changes(Access, "paused", {"paused"})
Resumes      == Changes({"paused"}, "active", {"resumed"})
Cancels      == Changes(Status \ {"canceled"}, "canceled", {"deleted"})

-----------------------------------------------------------------------------
(* The webhook                                                             *)

At(w, label) == req[w].pc = label
Holders(e) == {w \in Worker : req[w].e = e}
Handlers(e) == {w \in Holders(e) : ~ At(w, "claim")}

\* Requests are alike: the first free one takes the next delivery.
Free(w) == At(w, "idle") /\ \A v \in 1..w - 1 : ~ At(v, "idle")

GoTo(w, label, val) == req' = [req EXCEPT ![w].pc = label, ![w].val = val]
Drop(w) == req' = [req EXCEPT ![w] = Idle]

\* The handler's first step: the events of creation and update retrieve before they load.
First(k) == IF k \in {"created", "checkout", "updated"} THEN "fetch" ELSE "load"

OutOfTurn(e) ==
    \/ \E f \in sent : f.n < e.n /\ (f \notin handled \/ Holders(f) # {})
    \/ \E f \in handled \cup {req[w].e : w \in Worker} : f.n > e.n

\* The handler begins, with the event claimed or with Redis given up; nobody looks
\* whether the event was marked between the two questions to Redis.
Begin(w, e, withRedis) ==
    /\ req' = [req EXCEPT ![w] = [Idle EXCEPT !.pc = First(e.kind), !.e = e, !.keyed = withRedis]]
    /\ excused' = excused \cup (IF withRedis THEN {e} \cap processed ELSE {e})
    /\ disorder' = (disorder \/ OutOfTurn(e))
    /\ UNCHANGED outcome

\* A delivery has asked for the processed key; Stripe may send again what is still held.
Deliver(w) ==
    \E e \in sent \ (acked \cup processed) :
    /\ Free(w) /\ req' = [req EXCEPT ![w].pc = "claim", ![w].e = e]
    /\ UNCHANGED <<stripe, acked, redis, local, others, faults, history>>

\* already_processed
Duplicate(w) ==
    \E e \in processed \ acked :
    /\ Free(w) /\ acked' = acked \cup {e}
    /\ UNCHANGED <<stripe, redis, local, req, others, faults, history>>

\* SETNX, then EXPIRE; when only that fails the key stays and Redis is given up.
Claim(w) ==
    LET e == req[w].e IN
    /\ At(w, "claim") /\ e \notin processing
    /\ processing' = processing \cup {e}
    /\ \/ Begin(w, e, TRUE) /\ UNCHANGED <<lasting, faults>>
       \/ Begin(w, e, FALSE) /\ lasting' = lasting \cup {e} /\ Fault
    /\ UNCHANGED <<stripe, acked, processed, local, others>>

\* Redis failed before the claim: the event is handled without keys.
FailOpen(w) ==
    /\ Free(w) /\ Fault
    /\ \E e \in sent \ acked : Begin(w, e, FALSE)
    /\ UNCHANGED <<stripe, acked, redis, local, others>>

\* already_processing
Dismiss(w) ==
    LET e == req[w].e IN
    /\ At(w, "claim") /\ e \in processing
    /\ acked' = acked \cup {e} /\ Drop(w)
    /\ UNCHANGED <<stripe, redis, local, others, faults, history>>

\* 300 seconds have passed, perhaps with the worker still at the event.
KeyExpires(e) ==
    /\ e \in processing \ lasting
    /\ processing' = processing \ {e}
    /\ IF Handlers(e) = {} THEN UNCHANGED <<faults, excused>>
       ELSE Fault /\ excused' = excused \cup {e}
    /\ UNCHANGED <<stripe, acked, lasting, processed, local, req, others,
                   outcome, disorder>>

-----------------------------------------------------------------------------
(* The handlers: read, commit the status, commit the briefings             *)

Keeping == <<stripe, acked, redis, others, history>>

\* The status an event's name sets, whatever Stripe has by now.
Named(k) == IF k = "deleted" THEN "canceled" ELSE "paused"

\* The flush writes only what differs from the status loaded.
Change(from, to) == IF from = to THEN None ELSE to

\* The row is loaded; without one only creation goes on.
Load(w) ==
    LET k == req[w].e.kind IN
    /\ At(w, "load")
    /\ IF sub = None
       THEN IF k \in {"created", "checkout"} THEN GoTo(w, "insert", req[w].val)
            ELSE GoTo(w, "finish", None)
       ELSE IF k \in Pausing THEN GoTo(w, "write", Change(sub, Named(k)))
       ELSE IF First(k) = "load" THEN GoTo(w, "fetch", sub)
       ELSE GoTo(w, "write", Change(sub, req[w].val))
    /\ UNCHANGED <<Keeping, local, faults>>

\* Subscription.retrieve
Fetch(w) ==
    /\ At(w, "fetch")
    /\ IF First(req[w].e.kind) = "fetch" THEN GoTo(w, "load", remote)
       ELSE GoTo(w, "write", Change(req[w].val, remote))
    /\ UNCHANGED <<Keeping, local, faults>>

\* Stripe cannot be reached: payment_failed guesses, checkout gives up.
FetchFails(w) ==
    /\ At(w, "fetch") /\ Fault
    /\ \/ req[w].e.kind = "payment_failed" /\ GoTo(w, "write", Change(req[w].val, "past_due"))
       \/ req[w].e.kind = "checkout" /\ GoTo(w, "giveup", None)
    /\ UNCHANGED <<Keeping, local>>

\* The commit; a second insert of the row violates its unique key.
Write(w) ==
    /\ At(w, "write") \/ (At(w, "insert") /\ sub = None)
    /\ sub' = IF req[w].val = None THEN sub ELSE req[w].val
    /\ GoTo(w, IF req[w].e.kind \in Pausing \cup Activating THEN "brief" ELSE "finish", None)
    /\ UNCHANGED <<Keeping, brief, faults>>

\* The plan is unknown: ValueError, logged; payment_failed keeps the bare status.
PlanUnknown(w) ==
    /\ At(w, "write") \/ At(w, "insert")
    /\ req[w].e.kind \notin Pausing \cup {"payment_failed"} /\ Fault
    /\ GoTo(w, "giveup", None)
    /\ UNCHANGED <<Keeping, local>>

\* _pause_user_briefings, _reactivate_user_briefings: a commit of their own.
SetBriefings(w) ==
    /\ At(w, "brief")
    /\ brief' = IF req[w].e.kind \in Pausing THEN "paused" ELSE "active"
    /\ GoTo(w, "finish", None)
    /\ UNCHANGED <<Keeping, sub, faults>>

\* _finish_webhook_processing(success=False)
Release(w) ==
    /\ processing' = processing \ (IF req[w].keyed THEN {req[w].e} ELSE {})
    /\ UNCHANGED processed

\* The handler is broken off. What was answered meanwhile, or will be while its claim is
\* left, is not sent again.
BreakOff(w) ==
    /\ broken' = broken \cup
         (IF At(w, "claim") THEN {} ELSE {req[w].e} \cap (acked \cup processing'))
    /\ Drop(w) /\ UNCHANGED <<handled, again, givenUp, excused, disorder>>

Answered200(e) == acked \cup {e}        \* mutant: a failure is answered with 200
Answered500(e) == acked

\* An exception in a handler: the claim is dropped and the answer is 500.
Refuse(w) ==
    /\ \/ req[w].pc \in {"load", "fetch", "write", "brief"} /\ Fault
       \/ At(w, "insert") /\ sub # None /\ UNCHANGED faults
    /\ Release(w) /\ lasting' = lasting \cap processing'
    /\ acked' = Answered500(req[w].e) /\ BreakOff(w)
    /\ UNCHANGED <<stripe, local, others>>

\* The handler has returned, with its work done or given up; the answer is 200,
\* unless it is lost.
Returned(w) ==
    LET e == req[w].e IN
    /\ \/ /\ At(w, "finish") /\ UNCHANGED givenUp
          /\ handled' = handled \cup {e} /\ again' = again \cup ({e} \cap handled)
       \/ At(w, "giveup") /\ givenUp' = givenUp \cup {e} /\ UNCHANGED <<handled, again>>
    /\ Drop(w)
    /\ UNCHANGED <<stripe, local, others, broken, disorder>>

MarksNothing(e) == processed            \* mutant: nothing is marked
Marks(e) == processed \cup {e}

\* Processed for seven days (longer than Stripe sends), then the claim goes.
Finish(w) ==
    LET e == req[w].e IN
    /\ Returned(w)
    /\ IF req[w].keyed
       THEN processed' = Marks(e) /\ processing' = processing \ {e} /\ lasting' = lasting \ {e}
       ELSE UNCHANGED redis
    /\ \/ acked' = acked \cup {e} /\ UNCHANGED faults
       \/ UNCHANGED acked /\ Fault
    /\ UNCHANGED excused

\* Redis failed at the end: nothing is marked and the claim is left.
FinishUnmarked(w) ==
    /\ Returned(w) /\ req[w].keyed /\ Fault
    /\ acked' = acked \cup {req[w].e} /\ excused' = excused \cup {req[w].e}
    /\ UNCHANGED redis

\* The process dies.
Crash(w) ==
    /\ ~ At(w, "idle") /\ Fault
    /\ UNCHANGED <<stripe, acked, redis, local, others>> /\ BreakOff(w)

-----------------------------------------------------------------------------
(* reconcile_briefing_subscriptions_batch, for this row                    *)

SweptLive == sub \in Access     \* mutant: rows without access are passed over
Swept == sub # None

SweepLoad ==
    /\ sweep.pc = "idle" /\ Swept
    /\ sweep' = [pc |-> "fetch", val |-> sub]
    /\ UNCHANGED <<stripe, acked, redis, local, req, visit, faults, history>>

SweepFetch ==
    /\ sweep.pc = "fetch"
    /\ sweep' = IF remote = sweep.val THEN Quiet ELSE [pc |-> "commit", val |-> remote]
    /\ UNCHANGED <<stripe, acked, redis, local, req, visit, faults, history>>

\* Flushed in a savepoint, committed with the rest of the sweep.
SweepCommit ==
    /\ sweep.pc = "commit"
    /\ sub' = sweep.val /\ sweep' = Quiet
    /\ UNCHANGED <<stripe, acked, redis, brief, req, visit, faults, history>>

\* Stripe, or the one commit, failed.
SweepFails ==
    /\ sweep.pc # "idle" /\ Fault /\ sweep' = Quiet
    /\ UNCHANGED <<stripe, acked, redis, local, req, visit, history>>

-----------------------------------------------------------------------------
(* checkout_success: she comes back to the site, once or again             *)

\* The session and the subscription are retrieved.
VisitFetch ==
    /\ visit.pc = "idle" /\ Creation \subseteq sent
    /\ visit' = [pc |-> "sync", val |-> remote]
    /\ UNCHANGED <<stripe, acked, redis, local, req, sweep, faults, history>>

\* sync_subscription_to_db, without the handlers' _reactivate_user_briefings: the row is
\* loaded and inserted or written. A row that was not there at the load, or had this
\* status, is left as it is.
VisitSync ==
    /\ visit.pc = "sync" /\ visit' = Quiet
    /\ sub' \in {visit.val} \cup ({sub} \ {None})
    /\ UNCHANGED <<stripe, acked, redis, brief, req, sweep, faults, history>>

\* Stripe or the database failed, or the plan is unknown.
VisitFails ==
    /\ visit.pc # "idle" /\ Fault /\ visit' = Quiet
    /\ UNCHANGED <<stripe, acked, redis, local, req, sweep, history>>

-----------------------------------------------------------------------------
Work(w) ==
    \/ Deliver(w) \/ Duplicate(w) \/ Claim(w) \/ FailOpen(w) \/ Dismiss(w)
    \/ Load(w) \/ Fetch(w) \/ FetchFails(w) \/ Write(w) \/ PlanUnknown(w)
    \/ SetBriefings(w) \/ Refuse(w) \/ Finish(w) \/ FinishUnmarked(w)

Sweep == SweepLoad \/ SweepFetch \/ SweepCommit

Next ==
    \/ PaymentFails \/ Recovers \/ Pauses \/ Resumes \/ Cancels
    \/ \E w \in Worker : Work(w) \/ Crash(w)
    \/ \E e \in sent : KeyExpires(e)
    \/ Sweep \/ SweepFails
    \/ VisitFetch \/ VisitSync \/ VisitFails

Spec == Init /\ [][Next]_vars

\* Stripe sends again until it is answered, a request is served to its end, and the
\* reconciliation runs every day.
FairSpec ==
    /\ Spec /\ WF_vars(Sweep)
    /\ \A w \in Worker : WF_vars(Work(w))

-----------------------------------------------------------------------------
(* Properties                                                              *)

\* Stripe is told to stop sending an event only when it was handled, when its handler gave
\* it up, or when a delivery was dismissed for the claim of another: that one is at it
\* yet, or broke off, and then the event is lost.
AckedIsHandled ==
    \A e \in acked : e \in handled \cup givenUp \cup broken \/ Handlers(e) # {}

\* The keys do their work: an event is handled twice only when a delivery claimed it that
\* had asked before it was marked, when its claim ran out under its handler, or when
\* Redis failed.
HandledOnce == again \subseteq excused

\* No row came of the checkout: both events of creation were given up or lost, as by a
\* price no plan has, which fails every writer. The reconciliation sweeps only rows.
Unrecorded == sub = None /\ Creation \subseteq acked \ handled

\* The row comes to Stripe's status for good, in whatever order the events, their
\* stale reads, her visits and the reconciliation write, unless it was never made.
Converges == <>[](sub = remote \/ Unrecorded)

\* Events handled each in its turn leave the briefings active as long as the
\* subscription gives access to them, and paused when it does not.
BriefingsFollow ==
    <>[](\/ disorder \/ acked \ handled # {}
         \/ (brief = "active") = (remote \in Access))

=============================================================================
