---------------------------- MODULE SocialPosting ----------------------------
(***************************************************************************)
(* Scheduled posts to Bluesky and X (trending/social_poster.py): each      *)
(* quarter of an hour, a thread per network of each scheduler instance     *)
(* claims a discussion that is due, posts it and confirms it.  Time is     *)
(* qualitative: posts fall due and grow old, claims grow stale, days end.  *)
(***************************************************************************)
EXTENDS Integers, FiniteSets

CONSTANTS
    Bsky, X,        \* discussions scheduled for Bluesky; for X
    Instance,       \* scheduler instances
    XInstance,      \* those with X_POSTING_ENABLED
    MaxPerDay,      \* BLUESKY_MAX_POSTS_PER_DAY
    MaxFaults       \* bound: crashes, failed commits, lost answers, slow posts

Post == Bsky \cup X
Nobody == {}

ASSUME ConstantsAssumption ==
    /\ Bsky \cap X = {} /\ XInstance \subseteq Instance /\ MaxPerDay \in Nat \ {0} /\ MaxFaults \in Nat
    /\ IsFiniteSet(Instance)

VARIABLES
    at,             \* each post's scheduled_at against the clock
    claim,          \* claimed_at: none, fresh, or over BLUESKY_STALE_CLAIM_MINUTES old
    posted, skipped,\* posted_at is set; skipped
    today,          \* posts to Bsky whose posted_at is of today
    pc, held, cur,  \* each thread: where it is, rows it is about to write, its post
    faults,
    published, sent,\* history: copies on the network; copies sent to Bluesky today
    crowd           \* history: the most instances counted in, not confirmed, at once today

rows == <<at, claim, posted, skipped, today>>
threads == <<pc, held, cur>>
vars == <<rows, threads, faults, published, sent, crowd>>

Thread == (Instance \X {"bluesky"}) \cup (XInstance \X {"x"})
Due(t) == IF t[2] = "x" THEN X ELSE Bsky
NoRows == [clear |-> {}, skip |-> {}]

TypeOK ==
    /\ at \in [Post -> {"unset", "due", "old"}]
    /\ claim \in [Post -> {"none", "fresh", "stale"}]
    /\ posted \subseteq Post /\ skipped \subseteq Bsky /\ today \subseteq posted \cap Bsky
    /\ pc \in [Thread -> {"idle", "reset", "skip", "skipping", "count",
                          "claim", "post", "confirm", "release"}]
    /\ held \in [Thread -> [clear : SUBSET Bsky, skip : SUBSET Bsky]]
    /\ cur \in [Thread -> SUBSET Post] /\ \A t \in Thread : Cardinality(cur[t]) <= 1
    /\ faults \in Nat /\ published \in [Post -> Nat] /\ sent \in Nat /\ crowd \in Nat

Init ==
    /\ at = [p \in Post |-> "unset"] /\ claim = [p \in Post |-> "none"]
    /\ posted = {} /\ skipped = {} /\ today = {}
    /\ pc = [t \in Thread |-> "idle"] /\ held = [t \in Thread |-> NoRows]
    /\ cur = [t \in Thread |-> Nobody]
    /\ faults = 0 /\ published = [p \in Post |-> 0] /\ sent = 0 /\ crowd = 0

Fault == faults < MaxFaults /\ faults' = faults + 1
Goto(t, label) == pc' = [pc EXCEPT ![t] = label]
Hold(t, clear, skip) == held' = [held EXCEPT ![t] = [clear |-> clear, skip |-> skip]]

-----------------------------------------------------------------------------
(* The job                                                                 *)

Stale == {p \in Bsky : claim[p] = "stale" /\ p \notin posted}

\* The job begins: for Bluesky the stale claims are loaded.
Begin(t) ==
    /\ pc[t] = "idle"
    /\ IF t[2] = "x" THEN Goto(t, "claim") /\ UNCHANGED held
       ELSE IF Stale = {} THEN Goto(t, "skip") /\ UNCHANGED held
       ELSE Goto(t, "reset") /\ Hold(t, Stale, {})
    /\ UNCHANGED <<rows, cur, faults, published, sent, crowd>>

\* The rows loaded are written: their claims are cleared, or they are skipped too.
WriteHeld(t) ==
    /\ claim' = [p \in Post |-> IF p \in held[t].clear THEN "none" ELSE claim[p]]
    /\ skipped' = skipped \cup held[t].skip

NoWrite == UNCHANGED <<claim, skipped>>

Reset(t) ==
    /\ pc[t] = "reset"
    /\ (WriteHeld(t) /\ UNCHANGED faults) \/ (NoWrite /\ Fault)
    /\ Goto(t, "skip") /\ Hold(t, {}, {})
    /\ UNCHANGED <<at, posted, today, cur, published, sent, crowd>>

OldClaimed ==              \* mutant: only what is also claimed is skipped
    {p \in Bsky : at[p] = "old" /\ p \notin posted \cup skipped /\ claim[p] # "none"}

Old == {p \in Bsky : at[p] = "old" /\ p \notin posted \cup skipped}

LoadOld(t) ==
    /\ pc[t] = "skip"
    /\ IF Old = {} THEN Goto(t, "count") /\ UNCHANGED held
       ELSE Goto(t, "skipping") /\ Hold(t, {p \in Old : claim[p] # "none"}, Old)
    /\ UNCHANGED <<rows, cur, faults, published, sent, crowd>>

Skip(t) ==
    /\ pc[t] = "skipping"
    /\ (WriteHeld(t) /\ UNCHANGED faults) \/ (NoWrite /\ Fault)
    /\ Goto(t, "count") /\ Hold(t, {}, {})
    /\ UNCHANGED <<at, posted, today, cur, published, sent, crowd>>

LimitPassed == Cardinality(today) > MaxPerDay  \* mutant: one post more than the limit

LimitReached == Cardinality(today) >= MaxPerDay

\* Instances that were counted in and have not confirmed a post yet.
Sending == {i \in Instance : pc[<<i, "bluesky">>] \in {"claim", "post", "confirm"}}

\* The posts confirmed today are counted once, before the claim.
Count(t) ==
    /\ pc[t] = "count"
    /\ Goto(t, IF LimitReached THEN "idle" ELSE "claim")
    /\ crowd' = IF Cardinality(Sending') > crowd THEN Cardinality(Sending') ELSE crowd
    /\ UNCHANGED <<rows, held, cur, faults, published, sent>>

ClaimableAny(t) ==         \* mutant: claimed_at is not looked at
    {p \in Due(t) : at[p] \in {"due", "old"} /\ p \notin posted \cup skipped}

Claimable(t) ==
    {p \in Due(t) : at[p] \in {"due", "old"} /\ claim[p] = "none" /\ p \notin posted \cup skipped}

\* SELECT FOR UPDATE SKIP LOCKED and the commit of the claim.
Claim(t) ==
    /\ pc[t] = "claim"
    /\ \/ /\ Claimable(t) = {}
          /\ Goto(t, "idle") /\ UNCHANGED <<claim, cur>>
       \/ \E p \in Claimable(t) :
             /\ claim' = [claim EXCEPT ![p] = "fresh"]
             /\ cur' = [cur EXCEPT ![t] = {p}] /\ Goto(t, "post")
    /\ UNCHANGED <<at, posted, skipped, today, held, faults, published, sent, crowd>>

Publish(p) ==
    /\ published' = [published EXCEPT ![p] = @ + 1]
    /\ sent' = IF p \in Bsky THEN sent + 1 ELSE sent

\* The network takes the post.  X refuses what reads the same as a post it has, which
\* counts as success; the text is drawn anew, so a copy may read the same or not.
Accept(t) ==
    /\ pc[t] = "post" /\ Goto(t, "confirm")
    /\ \E p \in cur[t] :
          Publish(p) \/ (p \in X /\ published[p] > 0 /\ UNCHANGED <<published, sent>>)
    /\ UNCHANGED <<rows, held, cur, faults, crowd>>

\* It does not; the daily limit of X is reached; or it does and the answer is lost,
\* after which the Bluesky client may post again.
Refuse(t) ==
    /\ pc[t] = "post"
    /\ \/ Goto(t, "release") /\ UNCHANGED <<faults, published, sent>>
       \/ /\ Fault /\ \E p \in cur[t] : Publish(p)
          /\ Goto(t, "release") \/ (t[2] = "bluesky" /\ UNCHANGED pc)
    /\ UNCHANGED <<rows, held, cur, crowd>>

\* X goes on with the next post, Bluesky has a limit of one for each run.
Leave(t) ==
    /\ Goto(t, IF t[2] = "x" THEN "claim" ELSE "idle")
    /\ cur' = [cur EXCEPT ![t] = Nobody]

\* The commit after the post: posted, or released for the next run.  If it fails the
\* claim stays.
Confirm(t) ==
    /\ pc[t] \in {"confirm", "release"}
    /\ \/ /\ claim' = [p \in Post |-> IF p \in cur[t] THEN "none" ELSE claim[p]]
          /\ IF pc[t] = "confirm"
             THEN posted' = posted \cup cur[t] /\ today' = today \cup (cur[t] \cap Bsky)
             ELSE UNCHANGED <<posted, today>>
          /\ UNCHANGED faults
       \/ UNCHANGED <<claim, posted, today>> /\ Fault
    /\ Leave(t)
    /\ UNCHANGED <<at, skipped, held, published, sent, crowd>>

Crash(t) ==
    /\ pc[t] # "idle" /\ Fault
    /\ Goto(t, "idle") /\ Hold(t, {}, {}) /\ cur' = [cur EXCEPT ![t] = Nobody]
    /\ UNCHANGED <<rows, published, sent, crowd>>

-----------------------------------------------------------------------------
(* Time                                                                    *)

\* schedule_bluesky_post and schedule_x_post give a time of today or tomorrow, which comes.
Schedule(p) ==
    /\ at[p] = "unset" /\ at' = [at EXCEPT ![p] = "due"]
    /\ UNCHANGED <<claim, posted, skipped, today, threads, faults, published, sent, crowd>>

\* The post has been due for BLUESKY_BACKLOG_SKIP_HOURS.
Ages(p) ==
    /\ at[p] = "due" /\ at' = [at EXCEPT ![p] = "old"]
    /\ UNCHANGED <<claim, posted, skipped, today, threads, faults, published, sent, crowd>>

\* A claim grows stale; while its thread lives, only a post slower than 30 minutes.
Stales(p) ==
    /\ claim[p] = "fresh"
    /\ IF \E t \in Thread : p \in cur[t] THEN Fault ELSE UNCHANGED faults
    /\ claim' = [claim EXCEPT ![p] = "stale"]
    /\ UNCHANGED <<at, posted, skipped, today, threads, published, sent, crowd>>

Midnight ==
    /\ today' = {} /\ sent' = 0 /\ crowd' = Cardinality(Sending)
    /\ UNCHANGED <<at, claim, posted, skipped, threads, faults, published>>

Step(t) ==
    \/ Begin(t) \/ Reset(t) \/ LoadOld(t) \/ Skip(t) \/ Count(t)
    \/ Claim(t) \/ Accept(t) \/ Refuse(t) \/ Confirm(t)

Next ==
    \/ \E t \in Thread : Step(t) \/ Crash(t)
    \/ \E p \in Post : Schedule(p)
    \/ \E p \in Bsky : Ages(p) \/ Stales(p)
    \/ Midnight

Spec == Init /\ [][Next]_vars

\* The job runs again and again, time passes, and X takes a post in the end; Bluesky
\* may refuse for ever, and days need not end.
Fairness ==
    /\ \A t \in Thread : WF_vars(Step(t)) /\ (t[2] = "x" => SF_vars(Accept(t)))
    /\ \A p \in Bsky : WF_vars(Ages(p) \/ Stales(p))

FairSpec == Spec /\ Fairness

-----------------------------------------------------------------------------
(* Properties                                                              *)

\* Each copy of a post beyond the first is paid for by a fault; a claim left by a fault
\* may be cleared by every instance, each time after another has taken it anew.
CopiesPaidFor == \A p \in Post : published[p] <= 1 + faults * Cardinality(Instance)

\* What is recorded as posted was published, whatever was lost or claimed again.
PostedWasPublished == \A p \in posted : published[p] > 0

\* A day's posts to Bluesky exceed the limit only by what other instances had yet to
\* confirm when one was counted in, and by a copy per instance for each failure: after
\* one, each may clear the claim that is left, and the copies sent then make no new row
\* of today.  An instance that posts alone keeps the limit.
LimitKept == sent <= MaxPerDay + crowd - 1 + faults * Cardinality(Instance)

\* A claim for X that its thread has left behind, of which there is no recovery.
Stuck(p) == p \in X /\ claim[p] # "none" /\ \A t \in Thread : p \notin cur[t]

\* Every post that falls due is posted or skipped in the end, but for what is stuck.
Settled(p) == p \in posted \cup skipped \/ Stuck(p)
Settles == []<>(\A p \in Post : at[p] = "unset" \/ Settled(p))
=============================================================================
