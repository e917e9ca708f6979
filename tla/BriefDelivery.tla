---------------------------- MODULE BriefDelivery ----------------------------
(***************************************************************************)
(* Delivery of one paid-briefing edition (a BriefRun) to its recipients.   *)
(*                                                                         *)
(* The scheduler's send_approved_brief_runs job and any number of web      *)
(* requests (approve-and-send, send, skip) work on the same rows of        *)
(* brief_run and brief_email_send.  The only coordination between them is  *)
(* the guarded UPDATE of the run (approved -> sending) and the upsert that *)
(* claims one recipient.  Every action is one database transaction or one  *)
(* call to the mail provider, so another process, a crash or the clock can *)
(* come between any two of them.                                           *)
(*                                                                         *)
(* The clock counts units of which Stuck make up the 15 minutes after      *)
(* which a claim is given up.                                              *)
(***************************************************************************)
EXTENDS Integers, FiniteSets

CONSTANTS
    Recipient,        \* rows of brief_recipient for this briefing that stay (none is deleted)
    Early,            \* those with created_at <= brief_run.scheduled_at
    Sched,            \* processes running the scheduler job (one, if the leader lock holds)
    Web,              \* web requests that approve, skip or send
    MaxRunAttempts,   \* MAX_BRIEFRUN_SEND_ATTEMPTS
    MaxSendAttempts,  \* BriefEmailSend.MAX_SEND_ATTEMPTS
    ScheduledAt,      \* brief_run.scheduled_at
    Stuck,            \* STUCK_SENDING_MINUTES
    Stale,            \* stale_minutes of send_brief_run_to_all_recipients
    Expiry,           \* STALE_DAILY_HOURS or STALE_WEEKLY_HOURS, by cadence
    Answer,           \* what the provider may answer (see Deliver)
    Punctual,         \* TRUE: the job starts in every unit of time (see OnTime)
    MaxNow, MaxFaults, MaxRequests,   \* bounds of the model
    CalmAfter         \* bound: no request arrives later than this

Proc == Sched \cup Web

ASSUME ConstantsAssumption ==
    /\ Early \subseteq Recipient
    /\ Sched \cap Web = {}
    /\ MaxRunAttempts \in Nat \ {0}
    /\ MaxSendAttempts \in Nat \ {0, 1}
    /\ {ScheduledAt, Stuck, Stale, Expiry} \subseteq Nat
    /\ Stuck <= Stale
    /\ Answer \subseteq {"accepted", "refused", "invalid", "unanswered"}
    /\ Punctual \in BOOLEAN
    /\ {MaxNow, MaxFaults, MaxRequests, CalmAfter} \subseteq Nat

ASSUME FiniteAssumption == IsFiniteSet(Recipient)

VARIABLES
    status, sentAt, claimedAt, attempts, emails,   \* the brief_run row
    row,        \* brief_email_send, one row at most per recipient
    active,     \* recipients whose brief_recipient.status is 'active'
    pc, todo, hold, any, at, seen,   \* each process: where it is, recipients left,
                \* recipient being sent to, `sent > 0`, time of Prepare, status loaded
    phase, start,   \* each scheduler: phase of the job, its `now`
    now, faults, requests,
    calls, copies, lost,   \* history, read by properties only: calls to the provider,
    missed                 \* copies it accepted, accepted copies with no record;
                           \* recipients once inactive or whose claim failed

runVars  == <<status, sentAt, claimedAt, attempts, emails>>
envVars  == <<now, faults, requests>>
histVars == <<calls, copies, lost, missed>>
memVars  == <<todo, hold, any, at, seen>>
procVars == <<pc, memVars>>
jobVars  == <<phase, start>>
vars     == <<runVars, row, active, procVars, jobVars, envVars, histVars>>

Status  == {"generated_draft", "awaiting_approval", "approved", "sending",
            "sent", "skipped", "failed"}
RowSt   == {"none", "pending", "claimed", "sent", "failed", "permanently_failed"}
Calling == {"deliver", "accepted", "refused"}   \* a recipient is claimed in memory
ProcPc  == {"idle", "drafting", "editing", "claim", "check", "prepare", "list", "count",
            "loop", "finish"} \cup Calling
Phase   == {"idle", "expire", "clear", "exhausted", "select", "unstick",
            "giveup", "cleanup"}
Never   == -1

Row == [st : RowSt, at : Nat, n : Nat]

TypeOK ==
    /\ status \in Status /\ sentAt \in BOOLEAN
    /\ claimedAt \in Nat \cup {Never} /\ attempts \in Nat /\ emails \in Nat
    /\ row \in [Recipient -> Row]
    /\ active \subseteq Recipient
    /\ pc \in [Proc -> ProcPc]
    /\ todo \in [Proc -> SUBSET Recipient] /\ hold \in [Proc -> SUBSET Recipient]
    /\ any \in [Proc -> BOOLEAN] /\ at \in [Proc -> Nat] /\ seen \in [Proc -> Status]
    /\ phase \in [Sched -> Phase] /\ start \in [Sched -> Nat]
    /\ now \in Nat /\ faults \in Nat /\ requests \in Nat
    /\ calls \in [Recipient -> Nat] /\ copies \in [Recipient -> Nat]
    /\ lost \in [Recipient -> Nat] /\ missed \subseteq Recipient

Init ==
    /\ status \in {"generated_draft", "awaiting_approval", "approved"}
    /\ sentAt = FALSE /\ claimedAt = Never /\ attempts = 0 /\ emails = 0
    /\ row = [r \in Recipient |-> [st |-> "none", at |-> 0, n |-> 0]]
    /\ active = Recipient
    /\ \/ pc = [p \in Proc |-> "idle"]
       \/ \E w \in Web : /\ status = "approved"   \* a test run of an auto_send briefing
                         /\ pc = [p \in Proc |-> IF p = w THEN "drafting" ELSE "idle"]
    /\ todo = [p \in Proc |-> {}] /\ hold = [p \in Proc |-> {}]
    /\ any = [p \in Proc |-> FALSE] /\ at = [p \in Proc |-> 0]
    /\ seen = [p \in Proc |-> "sent"]
    /\ phase = [j \in Sched |-> "idle"] /\ start = [j \in Sched |-> 0]
    /\ now = 0 /\ faults = 0 /\ requests = 0
    /\ calls = [r \in Recipient |-> 0]
    /\ copies = [r \in Recipient |-> 0]
    /\ lost = [r \in Recipient |-> 0]
    /\ missed = {}

At(p, label)   == pc[p] = label
Move(p, label) == pc' = [pc EXCEPT ![p] = label]
Goto(p, label) == Move(p, label) /\ UNCHANGED memVars

\* The process returns and forgets what it held.
Rest(p) ==
    /\ Move(p, "idle")
    /\ todo' = [todo EXCEPT ![p] = {}] /\ hold' = [hold EXCEPT ![p] = {}]
    /\ any' = [any EXCEPT ![p] = FALSE] /\ at' = [at EXCEPT ![p] = 0]
    /\ seen' = [seen EXCEPT ![p] = "sent"]

Failed(s) == [st |-> "failed", at |-> s.at, n |-> s.n + 1]

-----------------------------------------------------------------------------
(* send_brief_run_emails: claim the run, check the subscription            *)

\* _claim_brief_run_for_sending won: one guarded UPDATE.
ClaimRun(p) ==
    /\ At(p, "claim")
    /\ status = "approved" /\ ~sentAt
    /\ status' = "sending" /\ claimedAt' = now /\ attempts' = attempts + 1
    /\ Goto(p, "check")
    /\ UNCHANGED <<sentAt, emails, row, active, jobVars, envVars, histVars>>

\* The status read first or the UPDATE's WHERE clause says no.
LoseRun(p) ==
    /\ At(p, "claim")
    /\ status # "approved" \/ sentAt
    /\ Rest(p)
    /\ UNCHANGED <<runVars, row, active, jobVars, envVars, histVars>>

\* _reset_brief_run_to_approved
ResetToApproved ==
    IF status = "sending"
    THEN status' = "approved" /\ claimedAt' = Never
    ELSE UNCHANGED <<status, claimedAt>>

Subscribed(p) ==
    /\ At(p, "check")
    /\ Goto(p, "prepare")
    /\ UNCHANGED <<runVars, row, active, jobVars, envVars, histVars>>

NotSubscribed(p) ==
    /\ At(p, "check")
    /\ ResetToApproved
    /\ Rest(p)
    /\ UNCHANGED <<sentAt, attempts, emails, row, active, jobVars, envVars, histVars>>

-----------------------------------------------------------------------------
(* send_brief_run_to_all_recipients                                        *)

FailStaleAny(s, cutoff) ==         \* mutant: AND status = 'claimed' is dropped
    IF s.st # "none" /\ s.at < cutoff
    THEN Failed(s) ELSE s

FailStaleInclusive(s, cutoff) ==   \* mutant: <= for <
    IF s.st = "claimed" /\ s.at <= cutoff
    THEN Failed(s) ELSE s

FailStale(s, cutoff) ==
    IF s.st = "claimed" /\ s.at < cutoff
    THEN Failed(s) ELSE s

GiveUp(s) ==
    IF s.st = "failed" /\ s.n >= MaxSendAttempts
    THEN [s EXCEPT !.st = "permanently_failed"] ELSE s

Reopen(s) ==
    IF s.st = "failed" /\ s.n < MaxSendAttempts
    THEN [s EXCEPT !.st = "pending"] ELSE s

\* The eligible recipients are loaded, then one transaction of three UPDATEs.
Prepare(p) ==
    /\ At(p, "prepare")
    /\ row' = [r \in Recipient |-> Reopen(GiveUp(FailStale(row[r], now - Stale)))]
    /\ Move(p, "list")
    /\ todo' = [todo EXCEPT ![p] = active \cap Early] /\ at' = [at EXCEPT ![p] = now]
    /\ UNCHANGED <<hold, any, seen>>
    /\ UNCHANGED <<runVars, active, jobVars, envVars, histVars>>

InProgress(s, cutoff) == s.st = "claimed" /\ s.at > cutoff
Handled(s, cutoff) == s.st \in {"sent", "permanently_failed"} \/ InProgress(s, cutoff)

List(p) ==
    LET left == {r \in todo[p] : ~Handled(row[r], at[p] - Stale)}
    IN  /\ At(p, "list")
        /\ Move(p, IF left = {} THEN "count" ELSE "loop")
        /\ todo' = [todo EXCEPT ![p] = left]
        /\ UNCHANGED <<runVars, row, active, hold, any, at, seen, jobVars, envVars, histVars>>

\* Nobody is left: leave the run to a sender in progress, or mark it sent.
Count(p) ==
    /\ At(p, "count")
    /\ IF \E r \in Recipient : InProgress(row[r], at[p] - Stale)
       THEN Rest(p) ELSE Goto(p, "finish")
    /\ UNCHANGED <<runVars, row, active, jobVars, envVars, histVars>>

\* Mutant: ON CONFLICT DO UPDATE without WHERE status = 'pending'.
ClaimableAny(s) == s.st # "sent"

\* The upsert of _claim_recipient_for_send inserts, or takes a pending row.
Claimable(s) == s.st \in {"none", "pending"}

\* A recipient whose row cannot be claimed is skipped.
ClaimRecipient(p) ==
    /\ At(p, "loop")
    /\ \E r \in todo[p] :
          /\ todo' = [todo EXCEPT ![p] = @ \ {r}]
          /\ IF Claimable(row[r])
             THEN /\ row' = [row EXCEPT ![r] =
                       [st |-> "claimed", at |-> now,
                        n |-> IF @.st = "none" THEN 1 ELSE @.n]]
                  /\ Move(p, "deliver") /\ hold' = [hold EXCEPT ![p] = {r}]
             ELSE UNCHANGED <<row, pc, hold>>
    /\ UNCHANGED <<runVars, active, any, at, seen, jobVars, envVars, histVars>>

\* send_brief_run: the provider accepts, refuses (a 422 also retires the
\* address), or accepts without the caller learning it.
Deliver(p) ==
    /\ At(p, "deliver")
    /\ \E r \in hold[p], answer \in Answer :
          /\ calls' = [calls EXCEPT ![r] = @ + 1]
          /\ copies' = IF answer \in {"accepted", "unanswered"}
                       THEN [copies EXCEPT ![r] = @ + 1] ELSE copies
          /\ lost' = IF answer = "unanswered" THEN [lost EXCEPT ![r] = @ + 1] ELSE lost
          /\ active' = IF answer = "invalid" THEN active \ {r} ELSE active
          /\ Goto(p, IF answer = "accepted" THEN "accepted" ELSE "refused")
    /\ UNCHANGED <<runVars, row, jobVars, envVars, missed>>

\* On to the next recipient.
Release(p) ==
    /\ Move(p, "loop") /\ hold' = [hold EXCEPT ![p] = {}]
    /\ UNCHANGED <<todo, at, seen>>

\* _mark_recipient_sent: emails_sent grows whether or not the row was still claimed.
RecordSent(p) ==
    /\ At(p, "accepted")
    /\ \E r \in hold[p] :
          row' = [row EXCEPT ![r] = IF @.st = "claimed" THEN [@ EXCEPT !.st = "sent"] ELSE @]
    /\ emails' = emails + 1
    /\ Release(p) /\ any' = [any EXCEPT ![p] = TRUE]
    /\ UNCHANGED <<status, sentAt, claimedAt, attempts, active, jobVars, envVars, histVars>>

RecordFailedUncounted(p) ==        \* mutant: attempt_count is not incremented
    /\ At(p, "refused")
    /\ \E r \in hold[p] : row' = [row EXCEPT ![r].st = "failed"]
    /\ Release(p) /\ UNCHANGED any
    /\ UNCHANGED <<runVars, active, jobVars, envVars, histVars>>

\* _mark_recipient_failed
RecordFailed(p) ==
    /\ At(p, "refused")
    /\ \E r \in hold[p] :
          row' = [row EXCEPT ![r] = IF @.st = "claimed" THEN Failed(@) ELSE @]
    /\ Release(p) /\ UNCHANGED any
    /\ UNCHANGED <<runVars, active, jobVars, envVars, histVars>>

EndLoopEarly(p) ==                 \* mutant: the loop ends at the first success
    /\ At(p, "loop") /\ (todo[p] = {} \/ any[p])
    /\ IF any[p] THEN Goto(p, "finish") ELSE Rest(p)
    /\ UNCHANGED <<runVars, row, active, jobVars, envVars, histVars>>

\* The loop is over: the run is marked sent only if some recipient was.
EndLoop(p) ==
    /\ At(p, "loop") /\ todo[p] = {}
    /\ IF any[p] THEN Goto(p, "finish") ELSE Rest(p)
    /\ UNCHANGED <<runVars, row, active, jobVars, envVars, histVars>>

\* _mark_brief_run_sent: WHERE sent_at IS NULL, whatever the status.
MarkRunSent(p) ==
    /\ At(p, "finish")
    /\ IF sentAt THEN UNCHANGED <<status, sentAt>>
                 ELSE status' = "sent" /\ sentAt' = TRUE
    /\ Rest(p)
    /\ UNCHANGED <<claimedAt, attempts, emails, row, active, jobVars, envVars, histVars>>

Send(p) ==
    \/ ClaimRun(p) \/ LoseRun(p) \/ Subscribed(p) \/ NotSubscribed(p)
    \/ Prepare(p) \/ List(p) \/ Count(p)
    \/ ClaimRecipient(p) \/ Deliver(p) \/ RecordSent(p) \/ RecordFailed(p)
    \/ EndLoop(p) \/ MarkRunSent(p)

-----------------------------------------------------------------------------
(* send_approved_brief_runs_job: six phases, each committed on its own     *)

Advance(j, next) == phase' = [phase EXCEPT ![j] = next] /\ UNCHANGED start
Sendable == status = "approved" /\ ~sentAt
FailRunIf(cond) ==
    IF cond THEN status' = "failed" /\ sentAt' = TRUE ELSE UNCHANGED <<status, sentAt>>

JobStart(j) ==
    /\ phase[j] = "idle"
    /\ phase' = [phase EXCEPT ![j] = "expire"] /\ start' = [start EXCEPT ![j] = now]
    /\ UNCHANGED <<runVars, row, active, procVars, envVars, histVars>>

ExpireStale(j) ==
    /\ phase[j] = "expire"
    /\ FailRunIf(Sendable /\ ScheduledAt < start[j] - Expiry)
    /\ Advance(j, "clear")
    /\ UNCHANGED <<claimedAt, attempts, emails, row, active, procVars, envVars, histVars>>

\* The briefing was deactivated, or has no active recipient left.
ClearUnsendable(j) ==
    /\ phase[j] = "clear"
    /\ \E inactive \in BOOLEAN :
          FailRunIf(Sendable /\ ScheduledAt <= start[j] /\ (inactive \/ active = {}))
    /\ Advance(j, "exhausted")
    /\ UNCHANGED <<claimedAt, attempts, emails, row, active, procVars, envVars, histVars>>

FailExhausted(j) ==
    /\ phase[j] = "exhausted"
    /\ FailRunIf(Sendable /\ attempts >= MaxRunAttempts)
    /\ Advance(j, "select")
    /\ UNCHANGED <<claimedAt, attempts, emails, row, active, procVars, envVars, histVars>>

\* The run is picked and the owner's subscription lets it through, or not.
Select(j) ==
    /\ phase[j] = "select" /\ At(j, "idle")
    /\ \/ /\ Sendable /\ ScheduledAt <= start[j] /\ attempts < MaxRunAttempts
          /\ Goto(j, "claim")
       \/ UNCHANGED procVars
    /\ Advance(j, "unstick")
    /\ UNCHANGED <<runVars, row, active, envVars, histVars>>

StuckSending(j) ==
    /\ status = "sending" /\ ~sentAt
    /\ IF claimedAt = Never THEN ScheduledAt < start[j] - Stuck
                            ELSE claimedAt < start[j] - Stuck

\* Runs once the send started by Select has returned.
RecoverStuck(j) ==
    /\ phase[j] = "unstick" /\ At(j, "idle")
    /\ IF StuckSending(j) /\ attempts < MaxRunAttempts
       THEN status' = "approved" /\ claimedAt' = Never
       ELSE UNCHANGED <<status, claimedAt>>
    /\ Advance(j, "giveup")
    /\ UNCHANGED <<sentAt, attempts, emails, row, active, procVars, envVars, histVars>>

FailStuckLate(j) ==                \* mutant: > for >=
    /\ phase[j] = "giveup"
    /\ FailRunIf(StuckSending(j) /\ attempts > MaxRunAttempts)
    /\ Advance(j, "cleanup")
    /\ UNCHANGED <<claimedAt, attempts, emails, row, active, procVars, envVars, histVars>>

FailStuck(j) ==
    /\ phase[j] = "giveup"
    /\ FailRunIf(StuckSending(j) /\ attempts >= MaxRunAttempts)
    /\ Advance(j, "cleanup")
    /\ UNCHANGED <<claimedAt, attempts, emails, row, active, procVars, envVars, histVars>>

CleanClaimsNot(j) ==               \* mutant: stale claims are not failed
    /\ phase[j] = "cleanup"
    /\ row' = [r \in Recipient |-> GiveUp(row[r])]
    /\ Advance(j, "idle")
    /\ UNCHANGED <<runVars, active, procVars, envVars, histVars>>

CleanClaims(j) ==
    /\ phase[j] = "cleanup"
    /\ row' = [r \in Recipient |-> GiveUp(FailStale(row[r], start[j] - Stuck))]
    /\ Advance(j, "idle")
    /\ UNCHANGED <<runVars, active, procVars, envVars, histVars>>

JobStep(j) ==
    \/ JobStart(j) \/ ExpireStale(j) \/ ClearUnsendable(j) \/ FailExhausted(j)
    \/ Select(j) \/ RecoverStuck(j) \/ FailStuck(j) \/ CleanClaims(j)

-----------------------------------------------------------------------------
(* Web requests: edit_run (approve, skip) and send_run                     *)

NewRequest ==
    /\ requests < MaxRequests /\ now <= CalmAfter
    /\ requests' = requests + 1

\* edit_run loads the run; what it loaded decides what its commit writes.
LoadForEdit(w) ==
    /\ At(w, "idle")
    /\ NewRequest
    /\ Move(w, "editing") /\ seen' = [seen EXCEPT ![w] = status]
    /\ UNCHANGED <<todo, hold, any, at, runVars, row, active, jobVars, now, faults, histVars>>

\* The ORM writes the status column only if it differs from the loaded value.
Approve(w) ==
    /\ At(w, "editing")
    /\ status' = IF seen[w] = "approved" THEN status ELSE "approved"
    /\ Goto(w, "claim") \/ Rest(w)       \* send now, or leave it to the job
    /\ UNCHANGED <<sentAt, claimedAt, attempts, emails, row, active, jobVars, envVars, histVars>>

Skip(w) ==
    /\ At(w, "editing")
    /\ status' = IF seen[w] = "skipped" THEN status ELSE "skipped"
    /\ Rest(w)
    /\ UNCHANGED <<sentAt, claimedAt, attempts, emails, row, active, jobVars, envVars, histVars>>

SendRun(w) ==
    /\ At(w, "idle")
    /\ NewRequest
    /\ status = "approved"
    /\ Goto(w, "claim")
    /\ UNCHANGED <<runVars, row, active, jobVars, now, faults, histVars>>

\* test_generate and process_generation_job: the generator has committed the
\* run as approved, only the next commit makes it a draft.
Redraft(w) ==
    /\ At(w, "drafting")
    /\ status' = "generated_draft"
    /\ Rest(w)
    /\ UNCHANGED <<sentAt, claimedAt, attempts, emails, row, active, jobVars, envVars, histVars>>

WebStep(w) ==
    LoadForEdit(w) \/ Approve(w) \/ Skip(w) \/ SendRun(w) \/ Redraft(w)

-----------------------------------------------------------------------------
(* Failures and the passage of time                                        *)

NewFault == faults < MaxFaults /\ faults' = faults + 1

\* A worker is recycled or killed; a scheduler loses its job with it.
Crash(p) ==
    /\ pc[p] # "idle" \/ (p \in Sched /\ phase[p] # "idle")
    /\ NewFault
    /\ Rest(p)
    /\ lost' = [r \in Recipient |->
                  IF At(p, "accepted") /\ r \in hold[p]
                  THEN lost[r] + 1 ELSE lost[r]]
    /\ IF p \in Sched THEN Advance(p, "idle") ELSE UNCHANGED jobVars
    /\ UNCHANGED <<runVars, row, active, now, requests, calls, copies, missed>>

\* An exception before or between two recipients: the run goes back to approved.
Abort(p) ==
    /\ \/ pc[p] \in {"prepare", "list", "count"}
       \/ At(p, "loop") /\ todo[p] # {}
    /\ NewFault
    /\ ResetToApproved
    /\ Rest(p)
    /\ UNCHANGED <<sentAt, attempts, emails, row, active, jobVars, now, requests, histVars>>

\* The claim of a recipient fails in the database: she is skipped.
MissRecipient(p) ==
    /\ At(p, "loop")
    /\ NewFault
    /\ \E r \in todo[p] : /\ todo' = [todo EXCEPT ![p] = @ \ {r}]
                          /\ missed' = missed \cup {r}
    /\ UNCHANGED <<pc, hold, any, at, seen, runVars, row, active, jobVars, now, requests, calls, copies, lost>>

\* The commit of _mark_recipient_sent or _mark_recipient_failed fails.
LoseRecord(p) ==
    /\ pc[p] \in {"accepted", "refused"}
    /\ NewFault
    /\ lost' = [r \in Recipient |->
                  IF At(p, "accepted") /\ r \in hold[p]
                  THEN lost[r] + 1 ELSE lost[r]]
    /\ Release(p) /\ any' = [any EXCEPT ![p] = @ \/ At(p, "accepted")]
    /\ UNCHANGED <<runVars, row, active, jobVars, now, requests, calls, copies, missed>>

\* A database error ends the send as it claims the run, reads the subscription or
\* marks the run sent: nothing is written, nothing is reset.
DbError(p) ==
    /\ pc[p] \in {"claim", "check", "finish"}
    /\ NewFault
    /\ Rest(p)
    /\ UNCHANGED <<runVars, row, active, jobVars, now, requests, histVars>>

\* The UPDATEs of a phase are rolled back and the job goes on to the next phase;
\* an error in RecoverStuck leaves out FailStuck, which shares its try block.
PhaseFails(j) ==
    LET next == [expire |-> "clear", clear |-> "exhausted", exhausted |-> "select",
                 select |-> "unstick", unstick |-> "cleanup", giveup |-> "cleanup",
                 cleanup |-> "idle"]
    IN  /\ phase[j] # "idle" /\ At(j, "idle")
        /\ NewFault
        /\ Advance(j, next[phase[j]])
        /\ UNCHANGED <<runVars, row, active, procVars, now, requests, histVars>>

\* A recipient unsubscribes, or is added again (which keeps her created_at).
ChangeRecipient(r) ==
    /\ NewRequest
    /\ active' = IF r \in active THEN active \ {r} ELSE active \cup {r}
    /\ missed' = missed \cup {r}
    /\ UNCHANGED <<runVars, row, procVars, jobVars, now, faults, calls, copies, lost>>

\* One call to the provider (three HTTP tries of 30 s at most) ends before
\* the claim it works under is old enough to be given up.
CallsAreShort ==
    \A p \in Proc : \A r \in hold[p] : row[r].at >= (now + 1) - Stuck

\* The job is started in every unit of time, the steps of a request between
\* its first read and its claim fit in one, and after CalmAfter so does a send.
OnTime ==
    /\ \A j \in Sched : start[j] = now \/ pc[j] # "idle"
    /\ \A p \in Proc : pc[p] \notin {"drafting", "editing", "claim", "check"}
    /\ now > CalmAfter => \A p \in Proc : At(p, "idle")

Tick ==
    /\ now < MaxNow
    /\ CallsAreShort
    /\ Punctual => OnTime
    /\ now' = now + 1
    /\ UNCHANGED <<runVars, row, active, procVars, jobVars, faults, requests, histVars>>

Fault(p) ==
    \/ Crash(p) \/ Abort(p) \/ MissRecipient(p) \/ LoseRecord(p) \/ DbError(p)
    \/ p \in Sched /\ PhaseFails(p)

Next ==
    \/ \E p \in Proc : Send(p) \/ Fault(p)
    \/ \E j \in Sched : JobStep(j)
    \/ \E w \in Web : WebStep(w)
    \/ \E r \in Recipient : ChangeRecipient(r)
    \/ Tick

Spec == Init /\ [][Next]_vars

\* The job is rescheduled for ever, a send or request that is not killed goes
\* on to its end, and time passes.
Fairness ==
    /\ \A j \in Sched : WF_vars(JobStep(j))
    /\ \A p \in Proc : WF_vars(Send(p))
    /\ \A w \in Web : WF_vars(Approve(w) \/ Skip(w) \/ Redraft(w))
    /\ WF_vars(Tick)

FairSpec == Spec /\ Fairness

-----------------------------------------------------------------------------
(* Properties                                                              *)

\* No two processes are ever sending to the same recipient: the upsert of
\* _claim_recipient_for_send excludes them although the run itself may be sent
\* by several (a stuck run recovered while its sender lives, a stale approve).
OneSenderPerRecipient ==
    \A p, q \in Proc : p # q => hold[p] \cap hold[q] = {}

\* A recipient gets a second copy only if the record of an earlier accepted
\* copy was lost (crash, failed commit, or an answer that never arrived).
DuplicateNeedsLostRecord ==
    \A r \in Recipient : copies[r] <= lost[r] + 1

\* Whatever crashes, retries and approvals happen, the mail provider is called
\* fewer than MAX_SEND_ATTEMPTS times for one recipient of one run.
SendsBounded ==
    \A r \in Recipient : calls[r] < MaxSendAttempts

\* brief_run.emails_sent is the number of rows recorded as sent, although
\* _mark_recipient_sent increments it without looking at the row it updates.
EmailsSentCountsRows ==
    emails = Cardinality({r \in Recipient : row[r].st = "sent"})

\* A run marked sent was tried for every eligible recipient, unless she was
\* inactive at some time or her claim failed in the database: also when several
\* senders share the run and one marks it sent while another still works.
SentRunTriedEveryone ==
    status = "sent" => \A r \in Early \ missed : row[r].st # "none"

\* A recipient's case, read from her row.
Case(s) ==
    IF s.st = "sent" THEN "delivered"
    ELSE IF s.st = "permanently_failed" THEN "abandoned" ELSE "open"

Outcome == [r \in Recipient |-> Case(row[r])]

\* Each recipient's case: at most MaxSendAttempts - 1 tries, delivered only
\* after a try, and never reopened once delivered or abandoned.
Ledger == INSTANCE DeliveryLedger WITH
    MaxSends <- MaxSendAttempts - 1, outcome <- Outcome, tries <- calls

\* The delivery implements the ledger.
ImplementsLedger == Ledger!Spec

\* An approved or claimed run does not stay open for ever: it is sent or failed,
\* or a user takes it back (skip, redraft).
RunResolves ==
    (status \in {"approved", "sending"} /\ ~sentAt) ~>
        (sentAt \/ status \notin {"approved", "sending"})

\* The claim of a recipient by a process that died is given up in the end, also
\* when the run itself has already been closed.
ClaimsResolve ==
    \A r \in Recipient : (row[r].st = "claimed") ~> (row[r].st # "claimed")

=============================================================================
