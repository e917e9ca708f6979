-------------------------- MODULE VotePersistence --------------------------
(***************************************************************************)
(* The votes on one statement and its denormalised counters.  Three kinds  *)
(* of request write both: a vote (discussions/statements.py), the answer   *)
(* to the daily question linked to the statement (daily/routes.py) and the *)
(* merge of a browser's votes into the account that logs in               *)
(* (models/discussions.py).  A job of the scheduler compares the counters  *)
(* with the rows every ten minutes and repairs them.                       *)
(*                                                                         *)
(* A request is two steps: its reads, and its commit.  Its UPDATEs of the  *)
(* statement hold the row's lock until the commit, so they count as there. *)
(***************************************************************************)
EXTENDS Integers, FiniteSets

CONSTANTS
    User, Browser,       \* accounts, and session fingerprints of browsers
    VoteReq,           \* bound: requests to vote,
    DailyReq,          \*   to answer the daily question,
    MergeReq,          \*   to log in; each is made once
    Value              \* agree, disagree, unsure

ASSUME ConstantsAssumption ==
    /\ User \cap Browser = {}
    /\ VoteReq \cap DailyReq = {} /\ VoteReq \cap MergeReq = {} /\ DailyReq \cap MergeReq = {}
    /\ IsFiniteSet(VoteReq) /\ IsFiniteSet(DailyReq)

Voter == User \cup Browser
Row   == VoteReq \cup DailyReq     \* a row is named by the request that inserts it
Req   == Row \cup MergeReq

VARIABLES
    holder, vote,      \* statement_vote: whose a row is ({} if there is none), its vote
    count,             \* vote_count_agree, vote_count_disagree, vote_count_unsure
    answered,          \* voters with a response to the daily question
    pc, ask,           \* each request: where it is, and what it asks for and has read
    rec, tallied,      \* the reconciliation: where it is, the tally it has read
    raced,             \* history: requests overtaken since they read
    blind              \* history: a counter was written by a request that was overtaken

rowVars == <<holder, vote>>
reqVars == <<pc, ask>>
recVars == <<rec, tallied>>
vars == <<rowVars, count, answered, reqVars, recVars, raced, blind>>

Counts == [Value -> Nat]
Ask == [who  : Voter,                \* the identity of the vote
        into : Voter,                \* a merge's account (the identity again otherwise)
        val  : Value,
        seen : SUBSET Row,           \* the row found
        old  : SUBSET Value,         \* its vote
        had  : BOOLEAN,              \* a merge: the account has a vote already
        base : Counts]               \* the counters as loaded

TypeOK ==
    /\ holder \in [Row -> SUBSET Voter] /\ vote \in [Row -> Value]
    /\ count \in Counts
    /\ answered \subseteq Voter
    /\ pc \in [Req -> {"idle", "open", "tracking", "done"}]
    /\ ask \in [Req -> SUBSET Ask]
    /\ rec \in {"idle", "drift", "tallied"} /\ tallied \in SUBSET Counts
    /\ raced \subseteq Req /\ blind \in BOOLEAN

Init ==
    /\ holder = [r \in Row |-> {}]
    /\ \E x \in Value : vote = [r \in Row |-> x]
    /\ count = [c \in Value |-> 0]
    /\ answered = {}
    /\ pc = [q \in Req |-> "idle"] /\ ask = [q \in Req |-> {}]
    /\ rec = "idle" /\ tallied = {}
    /\ raced = {} /\ blind = FALSE

RowsOf(v) == {r \in Row : v \in holder[r]}
VotesOf(R) == {vote[r] : r \in R}
Voted(c) == {r \in Row : holder[r] # {} /\ vote[r] = c}
Tally == [c \in Value |-> Cardinality(Voted(c))]

Begin(q, a) ==
    /\ pc[q] = "idle"
    /\ pc' = [pc EXCEPT ![q] = "open"] /\ ask' = [ask EXCEPT ![q] = {a}]
    /\ UNCHANGED <<rowVars, count, answered, recVars, raced, blind>>

End(q) == pc' = [pc EXCEPT ![q] = "done"] /\ ask' = [ask EXCEPT ![q] = {}]

\* max(0, n), GREATEST(0, n)
AtLeast0(n) == IF n < 0 THEN 0 ELSE n

\* The counters after a vote changes from one of old (none if it is new) to x.
Moved(c, old, x) ==
    [y \in Value |-> IF old = {x} THEN c[y]
                     ELSE IF y = x THEN c[y] + 1
                     ELSE IF y \in old THEN AtLeast0(c[y] - 1) ELSE c[y]]

\* The ORM writes the columns that differ from what was loaded.
Flush(new, base) ==
    count' = [c \in Value |-> IF new[c] = base[c] THEN count[c] ELSE new[c]]

InsertRow(q, v, x) ==
    /\ holder' = [holder EXCEPT ![q] = {v}] /\ vote' = [vote EXCEPT ![q] = x]

UpdateRow(r, x) == vote' = [vote EXCEPT ![r] = x] /\ UNCHANGED holder

\* History: q commits and overtakes the requests in O; it may itself have been
\* overtaken.
Overtake(q, O) ==
    /\ raced' = raced \cup (O \ {q})
    /\ blind' = (blind \/ q \in raced)

OpenVotes == {q \in VoteReq : pc[q] = "open"}

\* pg_advisory_xact_lock: no open vote of the identity holds it.
LockFree(v) == \A o \in OpenVotes : \A b \in ask[o] : b.who # v

InFlight == {q \in Req : pc[q] \in {"open", "tracking"}}

-----------------------------------------------------------------------------
(* A vote                                                                  *)

VoteBeginUnlocked(q) ==    \* mutant: no advisory lock
    \E v \in Voter, x \in Value :
        Begin(q, [who |-> v, into |-> v, val |-> x, seen |-> {}, old |-> VotesOf(RowsOf(v)),
                  had |-> FALSE, base |-> [c \in Value |-> 0]])

\* The advisory lock of the identity is taken, then its vote is read.
VoteBegin(q) ==
    \E v \in Voter, x \in Value :
        /\ LockFree(v)
        /\ Begin(q, [who |-> v, into |-> v, val |-> x, seen |-> {}, old |-> VotesOf(RowsOf(v)),
                     had |-> FALSE, base |-> [c \in Value |-> 0]])

\* Upsert, delta, commit.  If the counters changed, their returned values are set on
\* the statement, which is flushed by the next commit.
VoteCommit(q) ==
    /\ pc[q] = "open"
    /\ \E a \in ask[q] :
          /\ \/ RowsOf(a.who) = {} /\ InsertRow(q, a.who, a.val)
             \/ \E r \in RowsOf(a.who) : UpdateRow(r, a.val)
          /\ count' = Moved(count, a.old, a.val)
          /\ IF a.old = {a.val}
             THEN End(q)
             ELSE /\ pc' = [pc EXCEPT ![q] = "tracking"]
                  /\ ask' = [ask EXCEPT ![q] = {[a EXCEPT !.base = count']}]
    /\ Overtake(q, InFlight \ OpenVotes)
    /\ UNCHANGED <<answered, recVars>>

\* The commit of participant and event writes the counters as they were returned.
TrackCommit(q) ==
    /\ pc[q] = "tracking"
    /\ \E a \in ask[q] : count' = a.base
    /\ End(q)
    /\ Overtake(q, IF q \in raced THEN InFlight \ OpenVotes ELSE {})
    /\ UNCHANGED <<rowVars, answered, recVars>>

\* Tracking failed and was rolled back, the counters' values with it.
TrackFails(q) ==
    /\ pc[q] = "tracking"
    /\ End(q)
    /\ UNCHANGED <<rowVars, count, answered, recVars, raced, blind>>

-----------------------------------------------------------------------------
(* The answer to the daily question                                        *)

DailyBegin(q) ==
    \E v \in Voter \ answered, x \in Value :
        Begin(q, [who |-> v, into |-> v, val |-> x, seen |-> RowsOf(v),
                  old |-> VotesOf(RowsOf(v)), had |-> FALSE, base |-> count])

\* The response and the row each have a unique index; a row read before is written
\* by its primary key, whoever has it now, but it must still be there.
DailyAllowed(a) ==
    /\ a.who \notin answered
    /\ a.seen = {} => RowsOf(a.who) = {}
    /\ a.old # {a.val} => \A r \in a.seen : holder[r] # {}

DailyCommit(q) ==
    /\ pc[q] = "open"
    /\ \E a \in ask[q] :
          /\ DailyAllowed(a)
          /\ \/ a.seen = {} /\ InsertRow(q, a.who, a.val)
             \/ a.old = {a.val} /\ UNCHANGED rowVars
             \/ a.old # {a.val} /\ \E r \in a.seen : UpdateRow(r, a.val)
          /\ Flush(Moved(a.base, a.old, a.val), a.base)
          /\ answered' = answered \cup {a.who}
    /\ End(q)
    /\ Overtake(q, InFlight)
    /\ UNCHANGED recVars

-----------------------------------------------------------------------------
(* The merge at login                                                      *)

\* A browser that has a vote; two accounts do not log in from one browser at once.
MergeBegin(q) ==
    \E u \in User, f \in Browser :
        /\ RowsOf(f) # {}
        /\ \A o \in MergeReq : \A b \in ask[o] : b.who = f => b.into = u
        /\ \E x \in VotesOf(RowsOf(f)) :
              Begin(q, [who |-> f, into |-> u, val |-> x, seen |-> RowsOf(f), old |-> {x},
                        had |-> RowsOf(u) # {}, base |-> count])

DropRowAlways(a) ==        \* mutant: whether the account has a vote is not looked at
    /\ holder' = [r \in Row |-> IF r \in a.seen THEN {} ELSE holder[r]]
    /\ Flush([c \in Value |-> IF c \in a.old THEN AtLeast0(a.base[c] - 1) ELSE a.base[c]], a.base)

\* The account keeps its vote, the browser's is deleted (or is already gone).
DropRow(a) ==
    /\ a.had
    /\ holder' = [r \in Row |-> IF r \in a.seen THEN {} ELSE holder[r]]
    /\ Flush([c \in Value |-> IF c \in a.old THEN AtLeast0(a.base[c] - 1) ELSE a.base[c]], a.base)

\* The row becomes the account's: it must still be there, and the account have no other.
MoveRow(a) ==
    /\ ~a.had
    /\ \A r \in a.seen : holder[r] # {}
    /\ RowsOf(a.into) \subseteq a.seen
    /\ holder' = [r \in Row |-> IF r \in a.seen THEN {a.into} ELSE holder[r]]
    /\ UNCHANGED count

MergeCommit(q) ==
    /\ pc[q] = "open"
    /\ \E a \in ask[q] : DropRow(a) \/ MoveRow(a)
    /\ End(q)
    /\ Overtake(q, InFlight)
    /\ UNCHANGED <<vote, answered, recVars>>

\* A unique index, a missing row or a lost connection: the request is rolled back.
Abort(q) ==
    /\ pc[q] = "open"
    /\ End(q)
    /\ UNCHANGED <<rowVars, count, answered, recVars, raced, blind>>

-----------------------------------------------------------------------------
(* reconcile_statement_vote_counters                                       *)

FindDriftUp ==             \* mutant: only counters that are too high are looked for
    /\ rec = "idle" /\ \E y \in Value : count[y] > Tally[y]
    /\ rec' = "drift"
    /\ UNCHANGED <<rowVars, count, answered, reqVars, tallied, raced, blind>>

\* Some counter differs from the rows.
FindDrift ==
    /\ rec = "idle" /\ count # Tally
    /\ rec' = "drift"
    /\ UNCHANGED <<rowVars, count, answered, reqVars, tallied, raced, blind>>

\* The UPDATE reads the rows, and may then wait for the lock of the statement.
ReadTally ==
    /\ rec = "drift"
    /\ rec' = "tallied" /\ tallied' = {Tally}
    /\ UNCHANGED <<rowVars, count, answered, reqVars, raced, blind>>

Repair ==
    /\ rec = "tallied"
    /\ \E t \in tallied : count' = t /\ blind' = (t # Tally)
    /\ rec' = "idle" /\ tallied' = {}
    /\ raced' = raced \cup (InFlight \ OpenVotes)
    /\ UNCHANGED <<rowVars, answered, reqVars>>

\* An exception: rolled back, and tried again ten minutes later.
RepairFails ==
    /\ rec # "idle"
    /\ rec' = "idle" /\ tallied' = {}
    /\ UNCHANGED <<rowVars, count, answered, reqVars, raced, blind>>

-----------------------------------------------------------------------------
VoteStep(q)  == VoteCommit(q) \/ TrackCommit(q) \/ TrackFails(q)

Finish ==
    \/ \E q \in VoteReq : VoteStep(q)
    \/ \E q \in DailyReq : DailyCommit(q)
    \/ \E q \in MergeReq : MergeCommit(q)
    \/ \E q \in Req : Abort(q)

Next ==
    \/ \E q \in VoteReq : VoteBegin(q)
    \/ \E q \in DailyReq : DailyBegin(q)
    \/ \E q \in MergeReq : MergeBegin(q)
    \/ Finish
    \/ FindDrift \/ ReadTally \/ Repair \/ RepairFails

Spec == Init /\ [][Next]_vars

\* Requests end, and the reconciliation does not fail for ever.
Fairness ==
    /\ WF_vars(Finish) /\ WF_vars(FindDrift)
    /\ SF_vars(ReadTally) /\ SF_vars(Repair)

FairSpec == Spec /\ Fairness

-----------------------------------------------------------------------------
(* Properties                                                              *)

\* The counters are exact at every moment unless a request wrote them that had been
\* overtaken: votes may overlap as they like, the advisory lock and the SQL deltas
\* keep them exact; whoever writes absolute values must not be overtaken.
CountsExact == ~blind => count = Tally

\* No step takes the vote of an identity away, but that of a browser whose account
\* has a vote after it: neither double logins nor votes during a merge lose one.
OpinionKept ==
    [][\A v \in Voter :
          RowsOf(v) # {} /\ RowsOf(v)' = {} =>
              \E q \in MergeReq : \E a \in ask[q] : a.who = v /\ RowsOf(a.into)' # {}]_vars

\* Once the requests are over the counters agree with the rows and stay so.
Converges == <>[](count = Tally)

=============================================================================
