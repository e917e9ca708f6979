----------------------- MODULE VotePersistenceProofs -----------------------
(***************************************************************************)
(* Proofs about VotePersistence, for every number of voters and requests.  *)
(***************************************************************************)
EXTENDS VotePersistence, FiniteSetTheorems, TLAPS

\* A row has one holder, a voter one row.
UniqueRows ==
    /\ \A r \in Row : \A v, w \in holder[r] : v = w
    /\ \A r, s \in Row : holder[r] \cap holder[s] # {} => r = s

\* A request that has not committed has no row.
Fresh == \A r \in Row : pc[r] \in {"idle", "open"} => holder[r] = {}

\* What a request asks for, at most one thing, is of its kind.
AskShape ==
    \A q \in Req :
        /\ pc[q] \in {"idle", "done"} => ask[q] = {}
        /\ \A a, b \in ask[q] : a = b
        /\ pc[q] = "tracking" => q \in VoteReq
        /\ q \in MergeReq => \A a \in ask[q] : a.who \in Browser /\ a.into \in User

\* The advisory lock: no two open votes of one identity.
Locked ==
    \A q, o \in OpenVotes : \A a \in ask[q] : \A b \in ask[o] : a.who = b.who => q = o

\* What a request that was not overtaken has read is still so.
Current ==
    \A q \in Req \ raced : \A a \in ask[q] :
        IF pc[q] = "tracking" THEN a.base = count
        ELSE /\ a.old = VotesOf(RowsOf(a.who))
             /\ q \notin VoteReq => a.base = count /\ a.seen = RowsOf(a.who)
             /\ q \in MergeReq => a.had = (RowsOf(a.into) # {})

\* The rows a merge has read stay its browser's or become its account's; another
\* merge that has read them is the same browser's and account's; and an account
\* that had a vote keeps one beside them.
Merging ==
    \A q \in MergeReq : \A a \in ask[q] :
        /\ \A r, s \in a.seen : r = s
        /\ \A r \in a.seen : holder[r] \subseteq {a.who, a.into} /\ pc[r] \notin {"idle", "open"}
        /\ a.had => \E r \in Row \ a.seen : a.into \in holder[r]
        /\ \A n \in MergeReq : \A b \in ask[n] :
              a.seen \cap b.seen # {} => a.who = b.who /\ a.into = b.into

\* The inductive invariant of OpinionKept.
KeepInv == TypeOK /\ UniqueRows /\ Fresh /\ AskShape /\ Merging

\* The inductive invariant of CountsExact.
ExactInv == KeepInv /\ Locked /\ Current /\ CountsExact

USE DEF Req, Row, Voter

LEMMA TallyType == ASSUME TypeOK PROVE Tally \in Counts /\ \A c \in Value : IsFiniteSet(Voted(c))
<1>1. IsFiniteSet(Row)
  BY ConstantsAssumption, FS_Union
<1>2. \A c \in Value : IsFiniteSet(Voted(c))
  BY <1>1, FS_Subset DEF Voted
<1> QED BY <1>2, FS_CardinalityType DEF Tally, Counts

LEMMA MovedType ==
    ASSUME NEW c \in Counts, NEW old \in SUBSET Value, NEW x \in Value
    PROVE  Moved(c, old, x) \in Counts
BY DEF Moved, Counts, AtLeast0

LEMMA FlushType ==
    ASSUME TypeOK, NEW n \in Counts, NEW b \in Counts, Flush(n, b)
    PROVE  count' \in Counts
BY DEF Flush, Counts, TypeOK

\* A request that begins.
LEMMA TypeBegin ==
    ASSUME TypeOK, NEW q \in Req, NEW a \in Ask, Begin(q, a)
    PROVE  TypeOK'
BY DEF TypeOK, Begin, rowVars, recVars

LEMMA TypeNext == TypeOK /\ [Next]_vars => TypeOK'
<1> SUFFICES ASSUME TypeOK, [Next]_vars PROVE TypeOK' OBVIOUS
<1> USE DEF rowVars, reqVars, recVars
<1>1. ASSUME NEW q \in VoteReq, VoteBegin(q) PROVE TypeOK'
  <2>1. PICK v \in Voter, x \in Value :
          Begin(q, [who |-> v, into |-> v, val |-> x, seen |-> {}, old |-> VotesOf(RowsOf(v)),
                    had |-> FALSE, base |-> [c \in Value |-> 0]])
    BY <1>1 DEF VoteBegin
  <2>2. VotesOf(RowsOf(v)) \subseteq Value
    BY DEF VotesOf, RowsOf, TypeOK
  <2> QED BY <2>1, <2>2, TypeBegin DEF Ask, Counts
<1>2. ASSUME NEW q \in DailyReq, DailyBegin(q) PROVE TypeOK'
  <2>1. PICK v \in Voter, x \in Value :
          Begin(q, [who |-> v, into |-> v, val |-> x, seen |-> RowsOf(v),
                    old |-> VotesOf(RowsOf(v)), had |-> FALSE, base |-> count])
    BY <1>2 DEF DailyBegin
  <2>2. VotesOf(RowsOf(v)) \subseteq Value /\ RowsOf(v) \subseteq Row
    BY DEF VotesOf, RowsOf, TypeOK
  <2> QED BY <2>1, <2>2, TypeBegin DEF Ask, TypeOK
<1>3. ASSUME NEW q \in MergeReq, MergeBegin(q) PROVE TypeOK'
  <2>1. PICK u \in User, f \in Browser :
          \E x \in VotesOf(RowsOf(f)) :
             Begin(q, [who |-> f, into |-> u, val |-> x, seen |-> RowsOf(f), old |-> {x},
                       had |-> RowsOf(u) # {}, base |-> count])
    BY <1>3 DEF MergeBegin
  <2>3. PICK x \in VotesOf(RowsOf(f)) :
          Begin(q, [who |-> f, into |-> u, val |-> x, seen |-> RowsOf(f), old |-> {x},
                    had |-> RowsOf(u) # {}, base |-> count])
    BY <2>1
  <2>2. x \in Value /\ RowsOf(f) \subseteq Row
    BY DEF VotesOf, RowsOf, TypeOK
  <2> QED BY <2>2, <2>3, TypeBegin DEF Ask, TypeOK
<1>4. ASSUME NEW q \in VoteReq, VoteCommit(q) PROVE TypeOK'
  <2>1. PICK a \in ask[q] :
          /\ \/ InsertRow(q, a.who, a.val)
             \/ \E r \in RowsOf(a.who) : UpdateRow(r, a.val)
          /\ count' = Moved(count, a.old, a.val)
          /\ IF a.old = {a.val}
             THEN End(q)
             ELSE /\ pc' = [pc EXCEPT ![q] = "tracking"]
                  /\ ask' = [ask EXCEPT ![q] = {[a EXCEPT !.base = count']}]
    BY <1>4 DEF VoteCommit
  <2>2. a \in Ask BY DEF TypeOK
  <2>3. count' \in Counts BY <2>1, <2>2, MovedType DEF TypeOK, Ask
  <2>4. holder' \in [Row -> SUBSET Voter] /\ vote' \in [Row -> Value]
    BY <2>1, <2>2 DEF TypeOK, InsertRow, UpdateRow, RowsOf, Ask
  <2>5. [a EXCEPT !.base = count'] \in Ask BY <2>2, <2>3 DEF Ask
  <2>6. pc' \in [Req -> {"idle", "open", "tracking", "done"}] /\ ask' \in [Req -> SUBSET Ask]
    BY <2>1, <2>5 DEF TypeOK, End
  <2> QED BY <1>4, <2>3, <2>4, <2>6 DEF TypeOK, VoteCommit, Overtake, InFlight, OpenVotes
<1>5. ASSUME NEW q \in VoteReq, TrackCommit(q) \/ TrackFails(q) PROVE TypeOK'
  <2>1. count' \in Counts
    BY <1>5 DEF TypeOK, TrackCommit, TrackFails, Ask
  <2> QED BY <1>5, <2>1 DEF TypeOK, TrackCommit, TrackFails, End, Overtake, InFlight, OpenVotes
<1>6. ASSUME NEW q \in DailyReq, DailyCommit(q) PROVE TypeOK'
  <2>1. PICK a \in ask[q] :
          /\ \/ a.seen = {} /\ InsertRow(q, a.who, a.val)
             \/ a.old = {a.val} /\ UNCHANGED rowVars
             \/ a.old # {a.val} /\ \E r \in a.seen : UpdateRow(r, a.val)
          /\ Flush(Moved(a.base, a.old, a.val), a.base)
          /\ answered' = answered \cup {a.who}
    BY <1>6 DEF DailyCommit
  <2>2. a \in Ask BY DEF TypeOK
  <2>3. a.base \in Counts /\ Moved(a.base, a.old, a.val) \in Counts
    BY <2>2, MovedType DEF Ask
  <2>4. count' \in Counts BY <2>1, <2>3, FlushType
  <2>5. holder' \in [Row -> SUBSET Voter] /\ vote' \in [Row -> Value]
    BY <2>1, <2>2 DEF TypeOK, InsertRow, UpdateRow, RowsOf, Ask
  <2>6. answered' \subseteq Voter BY <2>1, <2>2 DEF TypeOK, Ask
  <2> QED BY <1>6, <2>4, <2>5, <2>6 DEF TypeOK, DailyCommit, End, Overtake, InFlight
<1>7. ASSUME NEW q \in MergeReq, MergeCommit(q) PROVE TypeOK'
  <2>1. PICK a \in ask[q] : DropRow(a) \/ MoveRow(a)
    BY <1>7 DEF MergeCommit
  <2>2. a \in Ask BY DEF TypeOK
  <2>3. count' \in Counts
    <3>1. CASE MoveRow(a) BY <3>1 DEF MoveRow, TypeOK
    <3>2. CASE DropRow(a)
      <4> DEFINE n == [c \in Value |-> IF c \in a.old THEN AtLeast0(a.base[c] - 1) ELSE a.base[c]]
      <4>1. n \in Counts /\ a.base \in Counts BY <2>2 DEF Ask, Counts, AtLeast0
      <4>2. Flush(n, a.base) BY <3>2 DEF DropRow
      <4> HIDE DEF n
      <4> QED BY <4>1, <4>2, FlushType
    <3> QED BY <2>1, <3>1, <3>2
  <2>4. holder' \in [Row -> SUBSET Voter]
    BY <2>1, <2>2 DEF DropRow, MoveRow, TypeOK, Ask
  <2> QED BY <1>7, <2>3, <2>4 DEF TypeOK, MergeCommit, End, Overtake, InFlight
<1>8. ASSUME NEW q \in Req, Abort(q) PROVE TypeOK'
  BY <1>8 DEF Abort, End, TypeOK
<1>9. CASE FindDrift \/ RepairFails
  BY <1>9 DEF FindDrift, RepairFails, TypeOK
<1>10. CASE ReadTally
  BY <1>10, TallyType DEF ReadTally, TypeOK
<1>11. CASE Repair
  BY <1>11 DEF Repair, TypeOK, InFlight, OpenVotes
<1>12. CASE UNCHANGED vars
  BY <1>12 DEF vars, TypeOK
<1> QED BY <1>1, <1>2, <1>3, <1>4, <1>5, <1>6, <1>7, <1>8, <1>9, <1>10, <1>11, <1>12
        DEF Next, Finish, VoteStep

LEMMA InitType == Init => TypeOK
<1> SUFFICES ASSUME Init PROVE TypeOK OBVIOUS
<1>1. vote \in [Row -> Value] BY DEF Init
<1>2. count \in Counts BY DEF Init, Counts
<1> QED BY <1>1, <1>2 DEF Init, TypeOK

\* The rows, the counters, the requests and the reconciliation keep their types; in
\* particular no counter is ever negative.
THEOREM TypeCorrect == Spec => []TypeOK
BY InitType, TypeNext, PTL DEF Spec

-----------------------------------------------------------------------------
(* No opinion is lost                                                      *)

LEMMA InitKeep == Init => KeepInv
BY InitType DEF Init, KeepInv, UniqueRows, Fresh, AskShape, Merging

\* A vote or an answer commits: the rows it may write.
WritesRow(q, v, x) ==
    \/ RowsOf(v) = {} /\ InsertRow(q, v, x)
    \/ \E r \in Row : holder[r] # {} /\ UpdateRow(r, x)
    \/ UNCHANGED rowVars

LEMMA WriteKeeps ==
    ASSUME KeepInv, TypeOK', NEW q \in Row, NEW v \in Voter, NEW x \in Value,
           pc[q] = "open", WritesRow(q, v, x),
           \/ End(q)
           \/ /\ q \in VoteReq /\ pc' = [pc EXCEPT ![q] = "tracking"]
              /\ \E a \in Ask : ask' = [ask EXCEPT ![q] = {a}]
    PROVE  KeepInv' /\ \A w \in Voter : RowsOf(w) # {} => RowsOf(w)' # {}
<1> USE DEF KeepInv
<1>1. holder' = holder \/ (RowsOf(v) = {} /\ holder[q] = {} /\ holder' = [holder EXCEPT ![q] = {v}])
  BY DEF WritesRow, InsertRow, UpdateRow, rowVars, Fresh
<1>2. \A r \in Row : holder[r] # {} => holder'[r] = holder[r]
  BY <1>1 DEF TypeOK
<1>3. \A w \in Voter : RowsOf(w) # {} => RowsOf(w)' # {}
  BY <1>2 DEF RowsOf
<1>4. \A r \in Req : r # q => pc'[r] = pc[r] /\ ask'[r] = ask[r]
  BY DEF End, TypeOK
<1>5. pc'[q] \in {"tracking", "done"}
  BY DEF End, TypeOK
<1>6. UniqueRows'
  BY <1>1 DEF UniqueRows, TypeOK, RowsOf
<1>7. Fresh'
  BY <1>1, <1>4, <1>5 DEF Fresh, TypeOK
<1>8. AskShape'
  BY <1>4, ConstantsAssumption DEF AskShape, End, TypeOK
<1>9. Merging'
  <2> SUFFICES ASSUME NEW m \in MergeReq, NEW a \in ask'[m]
               PROVE  /\ \A n \in MergeReq : \A b \in ask'[n] :
                            a.seen \cap b.seen # {} => a.who = b.who /\ a.into = b.into
                      /\ \A r, s \in a.seen : r = s
                      /\ \A r \in a.seen : /\ holder'[r] \subseteq {a.who, a.into}
                                           /\ pc'[r] \notin {"idle", "open"}
                      /\ a.had => \E r \in Row \ a.seen : a.into \in holder'[r]
    BY DEF Merging
  <2>1. m # q /\ a \in ask[m] /\ a \in Ask
    BY <1>4, ConstantsAssumption DEF TypeOK
  <2>2. ASSUME NEW r \in a.seen
        PROVE  r \in Row /\ r # q /\ holder'[r] = holder[r] /\ pc'[r] = pc[r]
    BY <2>1, <2>2, <1>1, <1>4 DEF Merging, Ask, TypeOK
  <2>3. \A r \in Row : holder[r] \subseteq holder'[r]
    BY <1>1 DEF TypeOK
  <2>4. \A n \in MergeReq : ask'[n] = ask[n]
    BY <1>4, ConstantsAssumption
  <2> QED BY <2>1, <2>2, <2>3, <2>4 DEF Merging
<1> QED BY <1>3, <1>6, <1>7, <1>8, <1>9

\* A request that begins: only a merge adds to what must be kept.
LEMMA BeginKeeps ==
    ASSUME KeepInv, TypeOK', NEW q \in Row, NEW a \in Ask, Begin(q, a)
    PROVE  KeepInv'
<1>1. \A r \in Row : pc'[r] \in {"idle", "open"} => pc[r] \in {"idle", "open"}
  BY DEF Begin, KeepInv, TypeOK
<1>2. \A m \in MergeReq : ask'[m] = ask[m] /\ pc'[m] = pc[m]
  BY ConstantsAssumption DEF Begin, KeepInv, TypeOK
<1>3. (UniqueRows /\ Fresh)'
  BY <1>1 DEF Begin, KeepInv, UniqueRows, Fresh, rowVars
<1>4. AskShape'
  BY ConstantsAssumption DEF Begin, KeepInv, AskShape, TypeOK
<1>5. Merging'
  <2>1. \A r \in Row : pc[r] \notin {"idle", "open"} => pc'[r] \notin {"idle", "open"}
    BY DEF Begin, KeepInv, TypeOK
  <2>2. \A m \in MergeReq : \A b \in ask[m] : b.seen \subseteq Row
    BY DEF KeepInv, TypeOK, Ask
  <2> QED BY <1>2, <2>1, <2>2 DEF Begin, KeepInv, Merging, rowVars
<1> QED BY <1>3, <1>4, <1>5 DEF KeepInv

LEMMA MergeBeginKeeps ==
    ASSUME KeepInv, TypeOK', NEW q \in MergeReq, MergeBegin(q)
    PROVE  KeepInv'
<1> USE DEF KeepInv
<1>1. PICK u \in User, f \in Browser :
        /\ \A o \in MergeReq : \A b \in ask[o] : b.who = f => b.into = u
        /\ \E x \in VotesOf(RowsOf(f)) :
              Begin(q, [who |-> f, into |-> u, val |-> x, seen |-> RowsOf(f), old |-> {x},
                        had |-> RowsOf(u) # {}, base |-> count])
  BY DEF MergeBegin
<1>2. PICK x \in VotesOf(RowsOf(f)) :
        Begin(q, [who |-> f, into |-> u, val |-> x, seen |-> RowsOf(f), old |-> {x},
                  had |-> RowsOf(u) # {}, base |-> count])
  BY <1>1
<1> DEFINE a == [who |-> f, into |-> u, val |-> x, seen |-> RowsOf(f), old |-> {x},
                 had |-> RowsOf(u) # {}, base |-> count]
<1>3. /\ holder' = holder /\ pc' = [pc EXCEPT ![q] = "open"] /\ ask' = [ask EXCEPT ![q] = {a}]
  BY <1>2 DEF Begin, rowVars
<1>4. a.who = f /\ a.into = u /\ a.seen = RowsOf(f) /\ a.had = (RowsOf(u) # {})
  OBVIOUS
<1> HIDE DEF a
<1>5. (UniqueRows /\ Fresh /\ AskShape)'
  BY <1>3, <1>4, ConstantsAssumption DEF UniqueRows, Fresh, AskShape, TypeOK
<1>6. \A r \in Row : pc'[r] = pc[r]
  BY <1>3, ConstantsAssumption DEF TypeOK
<1>7. /\ \A r, s \in a.seen : r = s
      /\ \A r \in a.seen : holder[r] \subseteq {a.who, a.into} /\ pc[r] \notin {"idle", "open"}
      /\ a.had => \E r \in Row \ a.seen : a.into \in holder[r]
  <2>1. \A r \in Row : r \in a.seen <=> f \in holder[r]
    BY <1>4 DEF RowsOf
  <2>2. \A r \in Row : f \in holder[r] => holder[r] = {f}
    BY DEF UniqueRows
  <2>3. a.had => \E r \in Row : u \in holder[r]
    BY <1>4 DEF RowsOf
  <2>4. a.seen \subseteq Row /\ u # f
    BY <1>4, ConstantsAssumption DEF RowsOf
  <2>5. \A r, s \in a.seen : r = s
    BY <2>1, <2>2, <2>4 DEF UniqueRows
  <2>6. a.had => \E r \in Row \ a.seen : u \in holder[r]
    BY <2>1, <2>2, <2>3, <2>4
  <2>7. \A r \in a.seen : holder[r] \subseteq {f} /\ pc[r] \notin {"idle", "open"}
    BY <2>1, <2>2, <2>4 DEF Fresh
  <2> QED BY <1>4, <2>5, <2>6, <2>7
<1>8. ASSUME NEW n \in MergeReq, NEW b \in ask[n], a.seen \cap b.seen # {}
      PROVE  a.who = b.who /\ a.into = b.into
  <2>1. PICK r \in Row : r \in RowsOf(f) /\ r \in b.seen
    BY <1>4, <1>8 DEF RowsOf
  <2>2. f \in {b.who, b.into} /\ b.into \in User
    BY <2>1 DEF RowsOf, Merging, AskShape
  <2> QED BY <1>1, <1>4, <2>2, ConstantsAssumption
<1>9. \A n \in MergeReq : \A b \in ask[n] : b.seen \subseteq Row
  BY DEF TypeOK, Ask
<1>10. Merging'
  <2> SUFFICES ASSUME NEW m \in MergeReq, NEW c \in ask'[m]
               PROVE  /\ \A r, s \in c.seen : r = s
                      /\ \A r \in c.seen : /\ holder[r] \subseteq {c.who, c.into}
                                           /\ pc'[r] \notin {"idle", "open"}
                      /\ c.had => \E r \in Row \ c.seen : c.into \in holder[r]
                      /\ \A n \in MergeReq : \A b \in ask'[n] :
                            c.seen \cap b.seen # {} => c.who = b.who /\ c.into = b.into
    BY <1>3 DEF Merging
  <2>1. \A n \in MergeReq : \A b \in ask'[n] : IF n = q THEN b = a ELSE b \in ask[n]
    BY <1>3 DEF TypeOK
  <2>2. CASE m = q
    <3>1. c = a BY <2>1, <2>2
    <3>2. a.seen \subseteq Row BY <1>4 DEF RowsOf
    <3> QED BY <1>6, <1>7, <1>8, <2>1, <3>1, <3>2
  <2>3. CASE m # q
    <3>1. c \in ask[m] BY <2>1, <2>3
    <3> QED BY <1>6, <1>8, <1>9, <2>1, <3>1 DEF Merging
  <2> QED BY <2>2, <2>3
<1> QED BY <1>5, <1>10

\* The commit of a merge takes rows only from its browser.
LEMMA MergeCommitKeeps ==
    ASSUME KeepInv, TypeOK', NEW q \in MergeReq, MergeCommit(q)
    PROVE  /\ KeepInv'
           /\ \A v \in Voter : RowsOf(v) # {} /\ RowsOf(v)' = {} =>
                 \E a \in ask[q] : a.who = v /\ RowsOf(a.into)' # {}
<1> USE DEF KeepInv
<1>1. PICK a \in ask[q] : DropRow(a) \/ MoveRow(a)
  BY DEF MergeCommit
<1>2. /\ a \in Ask /\ a.seen \subseteq Row /\ a.who \in Browser /\ a.into \in User /\ a.who # a.into
  BY ConstantsAssumption DEF TypeOK, Ask, AskShape
<1>3. pc' = [pc EXCEPT ![q] = "done"] /\ ask' = [ask EXCEPT ![q] = {}]
  BY DEF MergeCommit, End
<1>4. \A r \in Row : pc'[r] = pc[r]
  BY <1>3, ConstantsAssumption DEF TypeOK
<1>5. \A r \in Row : holder'[r] = IF r \in a.seen THEN (IF a.had THEN {} ELSE {a.into}) ELSE holder[r]
  BY <1>1 DEF DropRow, MoveRow
<1>6. ~a.had => RowsOf(a.into) \subseteq a.seen /\ \A r \in a.seen : holder[r] # {}
  BY <1>1 DEF DropRow, MoveRow
<1>7. /\ \A r, s \in a.seen : r = s
      /\ \A r \in a.seen : holder[r] \subseteq {a.who, a.into} /\ pc[r] \notin {"idle", "open"}
  BY DEF Merging
<1>8. a.had => \E r \in Row \ a.seen : a.into \in holder[r]
  BY DEF Merging
<1>9. UniqueRows'
  BY <1>5, <1>6, <1>7 DEF UniqueRows, RowsOf
<1>10. Fresh'
  BY <1>4, <1>5, <1>7 DEF Fresh
<1>11. AskShape'
  BY <1>3 DEF AskShape, TypeOK
<1>12. Merging'
  <2> SUFFICES ASSUME NEW m \in MergeReq, NEW c \in ask'[m]
               PROVE  /\ \A r \in c.seen : /\ holder'[r] \subseteq {c.who, c.into}
                                           /\ pc'[r] \notin {"idle", "open"}
                      /\ c.had => \E r \in Row \ c.seen : c.into \in holder'[r]
    BY <1>3 DEF Merging, TypeOK
  <2>1. c \in ask[m] /\ c \in Ask /\ c.seen \subseteq Row
    BY <1>3 DEF TypeOK, Ask
  <2>2. c.seen \cap a.seen # {} => c.who = a.who /\ c.into = a.into
    BY <2>1 DEF Merging
  <2>3. \A r \in c.seen : /\ holder'[r] \subseteq {c.who, c.into}
                          /\ pc'[r] \notin {"idle", "open"}
    BY <1>4, <1>5, <2>1, <2>2 DEF Merging
  <2>4. ASSUME c.had PROVE \E r \in Row \ c.seen : c.into \in holder'[r]
    <3>1. PICK r \in Row \ c.seen : c.into \in holder[r]
      BY <2>1, <2>4 DEF Merging
    <3>2. CASE r \notin a.seen BY <1>5, <3>1, <3>2
    <3>3. CASE r \in a.seen
      <4>1. c.into = a.into
        BY <1>2, <1>7, <2>1, <3>1, <3>3, ConstantsAssumption DEF AskShape
      <4>2. ~a.had
        BY <1>8, <3>1, <3>3, <4>1 DEF UniqueRows
      <4> QED BY <1>5, <3>1, <3>3, <4>1, <4>2
    <3> QED BY <3>2, <3>3
  <2> QED BY <2>3, <2>4
<1>13. ASSUME NEW v \in Voter, RowsOf(v) # {}, RowsOf(v)' = {}
       PROVE  a.who = v /\ RowsOf(a.into)' # {}
  <2>1. PICK r \in Row : v \in holder[r]
    BY <1>13 DEF RowsOf
  <2>2. v \notin holder'[r]
    BY <1>13 DEF RowsOf
  <2>3. r \in a.seen /\ v \in {a.who, a.into}
    BY <1>5, <1>7, <2>1, <2>2
  <2>4. \E s \in Row : a.into \in holder'[s]
    BY <1>5, <1>8, <2>3
  <2>5. RowsOf(a.into)' # {}
    BY <2>4 DEF RowsOf
  <2> QED BY <1>13, <2>3, <2>5
<1> QED BY <1>9, <1>10, <1>11, <1>12, <1>13

\* A request that ends without writing rows, a repair of the counters.
LEMMA IdleKeeps ==
    ASSUME KeepInv, TypeOK', UNCHANGED rowVars,
           \/ \E q \in Req : pc[q] = "open" /\ End(q) /\ (q \in Row => holder[q] = {})
           \/ \E q \in VoteReq : pc[q] = "tracking" /\ End(q)
           \/ UNCHANGED reqVars
    PROVE  KeepInv'
<1> USE DEF KeepInv, rowVars, reqVars
<1>1. \A q \in Req : /\ pc'[q] = pc[q] \/ pc'[q] = "done"
                     /\ ask'[q] = ask[q] \/ ask'[q] = {}
                     /\ pc'[q] = pc[q] => ask'[q] = ask[q] \/ pc[q] = "done"
  BY DEF End, TypeOK
<1>2. AskShape'
  BY <1>1 DEF AskShape, End, TypeOK
<1>3. (UniqueRows /\ Fresh)'
  BY <1>1 DEF UniqueRows, Fresh
<1>4. Merging'
  <2>1. \A m \in MergeReq : \A b \in ask[m] : b.seen \subseteq Row
    BY DEF TypeOK, Ask
  <2> QED BY <1>1, <2>1 DEF Merging
<1> QED BY <1>2, <1>3, <1>4

\* What OpinionKept says of a step.
Lost(v) == RowsOf(v) # {} /\ RowsOf(v)' = {}

LEMMA KeepNext ==
    ASSUME KeepInv, [Next]_vars
    PROVE  /\ KeepInv'
           /\ \A v \in Voter : Lost(v) =>
                 \E q \in MergeReq : \E a \in ask[q] : a.who = v /\ RowsOf(a.into)' # {}
<1>1. TypeOK' BY TypeNext DEF KeepInv
<1>2. ASSUME UNCHANGED rowVars PROVE \A v \in Voter : ~Lost(v)
  BY <1>2 DEF Lost, RowsOf, rowVars
<1>3. ASSUME NEW q \in VoteReq, VoteBegin(q) PROVE KeepInv' /\ UNCHANGED rowVars
  <2>1. PICK v \in Voter, x \in Value :
          Begin(q, [who |-> v, into |-> v, val |-> x, seen |-> {}, old |-> VotesOf(RowsOf(v)),
                    had |-> FALSE, base |-> [c \in Value |-> 0]])
    BY <1>3 DEF VoteBegin
  <2>2. VotesOf(RowsOf(v)) \subseteq Value
    BY DEF VotesOf, RowsOf, TypeOK, KeepInv
  <2> QED BY <1>1, <2>1, <2>2, BeginKeeps DEF Ask, Counts, Begin
<1>4. ASSUME NEW q \in DailyReq, DailyBegin(q) PROVE KeepInv' /\ UNCHANGED rowVars
  <2>1. PICK v \in Voter, x \in Value :
          Begin(q, [who |-> v, into |-> v, val |-> x, seen |-> RowsOf(v),
                    old |-> VotesOf(RowsOf(v)), had |-> FALSE, base |-> count])
    BY <1>4 DEF DailyBegin
  <2>2. VotesOf(RowsOf(v)) \subseteq Value /\ RowsOf(v) \subseteq Row /\ count \in Counts
    BY DEF VotesOf, RowsOf, TypeOK, KeepInv
  <2> QED BY <1>1, <2>1, <2>2, BeginKeeps DEF Ask, Begin
<1>5. ASSUME NEW q \in MergeReq, MergeBegin(q) PROVE KeepInv' /\ UNCHANGED rowVars
  BY <1>1, <1>5, MergeBeginKeeps DEF MergeBegin, Begin
<1>6. ASSUME NEW q \in VoteReq, VoteCommit(q) PROVE KeepInv' /\ \A v \in Voter : ~Lost(v)
  <2>1. PICK a \in ask[q] :
          /\ \/ RowsOf(a.who) = {} /\ InsertRow(q, a.who, a.val)
             \/ \E r \in RowsOf(a.who) : UpdateRow(r, a.val)
          /\ IF a.old = {a.val}
             THEN End(q)
             ELSE /\ pc' = [pc EXCEPT ![q] = "tracking"]
                  /\ ask' = [ask EXCEPT ![q] = {[a EXCEPT !.base = count']}]
    BY <1>6 DEF VoteCommit
  <2>2. a \in Ask /\ a.who \in Voter /\ a.val \in Value /\ [a EXCEPT !.base = count'] \in Ask
    BY <1>1 DEF KeepInv, TypeOK, Ask
  <2>3. WritesRow(q, a.who, a.val)
    BY <2>1 DEF WritesRow, RowsOf
  <2> QED BY <1>1, <1>6, <2>1, <2>2, <2>3, WriteKeeps DEF VoteCommit, Lost
<1>7. ASSUME NEW q \in DailyReq, DailyCommit(q) PROVE KeepInv' /\ \A v \in Voter : ~Lost(v)
  <2>1. PICK a \in ask[q] :
          /\ DailyAllowed(a)
          /\ \/ a.seen = {} /\ InsertRow(q, a.who, a.val)
             \/ a.old = {a.val} /\ UNCHANGED rowVars
             \/ a.old # {a.val} /\ \E r \in a.seen : UpdateRow(r, a.val)
    BY <1>7 DEF DailyCommit
  <2>2. a \in Ask /\ a.who \in Voter /\ a.val \in Value /\ a.seen \subseteq Row
    BY DEF KeepInv, TypeOK, Ask
  <2>3. WritesRow(q, a.who, a.val)
    BY <2>1, <2>2 DEF WritesRow, DailyAllowed
  <2> QED BY <1>1, <1>7, <2>2, <2>3, WriteKeeps DEF DailyCommit, Lost
<1>8. ASSUME NEW q \in MergeReq, MergeCommit(q)
      PROVE  KeepInv' /\ \A v \in Voter : Lost(v) =>
                \E a \in ask[q] : a.who = v /\ RowsOf(a.into)' # {}
  BY <1>1, <1>8, MergeCommitKeeps DEF Lost
<1>9. ASSUME NEW q \in VoteReq, TrackCommit(q) \/ TrackFails(q) PROVE KeepInv' /\ UNCHANGED rowVars
  BY <1>1, <1>9, IdleKeeps DEF TrackCommit, TrackFails
<1>10. ASSUME NEW q \in Req, Abort(q) PROVE KeepInv' /\ UNCHANGED rowVars
  BY <1>1, <1>10, IdleKeeps DEF Abort, KeepInv, Fresh
<1>11. CASE FindDrift \/ ReadTally \/ Repair \/ RepairFails
  BY <1>1, <1>2, <1>11, IdleKeeps DEF FindDrift, ReadTally, Repair, RepairFails
<1>12. CASE UNCHANGED vars
  BY <1>1, <1>2, <1>12, IdleKeeps DEF vars
<1> QED BY <1>2, <1>3, <1>4, <1>5, <1>6, <1>7, <1>8, <1>9, <1>10, <1>11, <1>12
        DEF Next, Finish, VoteStep

\* No vote is lost: the only vote a step takes away is that of a browser whose account
\* has one after the step, whatever logins, votes and answers overlap.
THEOREM OpinionsKept == Spec => OpinionKept
<1>1. Init => KeepInv BY InitKeep
<1>2. KeepInv /\ [Next]_vars => KeepInv' BY KeepNext
<1>3. KeepInv /\ [Next]_vars =>
        [\A v \in Voter : RowsOf(v) # {} /\ RowsOf(v)' = {} =>
            \E q \in MergeReq : \E a \in ask[q] : a.who = v /\ RowsOf(a.into)' # {}]_vars
  BY KeepNext DEF Lost
<1> QED BY <1>1, <1>2, <1>3, PTL DEF Spec, OpinionKept

-----------------------------------------------------------------------------
(* The tally of the rows                                                   *)

LEMMA TallyInsert ==
    ASSUME TypeOK, NEW q \in Row, holder[q] = {}, NEW v, NEW x \in Value, InsertRow(q, v, x)
    PROVE  Tally' = [c \in Value |-> IF c = x THEN Tally[c] + 1 ELSE Tally[c]]
<1>1. \A c \in Value : Voted(c)' = IF c = x THEN Voted(c) \cup {q} ELSE Voted(c)
  BY DEF Voted, InsertRow, TypeOK
<1>2. \A c \in Value : q \notin Voted(c) /\ IsFiniteSet(Voted(c))
  BY TallyType DEF Voted
<1>3. \A c \in Value : Cardinality(Voted(c))' =
                          IF c = x THEN Cardinality(Voted(c)) + 1 ELSE Cardinality(Voted(c))
  BY <1>1, <1>2, FS_AddElement
<1> QED BY <1>3 DEF Tally

LEMMA TallyDrop ==
    ASSUME TypeOK, NEW r \in Row, holder[r] # {}, holder' = [holder EXCEPT ![r] = {}],
           UNCHANGED vote
    PROVE  /\ Tally' = [c \in Value |-> IF c = vote[r] THEN Tally[c] - 1 ELSE Tally[c]]
           /\ Tally[vote[r]] >= 1
<1>1. \A c \in Value : Voted(c)' = IF c = vote[r] THEN Voted(c) \ {r} ELSE Voted(c)
  BY DEF Voted, TypeOK
<1>2. vote[r] \in Value /\ r \in Voted(vote[r])
  BY DEF Voted, TypeOK
<1>3. \A c \in Value : IsFiniteSet(Voted(c)) /\ Cardinality(Voted(c)) \in Nat
  BY TallyType, FS_CardinalityType
<1>4. \A c \in Value : Cardinality(Voted(c))' =
                          IF c = vote[r] THEN Cardinality(Voted(c)) - 1 ELSE Cardinality(Voted(c))
  BY <1>1, <1>2, <1>3, FS_RemoveElement
<1>5. Cardinality(Voted(vote[r])) # 0
  BY <1>2, <1>3, FS_EmptySet
<1> QED BY <1>2, <1>3, <1>4, <1>5 DEF Tally

LEMMA TallyUpdate ==
    ASSUME TypeOK, NEW r \in Row, holder[r] # {}, NEW x \in Value, UpdateRow(r, x), vote[r] # x
    PROVE  /\ Tally' = [c \in Value |-> IF c = x THEN Tally[c] + 1
                                        ELSE IF c = vote[r] THEN Tally[c] - 1 ELSE Tally[c]]
           /\ Tally[vote[r]] >= 1
<1>1. \A c \in Value : Voted(c)' = IF c = x THEN Voted(c) \cup {r}
                                   ELSE IF c = vote[r] THEN Voted(c) \ {r} ELSE Voted(c)
  BY DEF Voted, UpdateRow, TypeOK
<1>2. vote[r] \in Value /\ r \in Voted(vote[r]) /\ r \notin Voted(x)
  BY DEF Voted, TypeOK
<1>3. \A c \in Value : IsFiniteSet(Voted(c)) /\ Cardinality(Voted(c)) \in Nat
  BY TallyType, FS_CardinalityType
<1>4. \A c \in Value : Cardinality(Voted(c))' =
                          IF c = x THEN Cardinality(Voted(c)) + 1
                          ELSE IF c = vote[r] THEN Cardinality(Voted(c)) - 1
                          ELSE Cardinality(Voted(c))
  BY <1>1, <1>2, <1>3, FS_AddElement, FS_RemoveElement
<1>5. Cardinality(Voted(vote[r])) # 0
  BY <1>2, <1>3, FS_EmptySet
<1> QED BY <1>2, <1>3, <1>4, <1>5 DEF Tally

\* The rows stay as many and as they are.
LEMMA TallySame ==
    ASSUME TypeOK, UNCHANGED vote, \A r \in Row : holder[r] = {} <=> holder'[r] = {}
    PROVE  Tally' = Tally
BY DEF Tally, Voted

\* A vote is written by one who knows the old one: the counters move as the rows do.
LEMMA WriteIsCounted ==
    ASSUME KeepInv, count = Tally, NEW q \in Row, pc[q] = "open",
           NEW v \in Voter, NEW x \in Value, NEW old, old = VotesOf(RowsOf(v)),
           \/ RowsOf(v) = {} /\ InsertRow(q, v, x)
           \/ \E r \in RowsOf(v) : UpdateRow(r, x)
    PROVE  Moved(count, old, x) = Tally'
<1> USE DEF KeepInv
<1>1. \A c \in Value : Tally[c] \in Nat
  BY TallyType DEF Counts
<1>2. CASE RowsOf(v) = {} /\ InsertRow(q, v, x)
  <2>1. old = {} BY <1>2 DEF VotesOf
  <2> QED BY <1>1, <1>2, <2>1, TallyInsert DEF Moved, Fresh
<1>3. CASE \E r \in RowsOf(v) : UpdateRow(r, x)
  <2>1. PICK r \in Row : v \in holder[r] /\ UpdateRow(r, x)
    BY <1>3 DEF RowsOf
  <2>2. RowsOf(v) = {r}
    BY <2>1 DEF RowsOf, UniqueRows
  <2>3. old = {vote[r]} /\ vote[r] \in Value
    BY <2>2 DEF VotesOf, TypeOK
  <2>4. CASE vote[r] = x
    <3>1. vote' = vote /\ holder' = holder
      BY <2>1, <2>4 DEF UpdateRow, TypeOK
    <3>2. Tally' = Tally BY <3>1, TallySame
    <3> QED BY <1>1, <2>3, <2>4, <3>2 DEF Moved, Tally
  <2>5. CASE vote[r] # x
    BY <1>1, <2>1, <2>3, <2>5, TallyUpdate DEF Moved, AtLeast0
  <2> QED BY <2>4, <2>5
<1> QED BY <1>2, <1>3

-----------------------------------------------------------------------------
(* The counters                                                            *)

LEMMA InitExact == Init => ExactInv
<1> SUFFICES ASSUME Init PROVE ExactInv OBVIOUS
<1>1. KeepInv BY InitKeep
<1>2. Locked /\ Current BY DEF Init, Locked, Current, OpenVotes
<1>3. \A c \in Value : Voted(c) = {} BY DEF Init, Voted
<1>4. CountsExact BY <1>3, FS_EmptySet DEF Init, CountsExact, Tally
<1> QED BY <1>1, <1>2, <1>4 DEF ExactInv

\* A request begins: what it has read is so.
LEMMA BeginExact ==
    ASSUME ExactInv, KeepInv', NEW q \in Req, NEW a \in Ask, Begin(q, a),
           a.old = VotesOf(RowsOf(a.who)),
           q \notin VoteReq => a.base = count /\ a.seen = RowsOf(a.who),
           q \in MergeReq => a.had = (RowsOf(a.into) # {}),
           q \in VoteReq => \A o \in OpenVotes : \A b \in ask[o] : b.who # a.who
    PROVE  ExactInv'
<1> USE DEF ExactInv, KeepInv, Begin, rowVars
<1>1. \A v : RowsOf(v)' = RowsOf(v) BY DEF RowsOf
<1>2. \A R : VotesOf(R)' = VotesOf(R) BY DEF VotesOf
<1>3. \A o \in Req : /\ o = q => pc'[o] = "open" /\ ask'[o] = {a}
                     /\ o # q => pc'[o] = pc[o] /\ ask'[o] = ask[o]
  BY DEF TypeOK
<1>4. Locked' BY <1>3 DEF Locked, OpenVotes
<1>5. Current' BY <1>1, <1>2, <1>3 DEF Current
<1>6. CountsExact' BY TallySame DEF CountsExact
<1> QED BY <1>4, <1>5, <1>6

\* A request ends that overtakes every request but open votes.
LEMMA EndExact ==
    ASSUME ExactInv, KeepInv', NEW q \in Req, End(q), NEW O, InFlight \subseteq O,
           Overtake(q, O)
    PROVE  (Locked /\ Current)'
<1> USE DEF ExactInv, KeepInv, End, Overtake
<1>1. \A o \in Req : /\ o = q => pc'[o] = "done" /\ ask'[o] = {}
                     /\ o # q => pc'[o] = pc[o] /\ ask'[o] = ask[o]
  BY DEF TypeOK
<1>2. Locked' BY <1>1 DEF Locked, OpenVotes
<1>3. \A o \in Req : ask'[o] # {} => o \in raced'
  BY <1>1 DEF InFlight, AskShape, TypeOK
<1>4. Current' BY <1>3 DEF Current
<1> QED BY <1>2, <1>4

\* Only counters are written, by a request that ends or by the repair: the votes in
\* flight are not concerned.
LEMMA CountExact ==
    ASSUME ExactInv, KeepInv', UNCHANGED rowVars,
           \A o \in Req : \/ pc'[o] = pc[o] /\ ask'[o] = ask[o]
                          \/ pc'[o] = "done" /\ ask'[o] = {},
           raced \subseteq raced',
           count' = count \/ InFlight \ OpenVotes \subseteq raced' \cup {o \in Req : pc'[o] = "done"},
           ~blind' => count' = Tally'
    PROVE  ExactInv'
<1> USE DEF ExactInv, KeepInv, rowVars
<1>1. \A v : RowsOf(v)' = RowsOf(v) BY DEF RowsOf
<1>2. \A R : VotesOf(R)' = VotesOf(R) BY DEF VotesOf
<1>3. Locked' BY DEF Locked, OpenVotes
<1>4. Current'
  <2> SUFFICES ASSUME NEW o \in Req \ raced', NEW a \in ask'[o]
               PROVE  IF pc'[o] = "tracking" THEN a.base = count'
                      ELSE /\ a.old = VotesOf(RowsOf(a.who))
                           /\ o \notin VoteReq => a.base = count' /\ a.seen = RowsOf(a.who)
                           /\ o \in MergeReq => a.had = (RowsOf(a.into) # {})
    BY <1>1, <1>2 DEF Current
  <2>1. o \notin raced /\ pc'[o] = pc[o] /\ ask'[o] = ask[o] /\ pc[o] \in {"open", "tracking"}
    BY DEF AskShape, TypeOK
  <2>2. CASE count' = count BY <2>1, <2>2 DEF Current
  <2>3. CASE count' # count
    <3>1. o \in OpenVotes BY <2>1, <2>3 DEF InFlight, OpenVotes
    <3> QED BY <2>1, <3>1, ConstantsAssumption DEF Current, OpenVotes
  <2> QED BY <2>2, <2>3
<1>5. CountsExact' BY DEF CountsExact
<1> QED BY <1>3, <1>4, <1>5

LEMMA VoteCommitExact ==
    ASSUME ExactInv, KeepInv', NEW q \in VoteReq, VoteCommit(q)
    PROVE  ExactInv'
<1> USE DEF ExactInv, KeepInv
<1>1. PICK a \in ask[q] :
        /\ \/ RowsOf(a.who) = {} /\ InsertRow(q, a.who, a.val)
           \/ \E r \in RowsOf(a.who) : UpdateRow(r, a.val)
        /\ count' = Moved(count, a.old, a.val)
        /\ IF a.old = {a.val}
           THEN End(q)
           ELSE /\ pc' = [pc EXCEPT ![q] = "tracking"]
                /\ ask' = [ask EXCEPT ![q] = {[a EXCEPT !.base = count']}]
  BY DEF VoteCommit
<1>2. a \in Ask /\ a.who \in Voter /\ a.val \in Value BY DEF TypeOK, Ask
<1>3. \A o \in Req : o # q => pc'[o] = pc[o] /\ ask'[o] = ask[o]
  BY <1>1 DEF End, TypeOK
<1>4. pc[q] = "open" /\ pc'[q] \in {"done", "tracking"} /\ \A b \in ask'[q] : b.base = count'
  BY <1>1, <1>2 DEF VoteCommit, End, TypeOK, Ask
<1>5. /\ raced' = raced \cup ((InFlight \ OpenVotes) \ {q})
      /\ blind' = (blind \/ q \in raced)
  BY DEF VoteCommit, Overtake
<1>6. Locked' BY <1>3, <1>4 DEF Locked, OpenVotes
<1>7. CountsExact'
  <2> SUFFICES ASSUME ~blind' PROVE count' = Tally'
    BY DEF CountsExact
  <2>1. ~blind /\ q \notin raced BY <1>5 DEF TypeOK
  <2>2. count = Tally BY <2>1 DEF CountsExact
  <2>3. a.old = VotesOf(RowsOf(a.who)) BY <1>4, <2>1 DEF Current
  <2> QED BY <1>1, <1>2, <1>4, <2>2, <2>3, WriteIsCounted
<1>8. Current'
  <2> SUFFICES ASSUME NEW o \in Req \ raced', NEW b \in ask'[o], pc'[o] # "tracking" \/ o # q
               PROVE  /\ pc'[o] # "tracking"
                      /\ b.old = VotesOf(RowsOf(b.who))'
                      /\ o \in VoteReq
    BY <1>4, ConstantsAssumption DEF Current
  <2>1. o # q BY <1>4 DEF AskShape
  <2>2. o \in OpenVotes /\ b \in ask[o] /\ o \notin raced
    BY <1>3, <1>5, <2>1 DEF AskShape, InFlight, TypeOK
  <2>3. b.who # a.who
    BY <1>4, <2>1, <2>2 DEF Locked, OpenVotes
  <2>4. \A r \in Row : b.who \in holder'[r] <=> b.who \in holder[r]
    BY <1>1, <1>4, <2>3 DEF InsertRow, UpdateRow, Fresh, TypeOK
  <2>5. \A r \in Row : b.who \in holder[r] => vote'[r] = vote[r]
    BY <1>1, <1>4, <2>3 DEF InsertRow, UpdateRow, RowsOf, UniqueRows, Fresh, TypeOK
  <2>6. VotesOf(RowsOf(b.who))' = VotesOf(RowsOf(b.who))
    BY <2>4, <2>5 DEF VotesOf, RowsOf
  <2>7. b.old = VotesOf(RowsOf(b.who)) BY <2>2 DEF Current, OpenVotes
  <2> QED BY <1>3, <2>1, <2>2, <2>6, <2>7 DEF OpenVotes
<1> QED BY <1>6, <1>7, <1>8

LEMMA DailyCommitExact ==
    ASSUME ExactInv, KeepInv', NEW q \in DailyReq, DailyCommit(q)
    PROVE  ExactInv'
<1> USE DEF ExactInv, KeepInv
<1>1. PICK a \in ask[q] :
        /\ \/ a.seen = {} /\ InsertRow(q, a.who, a.val)
           \/ a.old = {a.val} /\ UNCHANGED rowVars
           \/ a.old # {a.val} /\ \E r \in a.seen : UpdateRow(r, a.val)
        /\ Flush(Moved(a.base, a.old, a.val), a.base)
  BY DEF DailyCommit
<1>2. a \in Ask /\ a.who \in Voter /\ a.val \in Value BY DEF TypeOK, Ask
<1>3. (Locked /\ Current)' BY EndExact DEF DailyCommit
<1>4. ASSUME ~blind' PROVE count' = Tally'
  <2>1. ~blind /\ q \notin raced
    BY <1>4 DEF DailyCommit, Overtake, TypeOK
  <2>2. count = Tally /\ pc[q] = "open" /\ q \notin VoteReq
    BY <2>1, ConstantsAssumption DEF CountsExact, DailyCommit
  <2>3. a.old = VotesOf(RowsOf(a.who)) /\ a.base = count /\ a.seen = RowsOf(a.who)
    BY <2>1, <2>2 DEF Current
  <2>4. count' = Moved(count, a.old, a.val)
    BY <1>1, <2>3 DEF Flush, Moved
  <2>5. CASE a.old = {a.val} /\ UNCHANGED rowVars
    <3>1. Tally' = Tally BY <2>5, TallySame DEF rowVars
    <3>2. count' = count BY <2>4, <2>5 DEF Moved, TypeOK, Counts
    <3> QED BY <2>2, <3>1, <3>2
  <2>6. CASE \/ a.seen = {} /\ InsertRow(q, a.who, a.val)
             \/ \E r \in a.seen : UpdateRow(r, a.val)
    BY <1>2, <2>2, <2>3, <2>4, <2>6, WriteIsCounted
  <2> QED BY <1>1, <2>5, <2>6
<1> QED BY <1>3, <1>4 DEF CountsExact

LEMMA MergeCommitExact ==
    ASSUME ExactInv, KeepInv', NEW q \in MergeReq, MergeCommit(q)
    PROVE  ExactInv'
<1> USE DEF ExactInv, KeepInv
<1>1. PICK a \in ask[q] : DropRow(a) \/ MoveRow(a)
  BY DEF MergeCommit
<1>2. a \in Ask /\ a.seen \subseteq Row BY DEF TypeOK, Ask
<1>3. (Locked /\ Current)' BY EndExact DEF MergeCommit
<1>4. ASSUME ~blind' PROVE count' = Tally'
  <2>1. ~blind /\ q \notin raced
    BY <1>4 DEF MergeCommit, Overtake, TypeOK
  <2>2. count = Tally /\ pc[q] = "open" /\ q \notin VoteReq /\ vote' = vote
    BY <2>1, ConstantsAssumption DEF CountsExact, MergeCommit
  <2>3. a.old = VotesOf(a.seen) /\ a.base = count /\ a.seen = RowsOf(a.who)
    BY <2>1, <2>2 DEF Current
  <2>4. CASE MoveRow(a)
    <3>1. Tally' = Tally BY <2>2, <2>4, TallySame DEF MoveRow, TypeOK
    <3> QED BY <2>2, <2>4, <3>1 DEF MoveRow
  <2>5. CASE DropRow(a)
    <3>1. count' = [c \in Value |-> IF c \in a.old THEN AtLeast0(count[c] - 1) ELSE count[c]]
      BY <2>3, <2>5 DEF DropRow, Flush
    <3>2. CASE a.seen = {}
      <4>1. a.old = {} BY <2>3, <3>2 DEF VotesOf
      <4>2. count' = count BY <3>1, <4>1 DEF TypeOK, Counts
      <4>3. Tally' = Tally BY <2>2, <2>5, <3>2, TallySame DEF DropRow, TypeOK
      <4> QED BY <2>2, <4>2, <4>3
    <3>3. CASE a.seen # {}
      <4>1. PICK r \in Row : a.seen = {r} /\ holder[r] # {}
        BY <1>2, <2>3, <3>3 DEF RowsOf, UniqueRows
      <4>2. a.old = {vote[r]} BY <2>3, <4>1 DEF VotesOf
      <4>3. holder' = [holder EXCEPT ![r] = {}]
        BY <2>5, <4>1 DEF DropRow, TypeOK
      <4>4. /\ Tally' = [c \in Value |-> IF c = vote[r] THEN Tally[c] - 1 ELSE Tally[c]]
            /\ Tally[vote[r]] >= 1
        BY <2>2, <4>1, <4>3, TallyDrop
      <4>5. \A c \in Value : Tally[c] \in Nat BY TallyType DEF Counts
      <4> QED BY <2>2, <3>1, <4>2, <4>4, <4>5 DEF AtLeast0
    <3> QED BY <3>2, <3>3
  <2> QED BY <1>1, <2>4, <2>5
<1> QED BY <1>3, <1>4 DEF CountsExact

LEMMA ExactNext == ExactInv /\ [Next]_vars => ExactInv'
<1> SUFFICES ASSUME ExactInv, [Next]_vars PROVE ExactInv' OBVIOUS
<1> USE DEF ExactInv
<1>1. KeepInv' BY KeepNext
<1>2. ASSUME NEW q \in VoteReq, VoteBegin(q) PROVE ExactInv'
  <2>1. PICK v \in Voter, x \in Value :
          /\ \A o \in OpenVotes : \A b \in ask[o] : b.who # v
          /\ Begin(q, [who |-> v, into |-> v, val |-> x, seen |-> {}, old |-> VotesOf(RowsOf(v)),
                       had |-> FALSE, base |-> [c \in Value |-> 0]])
    BY <1>2 DEF VoteBegin, LockFree
  <2>2. VotesOf(RowsOf(v)) \subseteq Value
    BY DEF VotesOf, RowsOf, TypeOK, KeepInv
  <2> DEFINE a == [who |-> v, into |-> v, val |-> x, seen |-> {}, old |-> VotesOf(RowsOf(v)),
                   had |-> FALSE, base |-> [c \in Value |-> 0]]
  <2>3. /\ a \in Ask /\ Begin(q, a) /\ a.old = VotesOf(RowsOf(a.who))
        /\ \A o \in OpenVotes : \A b \in ask[o] : b.who # a.who
    BY <2>1, <2>2 DEF Ask, Counts
  <2> HIDE DEF a
  <2> QED BY <1>1, <2>3, BeginExact, ConstantsAssumption
<1>3. ASSUME NEW q \in DailyReq, DailyBegin(q) PROVE ExactInv'
  <2>1. PICK v \in Voter, x \in Value :
          Begin(q, [who |-> v, into |-> v, val |-> x, seen |-> RowsOf(v),
                    old |-> VotesOf(RowsOf(v)), had |-> FALSE, base |-> count])
    BY <1>3 DEF DailyBegin
  <2>2. VotesOf(RowsOf(v)) \subseteq Value /\ RowsOf(v) \subseteq Row /\ count \in Counts
    BY DEF VotesOf, RowsOf, TypeOK, KeepInv
  <2> DEFINE a == [who |-> v, into |-> v, val |-> x, seen |-> RowsOf(v),
                   old |-> VotesOf(RowsOf(v)), had |-> FALSE, base |-> count]
  <2>3. /\ a \in Ask /\ Begin(q, a) /\ a.old = VotesOf(RowsOf(a.who))
        /\ a.base = count /\ a.seen = RowsOf(a.who)
    BY <2>1, <2>2 DEF Ask
  <2> HIDE DEF a
  <2> QED BY <1>1, <2>3, BeginExact, ConstantsAssumption
<1>4. ASSUME NEW q \in MergeReq, MergeBegin(q) PROVE ExactInv'
  <2>1. PICK u \in User, f \in Browser :
          \E x \in VotesOf(RowsOf(f)) :
             Begin(q, [who |-> f, into |-> u, val |-> x, seen |-> RowsOf(f), old |-> {x},
                       had |-> RowsOf(u) # {}, base |-> count])
    BY <1>4 DEF MergeBegin
  <2>2. PICK x \in VotesOf(RowsOf(f)) :
          Begin(q, [who |-> f, into |-> u, val |-> x, seen |-> RowsOf(f), old |-> {x},
                    had |-> RowsOf(u) # {}, base |-> count])
    BY <2>1
  <2>3. x \in Value /\ RowsOf(f) \subseteq Row /\ count \in Counts
    BY DEF VotesOf, RowsOf, TypeOK, KeepInv
  <2>4. {x} = VotesOf(RowsOf(f))
    BY DEF VotesOf, RowsOf, KeepInv, UniqueRows
  <2> DEFINE a == [who |-> f, into |-> u, val |-> x, seen |-> RowsOf(f), old |-> {x},
                   had |-> RowsOf(u) # {}, base |-> count]
  <2>5. /\ a \in Ask /\ Begin(q, a) /\ a.old = VotesOf(RowsOf(a.who))
        /\ a.base = count /\ a.seen = RowsOf(a.who) /\ a.had = (RowsOf(a.into) # {})
    BY <2>2, <2>3, <2>4 DEF Ask
  <2> HIDE DEF a
  <2> QED BY <1>1, <2>5, BeginExact, ConstantsAssumption
<1>5. ASSUME NEW q \in VoteReq, TrackCommit(q) PROVE ExactInv'
  <2>1. PICK a \in ask[q] : count' = a.base BY <1>5 DEF TrackCommit
  <2>2. q \notin raced => count' = count
    BY <1>5, <2>1 DEF Current, TrackCommit
  <2>3. Tally' = Tally
    BY <1>5, TallySame DEF TrackCommit, rowVars, KeepInv
  <2>4. /\ raced \subseteq raced'
        /\ q \in raced => InFlight \ OpenVotes \subseteq raced'
        /\ ~blind' => ~blind /\ q \notin raced
    BY <1>5 DEF TrackCommit, Overtake, KeepInv, TypeOK
  <2>5. \A o \in Req : \/ pc'[o] = pc[o] /\ ask'[o] = ask[o]
                       \/ pc'[o] = "done" /\ ask'[o] = {}
    BY <1>5 DEF TrackCommit, End, KeepInv, TypeOK
  <2>6. ~blind' => count' = Tally'
    BY <2>2, <2>3, <2>4 DEF CountsExact
  <2> QED BY <1>1, <1>5, <2>2, <2>4, <2>5, <2>6, CountExact DEF TrackCommit
<1>6. ASSUME NEW q \in Req, TrackFails(q) \/ Abort(q) PROVE ExactInv'
  <2>1. /\ UNCHANGED <<rowVars, count, raced, blind>>
        /\ \A o \in Req : \/ pc'[o] = pc[o] /\ ask'[o] = ask[o]
                          \/ pc'[o] = "done" /\ ask'[o] = {}
    BY <1>6 DEF TrackFails, Abort, End, KeepInv, TypeOK
  <2>2. Tally' = Tally BY <2>1, TallySame DEF rowVars, KeepInv
  <2> QED BY <1>1, <2>1, <2>2, CountExact DEF CountsExact
<1>7. CASE Repair
  <2>1. Tally' = Tally BY <1>7, TallySame DEF Repair, rowVars, KeepInv
  <2>2. /\ UNCHANGED <<rowVars, reqVars>> /\ raced \subseteq raced'
        /\ InFlight \ OpenVotes \subseteq raced'
        /\ ~blind' => count' = Tally
    BY <1>7 DEF Repair
  <2>3. \A o \in Req : pc'[o] = pc[o] /\ ask'[o] = ask[o]
    BY <2>2 DEF reqVars
  <2>4. ~blind' => count' = Tally'
    BY <2>1, <2>2
  <2>5. InFlight \ OpenVotes \subseteq raced' \cup {o \in Req : pc'[o] = "done"}
    BY <2>2
  <2> QED BY <1>1, <2>2, <2>3, <2>4, <2>5, CountExact
<1>8. CASE FindDrift \/ ReadTally \/ RepairFails \/ UNCHANGED vars
  <2>1. UNCHANGED <<rowVars, count, reqVars, raced, blind>>
    BY <1>8 DEF FindDrift, ReadTally, RepairFails, vars
  <2>2. Tally' = Tally BY <2>1, TallySame DEF rowVars, KeepInv
  <2> QED BY <1>1, <2>1, <2>2, CountExact DEF CountsExact, reqVars
<1> QED BY <1>1, <1>2, <1>3, <1>4, <1>5, <1>6, <1>7, <1>8,
           VoteCommitExact, DailyCommitExact, MergeCommitExact
        DEF Next, Finish, VoteStep

\* The counters are the tally of the rows at every moment, unless a request that had
\* been overtaken wrote them, for any number of voters and requests.
THEOREM CountersExact == Spec => []CountsExact
<1>1. ExactInv => CountsExact BY DEF ExactInv
<1> QED BY InitExact, ExactNext, <1>1, PTL DEF Spec
=============================================================================
