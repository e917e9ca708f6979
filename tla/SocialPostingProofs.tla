------------------------- MODULE SocialPostingProofs -------------------------
(***************************************************************************)
(* Proofs about SocialPosting, for every number of posts and instances:    *)
(* what is recorded as posted was published, copies need failures, and a   *)
(* day's posts exceed the limit by as much as instances and failures pay.  *)
(***************************************************************************)
EXTENDS SocialPosting, FiniteSetTheorems, TLAPS

(* Types, and what a thread holds where *)

Places == {"idle", "reset", "skip", "skipping", "count", "claim", "post", "confirm", "release"}
HeldRows == [clear : SUBSET Bsky, skip : SUBSET Bsky]

\* A thread has a post, one, from its claim to its confirmation; it skips what it clears
\* from the backlog.
Shape ==
    \A t \in Thread :
        /\ pc[t] \notin {"post", "confirm", "release"} => cur[t] = {}
        /\ \A p, q \in cur[t] : p = q
        /\ cur[t] \subseteq Due(t)
        /\ pc[t] = "skipping" => held[t].clear \subseteq held[t].skip
        /\ t[2] = "x" => pc[t] \notin {"reset", "skip", "skipping", "count"}

LEMMA HoldType ==
    ASSUME TypeOK, NEW t \in Thread, NEW c \in SUBSET Bsky, NEW k \in SUBSET Bsky, Hold(t, c, k)
    PROVE  held' \in [Thread -> HeldRows]
BY DEF TypeOK, Hold, HeldRows

LEMMA GotoType ==
    ASSUME TypeOK, NEW t \in Thread, NEW l \in Places, Goto(t, l)
    PROVE  pc' \in [Thread -> Places]
BY DEF TypeOK, Goto, Places

\* The rest of a step's effect on a thread: it goes to l with the posts c.
LEMMA CurType ==
    ASSUME TypeOK, NEW t \in Thread, NEW c \in SUBSET Post, Cardinality(c) <= 1,
           cur' = [cur EXCEPT ![t] = c]
    PROVE  cur' \in [Thread -> SUBSET Post] /\ \A s \in Thread : Cardinality(cur'[s]) <= 1
BY DEF TypeOK

LEMMA Small == Cardinality({}) <= 1 /\ \A p : Cardinality({p}) <= 1
BY FS_EmptySet, FS_Singleton

LEMMA SendingType ==
    /\ Cardinality(Sending) \in Nat /\ Cardinality(Sending') \in Nat
    /\ IsFiniteSet(Sending) /\ IsFiniteSet(Sending')
<1>1. Sending \subseteq Instance /\ Sending' \subseteq Instance BY DEF Sending
<1> QED BY <1>1, ConstantsAssumption, FS_Subset, FS_CardinalityType

LEMMA StepTypes ==
    ASSUME TypeOK, NEW t \in Thread, Step(t) \/ Crash(t)
    PROVE  TypeOK'
<1> USE DEF Places
<1>1. CASE Begin(t)
  <2>1. Stale \subseteq Bsky BY DEF Stale
  <2>2. held' \in [Thread -> HeldRows]
    BY <1>1, <2>1, HoldType DEF Begin, TypeOK, HeldRows
  <2>3. pc' \in [Thread -> Places] BY <1>1, GotoType DEF Begin
  <2> QED BY <1>1, <2>2, <2>3 DEF Begin, TypeOK, HeldRows, rows
<1>2. CASE Reset(t)
  <2>1. held' \in [Thread -> HeldRows] BY <1>2, HoldType DEF Reset
  <2>2. pc' \in [Thread -> Places] BY <1>2, GotoType DEF Reset
  <2>3. held[t].clear \subseteq Bsky /\ held[t].skip \subseteq Bsky BY DEF TypeOK
  <2> QED BY <1>2, <2>1, <2>2, <2>3 DEF Reset, TypeOK, HeldRows, WriteHeld, NoWrite, Fault
<1>3. CASE LoadOld(t)
  <2>1. Old \subseteq Bsky BY DEF Old
  <2>2. held' \in [Thread -> HeldRows]
    BY <1>3, <2>1, HoldType DEF LoadOld, TypeOK, HeldRows
  <2>3. pc' \in [Thread -> Places] BY <1>3, GotoType DEF LoadOld
  <2> QED BY <1>3, <2>2, <2>3 DEF LoadOld, TypeOK, HeldRows, rows
<1>4. CASE Skip(t)
  <2>1. held' \in [Thread -> HeldRows] BY <1>4, HoldType DEF Skip
  <2>2. pc' \in [Thread -> Places] BY <1>4, GotoType DEF Skip
  <2>3. held[t].clear \subseteq Bsky /\ held[t].skip \subseteq Bsky BY DEF TypeOK
  <2> QED BY <1>4, <2>1, <2>2, <2>3 DEF Skip, TypeOK, HeldRows, WriteHeld, NoWrite, Fault
<1>5. CASE Count(t)
  <2>1. pc' \in [Thread -> Places] BY <1>5, GotoType DEF Count
  <2>2. crowd' \in Nat BY <1>5, SendingType DEF Count, TypeOK
  <2> QED BY <1>5, <2>1, <2>2 DEF Count, TypeOK, rows
<1>6. CASE Claim(t)
  <2>1. pc' \in [Thread -> Places] BY <1>6, GotoType DEF Claim
  <2>2. CASE UNCHANGED <<claim, cur>> BY <1>6, <2>1, <2>2 DEF Claim, TypeOK
  <2>3. CASE \E p \in Claimable(t) :
               /\ claim' = [claim EXCEPT ![p] = "fresh"]
               /\ cur' = [cur EXCEPT ![t] = {p}]
    <3>1. PICK p \in Claimable(t) : /\ claim' = [claim EXCEPT ![p] = "fresh"]
                                    /\ cur' = [cur EXCEPT ![t] = {p}]
      BY <2>3
    <3>2. {p} \subseteq Post BY DEF Claimable, Due, Post
    <3>3. cur' \in [Thread -> SUBSET Post] /\ \A s \in Thread : Cardinality(cur'[s]) <= 1
      BY <3>1, <3>2, CurType, Small
    <3>4. claim' \in [Post -> {"none", "fresh", "stale"}] BY <3>1 DEF TypeOK
    <3> QED BY <1>6, <2>1, <3>3, <3>4 DEF Claim, TypeOK
  <2> QED BY <1>6, <2>2, <2>3 DEF Claim
<1>7. CASE Accept(t) \/ Refuse(t)
  <2>1. pc' \in [Thread -> Places] BY <1>7, GotoType DEF Accept, Refuse, TypeOK
  <2>2. UNCHANGED <<rows, held, cur, crowd>> BY <1>7 DEF Accept, Refuse
  <2>3. faults' \in Nat BY <1>7 DEF Accept, Refuse, Fault, TypeOK
  <2>4. published' \in [Post -> Nat] /\ sent' \in Nat
    BY <1>7 DEF Accept, Refuse, Publish, TypeOK
  <2> QED BY <2>1, <2>2, <2>3, <2>4 DEF TypeOK, rows
<1>8. CASE Confirm(t)
  <2>1. pc' \in [Thread -> Places] BY <1>8, GotoType DEF Confirm, Leave
  <2>2. cur' \in [Thread -> SUBSET Post] /\ \A s \in Thread : Cardinality(cur'[s]) <= 1
    BY <1>8, CurType, Small DEF Confirm, Leave, Nobody
  <2>3. cur[t] \subseteq Post BY DEF TypeOK
  <2>4. posted' \subseteq Post /\ today' \subseteq posted' \cap Bsky
    BY <1>8, <2>3 DEF Confirm, TypeOK
  <2>5. claim' \in [Post -> {"none", "fresh", "stale"}] /\ faults' \in Nat
    BY <1>8 DEF Confirm, TypeOK, Fault
  <2> QED BY <1>8, <2>1, <2>2, <2>4, <2>5 DEF Confirm, TypeOK
<1>9. CASE Crash(t)
  <2>1. pc' \in [Thread -> Places] BY <1>9, GotoType DEF Crash
  <2>2. held' \in [Thread -> HeldRows] BY <1>9, HoldType DEF Crash
  <2>3. cur' \in [Thread -> SUBSET Post] /\ \A s \in Thread : Cardinality(cur'[s]) <= 1
    <3>1. cur' = [cur EXCEPT ![t] = {}] BY <1>9 DEF Crash, Nobody
    <3> QED BY <3>1, CurType, Small
  <2> QED BY <1>9, <2>1, <2>2, <2>3 DEF Crash, TypeOK, HeldRows, rows, Fault
<1> QED BY <1>1, <1>2, <1>3, <1>4, <1>5, <1>6, <1>7, <1>8, <1>9 DEF Step

LEMMA TimeTypes ==
    ASSUME TypeOK,
           \/ \E p \in Post : Schedule(p)
           \/ \E p \in Bsky : Ages(p) \/ Stales(p)
           \/ Midnight
    PROVE  TypeOK'
<1>1. CASE \E p \in Post : Schedule(p) BY <1>1 DEF Schedule, TypeOK, threads
<1>2. CASE \E p \in Bsky : Ages(p) BY <1>2 DEF Ages, TypeOK, threads, Post
<1>3. CASE \E p \in Bsky : Stales(p) BY <1>3 DEF Stales, TypeOK, threads, Fault, Post
<1>4. CASE Midnight BY <1>4, SendingType DEF Midnight, TypeOK, threads
<1> QED BY <1>1, <1>2, <1>3, <1>4

LEMMA TypeInit == Init => TypeOK
BY Small DEF Init, TypeOK, Nobody, NoRows

LEMMA TypeNext == TypeOK /\ [Next]_vars => TypeOK'
<1> SUFFICES ASSUME TypeOK, [Next]_vars PROVE TypeOK' OBVIOUS
<1>1. CASE UNCHANGED vars BY <1>1 DEF vars, rows, threads, TypeOK
<1> QED BY <1>1, StepTypes, TimeTypes DEF Next

\* Posts, claims, threads and counts keep their types: what was posted today was posted,
\* and a thread has one post at most.
THEOREM TypeCorrect == Spec => []TypeOK
BY TypeInit, TypeNext, PTL DEF Spec

-----------------------------------------------------------------------------
(* What a thread holds                                                     *)

\* A step of t leaves the other threads alone.
Alone(t) ==
    \A s \in Thread \ {t} : pc'[s] = pc[s] /\ cur'[s] = cur[s] /\ held'[s] = held[s]

LEMMA StepsAlone ==
    ASSUME TypeOK, NEW t \in Thread, Step(t) \/ Crash(t)
    PROVE  Alone(t)
<1> USE DEF TypeOK, Alone, Goto, Hold
<1>1. CASE Begin(t) BY <1>1 DEF Begin
<1>2. CASE Reset(t) \/ LoadOld(t) \/ Skip(t) \/ Count(t)
  BY <1>2 DEF Reset, LoadOld, Skip, Count
<1>3. CASE Claim(t) BY <1>3 DEF Claim
<1>4. CASE Accept(t) \/ Refuse(t) BY <1>4 DEF Accept, Refuse
<1>5. CASE Confirm(t) BY <1>5 DEF Confirm, Leave
<1>6. CASE Crash(t) BY <1>6 DEF Crash
<1> QED BY <1>1, <1>2, <1>3, <1>4, <1>5, <1>6 DEF Step

LEMMA ShapeStep ==
    ASSUME TypeOK, Shape, NEW t \in Thread, Step(t) \/ Crash(t)
    PROVE  Shape'
<1>0. Alone(t) BY StepsAlone
<1> DEFINE Good(l, c, h) ==
             /\ l \notin {"post", "confirm", "release"} => c = {}
             /\ \A p, q \in c : p = q
             /\ c \subseteq Due(t)
             /\ l = "skipping" => h.clear \subseteq h.skip
             /\ t[2] = "x" => l \notin {"reset", "skip", "skipping", "count"}
<1> SUFFICES Good(pc'[t], cur'[t], held'[t]) BY <1>0 DEF Shape, Alone, Due
<1>a. Good(pc[t], cur[t], held[t]) BY DEF Shape
<1>b. pc \in [Thread -> Places] /\ held \in [Thread -> HeldRows] /\ DOMAIN cur = Thread
  BY DEF TypeOK, Places, HeldRows
<1> USE DEF Goto, Hold
<1>1. CASE Begin(t) BY <1>1, <1>a, <1>b DEF Begin
<1>2. CASE Reset(t) BY <1>2, <1>a, <1>b DEF Reset
<1>3. CASE LoadOld(t)
  <2>1. {p \in Old : claim[p] # "none"} \subseteq Old OBVIOUS
  <2> QED BY <1>3, <2>1, <1>a, <1>b DEF LoadOld, HeldRows
<1>4. CASE Skip(t) BY <1>4, <1>a, <1>b DEF Skip
<1>5. CASE Count(t) BY <1>5, <1>a, <1>b DEF Count
<1>6. CASE Claim(t)
  <2>1. CASE cur' = cur /\ Claimable(t) = {} BY <1>6, <2>1, <1>a, <1>b DEF Claim
  <2>2. CASE Claimable(t) # {}
    <3>1. PICK p \in Claimable(t) : cur' = [cur EXCEPT ![t] = {p}] /\ pc' = [pc EXCEPT ![t] = "post"]
      BY <1>6, <2>2 DEF Claim
    <3>2. p \in Due(t) /\ held' = held BY <1>6 DEF Claimable, Claim
    <3> QED BY <3>1, <3>2, <1>b
  <2> QED BY <1>6, <2>1, <2>2 DEF Claim
<1>7. CASE Accept(t) \/ Refuse(t) BY <1>7, <1>a, <1>b DEF Accept, Refuse
<1>8. CASE Confirm(t) BY <1>8, <1>a, <1>b DEF Confirm, Leave, Nobody
<1>9. CASE Crash(t) BY <1>9, <1>a, <1>b DEF Crash, Nobody
<1> QED BY <1>1, <1>2, <1>3, <1>4, <1>5, <1>6, <1>7, <1>8, <1>9 DEF Step

LEMMA ShapeNext == TypeOK /\ Shape /\ [Next]_vars => Shape'
<1> SUFFICES ASSUME TypeOK, Shape, [Next]_vars PROVE Shape' OBVIOUS
<1>1. CASE UNCHANGED threads BY <1>1 DEF Shape, threads, Due
<1>2. CASE \E t \in Thread : Step(t) \/ Crash(t) BY <1>2, ShapeStep
<1> QED BY <1>1, <1>2 DEF Next, vars, Schedule, Ages, Stales, Midnight

LEMMA ShapeInit == Init => Shape
BY DEF Init, Shape, Nobody, NoRows

-----------------------------------------------------------------------------
(* Posted means published                                                  *)

\* A post that is about to be confirmed is on its network.
Confirmable == \A t \in Thread : pc[t] = "confirm" => \A p \in cur[t] : published[p] > 0

LEMMA PublishedGrows ==
    ASSUME TypeOK, [Next]_vars
    PROVE  \A p \in Post : published'[p] >= published[p]
<1>1. CASE UNCHANGED published BY <1>1 DEF TypeOK
<1>2. CASE \E p \in Post : Publish(p) BY <1>2 DEF Publish, TypeOK
<1>3. ASSUME NEW t \in Thread, Accept(t) \/ Refuse(t)
      PROVE  UNCHANGED published \/ \E p \in Post : Publish(p)
  <2>1. cur[t] \subseteq Post BY DEF TypeOK
  <2> QED BY <1>3, <2>1 DEF Accept, Refuse
<1> QED BY <1>1, <1>2, <1>3
        DEF Next, Step, vars, threads, Begin, Reset, LoadOld, Skip, Count, Claim, Confirm, Crash,
            Schedule, Ages, Stales, Midnight

LEMMA ConfirmableNext ==
    ASSUME TypeOK, Shape, Confirmable, PostedWasPublished, [Next]_vars
    PROVE  Confirmable' /\ PostedWasPublished'
<1>1. \A p \in Post : published'[p] >= published[p] /\ published[p] \in Nat /\ published'[p] \in Nat
  BY PublishedGrows, TypeNext DEF TypeOK
<1>2. posted \subseteq Post /\ \A t \in Thread : cur[t] \subseteq Post BY DEF TypeOK
<1>3. CASE UNCHANGED <<posted, threads>>
  BY <1>1, <1>2, <1>3 DEF Confirmable, PostedWasPublished, threads
<1>4. ASSUME NEW t \in Thread, Step(t) \/ Crash(t)
      PROVE  Confirmable' /\ PostedWasPublished'
  <2>1. Alone(t) BY <1>4, StepsAlone
  <2>2. \/ pc'[t] # "confirm"
        \/ cur'[t] = cur[t] /\ \A p \in cur[t] : published'[p] > 0
    <3>1. CASE Accept(t)
      <4>1. PICK p \in cur[t] : \/ published[p] > 0 /\ published' = published
                               \/ published' = [published EXCEPT ![p] = @ + 1]
        BY <3>1 DEF Accept, Publish
      <4>2. \A q \in cur[t] : q = p BY DEF Shape
      <4>3. published'[p] > 0 BY <1>1, <1>2, <4>1 DEF TypeOK
      <4> QED BY <3>1, <4>2, <4>3 DEF Accept
    <3>2. CASE Refuse(t) BY <3>2 DEF Refuse, Goto, TypeOK
    <3> QED BY <1>4, <3>1, <3>2
            DEF Step, Begin, Reset, LoadOld, Skip, Count, Claim, Confirm, Crash, Leave, Goto, TypeOK
  <2>3. posted' \subseteq posted \cup (IF pc[t] = "confirm" THEN cur[t] ELSE {})
    BY <1>4 DEF Step, Begin, Reset, LoadOld, Skip, Count, Claim, Accept, Refuse, Confirm, Crash, rows
  <2>4. PostedWasPublished'
    BY <1>1, <1>2, <2>3 DEF PostedWasPublished, Confirmable
  <2> QED BY <1>1, <1>2, <2>1, <2>2, <2>4 DEF Confirmable, Alone
<1> QED BY <1>3, <1>4 DEF Next, vars, rows, threads, Schedule, Ages, Stales, Midnight

\* What is recorded as posted is on its network, for any number of instances, whatever
\* is lost, grows stale or is claimed again.
THEOREM PostedMeansPublished == Spec => []PostedWasPublished
<1>1. Init => TypeOK /\ Shape /\ Confirmable /\ PostedWasPublished
  BY TypeInit, ShapeInit DEF Init, Confirmable, PostedWasPublished
<1>2. TypeOK /\ Shape /\ Confirmable /\ PostedWasPublished /\ [Next]_vars
        => (TypeOK /\ Shape /\ Confirmable /\ PostedWasPublished)'
  BY TypeNext, ShapeNext, ConfirmableNext
<1> QED BY <1>1, <1>2, PTL DEF Spec

-----------------------------------------------------------------------------
(* Copies are paid for                                                     *)

B(i) == <<i, "bluesky">>
N == Cardinality(Instance)
Paid(f) == f * N

\* What may still send a copy of p: instances that post it, or will release it; instances
\* about to clear its claim; the post itself if it can be claimed; and a claim that a fault
\* left behind, which every instance may clear once.
Posting(p)  == {i \in Instance : p \in cur[B(i)] /\ pc[B(i)] \in {"post", "release"}}
Clearing(p) == {i \in Instance : p \in held[B(i)].clear /\ pc[B(i)] = "reset"}
Open(p) == claim[p] = "none" /\ p \notin posted \cup skipped
Left(p) == claim[p] = "stale" \/ (claim[p] = "fresh" /\ \A i \in Instance : p \notin cur[B(i)])

Weight(p) ==
    published[p] + Cardinality(Posting(p))
    + (IF Open(p) THEN 1 ELSE 0) + (IF Left(p) THEN N ELSE Cardinality(Clearing(p)))

\* Every failure pays for a copy by each instance.
Covered(p) == Weight(p) <= 1 + Paid(faults)

LEMMA Counted ==
    ASSUME NEW S \in SUBSET Instance
    PROVE  Cardinality(S) \in Nat /\ Cardinality(S) <= N /\ N \in Nat
BY ConstantsAssumption, FS_Subset, FS_CardinalityType DEF N

\* The number of a set that differs in i alone.
LEMMA Differ ==
    ASSUME NEW S \in SUBSET Instance, NEW T \in SUBSET Instance, NEW i \in Instance,
           S \ {i} = T \ {i}
    PROVE  Cardinality(T) = Cardinality(S) + (IF i \in T THEN 1 ELSE 0) - (IF i \in S THEN 1 ELSE 0)
<1>1. IsFiniteSet(S) /\ IsFiniteSet(T) BY ConstantsAssumption, FS_Subset
<1>2. Cardinality(S \ {i}) = IF i \in S THEN Cardinality(S) - 1 ELSE Cardinality(S)
  BY <1>1, FS_RemoveElement
<1>3. Cardinality(T \ {i}) = IF i \in T THEN Cardinality(T) - 1 ELSE Cardinality(T)
  BY <1>1, FS_RemoveElement
<1>4. Cardinality(S) \in Nat /\ Cardinality(T) \in Nat BY <1>1, FS_CardinalityType
<1> QED BY <1>2, <1>3, <1>4

LEMMA PaidMore ==
    /\ N \in Nat /\ (Instance # {} => N >= 1)
    /\ \A f \in Nat : Paid(f) \in Nat /\ Paid(f + 1) = Paid(f) + N
<1>1. N \in Nat /\ (Instance # {} => N >= 1)
  BY ConstantsAssumption, FS_EmptySet, FS_CardinalityType DEF N
<1>2. \A f \in Nat : f * N \in Nat /\ (f + 1) * N = f * N + N BY <1>1
<1> QED BY <1>1, <1>2 DEF Paid

\* The numbers a step of instance i's thread for Bluesky moves.
LEMMA Moved ==
    ASSUME TypeOK, TypeOK', NEW p \in Bsky, NEW i \in Instance, Alone(B(i))
    PROVE  /\ Cardinality(Posting(p)) \in Nat /\ Cardinality(Clearing(p)) \in Nat
           /\ Cardinality(Posting(p)') \in Nat /\ Cardinality(Clearing(p)') \in Nat
           /\ Cardinality(Clearing(p)) <= N /\ Cardinality(Clearing(p)') <= N
           /\ Cardinality(Posting(p)') = Cardinality(Posting(p))
                 + (IF i \in Posting(p)' THEN 1 ELSE 0) - (IF i \in Posting(p) THEN 1 ELSE 0)
           /\ Cardinality(Clearing(p)') = Cardinality(Clearing(p))
                 + (IF i \in Clearing(p)' THEN 1 ELSE 0) - (IF i \in Clearing(p) THEN 1 ELSE 0)
           /\ N \in Nat /\ N >= 1
           /\ faults \in Nat /\ Paid(faults) \in Nat /\ Paid(faults + 1) = Paid(faults) + N
           /\ published[p] \in Nat /\ published'[p] \in Nat
<1>1. \A j \in Instance \ {i} : B(j) \in Thread \ {B(i)} BY DEF Thread, B
<1>2. Posting(p) \ {i} = Posting(p)' \ {i} BY <1>1 DEF Posting, Alone
<1>3. Clearing(p) \ {i} = Clearing(p)' \ {i} BY <1>1 DEF Clearing, Alone
<1>4. Posting(p) \in SUBSET Instance /\ Clearing(p) \in SUBSET Instance BY DEF Posting, Clearing
<1>5. Posting(p)' \in SUBSET Instance /\ Clearing(p)' \in SUBSET Instance
  BY DEF Posting, Clearing
<1>6. p \in Post /\ Instance # {} BY DEF Post
<1>7. Cardinality(Posting(p)') = Cardinality(Posting(p))
        + (IF i \in Posting(p)' THEN 1 ELSE 0) - (IF i \in Posting(p) THEN 1 ELSE 0)
  BY <1>2, <1>4, <1>5, Differ
<1>8. Cardinality(Clearing(p)') = Cardinality(Clearing(p))
        + (IF i \in Clearing(p)' THEN 1 ELSE 0) - (IF i \in Clearing(p) THEN 1 ELSE 0)
  BY <1>3, <1>4, <1>5, Differ
<1>9. /\ faults \in Nat /\ Paid(faults) \in Nat /\ Paid(faults + 1) = Paid(faults) + N
      /\ published[p] \in Nat /\ published'[p] \in Nat
  BY <1>6, PaidMore DEF TypeOK
<1> QED BY <1>4, <1>5, <1>6, <1>7, <1>8, <1>9, Counted, PaidMore

\* What a step of i may do to p's weight when it moves nothing, and when a fault pays.
LEMMA Balance ==
    ASSUME TypeOK, TypeOK', NEW p \in Bsky, NEW i \in Instance, Alone(B(i)), Covered(p),
           \/ /\ faults' = faults /\ published'[p] = published[p] /\ Open(p)' = Open(p)
              /\ i \in Posting(p)' => i \in Posting(p)
              /\ Left(p)' = Left(p) /\ (Left(p) \/ (i \in Clearing(p)' => i \in Clearing(p)))
           \/ /\ faults' = faults + 1 /\ published'[p] <= published[p] + 1 /\ Open(p)' = Open(p)
              /\ i \in Posting(p)' => i \in Posting(p)
              /\ i \in Clearing(p)' => i \in Clearing(p)
              /\ published'[p] = published[p] \/ Left(p)' = Left(p)
    PROVE  Covered(p)'
<1> DEFINE a == Cardinality(Posting(p))
           b == Cardinality(Clearing(p))
           c == Cardinality(Posting(p)')
           d == Cardinality(Clearing(p)')
           o == IF Open(p) THEN 1 ELSE 0
<1>1. /\ a \in Nat /\ b \in Nat /\ c \in Nat /\ d \in Nat /\ b <= N /\ d <= N
      /\ N \in Nat /\ N >= 1 /\ Paid(faults) \in Nat /\ Paid(faults + 1) = Paid(faults) + N
      /\ published[p] \in Nat /\ published'[p] \in Nat
  BY Moved
<1>2. i \in Posting(p)' => i \in Posting(p) OBVIOUS
<1>3. c <= a
  <2>1. c = a + (IF i \in Posting(p)' THEN 1 ELSE 0) - (IF i \in Posting(p) THEN 1 ELSE 0)
    BY Moved
  <2> HIDE DEF a, c
  <2> QED BY <1>1, <1>2, <2>1
<1>4. (i \in Clearing(p)' => i \in Clearing(p)) => d <= b
  <2>1. d = b + (IF i \in Clearing(p)' THEN 1 ELSE 0) - (IF i \in Clearing(p) THEN 1 ELSE 0)
    BY Moved
  <2> HIDE DEF b, d
  <2> QED BY <1>1, <2>1
<1>5. Covered(p) <=> published[p] + a + o + (IF Left(p) THEN N ELSE b) <= 1 + Paid(faults)
  BY DEF Covered, Weight
<1>6. Covered(p)' <=> published'[p] + c + (IF Open(p)' THEN 1 ELSE 0) + (IF Left(p)' THEN N ELSE d)
                        <= 1 + Paid(faults')
  BY DEF Covered, Weight, Paid, N
<1>7. Open(p)' = Open(p) OBVIOUS
<1>8. o \in Nat OBVIOUS
<1>9. (IF Open(p)' THEN 1 ELSE 0) = o BY <1>7
<1> HIDE DEF a, b, c, d, o
<1>10. CASE faults' = faults /\ published'[p] = published[p]
            /\ Left(p)' = Left(p) /\ (Left(p) \/ (i \in Clearing(p)' => i \in Clearing(p)))
  BY <1>1, <1>3, <1>4, <1>5, <1>6, <1>8, <1>9, <1>10
<1>11. CASE faults' = faults + 1 /\ published'[p] <= published[p] + 1
            /\ (i \in Clearing(p)' => i \in Clearing(p))
            /\ (published'[p] = published[p] \/ Left(p)' = Left(p))
  BY <1>1, <1>3, <1>4, <1>5, <1>6, <1>8, <1>9, <1>11
<1> QED BY <1>10, <1>11

\* What a step of i may do to p's weight without a fault: the copy it sends, or the claim it
\* takes or gives back, was counted before.
LEMMA Exchange ==
    ASSUME TypeOK, TypeOK', NEW p \in Bsky, NEW i \in Instance, Alone(B(i)), Covered(p),
           faults' = faults, i \in Clearing(p)' => i \in Clearing(p),
           \/ /\ published'[p] <= published[p] + 1 /\ Open(p)' = Open(p) /\ Left(p)' = Left(p)
              /\ i \in Posting(p) /\ i \notin Posting(p)'
           \/ /\ published'[p] = published[p] /\ ~ Left(p)'
              /\ i \in Posting(p)' => i \in Posting(p)
              /\ \/ ~ Open(p)'
                 \/ Open(p)
                 \/ i \in Posting(p) /\ i \notin Posting(p)'
                 \/ i \in Clearing(p) /\ i \notin Clearing(p)'
           \/ published'[p] = published[p] /\ ~ Left(p)' /\ Open(p) /\ ~ Open(p)'
    PROVE  Covered(p)'
<1> DEFINE a == Cardinality(Posting(p))
           b == Cardinality(Clearing(p))
           c == Cardinality(Posting(p)')
           d == Cardinality(Clearing(p)')
           o == IF Open(p) THEN 1 ELSE 0
           q == IF Open(p)' THEN 1 ELSE 0
<1>1. /\ a \in Nat /\ b \in Nat /\ c \in Nat /\ d \in Nat /\ b <= N /\ d <= N
      /\ N \in Nat /\ N >= 1 /\ Paid(faults) \in Nat
      /\ published[p] \in Nat /\ published'[p] \in Nat
  BY Moved
<1>2. c = a + (IF i \in Posting(p)' THEN 1 ELSE 0) - (IF i \in Posting(p) THEN 1 ELSE 0)
  BY Moved
<1>3. d = b + (IF i \in Clearing(p)' THEN 1 ELSE 0) - (IF i \in Clearing(p) THEN 1 ELSE 0)
  BY Moved
<1>4. ~ (Open(p) /\ Left(p)) BY DEF Open, Left
<1>5. published[p] + a + o + (IF Left(p) THEN N ELSE b) <= 1 + Paid(faults)
  BY DEF Covered, Weight
<1>6. Covered(p)' <=> published'[p] + c + q + (IF Left(p)' THEN N ELSE d) <= 1 + Paid(faults)
  BY DEF Covered, Weight, Paid, N
<1>7. /\ o \in 0..1 /\ (o = 1 <=> Open(p))
      /\ q \in 0..1 /\ (q = 1 <=> Open(p)')
  OBVIOUS
<1> HIDE DEF a, b, c, d, o, q
<1>8. d <= b BY <1>1, <1>3
<1>9. CASE /\ published'[p] <= published[p] + 1 /\ Open(p)' = Open(p) /\ Left(p)' = Left(p)
           /\ i \in Posting(p) /\ i \notin Posting(p)'
  <2>1. c = a - 1 BY <1>1, <1>2, <1>9
  <2>2. o = q BY <1>7, <1>9
  <2> QED BY <1>1, <1>5, <1>6, <1>7, <1>8, <1>9, <2>1, <2>2
<1>10. CASE /\ published'[p] = published[p] /\ ~ Left(p)' /\ (i \in Posting(p)' => i \in Posting(p))
  <2>1. c <= a BY <1>1, <1>2, <1>10
  <2>2. CASE ~ Open(p)' \/ Open(p)
    <3>1. q <= o BY <1>7, <2>2
    <3> QED BY <1>1, <1>5, <1>6, <1>7, <1>8, <1>10, <2>1, <3>1
  <2>3. CASE i \in Posting(p) /\ i \notin Posting(p)'
    <3>1. c = a - 1 BY <1>1, <1>2, <2>3
    <3> QED BY <1>1, <1>5, <1>6, <1>7, <1>8, <1>10, <3>1
  <2>4. CASE i \in Clearing(p) /\ i \notin Clearing(p)'
    <3>1. d = b - 1 BY <1>1, <1>3, <2>4
    <3> QED BY <1>1, <1>5, <1>6, <1>7, <1>10, <2>1, <3>1
  <2> QED BY <2>2, <2>3, <2>4
<1>11. CASE published'[p] = published[p] /\ ~ Left(p)' /\ Open(p) /\ ~ Open(p)'
  <2>1. c <= a + 1 BY <1>1, <1>2
  <2>2. o = 1 /\ q = 0 BY <1>7, <1>11
  <2> QED BY <1>1, <1>4, <1>5, <1>6, <1>8, <1>11, <2>1, <2>2
<1> QED BY <1>9, <1>10, <1>11

LEMMA Same ==
    ASSUME TypeOK, TypeOK', NEW p \in Bsky, NEW i \in Instance, Alone(B(i))
    PROVE  /\ claim'[p] = claim[p] /\ (p \in cur'[B(i)] <=> p \in cur[B(i)]) => Left(p)' = Left(p)
           /\ claim'[p] = claim[p] /\ (p \in posted' \cup skipped' <=> p \in posted \cup skipped)
                 => Open(p)' = Open(p)
           /\ i \in Posting(p) <=> p \in cur[B(i)] /\ pc[B(i)] \in {"post", "release"}
           /\ i \in Posting(p)' <=> p \in cur'[B(i)] /\ pc'[B(i)] \in {"post", "release"}
           /\ i \in Clearing(p) <=> p \in held[B(i)].clear /\ pc[B(i)] = "reset"
           /\ i \in Clearing(p)' <=> p \in held'[B(i)].clear /\ pc'[B(i)] = "reset"
           /\ B(i) \in Thread /\ p \in Post
<1>1. \A j \in Instance \ {i} : B(j) \in Thread \ {B(i)} BY DEF Thread, B
<1>2. \A j \in Instance \ {i} : cur'[B(j)] = cur[B(j)] BY <1>1 DEF Alone
<1>3. claim'[p] = claim[p] /\ (p \in cur'[B(i)] <=> p \in cur[B(i)]) => Left(p)' = Left(p)
  BY <1>2 DEF Left
<1>4. claim'[p] = claim[p] /\ (p \in posted' \cup skipped' <=> p \in posted \cup skipped)
         => Open(p)' = Open(p)
  BY DEF Open
<1>5. /\ i \in Posting(p) <=> p \in cur[B(i)] /\ pc[B(i)] \in {"post", "release"}
      /\ i \in Posting(p)' <=> p \in cur'[B(i)] /\ pc'[B(i)] \in {"post", "release"}
  BY DEF Posting
<1>6. /\ i \in Clearing(p) <=> p \in held[B(i)].clear /\ pc[B(i)] = "reset"
      /\ i \in Clearing(p)' <=> p \in held'[B(i)].clear /\ pc'[B(i)] = "reset"
  BY DEF Clearing
<1> QED BY <1>3, <1>4, <1>5, <1>6 DEF Thread, B, Post

\* The steps by which an instance loads rows and counts.
LEMMA LoadCovers ==
    ASSUME TypeOK, TypeOK', NEW p \in Bsky, NEW i \in Instance, Alone(B(i)), Covered(p),
           Begin(B(i)) \/ LoadOld(B(i)) \/ Count(B(i))
    PROVE  Covered(p)'
<1> DEFINE t == B(i)
<1>1. UNCHANGED <<rows, cur, faults, published>> BY DEF Begin, LoadOld, Count
<1>2. /\ Left(p)' = Left(p) /\ Open(p)' = Open(p) BY <1>1, Same DEF rows
<1>3. t \in Thread /\ pc \in [Thread -> Places] /\ held \in [Thread -> HeldRows]
  BY Same DEF TypeOK, Places, HeldRows
<1>4. pc'[t] \notin {"post", "release"}
  BY <1>3 DEF Begin, LoadOld, Count, Goto
<1>5. i \notin Posting(p)' BY <1>4, Same
<1>6. Left(p) \/ i \notin Clearing(p)'
  <2>1. CASE Begin(t)
    <3>1. CASE held' = [held EXCEPT ![t] = [clear |-> Stale, skip |-> {}]]
      <4>1. held'[t].clear = Stale BY <1>3, <3>1
      <4> QED BY <4>1, Same DEF Stale, Left
    <3>2. CASE pc'[t] # "reset" BY <3>2, Same
    <3> QED BY <1>3, <2>1, <3>1, <3>2 DEF Begin, Hold, Goto
  <2>2. CASE pc'[t] # "reset" BY <2>2, Same
  <2> QED BY <1>3, <2>1, <2>2 DEF LoadOld, Count, Goto
<1> QED BY <1>1, <1>2, <1>5, <1>6, Balance

\* The steps by which it clears stale claims and skips the backlog.
LEMMA WriteCovers ==
    ASSUME TypeOK, TypeOK', Shape, NEW p \in Bsky, NEW i \in Instance, Alone(B(i)), Covered(p),
           Reset(B(i)) \/ Skip(B(i))
    PROVE  Covered(p)'
<1> DEFINE t == B(i)
<1>1. /\ UNCHANGED <<posted, cur, published>> BY DEF Reset, Skip
<1>2. t \in Thread /\ p \in Post /\ pc \in [Thread -> Places] /\ DOMAIN claim = Post BY Same DEF TypeOK, Places
<1>3. pc[t] \in {"reset", "skipping"} /\ pc'[t] \in {"skip", "count"}
  BY <1>2 DEF Reset, Skip, Goto
<1>4. i \notin Posting(p)' /\ i \notin Clearing(p)' BY <1>3, Same
<1>5. CASE NoWrite /\ Fault
  <2>1. Left(p)' = Left(p) /\ Open(p)' = Open(p) BY <1>1, <1>5, Same DEF NoWrite
  <2>2. faults' = faults + 1 /\ published'[p] <= published[p] + 1
    BY <1>1, <1>2, <1>5 DEF Fault, TypeOK
  <2> QED BY <1>4, <2>1, <2>2, Balance
<1>6. CASE WriteHeld(t) /\ faults' = faults
  <2>1. CASE p \in held[t].clear
    <3>1. claim'[p] = "none" BY <1>2, <1>6, <2>1 DEF WriteHeld
    <3>2. ~ Left(p)' BY <3>1 DEF Left
    <3>3. i \in Clearing(p) \/ ~ Open(p)'
      <4>1. CASE pc[t] = "reset" BY <2>1, <4>1, Same
      <4>2. CASE pc[t] = "skipping"
        <5>1. p \in skipped' BY <1>2, <1>6, <2>1, <4>2 DEF WriteHeld, Shape
        <5> QED BY <5>1 DEF Open
      <4> QED BY <1>3, <4>1, <4>2
    <3> QED BY <1>1, <1>4, <1>6, <3>2, <3>3, Exchange
  <2>2. CASE p \notin held[t].clear
    <3>1. claim'[p] = claim[p] BY <1>2, <1>6, <2>2 DEF WriteHeld
    <3>2. Left(p)' = Left(p) BY <1>1, <3>1, Same
    <3>3. CASE p \notin skipped' \/ p \in posted \cup skipped
      <4>1. Open(p)' = Open(p) BY <1>1, <1>6, <3>1, <3>3, Same DEF WriteHeld
      <4> QED BY <1>1, <1>4, <1>6, <3>2, <4>1, Balance
    <3>4. CASE p \in skipped' /\ p \notin posted \cup skipped
      <4>1. ~ Open(p)' BY <3>4 DEF Open
      <4>2. CASE Open(p)
        <5>1. ~ Left(p)' BY <3>2, <4>2 DEF Open, Left
        <5> QED BY <1>1, <1>4, <1>6, <4>1, <5>1, Exchange
      <4>3. CASE ~ Open(p)
        <5>1. Open(p)' = Open(p) BY <4>1, <4>3 DEF Open
        <5> QED BY <1>1, <1>4, <1>6, <3>2, <5>1, Balance
      <4> QED BY <4>2, <4>3
    <3> QED BY <3>3, <3>4
  <2> QED BY <2>1, <2>2
<1> QED BY <1>5, <1>6 DEF Reset, Skip

LEMMA ClaimCovers ==
    ASSUME TypeOK, TypeOK', Shape, NEW p \in Bsky, NEW i \in Instance, Alone(B(i)), Covered(p),
           Claim(B(i))
    PROVE  Covered(p)'
<1> DEFINE t == B(i)
<1>1. UNCHANGED <<posted, skipped, faults, published, held>> BY DEF Claim
<1>2. /\ t \in Thread /\ p \in Post
      /\ pc \in [Thread -> Places] /\ DOMAIN claim = Post /\ DOMAIN cur = Thread
  BY Same DEF TypeOK, Places
<1>3. pc[t] = "claim" /\ cur[t] = {} /\ pc'[t] \in {"idle", "post"}
  BY <1>2 DEF Claim, Goto, Shape
<1>4. i \notin Clearing(p)' BY <1>3, Same
<1>5. CASE UNCHANGED <<claim, cur>>
  <2>1. Left(p)' = Left(p) /\ Open(p)' = Open(p) BY <1>1, <1>5, Same
  <2>2. i \notin Posting(p)' BY <1>3, <1>5, Same
  <2> QED BY <1>1, <1>4, <2>1, <2>2, Balance
<1>6. ASSUME NEW q \in Claimable(t), claim' = [claim EXCEPT ![q] = "fresh"],
             cur' = [cur EXCEPT ![t] = {q}]
      PROVE  Covered(p)'
  <2>1. CASE q = p
    <3>1. claim[p] = "none" /\ claim'[p] = "fresh" /\ p \in cur'[t] /\ Open(p)
      BY <1>2, <1>6, <2>1 DEF Claimable, Open
    <3>2. ~ Left(p)' /\ ~ Open(p)' BY <3>1 DEF Left, Open
    <3> QED BY <1>1, <1>4, <3>1, <3>2, Exchange
  <2>2. CASE q # p
    <3>1. claim'[p] = claim[p] /\ p \notin cur'[t] BY <1>2, <1>6, <2>2
    <3>2. Left(p)' = Left(p) /\ Open(p)' = Open(p) BY <1>1, <1>3, <3>1, Same
    <3>3. i \notin Posting(p)' BY <3>1, Same
    <3> QED BY <1>1, <1>4, <3>2, <3>3, Balance
  <2> QED BY <2>1, <2>2
<1> QED BY <1>5, <1>6 DEF Claim

LEMMA PostCovers ==
    ASSUME TypeOK, TypeOK', Shape, NEW p \in Bsky, NEW i \in Instance, Alone(B(i)), Covered(p),
           Accept(B(i)) \/ Refuse(B(i))
    PROVE  Covered(p)'
<1> DEFINE t == B(i)
<1>1. UNCHANGED <<claim, posted, skipped, held, cur>> BY DEF Accept, Refuse, rows
<1>2. t \in Thread /\ p \in Post /\ pc \in [Thread -> Places] /\ published \in [Post -> Nat]
  BY Same DEF TypeOK, Places
<1>3. Left(p)' = Left(p) /\ Open(p)' = Open(p) BY <1>1, Same
<1>4. pc[t] = "post" /\ pc'[t] \in {"post", "confirm", "release"}
  BY <1>2 DEF Accept, Refuse, Goto
<1>5. i \notin Clearing(p)' /\ (i \in Posting(p)' => i \in Posting(p)) BY <1>1, <1>4, Same
<1>6. ASSUME NEW q, Publish(q)
      PROVE  published'[p] = IF q = p THEN published[p] + 1 ELSE published[p]
  BY <1>2, <1>6 DEF Publish
<1>7. CASE Accept(t)
  <2>1. faults' = faults /\ pc'[t] = "confirm" BY <1>2, <1>7 DEF Accept, Goto
  <2>2. published'[p] = published[p] \/ (p \in cur[t] /\ published'[p] = published[p] + 1)
    BY <1>6, <1>7 DEF Accept
  <2>3. CASE published'[p] = published[p] BY <1>3, <1>5, <2>1, <2>3, Balance
  <2>4. CASE p \in cur[t] /\ published'[p] = published[p] + 1
    <3>1. i \in Posting(p) /\ i \notin Posting(p)' BY <1>4, <2>1, <2>4, Same
    <3>2. published'[p] <= published[p] + 1 BY <1>2, <2>4
    <3> QED BY <1>3, <1>5, <2>1, <3>1, <3>2, Exchange
  <2> QED BY <2>2, <2>3, <2>4
<1>8. CASE Refuse(t)
  <2>1. \/ faults' = faults /\ published' = published
        \/ faults' = faults + 1 /\ \E q : Publish(q)
    BY <1>8 DEF Refuse, Fault
  <2>2. published'[p] <= published[p] + 1 BY <1>2, <1>6, <2>1
  <2> QED BY <1>3, <1>5, <2>1, <2>2, Balance
<1> QED BY <1>7, <1>8

LEMMA ConfirmCovers ==
    ASSUME TypeOK, TypeOK', Shape, NEW p \in Bsky, NEW i \in Instance, Alone(B(i)), Covered(p),
           Confirm(B(i)) \/ Crash(B(i))
    PROVE  Covered(p)'
<1> DEFINE t == B(i)
<1>1. UNCHANGED <<skipped, published>> BY DEF Confirm, Crash, rows
<1>2. /\ t \in Thread /\ p \in Post /\ pc \in [Thread -> Places]
      /\ DOMAIN cur = Thread /\ DOMAIN claim = Post
  BY Same DEF TypeOK, Places
<1>3. cur'[t] = {} /\ pc'[t] = "idle"
  BY <1>2 DEF Confirm, Crash, Leave, Goto, Nobody, B
<1>4. i \notin Posting(p)' /\ i \notin Clearing(p)' BY <1>3, Same
<1>5. CASE Fault /\ UNCHANGED <<claim, posted>>
  <2>1. Open(p)' = Open(p) BY <1>1, <1>5, Same
  <2>2. published'[p] <= published[p] + 1 /\ published'[p] = published[p]
    BY <1>1, <1>2 DEF TypeOK
  <2> QED BY <1>4, <1>5, <2>1, <2>2, Balance DEF Fault
<1>6. CASE /\ faults' = faults /\ pc[t] \in {"confirm", "release"}
           /\ claim' = [q \in Post |-> IF q \in cur[t] THEN "none" ELSE claim[q]]
           /\ posted' = IF pc[t] = "confirm" THEN posted \cup cur[t] ELSE posted
  <2>1. CASE p \in cur[t]
    <3>1. claim'[p] = "none" BY <1>2, <1>6, <2>1
    <3>2. ~ Left(p)' BY <3>1 DEF Left
    <3>3. i \in Posting(p) \/ ~ Open(p)' BY <1>6, <2>1, Same DEF Open
    <3> QED BY <1>1, <1>4, <1>6, <3>2, <3>3, Exchange
  <2>2. CASE p \notin cur[t]
    <3>1. claim'[p] = claim[p] /\ (p \in posted' <=> p \in posted) BY <1>2, <1>6, <2>2
    <3>2. Left(p)' = Left(p) /\ Open(p)' = Open(p) BY <1>1, <1>3, <2>2, <3>1, Same
    <3> QED BY <1>1, <1>4, <1>6, <3>2, Balance
  <2> QED BY <2>1, <2>2
<1>7. CASE Crash(t) BY <1>5, <1>7 DEF Crash, rows
<1>8. CASE Confirm(t) BY <1>5, <1>6, <1>8 DEF Confirm
<1> QED BY <1>7, <1>8

\* Threads of X hold no post to Bluesky and change none.
LEMMA XCovers ==
    ASSUME TypeOK, TypeOK', Shape, NEW p \in Bsky, NEW t \in Thread, t[2] = "x", Covered(p),
           Step(t) \/ Crash(t)
    PROVE  Covered(p)'
<1>1. Alone(t) BY StepsAlone
<1>2. \A i \in Instance : B(i) \in Thread \ {t} BY DEF Thread, B
<1>3. Posting(p)' = Posting(p) /\ Clearing(p)' = Clearing(p) BY <1>1, <1>2 DEF Posting, Clearing, Alone
<1>4. \A i \in Instance : cur'[B(i)] = cur[B(i)] BY <1>1, <1>2 DEF Alone
<1>5. p \in Post /\ p \notin cur[t] /\ p \notin Claimable(t)
  BY ConstantsAssumption DEF Shape, Due, Post, Claimable
<1>6. ~ Reset(t) /\ ~ LoadOld(t) /\ ~ Skip(t) /\ ~ Count(t)
  BY DEF Shape, Reset, LoadOld, Skip, Count
<1>7. /\ claim'[p] = claim[p] /\ published'[p] = published[p] /\ skipped' = skipped
      /\ p \in posted' <=> p \in posted
      /\ faults' = faults \/ faults' = faults + 1
  <2>1. CASE Begin(t) \/ Crash(t) BY <2>1 DEF Begin, Crash, rows, Fault
  <2>2. CASE Claim(t) BY <1>5, <2>2 DEF Claim, TypeOK
  <2>3. CASE Accept(t) \/ Refuse(t)
    <3>1. \A q \in cur[t] : Publish(q) => published'[p] = published[p]
      BY <1>5 DEF Publish, TypeOK
    <3> QED BY <2>3, <3>1 DEF Accept, Refuse, rows, Fault
  <2>4. CASE Confirm(t) BY <1>5, <2>4 DEF Confirm, Fault
  <2> QED BY <1>6, <2>1, <2>2, <2>3, <2>4 DEF Step
<1>8. Open(p)' = Open(p) /\ Left(p)' = Left(p) BY <1>4, <1>7 DEF Open, Left
<1>9. Weight(p)' = Weight(p) BY <1>3, <1>7, <1>8 DEF Weight, N
<1>10. Weight(p) <= 1 + Paid(faults) BY DEF Covered
<1>11. faults \in Nat /\ N \in Nat /\ Paid(faults) \in Nat /\ Paid(faults + 1) = Paid(faults) + N
  BY PaidMore DEF TypeOK
<1>12. Weight(p) \in Int
  <2>1. Cardinality(Posting(p)) \in Nat /\ Cardinality(Clearing(p)) \in Nat
    BY Counted DEF Posting, Clearing
  <2> QED BY <1>5, <1>11, <2>1 DEF Weight, TypeOK
<1>13. Covered(p)' <=> Weight(p)' <= 1 + Paid(faults') BY DEF Covered, Paid, N
<1> QED BY <1>7, <1>9, <1>10, <1>11, <1>12, <1>13

\* A claim that grows stale was left by its thread, or a failure pays for it.
LEMMA TimeCovers ==
    ASSUME TypeOK, TypeOK', NEW p \in Bsky, Covered(p),
           \/ \E q \in Bsky : Stales(q)
           \/ UNCHANGED <<claim, posted, skipped, threads, faults, published>>
    PROVE  Covered(p)'
<1>1. UNCHANGED <<posted, skipped, threads, published>> BY DEF Stales
<1>2. Posting(p)' = Posting(p) /\ Clearing(p)' = Clearing(p)
  BY <1>1 DEF Posting, Clearing, threads
<1>3. /\ N \in Nat /\ faults \in Nat /\ Paid(faults) \in Nat
      /\ Paid(faults + 1) = Paid(faults) + N
  BY PaidMore DEF TypeOK
<1>4. /\ Cardinality(Posting(p)) \in Nat /\ Cardinality(Clearing(p)) \in Nat
      /\ published[p] \in Nat /\ p \in Post
  <2>1. p \in Post BY DEF Post
  <2>2. Posting(p) \in SUBSET Instance /\ Clearing(p) \in SUBSET Instance
    BY DEF Posting, Clearing
  <2> QED BY <2>1, <2>2, Counted DEF TypeOK
<1>5. Covered(p)' <=> Weight(p)' <= 1 + Paid(faults') BY DEF Covered, Paid, N
<1>6. Weight(p) <= 1 + Paid(faults) BY DEF Covered
<1>7. Weight(p) \in Int BY <1>3, <1>4 DEF Weight
<1>8. CASE claim'[p] = claim[p] /\ faults' \in {faults, faults + 1}
  <2>1. Open(p)' = Open(p) /\ Left(p)' = Left(p) BY <1>1, <1>8 DEF Open, Left, threads
  <2>2. Weight(p)' = Weight(p) BY <1>1, <1>2, <2>1 DEF Weight, N
  <2> QED BY <1>3, <1>5, <1>6, <1>7, <1>8, <2>2
<1>9. CASE Stales(p)
  <2>1. ~ Open(p) /\ ~ Open(p)' /\ Left(p)'
    BY <1>4, <1>9 DEF Stales, Open, Left, TypeOK
  <2>2. Weight(p)' = published[p] + Cardinality(Posting(p)) + N
    BY <1>1, <1>2, <1>3, <1>4, <2>1 DEF Weight, N
  <2>3. CASE \E t \in Thread : p \in cur[t]
    <3>1. faults' = faults + 1 BY <1>9, <2>3 DEF Stales, Fault
    <3>2. published[p] + Cardinality(Posting(p)) <= Weight(p) BY <1>3, <1>4 DEF Weight
    <3> QED BY <1>3, <1>4, <1>5, <1>6, <1>7, <2>2, <3>1, <3>2
  <2>4. CASE ~ \E t \in Thread : p \in cur[t]
    <3>1. faults' = faults BY <1>9, <2>4 DEF Stales
    <3>2. Left(p) BY <1>9, <2>4 DEF Stales, Left, Thread, B
    <3>3. Weight(p)' = Weight(p) BY <1>3, <1>4, <2>1, <2>2, <3>2 DEF Weight
    <3> QED BY <1>5, <1>6, <3>1, <3>3
  <2> QED BY <2>3, <2>4
<1>10. \A q \in Bsky : Stales(q) /\ q # p =>
          claim'[p] = claim[p] /\ faults' \in {faults, faults + 1}
  BY <1>4 DEF Stales, Fault, TypeOK
<1> QED BY <1>8, <1>9, <1>10

\* X: an instance that has p, and has not had it taken; p itself if it can be claimed.
T(i) == <<i, "x">>
Owing(p) == {i \in XInstance : p \in cur[T(i)] /\ pc[T(i)] \in {"post", "release"}}
XWeight(p) == published[p] + Cardinality(Owing(p)) + (IF Open(p) THEN 1 ELSE 0)
XCovered(p) == XWeight(p) <= 1 + Paid(faults)
AllXCovered == \A p \in X : XCovered(p)

AllCovered == \A p \in Bsky : Covered(p)

LEMMA CoversNext ==
    ASSUME TypeOK, Shape, AllCovered, [Next]_vars
    PROVE  AllCovered'
<1> SUFFICES ASSUME NEW p \in Bsky PROVE Covered(p)' BY DEF AllCovered
<1>1. TypeOK' /\ Covered(p) BY TypeNext DEF AllCovered
<1>2. ASSUME NEW t \in Thread, Step(t) \/ Crash(t)
      PROVE  Covered(p)'
  <2>1. CASE t[2] = "x" BY <1>1, <1>2, <2>1, XCovers
  <2>2. CASE t[2] # "x"
    <3>1. PICK i \in Instance : t = B(i) BY <2>2 DEF Thread, B
    <3>2. Alone(B(i)) BY <1>2, <3>1, StepsAlone
    <3> QED BY <1>1, <1>2, <3>1, <3>2, LoadCovers, WriteCovers, ClaimCovers, PostCovers,
               ConfirmCovers DEF Step
  <2> QED BY <2>1, <2>2
<1>3. CASE \E q \in Bsky : Stales(q) BY <1>1, <1>3, TimeCovers
<1>4. CASE UNCHANGED <<claim, posted, skipped, threads, faults, published>>
  BY <1>1, <1>4, TimeCovers
<1> QED BY <1>2, <1>3, <1>4 DEF Next, vars, rows, Schedule, Ages, Midnight

\* The number of instances that owe a copy, when t moves.
LEMMA OwingMoved ==
    ASSUME TypeOK, NEW p \in X, NEW i \in XInstance, Alone(T(i))
    PROVE  /\ Cardinality(Owing(p)) \in Nat /\ Cardinality(Owing(p)') \in Nat
           /\ Cardinality(Owing(p)') = Cardinality(Owing(p))
                 + (IF i \in Owing(p)' THEN 1 ELSE 0) - (IF i \in Owing(p) THEN 1 ELSE 0)
           /\ i \in Owing(p) <=> p \in cur[T(i)] /\ pc[T(i)] \in {"post", "release"}
           /\ i \in Owing(p)' <=> p \in cur'[T(i)] /\ pc'[T(i)] \in {"post", "release"}
<1>1. \A j \in XInstance \ {i} : T(j) \in Thread \ {T(i)} BY DEF Thread, T
<1>2. Owing(p) \ {i} = Owing(p)' \ {i} BY <1>1 DEF Owing, Alone
<1>3. /\ Owing(p) \in SUBSET Instance /\ Owing(p)' \in SUBSET Instance /\ i \in Instance
  BY ConstantsAssumption DEF Owing
<1>4. /\ Cardinality(Owing(p)) \in Nat /\ Cardinality(Owing(p)') \in Nat
      /\ Cardinality(Owing(p)') = Cardinality(Owing(p))
            + (IF i \in Owing(p)' THEN 1 ELSE 0) - (IF i \in Owing(p) THEN 1 ELSE 0)
  BY <1>2, <1>3, Counted, Differ
<1> QED BY <1>4 DEF Owing

\* A copy that X takes was owed, or a failure pays for it.
LEMMA XThreadCovers ==
    ASSUME TypeOK, TypeOK', Shape, NEW p \in X, XCovered(p), NEW i \in XInstance,
           Step(T(i)) \/ Crash(T(i))
    PROVE  XCovered(p)'
<1> DEFINE t == T(i)
           a == Cardinality(Owing(p))
           c == Cardinality(Owing(p)')
           o == IF Open(p) THEN 1 ELSE 0
           q == IF Open(p)' THEN 1 ELSE 0
<1>1. Alone(t) BY StepsAlone DEF Thread, T
<1>2. /\ t \in Thread /\ t[2] = "x" /\ p \in Post /\ i \in Instance
      /\ pc \in [Thread -> Places] /\ DOMAIN cur = Thread /\ DOMAIN claim = Post
  BY ConstantsAssumption DEF Thread, T, Post, TypeOK, Places
<1>3. /\ a \in Nat /\ c \in Nat
      /\ c = a + (IF i \in Owing(p)' THEN 1 ELSE 0) - (IF i \in Owing(p) THEN 1 ELSE 0)
      /\ i \in Owing(p) <=> p \in cur[t] /\ pc[t] \in {"post", "release"}
      /\ i \in Owing(p)' <=> p \in cur'[t] /\ pc'[t] \in {"post", "release"}
  BY <1>1, OwingMoved
<1>4. /\ published[p] \in Nat /\ published'[p] \in Nat /\ faults \in Nat
      /\ N \in Nat /\ N >= 1 /\ Paid(faults) \in Nat /\ Paid(faults + 1) = Paid(faults) + N
  BY <1>2, PaidMore DEF TypeOK
<1>5. published[p] + a + o <= 1 + Paid(faults) BY DEF XCovered, XWeight
<1>6. XCovered(p)' <=> published'[p] + c + q <= 1 + Paid(faults')
  BY DEF XCovered, XWeight, Paid, N
<1>7. o \in 0..1 /\ (o = 1 <=> Open(p)) /\ q \in 0..1 /\ (q = 1 <=> Open(p)') OBVIOUS
<1>8. ~ Reset(t) /\ ~ LoadOld(t) /\ ~ Skip(t) /\ ~ Count(t)
  BY <1>2 DEF Shape, Reset, LoadOld, Skip, Count
<1>9. cur[t] \subseteq Post /\ \A r, u \in cur[t] : r = u BY <1>2 DEF Shape, TypeOK
<1> HIDE DEF a, c, o, q
<1>10. CASE Begin(t)
  <2>1. pc'[t] = "claim" /\ UNCHANGED <<rows, cur, published, faults>>
    BY <1>2, <1>10 DEF Begin, Goto
  <2>2. q = o BY <1>7, <2>1 DEF Open, rows
  <2> QED BY <1>3, <1>4, <1>5, <1>6, <1>7, <2>1, <2>2
<1>11. CASE Claim(t)
  <2>1. UNCHANGED <<posted, skipped, published, faults>> BY <1>11 DEF Claim
  <2>2. pc[t] = "claim" /\ i \notin Owing(p) BY <1>3, <1>11 DEF Claim
  <2>3. CASE pc'[t] = "idle" /\ UNCHANGED <<claim, cur>>
    <3>1. q = o BY <1>7, <2>1, <2>3 DEF Open
    <3> QED BY <1>3, <1>4, <1>5, <1>6, <1>7, <2>1, <2>3, <3>1
  <2>4. CASE \E r \in Claimable(t) : /\ claim' = [claim EXCEPT ![r] = "fresh"]
                                     /\ cur' = [cur EXCEPT ![t] = {r}]
    <3>1. PICK r \in Claimable(t) : /\ claim' = [claim EXCEPT ![r] = "fresh"]
                                    /\ cur' = [cur EXCEPT ![t] = {r}]
      BY <2>4
    <3>2. CASE r = p
      <4>1. o = 1 /\ q = 0 BY <1>2, <1>7, <2>1, <3>1, <3>2 DEF Claimable, Open
      <4> QED BY <1>3, <1>4, <1>5, <1>6, <2>1, <4>1
    <3>3. CASE r # p
      <4>1. q = o BY <1>2, <1>7, <2>1, <3>1, <3>3 DEF Open
      <4>2. i \notin Owing(p)' BY <1>2, <1>3, <3>1, <3>3
      <4> QED BY <1>3, <1>4, <1>5, <1>6, <1>7, <2>1, <2>2, <4>1, <4>2
    <3> QED BY <3>2, <3>3
  <2> QED BY <1>2, <1>11, <2>3, <2>4 DEF Claim, Goto
<1>12. CASE Accept(t) \/ Refuse(t)
  <2>1. pc[t] = "post" /\ UNCHANGED <<rows, cur>> BY <1>12 DEF Accept, Refuse
  <2>2. q = o BY <1>7, <2>1 DEF Open, rows
  <2>3. /\ published'[p] <= published[p] + 1
        /\ p \notin cur[t] => published'[p] = published[p]
    BY <1>2, <1>9, <1>12 DEF Accept, Refuse, Publish, TypeOK
  <2>4. CASE Accept(t)
    <3>1. pc'[t] = "confirm" /\ faults' = faults BY <1>2, <2>4 DEF Accept, Goto
    <3> QED BY <1>3, <1>4, <1>5, <1>6, <1>7, <2>1, <2>2, <2>3, <3>1
  <2>5. CASE Refuse(t)
    <3>1. \/ faults' = faults /\ published' = published
          \/ faults' = faults + 1
      BY <2>5 DEF Refuse, Fault
    <3>2. c <= a BY <1>3, <2>1
    <3> QED BY <1>3, <1>4, <1>5, <1>6, <1>7, <2>2, <2>3, <3>1, <3>2
  <2> QED BY <1>12, <2>4, <2>5
<1>13. CASE Confirm(t)
  <2>1. /\ pc[t] \in {"confirm", "release"} /\ pc'[t] = "claim" /\ cur'[t] = {}
        /\ UNCHANGED <<skipped, published>>
    BY <1>2, <1>13 DEF Confirm, Leave, Goto, Nobody
  <2>2. c <= a BY <1>3, <2>1
  <2>3. CASE faults' = faults + 1 /\ UNCHANGED <<claim, posted>>
    <3>1. q = o BY <1>7, <2>1, <2>3 DEF Open
    <3> QED BY <1>3, <1>4, <1>5, <1>6, <1>7, <2>1, <2>2, <2>3, <3>1
  <2>4. CASE /\ faults' = faults
             /\ claim' = [r \in Post |-> IF r \in cur[t] THEN "none" ELSE claim[r]]
             /\ posted' = IF pc[t] = "confirm" THEN posted \cup cur[t] ELSE posted
    <3>1. CASE p \notin cur[t]
      <4>1. q = o BY <1>2, <1>7, <2>1, <2>4, <3>1 DEF Open
      <4> QED BY <1>3, <1>4, <1>5, <1>6, <1>7, <2>1, <2>2, <2>4, <4>1
    <3>2. CASE p \in cur[t] /\ pc[t] = "release"
      <4>1. c = a - 1 BY <1>3, <2>1, <3>2
      <4> QED BY <1>3, <1>4, <1>5, <1>6, <1>7, <2>1, <2>4, <4>1
    <3>3. CASE p \in cur[t] /\ pc[t] = "confirm"
      <4>1. q = 0 BY <1>7, <2>4, <3>3 DEF Open
      <4> QED BY <1>3, <1>4, <1>5, <1>6, <1>7, <2>1, <2>2, <2>4, <4>1
    <3> QED BY <2>1, <3>1, <3>2, <3>3
  <2> QED BY <1>13, <2>3, <2>4 DEF Confirm, Fault
<1>14. CASE Crash(t)
  <2>1. pc'[t] = "idle" /\ UNCHANGED <<rows, published>> /\ faults' = faults + 1
    BY <1>2, <1>14 DEF Crash, Goto, Fault
  <2>2. q = o BY <1>7, <2>1 DEF Open, rows
  <2> QED BY <1>3, <1>4, <1>5, <1>6, <1>7, <2>1, <2>2
<1> QED BY <1>8, <1>10, <1>11, <1>12, <1>13, <1>14 DEF Step

\* A step that leaves p, the threads of X and what X has as they are.
LEMMA XKeptCovers ==
    ASSUME TypeOK, TypeOK', NEW p \in X, XCovered(p),
           claim'[p] = claim[p], p \in posted' \cup skipped' <=> p \in posted \cup skipped,
           published'[p] = published[p], faults' \in {faults, faults + 1},
           \A i \in XInstance : pc'[T(i)] = pc[T(i)] /\ cur'[T(i)] = cur[T(i)]
    PROVE  XCovered(p)'
<1>1. Owing(p)' = Owing(p) BY DEF Owing
<1>2. Open(p)' = Open(p) BY DEF Open
<1>3. XWeight(p)' = XWeight(p) BY <1>1, <1>2 DEF XWeight
<1>4. Owing(p) \in SUBSET Instance /\ p \in Post BY ConstantsAssumption DEF Owing, Post
<1>5. XWeight(p) \in Int BY <1>4, Counted DEF XWeight, TypeOK
<1>6. faults \in Nat /\ N \in Nat /\ Paid(faults) \in Nat /\ Paid(faults + 1) = Paid(faults) + N
  BY PaidMore DEF TypeOK
<1>7. XCovered(p)' <=> XWeight(p)' <= 1 + Paid(faults') BY DEF XCovered, Paid, N
<1> QED BY <1>3, <1>5, <1>6, <1>7 DEF XCovered

\* Threads of Bluesky hold no post to X and change none.
LEMMA BskyThreadKeepsX ==
    ASSUME TypeOK, TypeOK', Shape, NEW p \in X, XCovered(p), NEW i \in Instance,
           Step(B(i)) \/ Crash(B(i))
    PROVE  XCovered(p)'
<1> DEFINE t == B(i)
<1>1. t \in Thread /\ Alone(t) BY StepsAlone DEF Thread, B
<1>2. \A j \in XInstance : T(j) \in Thread \ {t} BY DEF Thread, B, T
<1>3. \A j \in XInstance : pc'[T(j)] = pc[T(j)] /\ cur'[T(j)] = cur[T(j)]
  BY <1>1, <1>2 DEF Alone
<1>4. /\ p \in Post /\ p \notin Bsky /\ p \notin cur[t] /\ p \notin Claimable(t)
      /\ p \notin held[t].clear /\ p \notin held[t].skip
  <2>1. p \in Post /\ p \notin Bsky BY ConstantsAssumption DEF Post
  <2>2. Due(t) = Bsky BY DEF Due, B
  <2>3. held[t].clear \subseteq Bsky /\ held[t].skip \subseteq Bsky BY <1>1 DEF TypeOK
  <2> QED BY <1>1, <2>1, <2>2, <2>3 DEF Shape, Claimable
<1>5. /\ claim'[p] = claim[p] /\ published'[p] = published[p]
      /\ p \in posted' \cup skipped' <=> p \in posted \cup skipped
      /\ faults' \in {faults, faults + 1}
  <2>1. CASE Begin(t) \/ LoadOld(t) \/ Count(t) \/ Crash(t)
    BY <2>1 DEF Begin, LoadOld, Count, Crash, rows, Fault
  <2>2. CASE Reset(t) \/ Skip(t) BY <1>4, <2>2 DEF Reset, Skip, WriteHeld, NoWrite, Fault
  <2>3. CASE Claim(t) BY <1>4, <2>3 DEF Claim, TypeOK
  <2>4. CASE Accept(t) \/ Refuse(t)
    <3>1. \A r \in cur[t] : Publish(r) => published'[p] = published[p]
      BY <1>4 DEF Publish, TypeOK
    <3> QED BY <2>4, <3>1 DEF Accept, Refuse, rows, Fault
  <2>5. CASE Confirm(t) BY <1>4, <2>5 DEF Confirm, Fault
  <2> QED BY <2>1, <2>2, <2>3, <2>4, <2>5 DEF Step
<1> QED BY <1>3, <1>5, XKeptCovers

LEMMA XCoversNext ==
    ASSUME TypeOK, Shape, AllXCovered, [Next]_vars
    PROVE  AllXCovered'
<1> SUFFICES ASSUME NEW p \in X PROVE XCovered(p)' BY DEF AllXCovered
<1>1. TypeOK' /\ XCovered(p) BY TypeNext DEF AllXCovered
<1>2. ASSUME NEW t \in Thread, Step(t) \/ Crash(t)
      PROVE  XCovered(p)'
  <2>1. CASE \E i \in XInstance : t = T(i) BY <1>1, <1>2, <2>1, XThreadCovers
  <2>2. CASE \E i \in Instance : t = B(i) BY <1>1, <1>2, <2>2, BskyThreadKeepsX
  <2> QED BY <2>1, <2>2 DEF Thread, T, B
<1>3. CASE UNCHANGED <<posted, skipped, threads, published>> /\ claim'[p] = claim[p]
           /\ faults' \in {faults, faults + 1}
  BY <1>1, <1>3, XKeptCovers DEF threads
<1>4. ASSUME NEW r \in Bsky, Stales(r)
      PROVE  UNCHANGED <<posted, skipped, threads, published>> /\ claim'[p] = claim[p]
             /\ faults' \in {faults, faults + 1}
  BY <1>4, ConstantsAssumption DEF Stales, Fault, TypeOK, Post
<1> QED BY <1>2, <1>3, <1>4 DEF Next, vars, rows, Schedule, Ages, Midnight

LEMMA CoversInit == Init => AllCovered /\ AllXCovered
<1> SUFFICES ASSUME Init PROVE AllCovered /\ AllXCovered OBVIOUS
<1>1. ASSUME NEW p \in X PROVE XCovered(p)
  <2>1. Owing(p) = {} BY DEF Init, Owing, Nobody, Thread, T
  <2>2. Cardinality({}) = 0 BY FS_EmptySet
  <2>3. published[p] = 0 BY DEF Init, Post
  <2>4. Paid(faults) \in Nat BY PaidMore DEF Init
  <2> QED BY <2>1, <2>2, <2>3, <2>4 DEF XCovered, XWeight
<1>2. ASSUME NEW p \in Bsky PROVE Covered(p)
  <2>1. Posting(p) = {} /\ Clearing(p) = {}
    BY DEF Init, Posting, Clearing, NoRows, Nobody, Thread, B
  <2>2. Cardinality({}) = 0 BY FS_EmptySet
  <2>3. published[p] = 0 /\ ~ Left(p) BY DEF Init, Post, Left
  <2>4. Paid(faults) \in Nat BY PaidMore DEF Init
  <2> QED BY <2>1, <2>2, <2>3, <2>4 DEF Covered, Weight
<1> QED BY <1>1, <1>2 DEF AllCovered, AllXCovered

LEMMA CoversCopies == TypeOK /\ AllCovered /\ AllXCovered => CopiesPaidFor
<1> SUFFICES ASSUME TypeOK, AllCovered, AllXCovered, NEW p \in Post
             PROVE  published[p] <= 1 + Paid(faults)
  BY DEF CopiesPaidFor, Paid, N
<1>1. published[p] \in Nat /\ N \in Nat /\ Paid(faults) \in Nat BY PaidMore DEF TypeOK
<1>2. CASE p \in X
  <2>1. Owing(p) \in SUBSET Instance BY ConstantsAssumption DEF Owing
  <2>2. Cardinality(Owing(p)) \in Nat BY <2>1, Counted
  <2>3. XCovered(p) BY <1>2 DEF AllXCovered
  <2> QED BY <1>1, <2>2, <2>3 DEF XCovered, XWeight
<1>3. CASE p \in Bsky
  <2>1. Cardinality(Posting(p)) \in Nat /\ Cardinality(Clearing(p)) \in Nat
    BY Counted DEF Posting, Clearing
  <2>2. Covered(p) BY <1>3 DEF AllCovered
  <2> QED BY <1>1, <2>1, <2>2 DEF Covered, Weight
<1> QED BY <1>2, <1>3 DEF Post

\* However many instances post, and however their steps interleave, a discussion goes out
\* once, and once more per instance for every failure.
THEOREM CopiesArePaidFor == Spec => []CopiesPaidFor
<1>1. Init => TypeOK /\ Shape /\ AllCovered /\ AllXCovered BY TypeInit, ShapeInit, CoversInit
<1>2. TypeOK /\ Shape /\ AllCovered /\ AllXCovered /\ [Next]_vars
        => (TypeOK /\ Shape /\ AllCovered /\ AllXCovered)'
  BY TypeNext, ShapeNext, CoversNext, XCoversNext
<1> QED BY <1>1, <1>2, CoversCopies, PTL DEF Spec
-----------------------------------------------------------------------------
(* The daily limit                                                         *)

\* What may still confirm p, and has: instances that have it, the post itself while it can
\* be claimed, p once posted, instances about to clear its claim, a claim left behind.
Having(p) == {i \in Instance : p \in cur[B(i)]}

Stake(p) ==
    Cardinality(Having(p)) + (IF Open(p) THEN 1 ELSE 0) + (IF p \in posted THEN 1 ELSE 0)
    + (IF Left(p) THEN N ELSE Cardinality(Clearing(p)))

\* Beyond the first they may send a copy that no new row of today counts.
Spare == {x \in Bsky \X (Nat \ {0}) : x[2] < Stake(x[1])}

\* A set of pairs that grows at q alone, by n; that does not grow; that falls at q.
LEMMA PairsGrow ==
    ASSUME NEW A, IsFiniteSet(A), NEW C, NEW q, NEW m \in Nat, NEW n \in Nat,
           C \subseteq A \cup ({q} \X (m .. (m + n - 1)))
    PROVE  IsFiniteSet(C) /\ Cardinality(C) \in Nat /\ Cardinality(C) <= Cardinality(A) + n
<1> DEFINE D == {q} \X (m .. (m + n - 1))
<1>1. IsFiniteSet(m .. (m + n - 1)) /\ Cardinality(m .. (m + n - 1)) = n
  BY FS_Interval
<1>2. IsFiniteSet({q}) /\ Cardinality({q}) = 1 BY FS_Singleton
<1>3. IsFiniteSet(D) /\ Cardinality(D) = Cardinality({q}) * Cardinality(m .. (m + n - 1))
  BY <1>1, <1>2, FS_Product
<1>4. Cardinality(D) = n BY <1>1, <1>2, <1>3
<1> HIDE DEF D
<1>5. /\ IsFiniteSet(A \cup D)
      /\ Cardinality(A \cup D) = Cardinality(A) + Cardinality(D) - Cardinality(A \cap D)
  BY <1>3, FS_Union
<1>6. Cardinality(A) \in Nat /\ Cardinality(A \cap D) \in Nat /\ Cardinality(A \cup D) \in Nat
  BY <1>5, FS_Intersection, FS_CardinalityType
<1>7. C \in SUBSET (A \cup D) BY DEF D
<1>8. IsFiniteSet(C) /\ Cardinality(C) <= Cardinality(A \cup D) /\ Cardinality(C) \in Nat
  BY <1>5, <1>7, FS_Subset, FS_CardinalityType
<1> QED BY <1>4, <1>5, <1>6, <1>8

LEMMA SpareGrows ==
    ASSUME \A p \in Bsky : Stake(p) \in Nat /\ Stake(p)' \in Nat,
           IsFiniteSet(Spare), NEW q \in Bsky, NEW n \in Nat,
           \A p \in Bsky \ {q} : Stake(p)' <= Stake(p),
           Stake(q)' <= Stake(q) + n
    PROVE  /\ IsFiniteSet(Spare)' /\ Cardinality(Spare') \in Nat
           /\ Cardinality(Spare') <= Cardinality(Spare) + n
<1>1. Spare' \subseteq Spare \cup ({q} \X (Stake(q) .. (Stake(q) + n - 1)))
  <2> SUFFICES ASSUME NEW x \in Spare', x \notin Spare
               PROVE  x \in {q} \X (Stake(q) .. (Stake(q) + n - 1))
    OBVIOUS
  <2>1. /\ x \in Bsky \X (Nat \ {0}) /\ x = <<x[1], x[2]>> /\ x[1] \in Bsky /\ x[2] \in Nat
        /\ x[2] < Stake(x[1])' /\ ~(x[2] < Stake(x[1]))
    BY DEF Spare
  <2>2. x[1] = q BY <2>1
  <2> QED BY <2>1, <2>2
<1>2. Stake(q) \in Nat OBVIOUS
<1> QED BY <1>1, <1>2, PairsGrow

LEMMA SpareKept ==
    ASSUME \A p \in Bsky : Stake(p) \in Nat /\ Stake(p)' \in Nat,
           IsFiniteSet(Spare), \A p \in Bsky : Stake(p)' <= Stake(p)
    PROVE  /\ IsFiniteSet(Spare)' /\ Cardinality(Spare') \in Nat
           /\ Cardinality(Spare') <= Cardinality(Spare)
<1>1. Spare' \in SUBSET Spare BY DEF Spare
<1> QED BY <1>1, FS_Subset, FS_CardinalityType

LEMMA SpareFalls ==
    ASSUME \A p \in Bsky : Stake(p) \in Nat /\ Stake(p)' \in Nat,
           IsFiniteSet(Spare), \A p \in Bsky : Stake(p)' <= Stake(p),
           NEW q \in Bsky, Stake(q)' < Stake(q), Stake(q) >= 2
    PROVE  /\ IsFiniteSet(Spare)' /\ Cardinality(Spare') \in Nat
           /\ Cardinality(Spare') <= Cardinality(Spare) - 1
<1> DEFINE x == <<q, Stake(q) - 1>>
<1>1. x \in Spare /\ x \notin Spare' BY DEF Spare
<1>2. Spare' \in SUBSET (Spare \ {x}) BY <1>1 DEF Spare
<1>3. IsFiniteSet(Spare \ {x}) /\ Cardinality(Spare \ {x}) = Cardinality(Spare) - 1
  BY <1>1, FS_RemoveElement
<1> QED BY <1>2, <1>3, FS_Subset, FS_CardinalityType
LEMMA StakeType ==
    ASSUME NEW p
    PROVE  /\ Stake(p) \in Nat /\ Stake(p)' \in Nat
           /\ Cardinality(Having(p)) \in Nat /\ Cardinality(Having(p)') \in Nat
           /\ Cardinality(Clearing(p)) \in Nat /\ Cardinality(Clearing(p)') \in Nat
           /\ Cardinality(Clearing(p)) <= N /\ Cardinality(Clearing(p)') <= N /\ N \in Nat
<1>1. Having(p) \in SUBSET Instance /\ Clearing(p) \in SUBSET Instance
  BY DEF Having, Clearing
<1>2. Having(p)' \in SUBSET Instance /\ Clearing(p)' \in SUBSET Instance
  BY DEF Having, Clearing
<1>3. /\ Cardinality(Having(p)) \in Nat /\ Cardinality(Having(p)') \in Nat
      /\ Cardinality(Clearing(p)) \in Nat /\ Cardinality(Clearing(p)') \in Nat
      /\ Cardinality(Clearing(p)) <= N /\ Cardinality(Clearing(p)') <= N /\ N \in Nat
  BY <1>1, <1>2, Counted, PaidMore
<1>4. N' = N BY DEF N
<1> QED BY <1>3, <1>4 DEF Stake

\* The parts of a stake that a step of i moves.
LEMMA StakeMoved ==
    ASSUME NEW p \in Bsky, NEW i \in Instance, Alone(B(i))
    PROVE  \E a, b, c, d \in Nat :
              /\ b <= N /\ d <= N
              /\ c = a + (IF i \in Having(p)' THEN 1 ELSE 0) - (IF i \in Having(p) THEN 1 ELSE 0)
              /\ d = b + (IF i \in Clearing(p)' THEN 1 ELSE 0) - (IF i \in Clearing(p) THEN 1 ELSE 0)
              /\ i \in Having(p) => a >= 1
              /\ Stake(p) = a + (IF Open(p) THEN 1 ELSE 0) + (IF p \in posted THEN 1 ELSE 0)
                            + (IF Left(p) THEN N ELSE b)
              /\ Stake(p)' = c + (IF Open(p)' THEN 1 ELSE 0) + (IF p \in posted' THEN 1 ELSE 0)
                             + (IF Left(p)' THEN N ELSE d)
<1>1. \A j \in Instance \ {i} : B(j) \in Thread \ {B(i)} BY DEF Thread, B
<1>2. Having(p) \ {i} = Having(p)' \ {i} BY <1>1 DEF Having, Alone
<1>3. Clearing(p) \ {i} = Clearing(p)' \ {i} BY <1>1 DEF Clearing, Alone
<1>4. Having(p) \in SUBSET Instance /\ Clearing(p) \in SUBSET Instance BY DEF Having, Clearing
<1>5. Having(p)' \in SUBSET Instance /\ Clearing(p)' \in SUBSET Instance
  BY DEF Having, Clearing
<1>6. Cardinality(Having(p)') = Cardinality(Having(p))
        + (IF i \in Having(p)' THEN 1 ELSE 0) - (IF i \in Having(p) THEN 1 ELSE 0)
  BY <1>2, <1>4, <1>5, Differ
<1>7. Cardinality(Clearing(p)') = Cardinality(Clearing(p))
        + (IF i \in Clearing(p)' THEN 1 ELSE 0) - (IF i \in Clearing(p) THEN 1 ELSE 0)
  BY <1>3, <1>4, <1>5, Differ
<1>8. i \in Having(p) => Cardinality(Having(p)) >= 1
  <2>1. IsFiniteSet(Having(p)) BY <1>4, ConstantsAssumption, FS_Subset
  <2> QED BY <2>1, StakeType, FS_EmptySet
<1>9. N' = N BY DEF N
<1> QED
  <2> /\ Cardinality(Having(p)) \in Nat /\ Cardinality(Having(p)') \in Nat
      /\ Cardinality(Clearing(p)) \in Nat /\ Cardinality(Clearing(p)') \in Nat
    BY StakeType
  <2> WITNESS Cardinality(Having(p)) \in Nat, Cardinality(Clearing(p)) \in Nat,
              Cardinality(Having(p)') \in Nat, Cardinality(Clearing(p)') \in Nat
  <2> QED BY <1>6, <1>7, <1>8, <1>9, StakeType DEF Stake
\* What a step of i may do to the stake of a post it does not confirm: nothing is added that
\* was not counted before.
LEMMA StakeKept ==
    ASSUME NEW p \in Bsky, NEW i \in Instance, Alone(B(i)),
           p \in posted' <=> p \in posted,
           \/ /\ Open(p)' = Open(p) /\ Left(p)' = Left(p)
              /\ i \in Having(p)' => i \in Having(p)
              /\ Left(p) \/ (i \in Clearing(p)' => i \in Clearing(p))
           \/ /\ ~ Left(p)' /\ (i \in Clearing(p)' => i \in Clearing(p))
              /\ i \in Having(p)' => i \in Having(p)
              /\ \/ ~ Open(p)'
                 \/ Open(p)
                 \/ i \in Having(p) /\ i \notin Having(p)'
                 \/ i \in Clearing(p) /\ i \notin Clearing(p)'
           \/ /\ ~ Left(p)' /\ (i \in Clearing(p)' => i \in Clearing(p))
              /\ Open(p) /\ ~ Open(p)'
    PROVE  Stake(p)' <= Stake(p)
<1>1. PICK a, b, c, d \in Nat :
              /\ b <= N /\ d <= N
              /\ c = a + (IF i \in Having(p)' THEN 1 ELSE 0) - (IF i \in Having(p) THEN 1 ELSE 0)
              /\ d = b + (IF i \in Clearing(p)' THEN 1 ELSE 0) - (IF i \in Clearing(p) THEN 1 ELSE 0)
              /\ i \in Having(p) => a >= 1
              /\ Stake(p) = a + (IF Open(p) THEN 1 ELSE 0) + (IF p \in posted THEN 1 ELSE 0)
                            + (IF Left(p) THEN N ELSE b)
              /\ Stake(p)' = c + (IF Open(p)' THEN 1 ELSE 0) + (IF p \in posted' THEN 1 ELSE 0)
                             + (IF Left(p)' THEN N ELSE d)
  BY StakeMoved
<1> DEFINE o == IF Open(p) THEN 1 ELSE 0
           q == IF Open(p)' THEN 1 ELSE 0
           l == IF Left(p) THEN N ELSE b
           m == IF Left(p)' THEN N ELSE d
           r == IF p \in posted THEN 1 ELSE 0
<1>2. N \in Nat BY StakeType
<1>3. /\ o \in 0..1 /\ q \in 0..1 /\ r \in 0..1 /\ l \in Nat /\ m \in Nat
      /\ ~ Left(p) => l = b
      /\ ~ Left(p)' => m = d
      /\ b <= l /\ c <= a + 1
  BY <1>1, <1>2
<1>4. Stake(p) = a + o + r + l /\ Stake(p)' = c + q + r + m
  BY <1>1
<1>5. /\ (i \in Having(p)' => i \in Having(p)) => c <= a
      /\ i \in Having(p) /\ i \notin Having(p)' => c = a - 1
      /\ (i \in Clearing(p)' => i \in Clearing(p)) => d <= b
      /\ i \in Clearing(p) /\ i \notin Clearing(p)' => d = b - 1
  BY <1>1
<1>6. (Open(p)' => Open(p)) => q <= o BY DEF o, q
<1>7. CASE /\ Open(p)' = Open(p) /\ Left(p)' = Left(p)
           /\ i \in Having(p)' => i \in Having(p)
           /\ Left(p) \/ (i \in Clearing(p)' => i \in Clearing(p))
  <2>1. q <= o BY <1>6, <1>7
  <2>2. m <= l BY <1>1, <1>2, <1>5, <1>7
  <2> HIDE DEF o, q, l, m, r
  <2> QED BY <1>3, <1>4, <1>5, <1>7, <2>1, <2>2
<1>8. CASE ~ Left(p)' /\ (i \in Clearing(p)' => i \in Clearing(p))
  <2>1. m <= l BY <1>1, <1>2, <1>3, <1>5, <1>8
  <2>2. CASE (i \in Having(p)' => i \in Having(p)) /\ (Open(p)' => Open(p))
    <3>1. q <= o BY <1>6, <2>2
    <3> HIDE DEF o, q, l, m, r
    <3> QED BY <1>3, <1>4, <1>5, <2>1, <2>2, <3>1
  <2>3. CASE i \in Having(p) /\ i \notin Having(p)'
    <3> HIDE DEF o, q, l, m, r
    <3> QED BY <1>3, <1>4, <1>5, <2>1, <2>3
  <2>4. CASE /\ i \in Having(p)' => i \in Having(p)
             /\ i \in Clearing(p) /\ i \notin Clearing(p)'
    <3>1. m <= l - 1 BY <1>1, <1>2, <1>3, <1>5, <1>8, <2>4
    <3> HIDE DEF o, q, l, m, r
    <3> QED BY <1>3, <1>4, <1>5, <2>4, <3>1
  <2>5. CASE Open(p) /\ ~ Open(p)'
    <3>1. o = 1 /\ q = 0 BY <2>5
    <3> HIDE DEF o, q, l, m, r
    <3> QED BY <1>3, <1>4, <2>1, <3>1
  <2> QED BY <1>8, <2>2, <2>3, <2>4, <2>5
<1> QED BY <1>7, <1>8
\* A post that its thread loses may be claimed again, after each instance has cleared its claim.
LEMMA StakeLost ==
    ASSUME NEW p \in Bsky, NEW i \in Instance, Alone(B(i)),
           p \in posted' <=> p \in posted, Open(p)' = Open(p),
           i \in Having(p), i \notin Having(p)', i \in Clearing(p)' => i \in Clearing(p)
    PROVE  Stake(p)' <= Stake(p) + (N - 1)
<1>1. PICK a, b, c, d \in Nat :
              /\ b <= N /\ d <= N
              /\ c = a + (IF i \in Having(p)' THEN 1 ELSE 0) - (IF i \in Having(p) THEN 1 ELSE 0)
              /\ d = b + (IF i \in Clearing(p)' THEN 1 ELSE 0) - (IF i \in Clearing(p) THEN 1 ELSE 0)
              /\ i \in Having(p) => a >= 1
              /\ Stake(p) = a + (IF Open(p) THEN 1 ELSE 0) + (IF p \in posted THEN 1 ELSE 0)
                            + (IF Left(p) THEN N ELSE b)
              /\ Stake(p)' = c + (IF Open(p)' THEN 1 ELSE 0) + (IF p \in posted' THEN 1 ELSE 0)
                             + (IF Left(p)' THEN N ELSE d)
  BY StakeMoved
<1> DEFINE o == IF Open(p) THEN 1 ELSE 0
           l == IF Left(p) THEN N ELSE b
           m == IF Left(p)' THEN N ELSE d
           r == IF p \in posted THEN 1 ELSE 0
<1>2. N \in Nat BY StakeType
<1>3. o \in 0..1 /\ r \in 0..1 /\ l \in Nat /\ m \in Nat /\ m <= N /\ c = a - 1
  BY <1>1, <1>2
<1>4. Stake(p) = a + o + r + l /\ Stake(p)' = c + o + r + m
  BY <1>1
<1> HIDE DEF o, l, m, r
<1> QED BY <1>2, <1>3, <1>4

\* What a confirmation does to the stake of its post: the claim goes, and when it was posted
\* before, one who could confirm it is gone.
LEMMA StakeConfirmed ==
    ASSUME NEW p \in Bsky, NEW i \in Instance, Alone(B(i)),
           p \in posted', ~ Open(p)', ~ Left(p)',
           i \in Having(p), i \notin Having(p)', i \in Clearing(p)' => i \in Clearing(p)
    PROVE  /\ Stake(p)' <= Stake(p)
           /\ p \in posted => Stake(p)' < Stake(p) /\ Stake(p) >= 2
<1>1. PICK a, b, c, d \in Nat :
              /\ b <= N /\ d <= N
              /\ c = a + (IF i \in Having(p)' THEN 1 ELSE 0) - (IF i \in Having(p) THEN 1 ELSE 0)
              /\ d = b + (IF i \in Clearing(p)' THEN 1 ELSE 0) - (IF i \in Clearing(p) THEN 1 ELSE 0)
              /\ i \in Having(p) => a >= 1
              /\ Stake(p) = a + (IF Open(p) THEN 1 ELSE 0) + (IF p \in posted THEN 1 ELSE 0)
                            + (IF Left(p) THEN N ELSE b)
              /\ Stake(p)' = c + (IF Open(p)' THEN 1 ELSE 0) + (IF p \in posted' THEN 1 ELSE 0)
                             + (IF Left(p)' THEN N ELSE d)
  BY StakeMoved
<1> DEFINE o == IF Open(p) THEN 1 ELSE 0
           l == IF Left(p) THEN N ELSE b
           r == IF p \in posted THEN 1 ELSE 0
<1>2. N \in Nat BY StakeType
<1>3. /\ o \in 0..1 /\ r \in 0..1 /\ l \in Nat /\ b <= l /\ d <= b /\ c = a - 1 /\ a >= 1
      /\ p \in posted => r = 1
  BY <1>1, <1>2
<1>4. Stake(p) = a + o + r + l /\ Stake(p)' = c + 1 + d
  BY <1>1
<1> HIDE DEF o, l, r
<1> QED BY <1>2, <1>3, <1>4

\* A claim that grows stale: its thread had left it, or a failure pays for it.
LEMMA StakeStales ==
    ASSUME TypeOK, NEW q \in Bsky, Stales(q)
    PROVE  /\ \A p \in Bsky \ {q} : Stake(p)' <= Stake(p)
           /\ Stake(q)' <= Stake(q) + N
           /\ (~ \E t \in Thread : q \in cur[t]) => Stake(q)' <= Stake(q)
<1>1. UNCHANGED <<posted, skipped, threads>> BY DEF Stales
<1>2. \A p : Having(p)' = Having(p) /\ Clearing(p)' = Clearing(p)
  BY <1>1 DEF Having, Clearing, threads
<1>3. N' = N BY DEF N
<1>4. \A p : Stake(p) \in Nat /\ Stake(p)' \in Nat BY StakeType
<1>5. ASSUME NEW p \in Bsky \ {q} PROVE Stake(p)' = Stake(p)
  <2>1. claim'[p] = claim[p] BY DEF Stales, TypeOK, Post
  <2>2. Open(p)' = Open(p) /\ Left(p)' = Left(p) BY <1>1, <2>1 DEF Open, Left, threads
  <2> QED BY <1>1, <1>2, <1>3, <2>2 DEF Stake
<1>6. /\ Cardinality(Having(q)) \in Nat /\ Cardinality(Clearing(q)) \in Nat
      /\ Cardinality(Clearing(q)) <= N /\ N \in Nat
  BY StakeType
<1>7. claim[q] = "fresh" /\ claim'[q] = "stale" BY DEF Stales, TypeOK, Post
<1>8. ~ Open(q) /\ ~ Open(q)' /\ Left(q)' BY <1>7 DEF Open, Left
<1>9. Stake(q)' = Cardinality(Having(q)) + (IF q \in posted THEN 1 ELSE 0) + N
  BY <1>1, <1>2, <1>3, <1>6, <1>8 DEF Stake
<1>10. Stake(q) = Cardinality(Having(q)) + (IF q \in posted THEN 1 ELSE 0)
                  + (IF Left(q) THEN N ELSE Cardinality(Clearing(q)))
  BY <1>6, <1>8 DEF Stake
<1>11. (~ \E t \in Thread : q \in cur[t]) => Left(q) BY <1>7 DEF Left, Thread, B
<1> QED BY <1>4, <1>5, <1>6, <1>9, <1>10, <1>11
\* No step but a failed confirmation, a crash and a claim that grows stale adds to a stake.
LEMMA LoadStakes ==
    ASSUME TypeOK, TypeOK', NEW p \in Bsky, NEW i \in Instance, Alone(B(i)),
           Begin(B(i)) \/ LoadOld(B(i)) \/ Count(B(i))
    PROVE  Stake(p)' <= Stake(p)
<1> DEFINE t == B(i)
<1>1. UNCHANGED <<rows, cur>> BY DEF Begin, LoadOld, Count
<1>2. Left(p)' = Left(p) /\ Open(p)' = Open(p) BY <1>1, Same DEF rows
<1>3. t \in Thread /\ pc \in [Thread -> Places] /\ held \in [Thread -> HeldRows]
  BY Same DEF TypeOK, Places, HeldRows
<1>4. (i \in Having(p)' <=> i \in Having(p)) /\ (p \in posted' <=> p \in posted)
  BY <1>1 DEF Having, rows
<1>5. Left(p) \/ i \notin Clearing(p)'
  <2>1. CASE Begin(t)
    <3>1. CASE held' = [held EXCEPT ![t] = [clear |-> Stale, skip |-> {}]]
      <4>1. held'[t].clear = Stale BY <1>3, <3>1
      <4> QED BY <4>1, Same DEF Stale, Left
    <3>2. CASE pc'[t] # "reset" BY <3>2, Same
    <3> QED BY <1>3, <2>1, <3>1, <3>2 DEF Begin, Hold, Goto
  <2>2. CASE pc'[t] # "reset" BY <2>2, Same
  <2> QED BY <1>3, <2>1, <2>2 DEF LoadOld, Count, Goto
<1> QED BY <1>2, <1>4, <1>5, StakeKept

LEMMA WriteStakes ==
    ASSUME TypeOK, TypeOK', Shape, NEW p \in Bsky, NEW i \in Instance, Alone(B(i)),
           Reset(B(i)) \/ Skip(B(i))
    PROVE  Stake(p)' <= Stake(p)
<1> DEFINE t == B(i)
<1>1. UNCHANGED <<posted, cur>> BY DEF Reset, Skip
<1>2. t \in Thread /\ p \in Post /\ pc \in [Thread -> Places] /\ DOMAIN claim = Post
  BY Same DEF TypeOK, Places
<1>3. pc[t] \in {"reset", "skipping"} /\ pc'[t] \in {"skip", "count"}
  BY <1>2 DEF Reset, Skip, Goto
<1>4. i \notin Clearing(p)' BY <1>3, Same
<1>5. (i \in Having(p)' <=> i \in Having(p)) /\ (p \in posted' <=> p \in posted)
  BY <1>1 DEF Having
<1>6. CASE NoWrite
  <2>1. Left(p)' = Left(p) /\ Open(p)' = Open(p) BY <1>1, <1>6, Same DEF NoWrite
  <2> QED BY <1>4, <1>5, <2>1, StakeKept
<1>7. CASE WriteHeld(t)
  <2>1. CASE p \in held[t].clear
    <3>1. claim'[p] = "none" BY <1>2, <1>7, <2>1 DEF WriteHeld
    <3>2. ~ Left(p)' BY <3>1 DEF Left
    <3>3. i \in Clearing(p) \/ ~ Open(p)'
      <4>1. CASE pc[t] = "reset" BY <2>1, <4>1, Same
      <4>2. CASE pc[t] = "skipping"
        <5>1. p \in skipped' BY <1>2, <1>7, <2>1, <4>2 DEF WriteHeld, Shape
        <5> QED BY <5>1 DEF Open
      <4> QED BY <1>3, <4>1, <4>2
    <3> QED BY <1>4, <1>5, <3>2, <3>3, StakeKept
  <2>2. CASE p \notin held[t].clear
    <3>1. claim'[p] = claim[p] BY <1>2, <1>7, <2>2 DEF WriteHeld
    <3>2. Left(p)' = Left(p) BY <1>1, <3>1, Same
    <3>3. CASE p \notin skipped' \/ p \in posted \cup skipped
      <4>1. Open(p)' = Open(p) BY <1>1, <1>7, <3>1, <3>3, Same DEF WriteHeld
      <4> QED BY <1>4, <1>5, <3>2, <4>1, StakeKept
    <3>4. CASE p \in skipped' /\ p \notin posted \cup skipped
      <4>1. ~ Open(p)' BY <3>4 DEF Open
      <4>2. CASE Open(p)
        <5>1. ~ Left(p)' BY <3>2, <4>2 DEF Open, Left
        <5> QED BY <1>4, <1>5, <4>1, <5>1, StakeKept
      <4>3. CASE ~ Open(p)
        <5>1. Open(p)' = Open(p) BY <4>1, <4>3 DEF Open
        <5> QED BY <1>4, <1>5, <3>2, <5>1, StakeKept
      <4> QED BY <4>2, <4>3
    <3> QED BY <3>3, <3>4
  <2> QED BY <2>1, <2>2
<1> QED BY <1>6, <1>7 DEF Reset, Skip

LEMMA ClaimStakes ==
    ASSUME TypeOK, TypeOK', Shape, NEW p \in Bsky, NEW i \in Instance, Alone(B(i)),
           Claim(B(i))
    PROVE  Stake(p)' <= Stake(p)
<1> DEFINE t == B(i)
<1>1. UNCHANGED <<posted, skipped, held>> BY DEF Claim
<1>2. /\ t \in Thread /\ p \in Post
      /\ pc \in [Thread -> Places] /\ DOMAIN claim = Post /\ DOMAIN cur = Thread
  BY Same DEF TypeOK, Places
<1>3. pc[t] = "claim" /\ cur[t] = {} /\ pc'[t] \in {"idle", "post"}
  BY <1>2 DEF Claim, Goto, Shape
<1>4. i \notin Clearing(p)' /\ (p \in posted' <=> p \in posted) BY <1>1, <1>3, Same
<1>5. CASE UNCHANGED <<claim, cur>>
  <2>1. Left(p)' = Left(p) /\ Open(p)' = Open(p) BY <1>1, <1>5, Same
  <2>2. i \notin Having(p)' BY <1>3, <1>5 DEF Having
  <2> QED BY <1>4, <2>1, <2>2, StakeKept
<1>6. ASSUME NEW q \in Claimable(t), claim' = [claim EXCEPT ![q] = "fresh"],
             cur' = [cur EXCEPT ![t] = {q}]
      PROVE  Stake(p)' <= Stake(p)
  <2>1. CASE q = p
    <3>1. claim[p] = "none" /\ claim'[p] = "fresh" /\ p \in cur'[t] /\ Open(p)
      BY <1>2, <1>6, <2>1 DEF Claimable, Open
    <3>2. ~ Left(p)' /\ ~ Open(p)' BY <3>1 DEF Left, Open
    <3> QED BY <1>4, <3>1, <3>2, StakeKept
  <2>2. CASE q # p
    <3>1. claim'[p] = claim[p] /\ p \notin cur'[t] BY <1>2, <1>6, <2>2
    <3>2. Left(p)' = Left(p) /\ Open(p)' = Open(p) BY <1>1, <1>3, <3>1, Same
    <3>3. i \notin Having(p)' BY <3>1 DEF Having
    <3> QED BY <1>4, <3>2, <3>3, StakeKept
  <2> QED BY <2>1, <2>2
<1> QED BY <1>5, <1>6 DEF Claim

LEMMA PostStakes ==
    ASSUME TypeOK, TypeOK', NEW p \in Bsky, NEW i \in Instance, Alone(B(i)),
           Accept(B(i)) \/ Refuse(B(i))
    PROVE  Stake(p)' <= Stake(p)
<1> DEFINE t == B(i)
<1>1. UNCHANGED <<claim, posted, skipped, held, cur>> BY DEF Accept, Refuse, rows
<1>2. t \in Thread /\ pc \in [Thread -> Places] BY Same DEF TypeOK, Places
<1>3. Left(p)' = Left(p) /\ Open(p)' = Open(p) BY <1>1, Same
<1>4. pc'[t] \in {"post", "confirm", "release"} BY <1>2 DEF Accept, Refuse, Goto
<1>5. i \notin Clearing(p)' BY <1>4, Same
<1>6. (i \in Having(p)' <=> i \in Having(p)) /\ (p \in posted' <=> p \in posted)
  BY <1>1 DEF Having
<1> QED BY <1>3, <1>5, <1>6, StakeKept

\* A thread gives its post back, or loses it.
LEMMA LeaveStakes ==
    ASSUME TypeOK, TypeOK', NEW p \in Bsky, NEW i \in Instance, Alone(B(i)),
           Confirm(B(i)) \/ Crash(B(i))
    PROVE  /\ p \notin cur[B(i)] => Stake(p)' <= Stake(p)
           /\ UNCHANGED <<claim, posted>> => Stake(p)' <= Stake(p) + (N - 1)
           /\ faults' = faults /\ pc[B(i)] = "release" => Stake(p)' <= Stake(p)
           /\ faults' = faults /\ pc[B(i)] = "confirm" /\ p \in cur[B(i)]
                => /\ Stake(p)' <= Stake(p)
                   /\ p \in posted => Stake(p)' < Stake(p) /\ Stake(p) >= 2
<1> DEFINE t == B(i)
<1>1. UNCHANGED skipped BY DEF Confirm, Crash, rows
<1>2. /\ t \in Thread /\ p \in Post /\ pc \in [Thread -> Places]
      /\ DOMAIN cur = Thread /\ DOMAIN claim = Post /\ faults \in Nat
  BY Same DEF TypeOK, Places
<1>3. cur'[t] = {} /\ pc'[t] = "idle"
  BY <1>2 DEF Confirm, Crash, Leave, Goto, Nobody, B
<1>4. i \notin Having(p)' /\ i \notin Clearing(p)' /\ (i \in Having(p) <=> p \in cur[t])
  BY <1>3, Same DEF Having
<1>5. Stake(p) \in Nat /\ Stake(p)' \in Nat /\ N \in Nat /\ N >= 1
  BY StakeType, PaidMore
<1>6. CASE UNCHANGED <<claim, posted>> /\ faults' # faults
  <2>1. Open(p)' = Open(p) BY <1>1, <1>6, Same
  <2>2. CASE p \in cur[t]
    <3>1. Stake(p)' <= Stake(p) + (N - 1) BY <1>4, <1>6, <2>1, <2>2, StakeLost
    <3> QED BY <1>6, <2>2, <3>1
  <2>3. CASE p \notin cur[t]
    <3>1. Left(p)' = Left(p) BY <1>3, <1>6, <2>3, Same
    <3>2. Stake(p)' <= Stake(p) BY <1>4, <1>6, <2>1, <3>1, StakeKept
    <3> QED BY <1>5, <1>6, <3>2
  <2> QED BY <2>2, <2>3
<1>7. CASE /\ pc[t] \in {"confirm", "release"}
           /\ claim' = [q \in Post |-> IF q \in cur[t] THEN "none" ELSE claim[q]]
           /\ posted' = IF pc[t] = "confirm" THEN posted \cup cur[t] ELSE posted
  <2>1. CASE p \in cur[t]
    <3>1. claim'[p] = "none" BY <1>2, <1>7, <2>1
    <3>2. ~ Left(p)' BY <3>1 DEF Left
    <3>3. CASE pc[t] = "release"
      <4>1. p \in posted' <=> p \in posted BY <1>7, <3>3
      <4>2. Stake(p)' <= Stake(p) BY <1>4, <2>1, <3>2, <4>1, StakeKept
      <4> QED BY <1>5, <2>1, <3>3, <4>2
    <3>4. CASE pc[t] = "confirm"
      <4>1. p \in posted' /\ ~ Open(p)' BY <1>7, <2>1, <3>4 DEF Open
      <4>2. /\ Stake(p)' <= Stake(p)
            /\ p \in posted => Stake(p)' < Stake(p) /\ Stake(p) >= 2
        BY <1>4, <2>1, <3>2, <4>1, StakeConfirmed
      <4> QED BY <1>5, <2>1, <3>4, <4>2
    <3> QED BY <1>7, <3>3, <3>4
  <2>2. CASE p \notin cur[t]
    <3>1. claim'[p] = claim[p] /\ (p \in posted' <=> p \in posted) BY <1>2, <1>7, <2>2
    <3>2. Left(p)' = Left(p) /\ Open(p)' = Open(p) BY <1>1, <1>3, <2>2, <3>1, Same
    <3>3. Stake(p)' <= Stake(p) BY <1>4, <3>1, <3>2, StakeKept
    <3> QED BY <1>5, <2>2, <3>3
  <2> QED BY <2>1, <2>2
<1>8. CASE Crash(t)
  <2>1. UNCHANGED <<claim, posted>> /\ faults' # faults BY <1>2, <1>8 DEF Crash, rows, Fault
  <2> QED BY <1>6, <2>1
<1>9. CASE Confirm(t)
  <2>1. CASE UNCHANGED <<claim, posted>> /\ Fault
    <3>1. faults' # faults BY <1>2, <2>1 DEF Fault
    <3> QED BY <1>6, <2>1, <3>1
  <2> QED BY <1>7, <1>9, <2>1 DEF Confirm
<1> QED BY <1>8, <1>9

\* Nothing a thread of X does moves a stake.
LEMMA XStakes ==
    ASSUME TypeOK, TypeOK', Shape, NEW p \in Bsky, NEW t \in Thread, t[2] = "x",
           Step(t) \/ Crash(t)
    PROVE  Stake(p)' <= Stake(p)
<1>1. Alone(t) BY StepsAlone
<1>2. \A i \in Instance : B(i) \in Thread \ {t} BY DEF Thread, B
<1>3. Having(p)' = Having(p) /\ Clearing(p)' = Clearing(p) BY <1>1, <1>2 DEF Having, Clearing, Alone
<1>4. \A i \in Instance : cur'[B(i)] = cur[B(i)] BY <1>1, <1>2 DEF Alone
<1>5. p \in Post /\ p \notin cur[t] /\ p \notin Claimable(t)
  BY ConstantsAssumption DEF Shape, Due, Post, Claimable
<1>6. ~ Reset(t) /\ ~ LoadOld(t) /\ ~ Skip(t) /\ ~ Count(t)
  BY DEF Shape, Reset, LoadOld, Skip, Count
<1>7. claim'[p] = claim[p] /\ skipped' = skipped /\ (p \in posted' <=> p \in posted)
  <2>1. CASE Begin(t) \/ Crash(t) \/ Accept(t) \/ Refuse(t)
    BY <2>1 DEF Begin, Crash, rows, Accept, Refuse
  <2>2. CASE Claim(t) BY <1>5, <2>2 DEF Claim, TypeOK
  <2>3. CASE Confirm(t) BY <1>5, <2>3 DEF Confirm
  <2> QED BY <1>6, <2>1, <2>2, <2>3 DEF Step
<1>8. Open(p)' = Open(p) /\ Left(p)' = Left(p) BY <1>4, <1>7 DEF Open, Left
<1>9. Stake(p)' = Stake(p) BY <1>3, <1>7, <1>8 DEF Stake, N
<1> QED BY <1>9, StakeType

\* Instances that have sent a copy and not confirmed it, and those that were counted in.
Confirming == {i \in Instance : pc[B(i)] = "confirm"}
Bound == {i \in Instance : pc[B(i)] \in {"claim", "post"}}

\* What has been sent was counted, is about to be, or a failure pays for it; what may still
\* be sent has room, but for what others that were counted in send meanwhile.
Quota ==
    /\ IsFiniteSet(Spare) /\ IsFiniteSet(today)
    /\ Cardinality(Spare) <= Paid(faults)
    /\ sent + Cardinality(Spare) <= Cardinality(today) + Cardinality(Confirming) + Paid(faults)
    /\ sent + Cardinality(Bound) <= MaxPerDay + crowd - 1 + Paid(faults)

HasPost == \A t \in Thread : pc[t] \in {"post", "confirm", "release"} => cur[t] # {}

LEMMA HasPostNext == TypeOK /\ HasPost /\ [Next]_vars => HasPost'
<1> SUFFICES ASSUME TypeOK, HasPost, [Next]_vars PROVE HasPost' OBVIOUS
<1>1. CASE UNCHANGED threads BY <1>1 DEF HasPost, threads
<1>2. ASSUME NEW t \in Thread, Step(t) \/ Crash(t) PROVE HasPost'
  <2>0. Alone(t) BY <1>2, StepsAlone
  <2> SUFFICES pc'[t] \in {"post", "confirm", "release"} => cur'[t] # {}
    BY <2>0 DEF HasPost, Alone
  <2>1. pc \in [Thread -> Places] /\ DOMAIN cur = Thread BY DEF TypeOK, Places
  <2>2. CASE Begin(t) \/ Reset(t) \/ LoadOld(t) \/ Skip(t) \/ Count(t) \/ Crash(t)
    BY <2>1, <2>2 DEF Begin, Reset, LoadOld, Skip, Count, Crash, Goto
  <2>3. CASE Claim(t) BY <2>1, <2>3 DEF Claim, Goto
  <2>4. CASE Accept(t) \/ Refuse(t) BY <2>1, <2>4 DEF Accept, Refuse, HasPost
  <2>5. CASE Confirm(t) BY <2>1, <2>5 DEF Confirm, Leave, Goto
  <2> QED BY <1>2, <2>2, <2>3, <2>4, <2>5 DEF Step
<1> QED BY <1>1, <1>2 DEF Next, vars, Schedule, Ages, Stales, Midnight

\* The instances counted in and not done are within crowd.
Crowded == Cardinality(Sending) <= crowd

LEMMA SendingSplit ==
    /\ Cardinality(Sending) = Cardinality(Confirming) + Cardinality(Bound)
    /\ Cardinality(Sending') = Cardinality(Confirming') + Cardinality(Bound')
<1>1. /\ Confirming \subseteq Instance /\ Bound \subseteq Instance
      /\ Confirming' \subseteq Instance /\ Bound' \subseteq Instance
  BY DEF Confirming, Bound
<1>2. /\ Sending = Confirming \cup Bound /\ Confirming \cap Bound = {}
      /\ Sending' = Confirming' \cup Bound' /\ Confirming' \cap Bound' = {}
  BY DEF Sending, Confirming, Bound, B
<1>3. Cardinality({}) = 0 BY FS_EmptySet
<1>4. Cardinality(Sending) = Cardinality(Confirming) + Cardinality(Bound) - 0
  BY <1>1, <1>2, <1>3, ConstantsAssumption, FS_Subset, FS_Union
<1>5. Cardinality(Sending') = Cardinality(Confirming') + Cardinality(Bound') - 0
  BY <1>1, <1>2, <1>3, ConstantsAssumption, FS_Subset, FS_Union
<1>6. /\ Cardinality(Confirming) \in Nat /\ Cardinality(Bound) \in Nat
      /\ Cardinality(Confirming') \in Nat /\ Cardinality(Bound') \in Nat
  BY <1>1, ConstantsAssumption, FS_Subset, FS_CardinalityType
<1> QED BY <1>4, <1>5, <1>6

\* Only Count lets an instance in, and only Midnight lowers crowd.
LEMMA StepCrowd ==
    ASSUME TypeOK, NEW t \in Thread, Step(t) \/ Crash(t)
    PROVE  crowd' >= crowd /\ (Count(t) \/ (crowd' = crowd /\ Sending' \subseteq Sending))
<1>1. Alone(t) BY StepsAlone
<1>2. pc \in [Thread -> Places] /\ crowd \in Nat BY DEF TypeOK, Places
<1>3. CASE Count(t)
  <2>1. crowd' >= crowd BY <1>2, <1>3, SendingType DEF Count
  <2> QED BY <1>3, <2>1
<1>4. CASE ~ Count(t)
  <2>1. crowd' = crowd
    BY <1>4 DEF Step, Begin, Reset, LoadOld, Skip, Claim, Accept, Refuse, Confirm, Crash
  <2>2. pc'[t] \in {"claim", "post", "confirm"} =>
          t[2] = "x" \/ pc[t] \in {"claim", "post", "confirm"}
    <3>1. CASE Begin(t) \/ Crash(t) BY <1>2, <3>1 DEF Begin, Crash, Goto
    <3>2. CASE Reset(t) \/ LoadOld(t) \/ Skip(t)
      BY <1>2, <3>2 DEF Reset, LoadOld, Skip, Goto
    <3>3. CASE Claim(t) \/ Accept(t) \/ Refuse(t)
      BY <1>2, <3>3 DEF Claim, Accept, Refuse, Goto
    <3>4. CASE Confirm(t) BY <1>2, <3>4 DEF Confirm, Leave, Goto
    <3> QED BY <1>4, <3>1, <3>2, <3>3, <3>4 DEF Step
  <2>3. \A i \in Instance : <<i, "bluesky">> \in Thread BY DEF Thread
  <2>4. Sending' \subseteq Sending BY <1>1, <2>2, <2>3 DEF Sending, Alone
  <2> QED BY <1>2, <2>1, <2>4
<1> QED BY <1>3, <1>4

LEMMA CrowdNext ==
    ASSUME TypeOK, Crowded, [Next]_vars
    PROVE  Crowded' /\ (Midnight \/ crowd' >= crowd)
<1>1. crowd \in Nat BY DEF TypeOK
<1>2. ASSUME crowd' = crowd, Sending' \subseteq Sending PROVE Crowded'
  <2>1. Cardinality(Sending') <= Cardinality(Sending) BY <1>2, SendingType, FS_Subset
  <2> QED BY <1>1, <1>2, <2>1, SendingType DEF Crowded
<1>3. ASSUME NEW t \in Thread, Step(t) \/ Crash(t) PROVE Crowded' /\ crowd' >= crowd
  <2>1. CASE Count(t) BY <1>1, <2>1, SendingType, StepCrowd, <1>3 DEF Crowded, Count
  <2>2. CASE ~ Count(t) BY <1>2, <1>3, <2>2, StepCrowd
  <2> QED BY <2>1, <2>2
<1>4. CASE Midnight
  <2>1. Sending' = Sending BY <1>4 DEF Midnight, threads, Sending
  <2> QED BY <1>4, <2>1, SendingType DEF Midnight, Crowded
<1>5. CASE UNCHANGED <<threads, crowd>>
  <2>1. Sending' = Sending BY <1>5 DEF threads, Sending
  <2> QED BY <1>1, <1>2, <1>5, <2>1
<1> QED BY <1>3, <1>4, <1>5 DEF Next, vars, Schedule, Ages, Stales

LEMMA Numbers ==
    ASSUME TypeOK, Quota
    PROVE  /\ Cardinality(Spare) \in Nat /\ Cardinality(today) \in Nat
           /\ Cardinality(Confirming) \in Nat /\ Cardinality(Bound) \in Nat
           /\ Cardinality(Confirming) <= N /\ Cardinality(Bound) <= N
           /\ sent \in Nat /\ crowd \in Nat /\ faults \in Nat /\ MaxPerDay \in Nat \ {0} /\ N \in Nat
           /\ Paid(faults) \in Nat /\ Paid(faults + 1) = Paid(faults) + N
<1>1. Confirming \in SUBSET Instance /\ Bound \in SUBSET Instance BY DEF Confirming, Bound
<1>2. IsFiniteSet(Spare) /\ IsFiniteSet(today) BY DEF Quota
<1>3. Cardinality(Spare) \in Nat /\ Cardinality(today) \in Nat BY <1>2, FS_CardinalityType
<1> QED BY <1>1, <1>3, Counted, PaidMore, ConstantsAssumption DEF TypeOK

LEMMA NewNumbers ==
    /\ Cardinality(Confirming') \in Nat /\ Cardinality(Bound') \in Nat
    /\ Cardinality(Confirming') <= N /\ Cardinality(Bound') <= N
<1>1. Confirming' \in SUBSET Instance /\ Bound' \in SUBSET Instance BY DEF Confirming, Bound
<1> QED BY <1>1, Counted

\* A step of i moves i alone.
LEMMA ThreadNumbers ==
    ASSUME NEW i \in Instance, Alone(B(i))
    PROVE  /\ Cardinality(Confirming') = Cardinality(Confirming)
                 + (IF i \in Confirming' THEN 1 ELSE 0) - (IF i \in Confirming THEN 1 ELSE 0)
           /\ Cardinality(Bound') = Cardinality(Bound)
                 + (IF i \in Bound' THEN 1 ELSE 0) - (IF i \in Bound THEN 1 ELSE 0)
<1>1. \A j \in Instance \ {i} : B(j) \in Thread \ {B(i)} BY DEF Thread, B
<1>2. Confirming \ {i} = Confirming' \ {i} BY <1>1 DEF Confirming, Alone
<1>3. Bound \ {i} = Bound' \ {i} BY <1>1 DEF Bound, Alone
<1>4. Confirming \in SUBSET Instance /\ Bound \in SUBSET Instance BY DEF Confirming, Bound
<1>5. Confirming' \in SUBSET Instance /\ Bound' \in SUBSET Instance BY DEF Confirming, Bound
<1>6. Cardinality(Confirming') = Cardinality(Confirming)
        + (IF i \in Confirming' THEN 1 ELSE 0) - (IF i \in Confirming THEN 1 ELSE 0)
  BY <1>2, <1>4, <1>5, Differ
<1>7. Cardinality(Bound') = Cardinality(Bound)
        + (IF i \in Bound' THEN 1 ELSE 0) - (IF i \in Bound THEN 1 ELSE 0)
  BY <1>3, <1>4, <1>5, Differ
<1> QED BY <1>6, <1>7

\* The quota is kept by a step that balances: a failure pays for N.
LEMMA QuotaKept ==
    ASSUME TypeOK, TypeOK', Quota, IsFiniteSet(Spare)', IsFiniteSet(today)',
           NEW F \in Nat, \/ faults' = faults /\ F = 0
                          \/ faults' = faults + 1 /\ F = N,
           Cardinality(Spare') <= Cardinality(Spare) + F,
           sent' + Cardinality(Spare') + Cardinality(today) + Cardinality(Confirming)
              <= sent + Cardinality(Spare) + Cardinality(today') + Cardinality(Confirming') + F,
           \/ sent' + Cardinality(Bound') <= sent + Cardinality(Bound) + F
           \/ sent' + Cardinality(Bound') <= MaxPerDay + crowd' - 1 + Paid(faults),
           crowd' >= crowd
    PROVE  Quota'
<1>1. Paid(faults') = Paid(faults) + F BY Numbers
<1>2. Cardinality(Spare') \in Nat /\ Cardinality(today') \in Nat /\ sent' \in Nat /\ crowd' \in Nat
  BY FS_CardinalityType DEF TypeOK
<1>3. /\ Cardinality(Spare) <= Paid(faults)
      /\ sent + Cardinality(Spare) <= Cardinality(today) + Cardinality(Confirming) + Paid(faults)
      /\ sent + Cardinality(Bound) <= MaxPerDay + crowd - 1 + Paid(faults)
  BY DEF Quota
<1>4. /\ Cardinality(Spare') <= Paid(faults')
      /\ sent' + Cardinality(Spare')
            <= Cardinality(today') + Cardinality(Confirming') + Paid(faults')
      /\ sent' + Cardinality(Bound') <= MaxPerDay + crowd' - 1 + Paid(faults')
  BY <1>1, <1>2, <1>3, Numbers, NewNumbers
<1>5. Quota' <=> /\ IsFiniteSet(Spare)' /\ IsFiniteSet(today)'
                 /\ Cardinality(Spare') <= Paid(faults')
                 /\ sent' + Cardinality(Spare')
                       <= Cardinality(today') + Cardinality(Confirming') + Paid(faults')
                 /\ sent' + Cardinality(Bound') <= MaxPerDay + crowd' - 1 + Paid(faults')
  BY DEF Quota, Paid, N
<1> QED BY <1>4, <1>5
\* The steps that send nothing, confirm nothing and count nobody in.
LEMMA QuietKeeps ==
    ASSUME TypeOK, TypeOK', Shape, Quota, NEW i \in Instance, Alone(B(i)),
           crowd' >= crowd,
           Begin(B(i)) \/ Reset(B(i)) \/ LoadOld(B(i)) \/ Skip(B(i)) \/ Claim(B(i))
    PROVE  Quota'
<1> DEFINE t == B(i)
<1>1. \A p \in Bsky : Stake(p)' <= Stake(p)
  BY LoadStakes, WriteStakes, ClaimStakes
<1>2. /\ IsFiniteSet(Spare)' /\ Cardinality(Spare') \in Nat
      /\ Cardinality(Spare') <= Cardinality(Spare)
  BY <1>1, StakeType, SpareKept DEF Quota
<1>3. sent' = sent /\ today' = today BY DEF Begin, Reset, LoadOld, Skip, Claim, rows
<1>4. t \in Thread /\ pc \in [Thread -> Places] BY DEF TypeOK, Places, Thread, B
<1>5. /\ i \notin Confirming /\ i \notin Confirming'
      /\ i \in Bound' => i \in Bound
  <2>1. t[2] = "bluesky" BY DEF B
  <2>2. CASE Claim(t) BY <1>4, <2>2 DEF Claim, Goto, Confirming, Bound
  <2>3. CASE Begin(t) BY <1>4, <2>1, <2>3 DEF Begin, Goto, Confirming, Bound
  <2>4. CASE Reset(t) \/ LoadOld(t) \/ Skip(t)
    BY <1>4, <2>4 DEF Reset, LoadOld, Skip, Goto, Confirming, Bound
  <2> QED BY <2>2, <2>3, <2>4
<1>6. Cardinality(Confirming') = Cardinality(Confirming) BY <1>5, ThreadNumbers, Numbers
<1>7. Cardinality(Bound') <= Cardinality(Bound) BY <1>5, ThreadNumbers, Numbers
<1>8. faults' = faults \/ faults' = faults + 1
  BY DEF Begin, Reset, LoadOld, Skip, Claim, Fault
<1>9. IsFiniteSet(today)' BY <1>3 DEF Quota
<1>10. CASE faults' = faults
  <2> DEFINE F == 0
  <2>1. Cardinality(Spare') <= Cardinality(Spare) + F BY <1>2, Numbers
  <2>2. sent' + Cardinality(Spare') + Cardinality(today) + Cardinality(Confirming)
          <= sent + Cardinality(Spare) + Cardinality(today') + Cardinality(Confirming') + F
    BY <1>2, <1>3, <1>6, Numbers
  <2>3. sent' + Cardinality(Bound') <= sent + Cardinality(Bound) + F
    BY <1>3, <1>7, Numbers, NewNumbers
  <2> QED BY <1>2, <1>9, <1>10, <2>1, <2>2, <2>3, QuotaKept
<1>11. CASE faults' = faults + 1
  <2>1. N \in Nat BY Numbers
  <2>2. Cardinality(Spare') <= Cardinality(Spare) + N BY <1>2, Numbers
  <2>3. sent' + Cardinality(Spare') + Cardinality(today) + Cardinality(Confirming)
          <= sent + Cardinality(Spare) + Cardinality(today') + Cardinality(Confirming') + N
    BY <1>2, <1>3, <1>6, Numbers
  <2>4. sent' + Cardinality(Bound') <= sent + Cardinality(Bound) + N
    BY <1>3, <1>7, Numbers, NewNumbers
  <2> QED BY <1>2, <1>9, <1>11, <2>1, <2>2, <2>3, <2>4, QuotaKept
<1> QED BY <1>8, <1>10, <1>11

\* An instance that is counted in finds room; each of the others counted in has sent one
\* copy at most that is not counted yet.
LEMMA CountKeeps ==
    ASSUME TypeOK, TypeOK', Quota, NEW i \in Instance, Alone(B(i)), Count(B(i)),
           Crowded', crowd' >= crowd
    PROVE  Quota'
<1> DEFINE t == B(i)
<1>1. \A p \in Bsky : Stake(p)' <= Stake(p) BY LoadStakes
<1>2. /\ IsFiniteSet(Spare)' /\ Cardinality(Spare') \in Nat
      /\ Cardinality(Spare') <= Cardinality(Spare)
  BY <1>1, StakeType, SpareKept DEF Quota
<1>3. sent' = sent /\ today' = today /\ faults' = faults BY DEF Count, rows
<1>4. t \in Thread /\ pc \in [Thread -> Places] BY DEF TypeOK, Places, Thread, B
<1>5. /\ pc[t] = "count" /\ pc'[t] = (IF LimitReached THEN "idle" ELSE "claim")
  BY <1>4 DEF Count, Goto
<1>6. /\ i \notin Confirming /\ i \notin Confirming' /\ i \notin Bound
      /\ i \in Bound' <=> ~ LimitReached
  BY <1>5 DEF Confirming, Bound
<1>7. Cardinality(Confirming') = Cardinality(Confirming) BY <1>6, ThreadNumbers, Numbers
<1>8. Cardinality(Bound') = Cardinality(Bound) + (IF LimitReached THEN 0 ELSE 1)
  BY <1>6, ThreadNumbers, Numbers
<1>9. Cardinality(Confirming') + Cardinality(Bound') <= crowd' BY SendingSplit DEF Crowded
<1>10. IsFiniteSet(today)' BY <1>3 DEF Quota
<1> DEFINE F == 0
<1>11. Cardinality(Spare') <= Cardinality(Spare) + F BY <1>2, Numbers
<1>12. sent' + Cardinality(Spare') + Cardinality(today) + Cardinality(Confirming)
        <= sent + Cardinality(Spare) + Cardinality(today') + Cardinality(Confirming') + F
  BY <1>2, <1>3, <1>7, Numbers
<1>13. \/ sent' + Cardinality(Bound') <= sent + Cardinality(Bound) + F
       \/ sent' + Cardinality(Bound') <= MaxPerDay + crowd' - 1 + Paid(faults)
  <2>1. CASE LimitReached BY <1>3, <1>8, <2>1, Numbers
  <2>2. CASE ~ LimitReached
    <3>1. Cardinality(today) < MaxPerDay BY <2>2, Numbers DEF LimitReached
    <3>2. sent + Cardinality(Spare)
            <= Cardinality(today) + Cardinality(Confirming) + Paid(faults)
      BY DEF Quota
    <3>3. sent' + Cardinality(Bound') = sent + Cardinality(Bound) + 1
      BY <1>3, <1>8, <2>2, Numbers
    <3>4. Cardinality(Confirming) + Cardinality(Bound) <= crowd' - 1
      BY <1>7, <1>8, <1>9, <2>2, Numbers DEF TypeOK
    <3>5. crowd' \in Nat BY DEF TypeOK
    <3> QED BY <3>1, <3>2, <3>3, <3>4, <3>5, Numbers
  <2> QED BY <2>1, <2>2
<1> QED BY <1>2, <1>3, <1>10, <1>11, <1>12, <1>13, QuotaKept

\* A copy that is sent leaves the instance about to confirm it, or a failure behind.
LEMMA SendKeeps ==
    ASSUME TypeOK, TypeOK', Shape, Quota, NEW i \in Instance, Alone(B(i)),
           crowd' >= crowd,
           Accept(B(i)) \/ Refuse(B(i))
    PROVE  Quota'
<1> DEFINE t == B(i)
<1>1. \A p \in Bsky : Stake(p)' <= Stake(p) BY PostStakes
<1>2. /\ IsFiniteSet(Spare)' /\ Cardinality(Spare') \in Nat
      /\ Cardinality(Spare') <= Cardinality(Spare)
  BY <1>1, StakeType, SpareKept DEF Quota
<1>3. today' = today BY DEF Accept, Refuse, rows
<1>4. t \in Thread /\ pc \in [Thread -> Places] /\ sent \in Nat /\ sent' \in Nat
  BY DEF TypeOK, Places, Thread, B
<1>5. pc[t] = "post" /\ pc'[t] \in {"post", "confirm", "release"}
  BY <1>4 DEF Accept, Refuse, Goto
<1>6. sent' = sent \/ sent' = sent + 1 BY DEF Accept, Refuse, Publish
<1>7. IsFiniteSet(today)' BY <1>3 DEF Quota
<1>8. i \notin Confirming /\ i \in Bound BY <1>5 DEF Confirming, Bound
<1>9. CASE Accept(t)
  <2>1. faults' = faults /\ pc'[t] = "confirm" BY <1>4, <1>9 DEF Accept, Goto
  <2>2. i \in Confirming' /\ i \notin Bound' BY <2>1 DEF Confirming, Bound
  <2>3. /\ Cardinality(Confirming') = Cardinality(Confirming) + 1
        /\ Cardinality(Bound') = Cardinality(Bound) - 1
    BY <1>8, <2>2, ThreadNumbers, Numbers
  <2> DEFINE F == 0
  <2>4. Cardinality(Spare') <= Cardinality(Spare) + F BY <1>2, Numbers
  <2>5. sent' + Cardinality(Spare') + Cardinality(today) + Cardinality(Confirming)
          <= sent + Cardinality(Spare) + Cardinality(today') + Cardinality(Confirming') + F
    BY <1>2, <1>3, <1>6, <2>3, Numbers
  <2>6. sent' + Cardinality(Bound') <= sent + Cardinality(Bound) + F
    BY <1>6, <2>3, Numbers
  <2> QED BY <1>2, <1>7, <2>1, <2>4, <2>5, <2>6, QuotaKept
<1>10. CASE Refuse(t)
  <2>1. pc'[t] \in {"post", "release"} BY <1>4, <1>10 DEF Refuse, Goto
  <2>2. i \notin Confirming' BY <2>1 DEF Confirming
  <2>3. Cardinality(Confirming') = Cardinality(Confirming)
    BY <1>8, <2>2, ThreadNumbers, Numbers
  <2>4. Cardinality(Bound') <= Cardinality(Bound) BY <1>8, ThreadNumbers, Numbers
  <2>5. CASE faults' = faults /\ sent' = sent
    <3> DEFINE F == 0
    <3>1. Cardinality(Spare') <= Cardinality(Spare) + F BY <1>2, Numbers
    <3>2. sent' + Cardinality(Spare') + Cardinality(today) + Cardinality(Confirming)
            <= sent + Cardinality(Spare) + Cardinality(today') + Cardinality(Confirming') + F
      BY <1>2, <1>3, <2>3, <2>5, Numbers
    <3>3. sent' + Cardinality(Bound') <= sent + Cardinality(Bound) + F
      BY <2>4, <2>5, Numbers, NewNumbers
    <3> QED BY <1>2, <1>7, <2>5, <3>1, <3>2, <3>3, QuotaKept
  <2>6. CASE faults' = faults + 1
    <3>1. N \in Nat /\ N >= 1 BY PaidMore
    <3>2. Cardinality(Spare') <= Cardinality(Spare) + N BY <1>2, <3>1, Numbers
    <3>3. sent' + Cardinality(Spare') + Cardinality(today) + Cardinality(Confirming)
            <= sent + Cardinality(Spare) + Cardinality(today') + Cardinality(Confirming') + N
      BY <1>2, <1>3, <1>6, <2>3, <3>1, Numbers
    <3>4. sent' + Cardinality(Bound') <= sent + Cardinality(Bound) + N
      BY <1>6, <2>4, <3>1, Numbers, NewNumbers
    <3> QED BY <1>2, <1>7, <2>6, <3>1, <3>2, <3>3, <3>4, QuotaKept
  <2> QED BY <1>10, <2>5, <2>6 DEF Refuse, Fault
<1> QED BY <1>9, <1>10
\* A confirmation counts a new post today; that of a post confirmed before uses up a spare.
LEMMA ConfirmKeeps ==
    ASSUME TypeOK, TypeOK', Shape, HasPost, Quota, NEW i \in Instance, Alone(B(i)),
           Confirm(B(i)), faults' = faults, crowd' >= crowd
    PROVE  Quota'
<1> DEFINE t == B(i)
<1>1. t \in Thread /\ pc \in [Thread -> Places] /\ faults \in Nat
  BY DEF TypeOK, Places, Thread, B
<1>2. ~ Fault BY <1>1 DEF Fault
<1>3. /\ pc[t] \in {"confirm", "release"} /\ sent' = sent /\ pc'[t] = "idle"
      /\ posted' = IF pc[t] = "confirm" THEN posted \cup cur[t] ELSE posted
      /\ today' = IF pc[t] = "confirm" THEN today \cup (cur[t] \cap Bsky) ELSE today
  BY <1>1, <1>2 DEF Confirm, Leave, Goto, B
<1>4. PICK q \in Bsky : cur[t] = {q}
  <2>1. cur[t] # {} BY <1>1, <1>3 DEF HasPost
  <2>2. cur[t] \subseteq Bsky BY <1>1 DEF Shape, Due, B
  <2> QED BY <1>1, <2>1, <2>2 DEF Shape
<1>5. \A p \in Bsky : Stake(p)' <= Stake(p) BY <1>3, <1>4, LeaveStakes
<1>6. /\ IsFiniteSet(Spare)' /\ Cardinality(Spare') \in Nat
      /\ Cardinality(Spare') <= Cardinality(Spare)
  BY <1>5, StakeType, SpareKept DEF Quota
<1>7. /\ i \notin Confirming' /\ i \notin Bound /\ i \notin Bound'
      /\ i \in Confirming <=> pc[t] = "confirm"
  BY <1>3 DEF Confirming, Bound
<1>8. Cardinality(Bound') = Cardinality(Bound) BY <1>7, ThreadNumbers, Numbers
<1> DEFINE F == 0
<1>9. Cardinality(Spare') <= Cardinality(Spare) + F BY <1>6, Numbers
<1>10. sent' + Cardinality(Bound') <= sent + Cardinality(Bound) + F BY <1>3, <1>8, Numbers
<1>11. CASE pc[t] = "release"
  <2>1. Cardinality(Confirming') = Cardinality(Confirming)
    BY <1>7, <1>11, ThreadNumbers, Numbers
  <2>2. today' = today /\ IsFiniteSet(today)' BY <1>3, <1>11 DEF Quota
  <2>3. sent' + Cardinality(Spare') + Cardinality(today) + Cardinality(Confirming)
          <= sent + Cardinality(Spare) + Cardinality(today') + Cardinality(Confirming') + F
    <3>1. sent' = sent /\ today' = today BY <1>3, <2>2
    <3> HIDE DEF t
    <3> QED BY <3>1, <1>6, <2>1, Numbers
  <2> QED BY <1>6, <1>9, <1>10, <2>2, <2>3, QuotaKept
<1>12. CASE pc[t] = "confirm"
  <2>1. Cardinality(Confirming') = Cardinality(Confirming) - 1
    BY <1>7, <1>12, ThreadNumbers, Numbers
  <2>2. today' = today \cup {q} BY <1>3, <1>4, <1>12
  <2>3. /\ IsFiniteSet(today')
        /\ Cardinality(today') = IF q \in today THEN Cardinality(today) ELSE Cardinality(today) + 1
    BY <2>2, FS_AddElement DEF Quota
  <2>4. CASE q \in posted
    <3>1. Stake(q)' < Stake(q) /\ Stake(q) >= 2 BY <1>4, <1>12, <2>4, LeaveStakes
    <3>2. Cardinality(Spare') <= Cardinality(Spare) - 1
      BY <1>5, <3>1, StakeType, SpareFalls DEF Quota
    <3>3. sent' + Cardinality(Spare') + Cardinality(today) + Cardinality(Confirming)
            <= sent + Cardinality(Spare) + Cardinality(today') + Cardinality(Confirming') + F
      BY <1>3, <1>6, <2>1, <2>3, <3>2, Numbers
    <3> QED BY <1>6, <1>9, <1>10, <2>3, <3>3, QuotaKept
  <2>5. CASE q \notin posted
    <3>1. q \notin today BY <2>5 DEF TypeOK
    <3>2. sent' + Cardinality(Spare') + Cardinality(today) + Cardinality(Confirming)
            <= sent + Cardinality(Spare) + Cardinality(today') + Cardinality(Confirming') + F
      BY <1>3, <1>6, <2>1, <2>3, <3>1, Numbers
    <3> QED BY <1>6, <1>9, <1>10, <2>3, <3>2, QuotaKept
  <2> QED BY <2>4, <2>5
<1> QED BY <1>3, <1>11, <1>12

\* A confirmation that fails and a crash leave a claim that each instance may clear.
LEMMA LossKeeps ==
    ASSUME TypeOK, TypeOK', Shape, Quota, NEW i \in Instance, Alone(B(i)),
           Confirm(B(i)) \/ Crash(B(i)), faults' = faults + 1, crowd' >= crowd
    PROVE  Quota'
<1> DEFINE t == B(i)
<1>1. t \in Thread /\ pc \in [Thread -> Places] /\ faults \in Nat
  BY DEF TypeOK, Places, Thread, B
<1>2. /\ UNCHANGED <<claim, posted, today, sent>> /\ pc'[t] = "idle"
  <2>1. CASE Crash(t) BY <1>1, <2>1 DEF Crash, Goto, rows
  <2>2. CASE Confirm(t) BY <1>1, <2>2 DEF Confirm, Leave, Goto, B
  <2> QED BY <2>1, <2>2
<1>3. N \in Nat /\ N >= 1 /\ N - 1 \in Nat
  <2>1. N \in Nat /\ N >= 1 BY PaidMore
  <2> QED BY <2>1
<1>4. /\ IsFiniteSet(Spare)' /\ Cardinality(Spare') \in Nat
      /\ Cardinality(Spare') <= Cardinality(Spare) + (N - 1)
  <2>1. CASE \E q \in Bsky : q \in cur[t]
    <3>1. PICK q \in Bsky : q \in cur[t] BY <2>1
    <3>2. \A p \in Bsky \ {q} : p \notin cur[t] BY <1>1, <3>1 DEF Shape
    <3>3. \A p \in Bsky \ {q} : Stake(p)' <= Stake(p) BY <3>2, LeaveStakes
    <3>4. Stake(q)' <= Stake(q) + (N - 1) BY <1>2, LeaveStakes
    <3> QED BY <1>3, <3>3, <3>4, StakeType, SpareGrows DEF Quota
  <2>2. CASE \A q \in Bsky : q \notin cur[t]
    <3>1. \A p \in Bsky : Stake(p)' <= Stake(p) BY <2>2, LeaveStakes
    <3>2. /\ IsFiniteSet(Spare)' /\ Cardinality(Spare') \in Nat
          /\ Cardinality(Spare') <= Cardinality(Spare)
      BY <3>1, StakeType, SpareKept DEF Quota
    <3> QED BY <1>3, <3>2, Numbers
  <2> QED BY <2>1, <2>2
<1>5. i \notin Confirming' /\ i \notin Bound' BY <1>2 DEF Confirming, Bound
<1>6. /\ Cardinality(Confirming') >= Cardinality(Confirming) - 1
      /\ Cardinality(Bound') <= Cardinality(Bound)
  BY <1>5, ThreadNumbers, Numbers
<1>7. IsFiniteSet(today)' BY <1>2 DEF Quota
<1>8. Cardinality(Spare') <= Cardinality(Spare) + N BY <1>3, <1>4, Numbers
<1>9. sent' + Cardinality(Spare') + Cardinality(today) + Cardinality(Confirming)
        <= sent + Cardinality(Spare) + Cardinality(today') + Cardinality(Confirming') + N
  BY <1>2, <1>3, <1>4, <1>6, Numbers, NewNumbers
<1>10. sent' + Cardinality(Bound') <= sent + Cardinality(Bound) + N
  BY <1>2, <1>3, <1>6, Numbers, NewNumbers
<1> QED BY <1>3, <1>4, <1>7, <1>8, <1>9, <1>10, QuotaKept

\* Steps that leave what the quota counts as it is, with a failure or without.
LEMMA OthersKeep ==
    ASSUME TypeOK, TypeOK', Quota, \A p \in Bsky : Stake(p)' <= Stake(p),
           Confirming' = Confirming, Bound' = Bound, sent' = sent, today' = today,
           faults' = faults \/ faults' = faults + 1, crowd' >= crowd
    PROVE  Quota'
<1>1. /\ IsFiniteSet(Spare)' /\ Cardinality(Spare') \in Nat
      /\ Cardinality(Spare') <= Cardinality(Spare)
  BY StakeType, SpareKept DEF Quota
<1>2. IsFiniteSet(today)' BY DEF Quota
<1>3. ASSUME NEW F \in Nat PROVE
         /\ Cardinality(Spare') <= Cardinality(Spare) + F
         /\ sent' + Cardinality(Spare') + Cardinality(today) + Cardinality(Confirming)
              <= sent + Cardinality(Spare) + Cardinality(today') + Cardinality(Confirming') + F
         /\ sent' + Cardinality(Bound') <= sent + Cardinality(Bound) + F
  BY <1>1, <1>3, Numbers
<1>4. CASE faults' = faults BY <1>1, <1>2, <1>3, <1>4, QuotaKept
<1>5. CASE faults' = faults + 1
  <2>1. N \in Nat BY Numbers
  <2> QED BY <1>1, <1>2, <1>3, <1>5, <2>1, QuotaKept
<1> QED BY <1>4, <1>5
LEMMA XKeeps ==
    ASSUME TypeOK, TypeOK', Shape, Quota, NEW t \in Thread, t[2] = "x", Step(t) \/ Crash(t),
           crowd' >= crowd
    PROVE  Quota'
<1>1. Alone(t) BY StepsAlone
<1>2. \A p \in Bsky : Stake(p)' <= Stake(p) BY XStakes
<1>3. \A i \in Instance : B(i) \in Thread \ {t} BY DEF Thread, B
<1>4. Confirming' = Confirming /\ Bound' = Bound
  BY <1>1, <1>3 DEF Confirming, Bound, Alone
<1>5. cur[t] \cap Bsky = {} BY ConstantsAssumption DEF Shape, Due
<1>6. ~ Reset(t) /\ ~ LoadOld(t) /\ ~ Skip(t) /\ ~ Count(t)
  BY DEF Shape, Reset, LoadOld, Skip, Count
<1>7. sent' = sent /\ today' = today /\ (faults' = faults \/ faults' = faults + 1)
  <2>1. CASE Begin(t) \/ Claim(t) \/ Crash(t) BY <2>1 DEF Begin, Claim, Crash, rows, Fault
  <2>2. CASE Accept(t) \/ Refuse(t)
    <3>1. \A q \in cur[t] : Publish(q) => sent' = sent BY <1>5 DEF Publish
    <3> QED BY <2>2, <3>1 DEF Accept, Refuse, rows, Fault
  <2>3. CASE Confirm(t) BY <1>5, <2>3 DEF Confirm, Fault
  <2> QED BY <1>6, <2>1, <2>2, <2>3 DEF Step
<1> QED BY <1>2, <1>4, <1>7, OthersKeep

LEMMA StalesKeeps ==
    ASSUME TypeOK, TypeOK', Quota, NEW q \in Bsky, Stales(q), crowd' >= crowd
    PROVE  Quota'
<1>1. UNCHANGED <<today, threads, sent>> BY DEF Stales
<1>2. Confirming' = Confirming /\ Bound' = Bound BY <1>1 DEF Confirming, Bound, threads
<1>3. CASE ~ \E t \in Thread : q \in cur[t]
  <2>1. faults' = faults BY <1>3 DEF Stales
  <2>2. \A p \in Bsky : Stake(p)' <= Stake(p) BY <1>3, StakeStales
  <2> QED BY <1>1, <1>2, <2>1, <2>2, OthersKeep
<1>4. CASE \E t \in Thread : q \in cur[t]
  <2>1. faults' = faults + 1 BY <1>4 DEF Stales, Fault
  <2>2. N \in Nat BY Numbers
  <2>3. /\ \A p \in Bsky \ {q} : Stake(p)' <= Stake(p)
        /\ Stake(q)' <= Stake(q) + N
    BY StakeStales
  <2>4. /\ IsFiniteSet(Spare)' /\ Cardinality(Spare') \in Nat
        /\ Cardinality(Spare') <= Cardinality(Spare) + N
    BY <2>2, <2>3, StakeType, SpareGrows DEF Quota
  <2>5. IsFiniteSet(today)' BY <1>1 DEF Quota
  <2>6. sent' + Cardinality(Spare') + Cardinality(today) + Cardinality(Confirming)
          <= sent + Cardinality(Spare) + Cardinality(today') + Cardinality(Confirming') + N
    BY <1>1, <1>2, <2>2, <2>4, Numbers
  <2>7. sent' + Cardinality(Bound') <= sent + Cardinality(Bound) + N
    BY <1>1, <1>2, Numbers
  <2> QED BY <2>1, <2>2, <2>4, <2>5, <2>6, <2>7, QuotaKept
<1> QED BY <1>3, <1>4

\* At midnight the counts start again: what may still go out is one copy for each instance
\* that was counted in, and the spares.
LEMMA MidnightKeeps ==
    ASSUME TypeOK, TypeOK', Quota, Midnight
    PROVE  Quota'
<1>1. UNCHANGED <<claim, posted, skipped, threads, faults>> /\ today' = {} /\ sent' = 0
  BY DEF Midnight
<1>2. Confirming' = Confirming /\ Bound' = Bound /\ N' = N
  BY <1>1 DEF Confirming, Bound, threads, N
<1>3. \A p : Stake(p)' = Stake(p)
  <2>1. \A p : Having(p)' = Having(p) /\ Clearing(p)' = Clearing(p)
    BY <1>1 DEF Having, Clearing, threads
  <2>2. \A p : Open(p)' = Open(p) /\ Left(p)' = Left(p) BY <1>1 DEF Open, Left, threads
  <2> QED BY <1>1, <1>2, <2>1, <2>2 DEF Stake
<1>4. Spare' = Spare BY <1>3 DEF Spare
<1>5. IsFiniteSet(today)' /\ Cardinality(today') = 0 BY <1>1, FS_EmptySet
<1>6. Paid(faults') = Paid(faults) /\ Paid(faults)' = Paid(faults) BY <1>1, <1>2 DEF Paid
<1>7. IsFiniteSet(Spare) /\ Cardinality(Spare) <= Paid(faults) BY DEF Quota
<1>8. /\ Cardinality(Spare) <= Cardinality(today') + Cardinality(Confirming) + Paid(faults)
      /\ Cardinality(Bound) <= MaxPerDay + crowd' - 1 + Paid(faults)
  <2>1. crowd' = Cardinality(Confirming) + Cardinality(Bound)
    BY SendingSplit DEF Midnight
  <2> QED BY <1>5, <1>7, <2>1, Numbers
<1>9. /\ sent' + Cardinality(Spare) = Cardinality(Spare)
      /\ sent' + Cardinality(Bound) = Cardinality(Bound)
  BY <1>1, Numbers
<1> QED BY <1>2, <1>4, <1>5, <1>6, <1>7, <1>8, <1>9 DEF Quota

LEMMA QuotaNext ==
    ASSUME TypeOK, Shape, HasPost, Crowded, Quota, [Next]_vars
    PROVE  Quota'
<1>1. TypeOK' BY TypeNext
<1>0. Crowded' /\ (Midnight \/ crowd' >= crowd) BY CrowdNext
<1>2. ASSUME NEW t \in Thread, Step(t) \/ Crash(t)
      PROVE  Quota'
  <2>0. crowd' >= crowd BY <1>2, CrowdNext, StepCrowd
  <2>1. CASE t[2] = "x" BY <1>1, <1>2, <2>0, <2>1, XKeeps
  <2>2. CASE t[2] # "x"
    <3>1. PICK i \in Instance : t = B(i) BY <2>2 DEF Thread, B
    <3>2. Alone(B(i)) BY <1>2, <3>1, StepsAlone
    <3>3. CASE Confirm(t)
      <4>1. faults' = faults \/ faults' = faults + 1 BY <3>3 DEF Confirm, Fault
      <4> QED BY <1>1, <2>0, <3>1, <3>2, <3>3, <4>1, ConfirmKeeps, LossKeeps
    <3>4. CASE Crash(t)
      <4>1. faults' = faults + 1 BY <3>4 DEF Crash, Fault
      <4> QED BY <1>1, <2>0, <3>1, <3>2, <3>4, <4>1, LossKeeps
    <3> QED BY <1>0, <1>1, <1>2, <2>0, <3>1, <3>2, <3>3, <3>4, QuietKeeps, CountKeeps, SendKeeps
         DEF Step
  <2> QED BY <2>1, <2>2
<1>3. CASE \E q \in Bsky : Stales(q)
  <2>1. crowd' >= crowd BY <1>3 DEF Stales, TypeOK
  <2> QED BY <1>1, <1>3, <2>1, StalesKeeps
<1>4. CASE Midnight BY <1>1, <1>4, MidnightKeeps
<1>5. CASE UNCHANGED <<claim, posted, skipped, today, threads, faults, sent, crowd>>
  <2>1. Confirming' = Confirming /\ Bound' = Bound /\ N' = N
    BY <1>5 DEF Confirming, Bound, threads, N
  <2>2. \A p : Having(p)' = Having(p) /\ Clearing(p)' = Clearing(p)
    BY <1>5 DEF Having, Clearing, threads
  <2>3. \A p : Open(p)' = Open(p) /\ Left(p)' = Left(p) BY <1>5 DEF Open, Left, threads
  <2>4. \A p : Stake(p)' = Stake(p) BY <1>5, <2>1, <2>2, <2>3 DEF Stake
  <2>5. \A p \in Bsky : Stake(p)' <= Stake(p) BY <2>4, StakeType
  <2>6. crowd' >= crowd BY <1>5 DEF TypeOK
  <2> QED BY <1>1, <1>5, <2>1, <2>5, <2>6, OthersKeep
<1> QED BY <1>2, <1>3, <1>4, <1>5 DEF Next, vars, rows, Schedule, Ages

LEMMA QuotaInit == Init => HasPost /\ Crowded /\ Quota
<1> SUFFICES ASSUME Init PROVE HasPost /\ Crowded /\ Quota OBVIOUS
<1>1. HasPost BY DEF Init, HasPost
<1>2. /\ \A i \in Instance : B(i) \in Thread
      /\ \A i \in Instance : pc[B(i)] = "idle" /\ cur[B(i)] = {} /\ held[B(i)] = NoRows
    BY DEF Init, Thread, B, Nobody
<1>3. Confirming = {} /\ Bound = {} /\ Sending = {}
  BY <1>2 DEF Confirming, Bound, Sending, B
<1>4. Cardinality({}) = 0 /\ IsFiniteSet({}) BY FS_EmptySet
<1>5. ASSUME NEW p \in Bsky PROVE Stake(p) <= 1
  <2>1. Having(p) = {} /\ Clearing(p) = {} BY <1>2 DEF Having, Clearing
  <2>2. ~ Left(p) /\ p \notin posted BY DEF Init, Post, Left
  <2> QED BY <1>4, <2>1, <2>2 DEF Stake
<1>6. Spare = {}
  <2> SUFFICES ASSUME NEW x \in Spare PROVE FALSE OBVIOUS
  <2>1. x[1] \in Bsky /\ x[2] \in Nat \ {0} /\ x[2] < Stake(x[1]) BY DEF Spare
  <2>2. Stake(x[1]) <= 1 /\ Stake(x[1]) \in Nat BY <1>5, <2>1, StakeType
  <2> QED BY <2>1, <2>2
<1>7. N \in Nat /\ faults = 0 /\ Paid(0) \in Nat /\ sent = 0 /\ crowd = 0 /\ today = {}
  BY PaidMore DEF Init
<1> QED BY <1>1, <1>3, <1>4, <1>6, <1>7, ConstantsAssumption DEF Quota, Crowded

LEMMA QuotaLimit == TypeOK /\ Quota => LimitKept
<1> SUFFICES ASSUME TypeOK, Quota PROVE sent <= MaxPerDay + crowd - 1 + Paid(faults)
  BY DEF LimitKept, Paid, N
<1> QED BY Numbers DEF Quota

\* A day's posts to Bluesky pass the limit by no more than what other instances that were
\* counted in have yet to confirm, and by a copy per instance for every failure, across any
\* number of days, instances and posts: _count_bluesky_posts_today is read once,
\* before the claim.
THEOREM DayIsLimited == Spec => []LimitKept
<1> DEFINE IInv == TypeOK /\ Shape /\ HasPost /\ Crowded /\ Quota
<1>1. Init => IInv BY TypeInit, ShapeInit, QuotaInit
<1>2. IInv /\ [Next]_vars => IInv'
  BY TypeNext, ShapeNext, HasPostNext, CrowdNext, QuotaNext
<1>3. IInv => LimitKept BY QuotaLimit
<1> QED BY <1>1, <1>2, <1>3, PTL DEF Spec
=============================================================================
