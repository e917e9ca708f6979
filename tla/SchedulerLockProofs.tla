------------------------- MODULE SchedulerLockProofs -------------------------
(***************************************************************************)
(* Proofs about SchedulerLock.  Without a fault two schedulers run only    *)
(* if the heartbeats of one have failed for as long as its key lives; with *)
(* any faults none runs long without its key.                              *)
(***************************************************************************)
EXTENDS SchedulerLock, TLAPS

LEMMA Constants ==
    /\ Orphan \notin Proc /\ TTL \in Nat /\ TTL > 0 /\ Beat \in Nat /\ Beat > 0
    /\ Retry \in Nat /\ MaxAttempts \in Nat /\ ReAttempts \in Nat
    /\ MaxFails \in Nat /\ MaxFails > 0 /\ Call \in Nat /\ MaxFaults \in Nat
    /\ Jitter \in Nat /\ Call < TTL /\ ReAttempts > 0
  BY ConstantsAssumption

-----------------------------------------------------------------------------
(* Types                                                                   *)

LEMMA KeyTypes ==
  ASSUME TypeOK, NEW p \in Proc, Take(p) \/ NotTaken \/ Release(p)
  PROVE  key' \subseteq Proc \cup {Orphan} /\ ttl' \in 0..TTL
  BY Constants DEF TypeOK, Take, NotTaken, Release

LEMMA AgainTypes ==
  ASSUME TypeOK, NEW p \in Proc, pc[p] \in {"acquire", "reacquire"}, Again(p)
  PROVE  /\ pc' \in [Proc -> Pc] /\ wait' \in [Proc -> Int]
         /\ tries' \in [Proc -> Nat] /\ fails' \in [Proc -> Nat]
         /\ jobs' \in [Proc -> BOOLEAN]
<1>1. CASE /\ tries[p] > 1 /\ \E n \in Retry..(Retry + Jitter) : Goto(p, pc[p], n)
           /\ tries' = [tries EXCEPT ![p] = @ - 1] /\ UNCHANGED <<fails, jobs>>
  <2>1. tries[p] - 1 \in Nat
    BY <1>1 DEF TypeOK
  <2> QED
    BY <1>1, <2>1, Constants DEF TypeOK, Goto
<1>2. CASE Goto(p, "rest", Retry)
           /\ tries' = [tries EXCEPT ![p] = 0] /\ UNCHANGED <<fails, jobs>>
  BY <1>2, Constants DEF TypeOK, Goto, Pc
<1>3. CASE Shutdown(p)
  BY <1>3, Constants DEF TypeOK, Shutdown, Goto, Pc
<1> QED
  BY <1>1, <1>2, <1>3 DEF Again

LEMMA StepTypes ==
  ASSUME TypeOK, NEW p \in Proc, Step(p)
  PROVE  TypeOK'
<1>1. CASE Start(p)
  BY <1>1, Constants DEF Start, Goto, TypeOK, Pc
<1>2. CASE Enter(p)
  BY <1>2, Constants DEF Enter, Goto, TypeOK, Pc
<1>3. CASE Acquire(p)
  <2>1. key' \subseteq Proc \cup {Orphan} /\ ttl' \in 0..TTL
    BY <1>3, KeyTypes DEF Acquire
  <2> QED
    BY <1>3, <2>1, Constants DEF Acquire, Goto, TypeOK, Pc
<1>4. CASE Fruitless(p)
  BY <1>4, AgainTypes, KeyTypes, Constants DEF Fruitless, TypeOK
<1>5. CASE Renew(p)
  <2>1. key' \subseteq Proc \cup {Orphan} /\ ttl' \in 0..TTL
    BY <1>5, KeyTypes DEF Renew
  <2> QED
    BY <1>5, <2>1, Constants DEF Renew, Goto, TypeOK, Pc
<1>6. CASE Lost(p)
  BY <1>6, Constants DEF Lost, Goto, TypeOK, Pc
<1>7. CASE BeatFails(p)
  <2>1. key' \subseteq Proc \cup {Orphan} /\ ttl' \in 0..TTL
    BY <1>7, KeyTypes DEF BeatFails
  <2>2. pc' \in [Proc -> Pc] /\ wait' \in [Proc -> Int] /\ tries' \in [Proc -> Nat]
    BY <1>7, Constants DEF BeatFails, Shutdown, Goto, TypeOK, Pc
  <2>3. fails' \in [Proc -> Nat] /\ jobs' \in [Proc -> BOOLEAN]
    <3>1. CASE fails' = [fails EXCEPT ![p] = @ + 1] /\ UNCHANGED <<tries, jobs>>
      BY <3>1 DEF TypeOK
    <3>2. CASE Shutdown(p)
      BY <3>2 DEF Shutdown, TypeOK
    <3> QED
      BY <1>7, <3>1, <3>2 DEF BeatFails
  <2> QED
    BY <1>7, <2>1, <2>2, <2>3 DEF BeatFails, TypeOK
<1>8. CASE Drained(p)
  BY <1>8, Constants DEF Drained, Goto, TypeOK, Pc
<1>9. CASE StartFails(p)
  <2>1. key' \subseteq Proc \cup {Orphan} /\ ttl' \in 0..TTL
    BY <1>9, KeyTypes DEF StartFails
  <2> QED
    BY <1>9, <2>1, Constants DEF StartFails, Goto, TypeOK, Pc
<1> QED
  BY <1>1, <1>2, <1>3, <1>4, <1>5, <1>6, <1>7, <1>8, <1>9 DEF Step

LEMMA EndTypes ==
  ASSUME TypeOK, NEW p \in Proc, Exit(p) \/ Crash(p)
  PROVE  TypeOK'
<1>1. CASE Exit(p)
  <2>1. key' \subseteq Proc \cup {Orphan} /\ ttl' \in 0..TTL
    BY <1>1, KeyTypes DEF Exit
  <2> QED
    BY <1>1, <2>1, Constants DEF Exit, Ends, Goto, TypeOK, Pc
<1>2. CASE Crash(p)
  BY <1>2, Constants DEF Crash, Ends, Goto, TypeOK, Pc
<1> QED
  BY <1>1, <1>2

LEMMA TickTypes ==
  ASSUME TypeOK, Tick
  PROVE  TypeOK'
<1>1. wait' \in [Proc -> Int]
  BY DEF Tick, TypeOK
<1>2. key' \subseteq Proc \cup {Orphan} /\ ttl' \in 0..TTL
  BY Constants DEF Tick, TypeOK, Expires
<1> QED
  BY <1>1, <1>2, Constants DEF Tick, TypeOK

\* Keys, timers, attempts and failures keep their types whatever fails.
THEOREM TypeCorrect == Spec => []TypeOK
<1>1. Init => TypeOK
  BY Constants DEF Init, TypeOK, Pc
<1>2. ASSUME TypeOK, [Next]_vars PROVE TypeOK'
  <2>1. CASE \E p \in Proc : Step(p) \/ Exit(p) \/ Crash(p)
    BY <2>1, <1>2, StepTypes, EndTypes
  <2>2. CASE LoseKey
    BY <2>2, <1>2, Constants DEF LoseKey, procVars, TypeOK
  <2>3. CASE Tick
    BY <2>3, <1>2, TickTypes
  <2>4. CASE UNCHANGED vars
    BY <2>4, <1>2 DEF vars, procVars, TypeOK
  <2> QED
    BY <1>2, <2>1, <2>2, <2>3, <2>4 DEF Next
<1> QED
  BY <1>1, <1>2, PTL DEF Spec

-----------------------------------------------------------------------------
(* What a step of one process does                                         *)

\* Only p's supervisor moves, and it sets the key only if it is p's or nobody's.
Acts(p) ==
    /\ pc' = [pc EXCEPT ![p] = pc'[p]]
    /\ wait' = [wait EXCEPT ![p] = wait'[p]]
    /\ tries' = [tries EXCEPT ![p] = tries'[p]]
    /\ fails' = [fails EXCEPT ![p] = fails'[p]]
    /\ astray' = [astray EXCEPT ![p] = astray'[p]]
    /\ key = {} \/ UNCHANGED <<key, ttl>> \/ key = {p}
    /\ key' = key \/ key' \subseteq {p, Orphan}
    /\ faults' \in {faults, faults + 1}

\* p does not run a scheduler afterwards.
Rests(p) == pc'[p] \notin {"run", "reacquire"} /\ wait'[p] >= 0

\* p has just set its key.
Takes(p) ==
    /\ pc'[p] = "run" /\ wait'[p] = Beat /\ fails'[p] = 0 /\ Take(p)
    /\ astray'[p] = 0 \/ (pc[p] = "run" /\ key = {p} /\ astray'[p] = astray[p])

\* A heartbeat of p fails and p goes on.
Fails(p) ==
    /\ pc[p] = "run" /\ pc'[p] = "run" /\ wait'[p] = Beat
    /\ fails[p] + 1 < MaxFails /\ fails'[p] = fails[p] + 1
    /\ NotTaken \/ (key = {p} /\ Take(p))
    /\ astray' = astray

\* p finds its key lost.
Loses(p) ==
    /\ pc[p] = "run" /\ pc'[p] = "reacquire" /\ wait'[p] = 0
    /\ key # {p} /\ UNCHANGED <<key, ttl>>
    /\ tries'[p] = ReAttempts /\ UNCHANGED <<fails, astray>>

\* An attempt of p to take a lost key fails and p goes on.
Retries(p) ==
    /\ pc[p] = "reacquire" /\ pc'[p] = "reacquire"
    /\ wait'[p] \in Retry..(Retry + Jitter)
    /\ tries[p] > 1 /\ tries'[p] = tries[p] - 1 /\ UNCHANGED <<fails, astray>>

Moves(p) == Rests(p) \/ Takes(p) \/ Fails(p) \/ Loses(p) \/ Retries(p)

LEMMA FruitlessMoves ==
  ASSUME TypeOK, NEW p \in Proc, Fruitless(p)
  PROVE  Acts(p) /\ Moves(p)
<1>1. /\ pc[p] \in {"acquire", "reacquire"} /\ astray' = astray /\ faults' = faults
      /\ NotTaken \/ (key = {} /\ Take(p))
  BY DEF Fruitless
<1>2. key = {} \/ UNCHANGED <<key, ttl>>
  BY <1>1 DEF NotTaken
<1>3. key' = key \/ key' \subseteq {p, Orphan}
  BY <1>1 DEF NotTaken, Take
<1>4. CASE /\ tries[p] > 1 /\ \E n \in Retry..(Retry + Jitter) : Goto(p, pc[p], n)
           /\ tries' = [tries EXCEPT ![p] = @ - 1] /\ UNCHANGED <<fails, jobs>>
  <2>1. PICK n \in Retry..(Retry + Jitter) : Goto(p, pc[p], n)
    BY <1>4
  <2>2. /\ pc'[p] = pc[p] /\ wait'[p] = n /\ wait'[p] >= 0
        /\ tries'[p] = tries[p] - 1 /\ tries[p] > 1
    BY <1>4, <2>1, Constants DEF Goto, TypeOK
  <2>3. Acts(p)
    BY <1>1, <1>2, <1>3, <1>4, <2>1 DEF Acts, Goto, TypeOK
  <2> QED
    BY <1>1, <1>4, <2>2, <2>3 DEF Moves, Rests, Retries
<1>5. CASE \/ /\ Goto(p, "rest", Retry)
              /\ tries' = [tries EXCEPT ![p] = 0] /\ UNCHANGED <<fails, jobs>>
           \/ Shutdown(p)
  <2>1. Acts(p)
    BY <1>1, <1>2, <1>3, <1>5 DEF Acts, Goto, Shutdown, TypeOK
  <2>2. pc'[p] = "rest" /\ wait'[p] = Retry
    BY <1>5 DEF Goto, Shutdown, TypeOK
  <2> QED
    BY <2>1, <2>2, Constants DEF Moves, Rests
<1> QED
  BY <1>4, <1>5 DEF Fruitless, Again

LEMMA BeatMoves ==
  ASSUME TypeOK, NEW p \in Proc, BeatFails(p)
  PROVE  Acts(p) /\ Moves(p)
<1>1. pc[p] = "run" /\ astray' = astray /\ faults' = faults
  BY DEF BeatFails
<1>2. CASE /\ fails[p] + 1 < MaxFails
           /\ NotTaken \/ (key = {p} /\ Take(p))
           /\ Goto(p, "run", Beat)
           /\ fails' = [fails EXCEPT ![p] = @ + 1] /\ UNCHANGED <<tries, jobs>>
  <2>1. pc'[p] = "run" /\ wait'[p] = Beat /\ fails'[p] = fails[p] + 1
    BY <1>2 DEF Goto, TypeOK
  <2>2. Acts(p)
    BY <1>1, <1>2 DEF Acts, Goto, NotTaken, Take, TypeOK
  <2> QED
    BY <1>1, <1>2, <2>1, <2>2 DEF Moves, Fails
<1>3. CASE Shutdown(p) /\ Release(p)
  <2>1. pc'[p] = "rest" /\ wait'[p] = Retry
    BY <1>3 DEF Goto, Shutdown, TypeOK
  <2>2. Acts(p)
    BY <1>1, <1>3 DEF Acts, Goto, Shutdown, Release, NotTaken, TypeOK
  <2> QED
    BY <2>1, <2>2, Constants DEF Moves, Rests
<1> QED
  BY <1>2, <1>3 DEF BeatFails

\* Every step of a process is one of these moves.
LEMMA ProcMoves ==
  ASSUME TypeOK, NEW p \in Proc, Step(p) \/ Exit(p) \/ Crash(p)
  PROVE  Acts(p) /\ Moves(p)
<1>1. CASE Start(p)
  BY <1>1, Constants DEF Start, Acts, Moves, Rests, Goto, TypeOK
<1>2. CASE Enter(p)
  BY <1>2, Constants DEF Enter, Acts, Moves, Rests, Goto, TypeOK
<1>3. CASE Acquire(p)
  <2>1. Acts(p)
    BY <1>3 DEF Acquire, Take, Acts, Goto, TypeOK
  <2>2. Takes(p)
    BY <1>3 DEF Acquire, Takes, Goto, TypeOK
  <2> QED
    BY <2>1, <2>2 DEF Moves
<1>4. CASE Renew(p)
  <2>1. Acts(p)
    BY <1>4 DEF Renew, Take, Acts, Goto, TypeOK
  <2>2. Takes(p)
    BY <1>4 DEF Renew, Takes, Goto, TypeOK
  <2> QED
    BY <2>1, <2>2 DEF Moves
<1>5. CASE StartFails(p)
  <2>1. Acts(p)
    BY <1>5 DEF StartFails, Take, NotTaken, Acts, Goto, TypeOK
  <2>2. Rests(p)
    BY <1>5, Constants DEF StartFails, Rests, Goto, TypeOK
  <2> QED
    BY <2>1, <2>2 DEF Moves
<1>6. CASE Lost(p)
  BY <1>6 DEF Lost, Acts, Moves, Loses, Goto, TypeOK
<1>7. CASE Drained(p)
  BY <1>7, Constants DEF Drained, Acts, Moves, Rests, Goto, TypeOK
<1>8. CASE Exit(p) \/ Crash(p)
  <2>1. /\ tries' = [tries EXCEPT ![p] = 0] /\ fails' = [fails EXCEPT ![p] = 0]
        /\ astray' = astray /\ faults' \in {faults, faults + 1}
        /\ Goto(p, "drain", 0) \/ Goto(p, "off", 0)
    BY <1>8 DEF Exit, Crash, Ends
  <2>2. /\ key = {} \/ UNCHANGED <<key, ttl>> \/ key = {p}
        /\ key' = key \/ key' \subseteq {p, Orphan}
    BY <1>8 DEF Exit, Crash, Release, NotTaken
  <2>3. Acts(p)
    BY <2>1, <2>2 DEF Acts, Goto, TypeOK
  <2>4. Rests(p)
    BY <2>1 DEF Rests, Goto, TypeOK
  <2> QED
    BY <2>3, <2>4 DEF Moves
<1>9. CASE Fruitless(p) \/ BeatFails(p)
  BY <1>9, FruitlessMoves, BeatMoves
<1> QED
  BY <1>1, <1>2, <1>3, <1>4, <1>5, <1>6, <1>7, <1>8, <1>9 DEF Step

\* The others stay where they are, and none of them gets the key.
LEMMA OthersStay ==
  ASSUME TypeOK, NEW p \in Proc, Acts(p), NEW q \in Proc, q # p
  PROVE  /\ pc'[q] = pc[q] /\ wait'[q] = wait[q] /\ tries'[q] = tries[q]
         /\ fails'[q] = fails[q] /\ astray'[q] = astray[q]
         /\ Calls(q)' = Calls(q)
         /\ key' = {q} => key = {q}
         /\ key = {q} => UNCHANGED <<key, ttl>>
<1>1. /\ pc'[q] = pc[q] /\ wait'[q] = wait[q] /\ tries'[q] = tries[q]
      /\ fails'[q] = fails[q] /\ astray'[q] = astray[q]
  BY DEF Acts, TypeOK
<1>2. q # Orphan
  BY Constants
<1>3. key' = {q} => key = {q}
  BY <1>2 DEF Acts
<1>4. key = {q} => UNCHANGED <<key, ttl>>
  BY DEF Acts
<1> QED
  BY <1>1, <1>3, <1>4 DEF Calls

-----------------------------------------------------------------------------
(* In time                                                                 *)

\* Supervisors act in time, stop after MaxFails failures, and ask again while they may.
Timed ==
    /\ \A p \in Live : wait[p] >= -Calls(p)
    /\ \A p \in Proc : pc[p] = "run" => fails[p] < MaxFails
    /\ \A p \in Proc : pc[p] = "reacquire" => tries[p] > 0

LEMMA CallsType ==
  ASSUME NEW p
  PROVE  Calls(p) \in Nat
  BY Constants DEF Calls

LEMMA TimedStep ==
  ASSUME TypeOK, TypeOK', Timed, NEW p \in Proc, Acts(p), Moves(p)
  PROVE  Timed'
<1>1. ASSUME NEW q \in Proc, q # p
      PROVE  /\ q \in Live' => wait'[q] >= -Calls(q)'
             /\ pc'[q] = "run" => fails'[q] < MaxFails
             /\ pc'[q] = "reacquire" => tries'[q] > 0
  BY <1>1, OthersStay DEF Timed, Live
<1>2. wait'[p] >= 0
  BY Constants DEF Moves, Rests, Takes, Fails, Loses, Retries
<1>3. Calls(p)' \in Nat
  BY Constants DEF Calls
<1>4. wait'[p] >= -Calls(p)'
  BY <1>2, <1>3 DEF TypeOK
<1>5. pc'[p] = "run" => fails'[p] < MaxFails
  BY Constants DEF Moves, Rests, Takes, Fails, Loses, Retries
<1>6. pc'[p] = "reacquire" => tries'[p] > 0
  BY Constants DEF Moves, Rests, Takes, Fails, Loses, Retries, TypeOK
<1> QED
  BY <1>1, <1>4, <1>5, <1>6 DEF Timed, Live

LEMMA TimedTick ==
  ASSUME TypeOK, Timed, Tick
  PROVE  Timed'
<1>1. ASSUME NEW p \in Live PROVE wait'[p] >= -Calls(p)'
  <2>1. p \in Proc /\ wait[p] \in Int /\ wait[p] >= -Calls(p) /\ Calls(p) \in Nat
    BY CallsType DEF Live, TypeOK, Timed
  <2>2. wait'[p] = IF p \in Late THEN wait[p] ELSE wait[p] - 1
    BY <2>1 DEF Tick
  <2>3. p \notin Late => wait[p] > -Calls(p)
    BY <2>1 DEF Late
  <2>4. Calls(p)' = Calls(p)
    BY DEF Tick, Calls
  <2> QED
    BY <2>1, <2>2, <2>3, <2>4
<1> QED
  BY <1>1 DEF Tick, Timed, Live

LEMMA InTime == Spec => []Timed
<1>1. Init => Timed
  BY DEF Init, Timed, Live
<1>2. ASSUME TypeOK, TypeOK', Timed, [Next]_vars PROVE Timed'
  <2>1. CASE \E p \in Proc : Step(p) \/ Exit(p) \/ Crash(p)
    BY <1>2, <2>1, ProcMoves, TimedStep
  <2>2. CASE LoseKey
    BY <1>2, <2>2 DEF LoseKey, procVars, Timed, Live, Calls
  <2>3. CASE Tick
    BY <1>2, <2>3, TimedTick
  <2>4. CASE UNCHANGED vars
    BY <1>2, <2>4 DEF vars, procVars, Timed, Live, Calls
  <2> QED
    BY <1>2, <2>1, <2>2, <2>3, <2>4 DEF Next
<1> QED
  BY <1>1, <1>2, TypeCorrect, PTL DEF Spec

-----------------------------------------------------------------------------
(* One scheduler                                                           *)

\* p holds the key, and for at least as long as its next heartbeat may yet take.
Holds(p) == key = {p} /\ ttl >= wait[p] + Calls(p) + TTL - Age(p)

\* Who runs has the key, or heartbeats that have failed for as long as it lives.
Covered ==
    /\ \A p \in Proc : pc[p] = "reacquire" => Outlived(p)
    /\ \A p \in Proc : pc[p] = "run" => Outlived(p) \/ Holds(p)

LEMMA AgeFacts ==
  ASSUME NEW f \in Nat, NEW p, fails[p] = f
  PROVE  /\ Age(p) \in Nat /\ Age(p) >= 2 * Call
         /\ Age(p) = (f + 1) * (Beat + Call) + 2 * Call
         /\ (f + 2) * (Beat + Call) = (f + 1) * (Beat + Call) + Beat + Call
<1> DEFINE b == Beat + Call
<1>1. b \in Nat /\ Call \in Nat
  BY Constants
<1>2. (f + 1) * b \in Nat /\ (f + 2) * b = (f + 1) * b + b
  BY <1>1
<1>3. Age(p) = (f + 1) * b + 2 * Call
  BY DEF Age
<1> HIDE DEF b
<1>4. Age(p) \in Nat /\ Age(p) >= 2 * Call
  BY <1>1, <1>2, <1>3
<1> QED
  BY <1>2, <1>3, <1>4, Constants DEF b

\* A process that has just set its key holds it until its next heartbeat is over.
LEMMA TakenHolds ==
  ASSUME NEW p \in Proc, Takes(p)
  PROVE  Holds(p)'
<1>1. /\ pc'[p] = "run" /\ wait'[p] = Beat /\ fails'[p] = 0
      /\ key' = {p} /\ ttl' \in (TTL - Call)..TTL
  BY DEF Takes, Take
<1>2. Calls(p)' = 2 * Call
  BY <1>1 DEF Calls
<1>3. Age(p)' = Beat + Call + 2 * Call
  <2>1. Age(p)' = (fails'[p] + 1) * (Beat + Call) + 2 * Call
    BY DEF Age
  <2> QED
    BY <1>1, <2>1, Constants
<1> QED
  BY <1>1, <1>2, <1>3, Constants DEF Holds

\* A failed heartbeat takes its share of the key's life and leaves the next one's.
LEMMA FailedHolds ==
  ASSUME TypeOK, TypeOK', Timed, NEW p \in Proc, Fails(p), Outlived(p) \/ Holds(p)
  PROVE  Outlived(p)' \/ Holds(p)'
<1>1. /\ fails[p] \in Nat /\ fails'[p] = fails[p] + 1 /\ wait'[p] = Beat
      /\ wait[p] \in Int /\ wait[p] >= -Calls(p) /\ ttl \in Int /\ ttl' \in Int
      /\ Calls(p) \in Nat
  BY CallsType DEF Fails, TypeOK, Timed, Live
<1>2. Age(p) \in Nat /\ Age(p) >= 2 * Call /\ Age(p)' = Age(p) + Beat + Call
  <2>1. /\ Age(p) \in Nat /\ Age(p) >= 2 * Call
        /\ Age(p) = (fails[p] + 1) * (Beat + Call) + 2 * Call
        /\ (fails[p] + 2) * (Beat + Call) = (fails[p] + 1) * (Beat + Call) + Beat + Call
    BY <1>1, AgeFacts
  <2>2. Age(p)' = (fails'[p] + 1) * (Beat + Call) + 2 * Call
    BY DEF Age
  <2>3. fails'[p] + 1 = fails[p] + 2
    BY <1>1
  <2>4. (fails[p] + 1) * (Beat + Call) \in Nat
    BY <1>1, Constants
  <2> QED
    BY <2>1, <2>2, <2>3, <2>4, Constants
<1>3. Calls(p)' = Call
  <2>1. pc'[p] = "run" /\ fails'[p] # 0
    BY <1>1 DEF Fails
  <2> QED
    BY <2>1 DEF Calls
<1>4. ASSUME Outlived(p) PROVE Outlived(p)'
  BY <1>2, <1>4, Constants DEF Outlived
<1>5. ASSUME Holds(p) PROVE Holds(p)'
  <2>1. key = {p} /\ ttl >= TTL - Age(p)
    BY <1>1, <1>2, <1>5, Constants DEF Holds
  <2>2. key' = {p} /\ ttl' >= TTL - Age(p)
    BY <1>1, <1>2, <2>1, Constants DEF Fails, NotTaken, Take
  <2> QED
    BY <1>1, <1>2, <1>3, <2>2, Constants DEF Holds
<1> QED
  BY <1>4, <1>5

LEMMA StepCovered ==
  ASSUME TypeOK, TypeOK', Timed, Covered, NEW p \in Proc, Acts(p), Moves(p)
  PROVE  Covered'
<1>1. ASSUME NEW q \in Proc, q # p
      PROVE  /\ pc'[q] = "reacquire" => Outlived(q)'
             /\ pc'[q] = "run" => Outlived(q)' \/ Holds(q)'
  <2>1. /\ pc'[q] = pc[q] /\ wait'[q] = wait[q] /\ fails'[q] = fails[q]
        /\ Calls(q)' = Calls(q) /\ (key = {q} => UNCHANGED <<key, ttl>>)
    BY <1>1, OthersStay
  <2> QED
    BY <2>1 DEF Covered, Outlived, Holds, Age
<1>2. /\ pc'[p] = "reacquire" => Outlived(p)'
      /\ pc'[p] = "run" => Outlived(p)' \/ Holds(p)'
  <2>1. CASE Rests(p)
    BY <2>1 DEF Rests
  <2>2. CASE Takes(p)
    BY <2>2, TakenHolds DEF Takes
  <2>3. CASE Fails(p)
    BY <2>3, FailedHolds DEF Fails, Covered
  <2>4. CASE Loses(p)
    BY <2>4 DEF Loses, Covered, Holds, Outlived, Age
  <2>5. CASE Retries(p)
    BY <2>5 DEF Retries, Covered, Outlived, Age
  <2> QED
    BY <2>1, <2>2, <2>3, <2>4, <2>5 DEF Moves
<1> QED
  BY <1>1, <1>2 DEF Covered

\* While nobody is late, a key whose holder's heartbeats are young does not expire.
LEMMA TickCovered ==
  ASSUME TypeOK, Timed, Covered, Tick, Late = {}
  PROVE  Covered'
<1>1. ASSUME NEW p \in Proc, pc[p] = "run", ~Outlived(p) PROVE Holds(p)'
  <2>1. /\ Holds(p) /\ p \in Live /\ wait[p] \in Int /\ ttl \in Int /\ Calls(p) \in Nat
        /\ Age(p) \in Nat /\ Age(p) < TTL
    BY <1>1, CallsType, AgeFacts, Constants DEF Covered, Live, TypeOK, Outlived
  <2>2. wait[p] > -Calls(p) /\ wait'[p] = wait[p] - 1
    BY <2>1 DEF Late, Tick
  <2>3. ttl > 1
    BY <2>1, <2>2, Constants DEF Holds
  <2>4. key' = key /\ ttl' = ttl - 1 /\ Calls(p)' = Calls(p) /\ Age(p)' = Age(p)
    BY <2>1, <2>3 DEF Tick, Expires, Calls, Age
  <2> QED
    BY <2>1, <2>2, <2>4, Constants DEF Holds
<1>2. pc' = pc /\ \A p \in Proc : Outlived(p)' = Outlived(p)
  BY DEF Tick, Outlived, Age
<1> QED
  BY <1>1, <1>2 DEF Covered

\* While no key is lost and no process is stalled, two schedulers run only if the
\* heartbeats of one have failed for as long as its key lives.
THEOREM OneSchedulerRuns == Spec => []OneScheduler
<1> DEFINE IInv == faults = 0 => Covered
<1>1. Init => IInv
  BY DEF Init, Covered
<1>2. ASSUME TypeOK, TypeOK', Timed, IInv, [Next]_vars PROVE IInv'
  <2> SUFFICES ASSUME faults' = 0 PROVE Covered'
    OBVIOUS
  <2>1. faults \in Nat
    BY <1>2 DEF TypeOK
  <2>2. CASE \E p \in Proc : Step(p) \/ Exit(p) \/ Crash(p)
    <3>1. PICK p \in Proc : Step(p) \/ Exit(p) \/ Crash(p)
      BY <2>2
    <3>2. Acts(p) /\ Moves(p)
      BY <1>2, <3>1, ProcMoves
    <3>3. faults = 0
      BY <2>1, <3>2 DEF Acts
    <3> QED
      BY <1>2, <3>2, <3>3, StepCovered
  <2>3. CASE LoseKey
    BY <2>1, <2>3 DEF LoseKey
  <2>4. CASE Tick
    <3>1. faults = 0 /\ Late = {}
      BY <2>1, <2>4 DEF Tick
    <3> QED
      BY <1>2, <2>4, <3>1, TickCovered
  <2>5. CASE UNCHANGED vars
    BY <1>2, <2>5 DEF vars, procVars, Covered, Outlived, Holds, Age, Calls
  <2> QED
    BY <1>2, <2>2, <2>3, <2>4, <2>5 DEF Next
<1>3. IInv => OneScheduler
  BY DEF Covered, OneScheduler, Running, Holds
<1> QED
  BY <1>1, <1>2, <1>3, TypeCorrect, InTime, PTL DEF Spec
-----------------------------------------------------------------------------
(* How long a scheduler runs without the key                               *)

\* What the failed heartbeats yet to come may last after f of them.
Reserve(f) == (MaxFails - 1 - f) * (Beat + Call)

\* What n more attempts to take the key may last.
Attempts(n) == 4 * Call + (n - 1) * (Retry + Jitter + 4 * Call)

\* What a running scheduler has left, should it not get the key again.
Left(p) ==
    wait[p] + IF pc[p] = "run" THEN Calls(p) + Reserve(fails[p]) + Attempts(ReAttempts)
                               ELSE Attempts(tries[p])

\* The time a scheduler has run without the key and the time it has left are bounded,
\* and the first begins when it loses the key.
Spent ==
    /\ \A p \in Running : astray[p] + Left(p) <= Grace + faults
    /\ \A p \in Proc : pc[p] = "run" /\ key = {p} => astray[p] = 0

LEMMA Product ==
  ASSUME NEW a \in Int, NEW b \in Nat
  PROVE  (a - 1) * b = a * b - b /\ (a >= 0 => a * b >= 0)
  BY SMT

LEMMA ReserveFacts ==
  ASSUME NEW f \in Nat
  PROVE  /\ Reserve(f) \in Int
         /\ Reserve(f) = Reserve(f + 1) + Beat + Call
         /\ f < MaxFails => Reserve(f) >= 0
         /\ MaxFails * (Beat + Call) = Reserve(0) + Beat + Call
<1> DEFINE b == Beat + Call
<1>1. b \in Nat /\ MaxFails - 1 - f \in Int /\ MaxFails \in Int
  BY Constants
<1>2. (MaxFails - 1 - f - 1) * b = (MaxFails - 1 - f) * b - b
  BY <1>1, Product
<1>3. MaxFails - 1 - (f + 1) = MaxFails - 1 - f - 1
  BY Constants
<1>4. f < MaxFails => (MaxFails - 1 - f) * b >= 0
  <2>1. f < MaxFails => MaxFails - 1 - f >= 0
    BY Constants
  <2> QED
    BY <1>1, <2>1, Product
<1>5. (MaxFails - 1) * b = MaxFails * b - b
  BY <1>1, Product
<1>6. MaxFails - 1 - 0 = MaxFails - 1
  BY Constants
<1>7. (MaxFails - 1 - f) * b \in Int /\ (MaxFails - 1) * b \in Int /\ MaxFails * b \in Int
  BY <1>1
<1> QED
  BY <1>1, <1>2, <1>3, <1>4, <1>5, <1>6, <1>7, Constants DEF Reserve

LEMMA AttemptsFacts ==
  ASSUME NEW n \in Nat
  PROVE  /\ Attempts(n) \in Int
         /\ Attempts(n - 1) = Attempts(n) - (Retry + Jitter + 4 * Call)
         /\ n > 0 => Attempts(n) >= 4 * Call
<1> DEFINE b == Retry + Jitter + 4 * Call
<1>1. b \in Nat /\ n - 1 \in Int /\ Call \in Nat
  BY Constants
<1>2. (n - 1 - 1) * b = (n - 1) * b - b /\ (n - 1 >= 0 => (n - 1) * b >= 0)
  BY <1>1, Product
<1>3. (n - 1) * b \in Int
  BY <1>1
<1> HIDE DEF b
<1>4. /\ Attempts(n) = 4 * Call + (n - 1) * b
      /\ Attempts(n - 1) = 4 * Call + (n - 1 - 1) * b
  BY DEF Attempts, b
<1> QED
  BY <1>1, <1>2, <1>3, <1>4 DEF b

LEMMA GraceFacts ==
  /\ Grace \in Int
  /\ Grace = Beat + 2 * Call + Reserve(0) + Attempts(ReAttempts)
<1>1. /\ Reserve(0) \in Int /\ MaxFails * (Beat + Call) \in Int
      /\ MaxFails * (Beat + Call) = Reserve(0) + Beat + Call
  BY ReserveFacts, Constants
<1> DEFINE r == Retry + Jitter
<1>2. (ReAttempts - 1) * (r + 4 * Call) = (ReAttempts - 1) * r + ReAttempts * 4 * Call - 4 * Call
  BY Constants
<1>3. (ReAttempts - 1) * r \in Int /\ ReAttempts * 4 * Call \in Int
  BY Constants
<1>4. Grace = MaxFails * (Beat + Call) + Call + ReAttempts * 4 * Call + (ReAttempts - 1) * r
  BY DEF Grace
<1>5. Attempts(ReAttempts) = 4 * Call + (ReAttempts - 1) * (r + 4 * Call)
  BY DEF Attempts
<1> HIDE DEF r
<1> QED
  BY <1>1, <1>2, <1>3, <1>4, <1>5, Constants

LEMMA LeftType ==
  ASSUME TypeOK, NEW p \in Proc
  PROVE  Left(p) \in Int
<1>1. /\ Reserve(fails[p]) \in Int /\ Attempts(ReAttempts) \in Int
      /\ Attempts(tries[p]) \in Int /\ Calls(p) \in Int
  BY ReserveFacts, AttemptsFacts, CallsType, Constants DEF TypeOK
<1> QED
  BY <1>1 DEF Left, TypeOK

\* A running scheduler that is in time has something left.
LEMMA LeftPositive ==
  ASSUME TypeOK, Timed, NEW p \in Running
  PROVE  Left(p) >= 0
<1>1. /\ p \in Proc /\ wait[p] \in Int /\ fails[p] \in Nat /\ tries[p] \in Nat
      /\ wait[p] >= -Calls(p) /\ Calls(p) \in Nat
      /\ Attempts(ReAttempts) \in Int /\ Attempts(ReAttempts) >= 0
  BY AttemptsFacts, CallsType, Constants DEF Running, Live, TypeOK, Timed
<1>2. CASE pc[p] = "run"
  <2>1. Reserve(fails[p]) \in Int /\ Reserve(fails[p]) >= 0
    BY <1>1, <1>2, ReserveFacts DEF Timed
  <2> QED
    BY <1>1, <1>2, <2>1 DEF Left
<1>3. CASE pc[p] = "reacquire"
  <2>1. Attempts(tries[p]) \in Int /\ Attempts(tries[p]) >= 4 * Call
    BY <1>1, <1>3, AttemptsFacts DEF Timed
  <2>2. Calls(p) = 4 * Call
    BY <1>3 DEF Calls
  <2> QED
    BY <1>1, <1>3, <2>1, <2>2, Constants DEF Left
<1> QED
  BY <1>2, <1>3 DEF Running

\* What a step leaves: all of Grace when the key was set, no more than before otherwise.
LEMMA MoveLeft ==
  ASSUME TypeOK, TypeOK', Timed, NEW p \in Proc, Moves(p), p \in Running'
  PROVE  /\ Left(p)' \in Int
         /\ \/ Left(p)' = Grace /\ Takes(p)
            \/ Left(p)' <= Left(p) /\ p \in Running /\ astray'[p] = astray[p]
<1>1. /\ wait[p] \in Int /\ wait'[p] \in Int /\ fails[p] \in Nat /\ fails'[p] \in Nat
      /\ tries[p] \in Nat /\ tries'[p] \in Nat /\ Calls(p) \in Nat /\ Calls(p)' \in Nat
      /\ pc[p] \in {"run", "reacquire"} => wait[p] >= -Calls(p)
  BY CallsType, Constants DEF TypeOK, Timed, Live, Calls
<1>2. /\ Reserve(fails[p]) \in Int /\ Reserve(fails'[p]) \in Int /\ Reserve(0) \in Int
      /\ Attempts(ReAttempts) \in Int /\ Attempts(tries[p]) \in Int /\ Attempts(tries'[p]) \in Int
  BY <1>1, ReserveFacts, AttemptsFacts, Constants
<1>3. Left(p)' = wait'[p] + IF pc'[p] = "run"
                            THEN Calls(p)' + Reserve(fails'[p]) + Attempts(ReAttempts)
                            ELSE Attempts(tries'[p])
  BY DEF Left, Reserve, Attempts
<1>4. CASE Takes(p)
  <2>1. Calls(p)' = 2 * Call /\ pc'[p] = "run" /\ wait'[p] = Beat /\ fails'[p] = 0
    BY <1>4 DEF Takes, Calls
  <2> QED
    BY <1>2, <1>3, <1>4, <2>1, GraceFacts, Constants
<1>5. CASE Fails(p)
  <2>1. /\ pc[p] = "run" /\ pc'[p] = "run" /\ wait'[p] = Beat /\ fails'[p] = fails[p] + 1
        /\ fails'[p] # 0 /\ astray' = astray
    BY <1>1, <1>5 DEF Fails
  <2>2. Calls(p)' = Call
    BY <2>1 DEF Calls
  <2>3. Reserve(fails[p]) = Reserve(fails'[p]) + Beat + Call
    BY <1>1, <2>1, ReserveFacts
  <2>4. Left(p) = wait[p] + Calls(p) + Reserve(fails[p]) + Attempts(ReAttempts)
    BY <1>1, <1>2, <2>1 DEF Left
  <2> QED
    BY <1>1, <1>2, <1>3, <2>1, <2>2, <2>3, <2>4, Constants DEF Running
<1>6. CASE Loses(p)
  <2>1. /\ pc[p] = "run" /\ pc'[p] = "reacquire" /\ wait'[p] = 0 /\ tries'[p] = ReAttempts
        /\ astray' = astray
    BY <1>6 DEF Loses
  <2>2. Reserve(fails[p]) >= 0
    BY <1>1, <2>1, ReserveFacts DEF Timed
  <2>3. Left(p) = wait[p] + Calls(p) + Reserve(fails[p]) + Attempts(ReAttempts)
    BY <1>1, <1>2, <2>1 DEF Left
  <2> QED
    BY <1>1, <1>2, <1>3, <2>1, <2>2, <2>3 DEF Running
<1>7. CASE Retries(p)
  <2>1. /\ pc[p] = "reacquire" /\ pc'[p] = "reacquire" /\ tries'[p] = tries[p] - 1
        /\ wait'[p] <= Retry + Jitter /\ astray' = astray
    BY <1>7, Constants DEF Retries
  <2>2. Attempts(tries'[p]) = Attempts(tries[p]) - (Retry + Jitter + 4 * Call)
    BY <1>1, <2>1, AttemptsFacts
  <2>3. Calls(p) = 4 * Call /\ Left(p) = wait[p] + Attempts(tries[p])
    BY <2>1 DEF Calls, Left
  <2> QED
    BY <1>1, <1>2, <1>3, <2>1, <2>2, <2>3, Constants DEF Running
<1>8. ~Rests(p)
  BY DEF Rests, Running
<1> QED
  BY <1>4, <1>5, <1>6, <1>7, <1>8 DEF Moves

LEMMA StepSpends ==
  ASSUME TypeOK, TypeOK', Timed, Spent, NEW p \in Proc, Acts(p), Moves(p)
  PROVE  Spent'
<1>1. /\ faults \in Nat /\ faults' \in Nat /\ faults' >= faults
      /\ Grace \in Int /\ Grace' = Grace
  BY GraceFacts DEF TypeOK, Acts, Grace
<1>2. ASSUME NEW q \in Proc, q # p
      PROVE  /\ q \in Running' => astray'[q] + Left(q)' <= Grace + faults'
             /\ pc'[q] = "run" /\ key' = {q} => astray'[q] = 0
  <2>1. /\ pc'[q] = pc[q] /\ wait'[q] = wait[q] /\ tries'[q] = tries[q]
        /\ fails'[q] = fails[q] /\ astray'[q] = astray[q]
        /\ Calls(q)' = Calls(q) /\ (key' = {q} => key = {q})
    BY <1>2, OthersStay
  <2>2. Left(q)' = Left(q) /\ Left(q) \in Int /\ astray[q] \in Nat
    BY <2>1, LeftType DEF Left, Reserve, Attempts, TypeOK
  <2>3. q \in Running' => astray[q] + Left(q) <= Grace + faults
    BY <2>1 DEF Running, Spent
  <2> QED
    BY <1>1, <2>1, <2>2, <2>3 DEF Spent
<1>3. ASSUME p \in Running' PROVE astray'[p] + Left(p)' <= Grace + faults'
  <2>1. CASE Left(p)' = Grace /\ Takes(p)
    <3>1. astray'[p] = 0
      BY <2>1 DEF Takes, Spent
    <3>2. Left(p)' = Grace
      BY <2>1
    <3>3. astray'[p] + Left(p)' = 0 + Grace
      BY <3>1, <3>2
    <3> QED
      BY <1>1, <3>3
  <2>2. CASE Left(p)' <= Left(p) /\ p \in Running /\ astray'[p] = astray[p] /\ Left(p)' \in Int
    <3>1. astray[p] + Left(p) <= Grace + faults /\ Left(p) \in Int /\ astray[p] \in Nat
      BY <2>2, LeftType DEF Spent, TypeOK
    <3> QED
      BY <1>1, <2>2, <3>1
  <2> QED
    BY <1>3, <2>1, <2>2, MoveLeft
<1>4. ASSUME pc'[p] = "run", key' = {p} PROVE astray'[p] = 0
  <2>1. CASE Takes(p)
    BY <2>1 DEF Takes, Spent
  <2>2. CASE Fails(p)
    BY <1>4, <2>2 DEF Fails, NotTaken, Spent
  <2> QED
    BY <1>4, <2>1, <2>2 DEF Moves, Rests, Loses, Retries
<1> QED
  BY <1>1, <1>2, <1>3, <1>4 DEF Spent, Running

\* A tick takes one from what each has left, unless a stall is paid for.
LEMMA TickSpends ==
  ASSUME TypeOK, TypeOK', Timed, Spent, Tick
  PROVE  Spent'
<1>1. /\ faults \in Nat /\ Grace \in Int /\ Grace' = Grace
      /\ Running' = Running /\ UNCHANGED <<pc, tries, fails>>
  BY GraceFacts DEF TypeOK, Tick, Running, Grace
<1>2. ASSUME NEW p \in Running PROVE astray'[p] + Left(p)' <= Grace + faults'
  <2>1. /\ p \in Proc /\ p \in Live /\ wait[p] \in Int /\ astray[p] \in Nat
        /\ Left(p) \in Int /\ astray[p] + Left(p) <= Grace + faults
    BY LeftType DEF Running, Live, TypeOK, Spent
  <2>2. wait'[p] = IF p \in Late THEN wait[p] ELSE wait[p] - 1
    BY <2>1 DEF Tick
  <2>3. Left(p)' = IF p \in Late THEN Left(p) ELSE Left(p) - 1
    <3>1. PICK n : /\ Left(p) = wait[p] + n /\ Left(p)' = wait'[p] + n
                   /\ n = IF pc[p] = "run" THEN Calls(p) + Reserve(fails[p]) + Attempts(ReAttempts)
                                           ELSE Attempts(tries[p])
      BY <1>1 DEF Left, Reserve, Attempts, Calls
    <3>2. n \in Int
      BY <2>1, <3>1, ReserveFacts, AttemptsFacts, CallsType, Constants DEF TypeOK
    <3> QED
      BY <2>1, <2>2, <3>1, <3>2
  <2>4. astray'[p] \in Nat /\ astray'[p] <= astray[p] + 1
    BY <2>1 DEF Tick
  <2>5. (Late = {} /\ faults' = faults) \/ faults' = faults + 1
    BY DEF Tick
  <2> QED
    BY <1>1, <2>1, <2>3, <2>4, <2>5
<1>3. ASSUME NEW p \in Proc, pc'[p] = "run", key' = {p} PROVE astray'[p] = 0
  <2>1. key = {p}
    BY <1>3 DEF Tick
  <2> QED
    BY <2>1 DEF Tick
<1> QED
  BY <1>1, <1>2, <1>3 DEF Spent

LEMMA LoseSpends ==
  ASSUME TypeOK, Spent, LoseKey
  PROVE  Spent'
<1>1. /\ UNCHANGED <<procVars, astray>> /\ key' = {} /\ faults' = faults + 1 /\ faults \in Nat
      /\ Grace \in Int /\ Grace' = Grace
  BY GraceFacts DEF LoseKey, TypeOK, Grace
<1>2. UNCHANGED <<pc, wait, tries, fails>>
  BY <1>1 DEF procVars
<1>5. Running' = Running
  BY <1>2 DEF Running
<1>6. \A p \in Running : Left(p)' = Left(p)
  BY <1>2 DEF Left, Reserve, Attempts, Calls
<1>3. \A p \in Running : astray'[p] \in Nat /\ Left(p) \in Int
  BY <1>1, LeftType DEF Running, TypeOK
<1>4. \A p \in Proc : key' # {p}
  BY <1>1
<1> QED
  BY <1>1, <1>3, <1>4, <1>5, <1>6 DEF Spent

\* A scheduler that has lost its key, for whatever reason, runs for Grace at most and
\* for the ticks it is stalled: the heartbeats that may fail, then the attempts.
THEOREM StraysAreBounded == Spec => []StraysBounded
<1>1. Init => Spent
  BY DEF Init, Spent, Running
<1>2. ASSUME TypeOK, TypeOK', Timed, Spent, [Next]_vars PROVE Spent'
  <2>1. CASE \E p \in Proc : Step(p) \/ Exit(p) \/ Crash(p)
    BY <1>2, <2>1, ProcMoves, StepSpends
  <2>2. CASE LoseKey
    BY <1>2, <2>2, LoseSpends
  <2>3. CASE Tick
    BY <1>2, <2>3, TickSpends
  <2>4. CASE UNCHANGED vars
    BY <1>2, <2>4 DEF vars, procVars, Spent, Running, Left, Reserve, Attempts, Calls, Grace
  <2> QED
    BY <1>2, <2>1, <2>2, <2>3, <2>4 DEF Next
<1>3. TypeOK /\ Timed /\ Spent => StraysBounded
  <2> SUFFICES ASSUME TypeOK, Timed, Spent, NEW p \in Running
               PROVE  astray[p] <= Grace + faults
    BY DEF StraysBounded
  <2>1. /\ Left(p) \in Int /\ Left(p) >= 0 /\ astray[p] \in Nat
        /\ faults \in Nat /\ Grace \in Int
    BY LeftType, LeftPositive, GraceFacts DEF Running, TypeOK
  <2> QED
    BY <2>1 DEF Spent
<1> QED
  BY <1>1, <1>2, <1>3, TypeCorrect, InTime, PTL DEF Spec
=============================================================================
