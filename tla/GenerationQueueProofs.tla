------------------------ MODULE GenerationQueueProofs ------------------------
(***************************************************************************)
(* Proofs about GenerationQueue, for every number of jobs, schedulers,     *)
(* requests and faults.                                                    *)
(***************************************************************************)
EXTENDS GenerationQueue, FiniteSetTheorems, TLAPS

(* Type correctness *)

LEMMA TypeInit == Init => TypeOK
BY DEF Init, TypeOK, Status

LEMMA TypeRequest ==
    ASSUME TypeOK, NEW r \in Request, Admit(r) \/ RequestStep(r)
    PROVE  TypeOK'
<1> r \in Proc BY DEF Proc
<1> USE DEF TypeOK, Goto, Move, At, ReqPc, SchedPc, Status, histVars, oddVars, keyVars
<1>1. CASE Admit(r) BY <1>1 DEF Admit
<1>2. CASE SaveNew(r) BY <1>2 DEF SaveNew, Save
<1>3. CASE Enqueue(r) BY <1>3 DEF Enqueue, Push, Has
<1>4. CASE RecordQueued(r) BY <1>4 DEF RecordQueued, Add
<1> QED BY <1>1, <1>2, <1>3, <1>4 DEF RequestStep


\* Facts about one process or one job that the steps share.
Places == {"idle"} \cup ReqPc \cup SchedPc

LEMMA MoveType ==
    ASSUME TypeOK, NEW p \in Proc, NEW l \in Places, Move(p, l)
    PROVE  pc' \in [Proc -> {"idle"} \cup ReqPc \cup SchedPc]
BY DEF TypeOK, Move, Places

LEMMA SaveType ==
    ASSUME TypeOK, NEW j \in Job, NEW st \in Status, NEW n \in Nat, Save(j, st, n)
    PROVE  status' \in [Job -> Status] /\ retries' \in [Job -> Nat]
BY DEF TypeOK, Save

LEMMA AddType ==
    ASSUME TypeOK, NEW c \in {"queued", "active"}, NEW n \in Int, Add(c, n)
    PROVE  count' \in [{"queued", "active"} -> Int]
BY DEF TypeOK, Add

LEMMA LetGoType ==
    ASSUME TypeOK, NEW s \in Sched, LetGo(s)
    PROVE  /\ pc' \in [Proc -> {"idle"} \cup ReqPc \cup SchedPc]
           /\ hold' \in [Proc -> SUBSET Job] /\ tried' \in [Sched -> Nat]
           /\ due' = due /\ done' = done
<1>1. "pop" \in Places /\ s \in Proc BY DEF Places, SchedPc, Proc
<1>2. pc' \in [Proc -> {"idle"} \cup ReqPc \cup SchedPc] BY <1>1, MoveType DEF LetGo
<1> QED BY <1>2 DEF LetGo, TypeOK

LEMMA DecrementType ==
    ASSUME TypeOK, NEW s \in Proc, NEW read \in Places, NEW write \in Places,
           NEW next \in Places, NEW c \in {"queued", "active"},
           Decrement(s, read, write, next, c)
    PROVE  TypeOK'
<1>1. pc' \in [Proc -> {"idle"} \cup ReqPc \cup SchedPc]
  BY MoveType DEF Decrement, Goto
<1>2. count' \in [{"queued", "active"} -> Int]
  BY AddType DEF Decrement, TypeOK
<1> QED BY <1>1, <1>2 DEF TypeOK, Decrement, Goto, keyVars, histVars, oddVars

LEMMA TypeSched ==
    ASSUME TypeOK, NEW s \in Sched, SchedStep(s)
    PROVE  TypeOK'
<1> s \in Proc BY DEF Proc
<1>p. {"move", "push", "pop", "lock", "load", "start", "unlock", "take", "untake", "count",
       "work", "finish", "requeue", "leave", "uncount", "idle"} \subseteq Places
  BY DEF Places, SchedPc, Started, Counted
<1>m. ASSUME NEW l \in Places, Move(s, l)
      PROVE  pc' \in [Proc -> {"idle"} \cup ReqPc \cup SchedPc]
  BY <1>m, MoveType
<1>v. ASSUME NEW j \in Job, NEW st \in Status, NEW n \in Nat, Save(j, st, n)
      PROVE  status' \in [Job -> Status] /\ retries' \in [Job -> Nat]
  BY <1>v, SaveType
<1>t. tried[s] \in Nat /\ tried[s] + 1 \in Nat BY DEF TypeOK
<1>s. {"queued", "processing", "completed", "failed", "dead"} \subseteq Status BY DEF Status
<1> USE DEF Goto, histVars, oddVars, keyVars
<1>1. CASE ReadDue(s)
  <2>1. PICK D \in SUBSET MayBeDue :
            due' = [due EXCEPT ![s] = D] /\ Move(s, IF D = {} THEN "pop" ELSE "move")
    BY <1>1 DEF ReadDue
  <2>2. due' \in [Sched -> SUBSET Job] BY <2>1 DEF MayBeDue, TypeOK
  <2>3. pc' \in [Proc -> {"idle"} \cup ReqPc \cup SchedPc] BY <2>1, <1>p, <1>m
  <2> QED BY <1>1, <2>2, <2>3 DEF ReadDue, TypeOK
<1>2. CASE RemoveDue(s)
  <2>1. pc' \in [Proc -> {"idle"} \cup ReqPc \cup SchedPc] BY <1>2, <1>p, <1>m DEF RemoveDue
  <2>2. PICK j \in due[s] : /\ retryQueue' = retryQueue \ {j}
                            /\ due' = [due EXCEPT ![s] = @ \ {j}]
                            /\ hold' = [hold EXCEPT ![s] = {j}]
    BY <1>2 DEF RemoveDue
  <2>3. j \in Job BY DEF TypeOK
  <2>4. due' \in [Sched -> SUBSET Job] BY <2>2 DEF TypeOK
  <2>5. hold' \in [Proc -> SUBSET Job] BY <2>2, <2>3 DEF TypeOK
  <2>6. retryQueue' \subseteq Job BY <2>2 DEF TypeOK
  <2>7. early' \subseteq Job BY <1>2 DEF RemoveDue, TypeOK
  <2> QED BY <1>2, <2>1, <2>4, <2>5, <2>6, <2>7 DEF RemoveDue, TypeOK
<1>3. CASE PushDue(s)
  <2>1. pc' \in [Proc -> {"idle"} \cup ReqPc \cup SchedPc] BY <1>3, <1>p, <1>m DEF PushDue
  <2>2. queue' \in Seq(Job) BY <1>3 DEF PushDue, Push, TypeOK
  <2>3. hold' \in [Proc -> SUBSET Job] BY <1>3 DEF PushDue, TypeOK
  <2> QED BY <1>3, <2>1, <2>2, <2>3 DEF PushDue, TypeOK
<1>4. CASE Pop(s)
  <2>1. pc' \in [Proc -> {"idle"} \cup ReqPc \cup SchedPc] BY <1>4, <1>p, <1>m DEF Pop
  <2>2. Head(queue) \in Job /\ Tail(queue) \in Seq(Job) BY <1>4 DEF Pop, TypeOK
  <2>3. hold' \in [Proc -> SUBSET Job] BY <1>4, <2>2 DEF Pop, TypeOK
  <2>4. done' \in [Sched -> Nat] BY <1>4 DEF Pop, TypeOK
  <2> QED BY <1>4, <2>1, <2>2, <2>3, <2>4 DEF Pop, TypeOK
<1>5. CASE EndPass(s)
  <2>1. pc' \in [Proc -> {"idle"} \cup ReqPc \cup SchedPc] BY <1>5, <1>p, <1>m DEF EndPass
  <2> QED BY <1>5, <2>1 DEF EndPass, TypeOK
<1>6. CASE TakeLock(s)
  <2>1. pc' \in [Proc -> {"idle"} \cup ReqPc \cup SchedPc] BY <1>6, <1>p, <1>m DEF TakeLock
  <2> QED BY <1>6, <2>1 DEF TakeLock, TypeOK
<1>7. CASE LockTaken(s)
  BY <1>7, LetGoType DEF LockTaken, TypeOK
<1>8. CASE Load(s)
  <2>1. PICK j \in Job : /\ tried' = [tried EXCEPT ![s] = retries[j]]
                         /\ Move(s, IF status[j] = "queued" THEN "start" ELSE "unlock")
    BY <1>8 DEF Load
  <2>2. tried' \in [Sched -> Nat] BY <2>1 DEF TypeOK
  <2>3. pc' \in [Proc -> {"idle"} \cup ReqPc \cup SchedPc] BY <2>1, <1>p, <1>m
  <2> QED BY <1>8, <2>2, <2>3 DEF Load, TypeOK
<1>9. CASE Start(s)
  <2>1. PICK j \in Job : Save(j, "processing", tried[s]) /\ begun' = [begun EXCEPT ![j] = @ + 1]
    BY <1>9 DEF Start
  <2>2. status' \in [Job -> Status] /\ retries' \in [Job -> Nat] BY <2>1, <1>v, <1>t, <1>s
  <2>3. begun' \in [Job -> Nat] BY <2>1 DEF TypeOK
  <2>4. pc' \in [Proc -> {"idle"} \cup ReqPc \cup SchedPc] BY <1>9, <1>p, <1>m DEF Start
  <2> QED BY <1>9, <2>2, <2>3, <2>4 DEF Start, TypeOK
<1>10. CASE TakeQueued(s) \/ LeaveActive(s)
  BY <1>10, <1>p, DecrementType DEF TakeQueued, LeaveActive
<1>11. CASE CountActive(s)
  <2>1. pc' \in [Proc -> {"idle"} \cup ReqPc \cup SchedPc] BY <1>11, <1>p, <1>m DEF CountActive
  <2>2. Add("active", 1) BY <1>11 DEF CountActive
  <2>3. count' \in [{"queued", "active"} -> Int] BY <2>2, AddType
  <2> QED BY <1>11, <2>1, <2>3 DEF CountActive, TypeOK
<1>12. CASE FailForGood(s) \/ Complete(s)
  <2>1. PICK j \in Job : Save(j, "failed", tried[s]) \/ Save(j, "completed", tried[s])
    BY <1>12 DEF FailForGood, Complete
  <2>2. status' \in [Job -> Status] /\ retries' \in [Job -> Nat] BY <2>1, <1>v, <1>t, <1>s
  <2>3. pc' \in [Proc -> {"idle"} \cup ReqPc \cup SchedPc]
    BY <1>12, <1>p, <1>m DEF FailForGood, Complete
  <2> QED BY <1>12, <2>2, <2>3 DEF FailForGood, Complete, TypeOK
<1>13. CASE Generate(s)
  <2>1. pc' \in [Proc -> {"idle"} \cup ReqPc \cup SchedPc] BY <1>13, <1>p, <1>m DEF Generate
  <2> QED BY <1>13, <2>1 DEF Generate, TypeOK
<1>14. CASE Except(s)
  <2>1. PICK j \in Job : IF CanRetry(tried[s])
                         THEN Reschedule(s, j)
                         ELSE /\ Save(j, "dead", tried[s])
                              /\ Move(s, "leave") /\ UNCHANGED <<tried, deadLetter>>
    BY <1>14 DEF Except
  <2>2. status' \in [Job -> Status] /\ retries' \in [Job -> Nat]
    BY <2>1, <1>v, <1>t, <1>s DEF Reschedule
  <2>3. pc' \in [Proc -> {"idle"} \cup ReqPc \cup SchedPc] BY <2>1, <1>p, <1>m DEF Reschedule
  <2>4. tried' = tried \/ tried' = [tried EXCEPT ![s] = @ + 1] BY <2>1 DEF Reschedule
  <2>5. tried' \in [Sched -> Nat] BY <2>4, <1>t DEF TypeOK
  <2>6. deadLetter' \subseteq Job BY <2>1 DEF Reschedule, TypeOK
  <2> QED BY <1>14, <2>2, <2>3, <2>5, <2>6 DEF Except, TypeOK
<1>15. CASE ScheduleRetry(s)
  <2>1. pc' \in [Proc -> {"idle"} \cup ReqPc \cup SchedPc] BY <1>15, <1>p, <1>m DEF ScheduleRetry
  <2> QED BY <1>15, <2>1 DEF ScheduleRetry, TypeOK
<1>16. CASE Unlock(s)
  <2>1. robbed' \subseteq Job BY <1>16 DEF Unlock, TypeOK
  <2> QED BY <1>16, <2>1, LetGoType DEF Unlock, TypeOK
<1> QED
  BY <1>1, <1>2, <1>3, <1>4, <1>5, <1>6, <1>7, <1>8, <1>9, <1>10, <1>11, <1>12, <1>13,
     <1>14, <1>15, <1>16 DEF SchedStep

LEMMA TypeFault ==
    ASSUME TypeOK, NEW p \in Proc, Fault(p)
    PROVE  TypeOK'
<1>p. {"move", "pop", "count", "work", "save", "requeue", "leave", "unlock", "take", "idle"}
        \subseteq Places
  BY DEF Places, SchedPc, Started, Counted, ReqPc
<1>m. ASSUME NEW l \in Places, Move(p, l)
      PROVE  pc' \in [Proc -> {"idle"} \cup ReqPc \cup SchedPc]
  BY <1>m, MoveType
<1>l. lost \cup hold[p] \subseteq Job BY DEF TypeOK
<1> USE DEF Goto, NewFault, Lose, keyVars, oddVars
<1>1. CASE Crash(p)
  <2>1. pc' \in [Proc -> {"idle"} \cup ReqPc \cup SchedPc] BY <1>1, <1>p, <1>m DEF Crash
  <2>2. hold' \in [Proc -> SUBSET Job] BY <1>1 DEF Crash, TypeOK
  <2>3. /\ due' \in [Sched -> SUBSET Job]
        /\ done' \in [Sched -> Nat] /\ tried' \in [Sched -> Nat]
    <3>1. \/ UNCHANGED <<due, done, tried>>
          \/ /\ p \in Sched
             /\ due' = [due EXCEPT ![p] = {}] /\ done' = [done EXCEPT ![p] = 0]
             /\ tried' = [tried EXCEPT ![p] = 0]
      BY <1>1 DEF Crash
    <3>2. due' \in [Sched -> SUBSET Job] BY <3>1 DEF TypeOK
    <3>3. done' \in [Sched -> Nat]
      <4>1. done \in [Sched -> Nat] /\ 0 \in Nat BY DEF TypeOK
      <4> QED BY <3>1, <4>1
    <3>4. tried' \in [Sched -> Nat] BY <3>1 DEF TypeOK
    <3> QED BY <3>2, <3>3, <3>4
  <2> QED BY <1>1, <2>1, <2>2, <2>3, <1>l DEF Crash, TypeOK
<1>2. CASE CounterFails(p)
  <2>1. pc' \in [Proc -> {"idle"} \cup ReqPc \cup SchedPc] BY <1>2, <1>p, <1>m DEF CounterFails
  <2>2. faults' \in Nat /\ missed' \in Nat BY <1>2 DEF CounterFails, TypeOK
  <2>3. UNCHANGED <<hold, due, done, tried>> BY <1>2 DEF CounterFails
  <2> QED BY <1>2, <2>1, <2>2, <2>3 DEF CounterFails, TypeOK
<1>3. CASE p \in Request /\ EnqueueFails(p)
  <2>1. pc' \in [Proc -> {"idle"} \cup ReqPc \cup SchedPc] BY <1>3, <1>p, <1>m DEF EnqueueFails
  <2>2. hold' \in [Proc -> SUBSET Job] BY <1>3 DEF EnqueueFails, TypeOK
  <2> QED BY <1>3, <2>1, <2>2, <1>l DEF EnqueueFails, TypeOK
<1>4. CASE p \in Sched /\ PushDueFails(p)
  <2>1. pc' \in [Proc -> {"idle"} \cup ReqPc \cup SchedPc] BY <1>4, <1>p, <1>m DEF PushDueFails
  <2>2. hold' \in [Proc -> SUBSET Job] BY <1>4 DEF PushDueFails, TypeOK
  <2> QED BY <1>4, <2>1, <2>2, <1>l DEF PushDueFails, TypeOK
<1>5. CASE p \in Sched /\ PopFails(p)
  <2>1. pc' \in [Proc -> {"idle"} \cup ReqPc \cup SchedPc] BY <1>5, <1>p, <1>m DEF PopFails
  <2> QED BY <1>5, <2>1 DEF PopFails, TypeOK
<1>6. CASE p \in Sched /\ LockError(p)
  <2>1. PICK j \in Job :
          /\ IF CanRetry(retries[j])
             THEN Save(j, "queued", retries[j] + 1) /\ retryQueue' = retryQueue \cup {j}
             ELSE Save(j, "dead", retries[j]) /\ UNCHANGED retryQueue
          /\ lock' \in {lock, lock \cup {j}}
          /\ unsaved' = IF status[j] = "queued" THEN unsaved ELSE unsaved \cup {j}
    BY <1>6 DEF LockError
  <2>2. retries[j] \in Nat /\ {"queued", "dead"} \subseteq Status BY DEF TypeOK, Status
  <2>3. status' \in [Job -> Status] /\ retries' \in [Job -> Nat]
    BY <2>1, <2>2, SaveType
  <2>4. retryQueue' \subseteq Job /\ lock' \subseteq Job /\ unsaved' \subseteq Job
    BY <2>1 DEF TypeOK
  <2>5. lost' \subseteq Job BY <1>6, <1>l DEF LockError, TypeOK
  <2>6. LetGo(p) BY <1>6 DEF LockError
  <2>7. /\ pc' \in [Proc -> {"idle"} \cup ReqPc \cup SchedPc]
        /\ hold' \in [Proc -> SUBSET Job] /\ tried' \in [Sched -> Nat]
        /\ due' = due /\ done' = done
    BY <1>6, <2>6, LetGoType
  <2>8. faults' \in Nat BY <1>6 DEF LockError, TypeOK
  <2>9. UNCHANGED <<queue, count, deadLetter, begun, missed, oddVars>> BY <1>6 DEF LockError
  <2> QED BY <2>3, <2>4, <2>5, <2>7, <2>8, <2>9 DEF TypeOK
<1>7. CASE p \in Sched /\ LoadFails(p)
  <2>1. pc' \in [Proc -> {"idle"} \cup ReqPc \cup SchedPc] BY <1>7, <1>p, <1>m DEF LoadFails
  <2> QED BY <1>7, <2>1, <1>l DEF LoadFails, TypeOK
<1>8. CASE p \in Sched /\ SaveFails(p)
  <2>1. pc' \in [Proc -> {"idle"} \cup ReqPc \cup SchedPc] BY <1>8, <1>p, <1>m DEF SaveFails
  <2>2. tried' \in [Sched -> Nat]
    <3>1. tried' = tried \/ tried' = [tried EXCEPT ![p] = @ + 1] BY <1>8 DEF SaveFails
    <3>2. tried \in [Sched -> Nat] BY DEF TypeOK
    <3> QED BY <3>1, <3>2
  <2>3. begun' \in [Job -> Nat] /\ unsaved' \subseteq Job
    <3>1. \/ begun' = begun
          \/ begun' = [j \in Job |-> IF Has(p, j) THEN begun[j] + 1 ELSE begun[j]]
      BY <1>8 DEF SaveFails
    <3>2. unsaved' \in {unsaved, unsaved \cup hold[p]} BY <1>8 DEF SaveFails
    <3>3. begun' \in [Job -> Nat]
      <4>1. \A j \in Job : begun[j] \in Nat /\ begun[j] + 1 \in Nat BY DEF TypeOK
      <4> QED BY <3>1, <4>1 DEF TypeOK
    <3>4. unsaved' \subseteq Job BY <3>2 DEF TypeOK
    <3> QED BY <3>3, <3>4
  <2>4. UNCHANGED <<hold, due, done>> BY <1>8 DEF SaveFails
  <2> QED BY <1>8, <2>1, <2>2, <2>3, <2>4, <1>l DEF SaveFails, TypeOK
<1>9. CASE p \in Sched /\ RetryFails(p)
  <2>1. pc' \in [Proc -> {"idle"} \cup ReqPc \cup SchedPc] BY <1>9, <1>p, <1>m DEF RetryFails
  <2> QED BY <1>9, <2>1, <1>l DEF RetryFails, TypeOK
<1>10. CASE p \in Sched /\ UnlockFails(p)
  BY <1>10, <1>l, LetGoType DEF UnlockFails, TypeOK
<1> QED BY <1>1, <1>2, <1>3, <1>4, <1>5, <1>6, <1>7, <1>8, <1>9, <1>10 DEF Fault

LEMMA TypeNext == TypeOK /\ [Next]_vars => TypeOK'
<1> SUFFICES ASSUME TypeOK, [Next]_vars PROVE TypeOK' OBVIOUS
<1>1. CASE \E j \in Job : LockExpires(j)
  BY <1>1 DEF TypeOK, LockExpires, keyVars, locVars, histVars, oddVars
<1>2. CASE HourPasses
  BY <1>2 DEF TypeOK, HourPasses, Status, locVars, histVars, oddVars
<1>3. CASE UNCHANGED vars
  BY <1>3 DEF TypeOK, vars, keyVars, locVars, histVars, oddVars
<1> QED BY <1>1, <1>2, <1>3, TypeRequest, TypeSched, TypeFault DEF Next

\* Every variable keeps its type: a job's status stays in its life cycle, retry_count
\* is a number, and only jobs are in the lists, whatever fails.
THEOREM TypeCorrect == Spec => []TypeOK
BY TypeInit, TypeNext, PTL DEF Spec

-----------------------------------------------------------------------------
(* The active counter                                                      *)

Holding == {s \in Sched : pc[s] \in Counted}

\* What the counter is worth: each slot held is covered.
Worth == count["active"] + missed

\* A step moves at most one scheduler into or out of its slot; the counter and the
\* missed increments move with it, or stay where a slot is given up or kept.
Balanced(s) ==
    \/ Worth' >= Worth /\ Holding' \subseteq Holding
    \/ Worth' = Worth + 1 /\ Holding' \subseteq Holding \cup {s}
    \/ Worth' = Worth - 1 /\ s \in Holding /\ Holding' = Holding \ {s}

LEMMA BalancedCovers ==
    ASSUME TypeOK, TypeOK', ActiveCoversWorking, NEW s, Balanced(s)
    PROVE  ActiveCoversWorking'
<1>0. IsFiniteSet(Holding) /\ Worth \in Int /\ Worth' \in Int
      /\ Worth >= Cardinality(Holding) /\ Cardinality(Holding) \in Nat
  <2>1. IsFiniteSet(Holding) BY FiniteAssumption, FS_Subset DEF Holding
  <2>2. Worth \in Int /\ Worth' \in Int BY DEF TypeOK, Worth
  <2> QED BY <2>1, <2>2, FS_CardinalityType DEF ActiveCoversWorking, Worth, Holding
<1>1. CASE Worth' >= Worth /\ Holding' \subseteq Holding
  <2>1. Cardinality(Holding') <= Cardinality(Holding) /\ Cardinality(Holding') \in Nat
    BY <1>0, <1>1, FS_Subset, FS_CardinalityType
  <2> QED BY <1>0, <1>1, <2>1 DEF ActiveCoversWorking, Worth, Holding
<1>2. CASE Worth' = Worth + 1 /\ Holding' \subseteq Holding \cup {s}
  <2>1. /\ IsFiniteSet(Holding \cup {s})
        /\ Cardinality(Holding \cup {s}) \in {Cardinality(Holding), Cardinality(Holding) + 1}
    BY <1>0, FS_AddElement
  <2>2. /\ Cardinality(Holding') <= Cardinality(Holding \cup {s})
        /\ Cardinality(Holding') \in Nat
    BY <1>2, <2>1, FS_Subset, FS_CardinalityType
  <2> QED BY <1>0, <1>2, <2>1, <2>2 DEF ActiveCoversWorking, Worth, Holding
<1>3. CASE Worth' = Worth - 1 /\ s \in Holding /\ Holding' = Holding \ {s}
  <2>1. Cardinality(Holding') = Cardinality(Holding) - 1
    BY <1>0, <1>3, FS_RemoveElement
  <2> QED BY <1>0, <1>3, <2>1 DEF ActiveCoversWorking, Worth, Holding
<1> QED BY <1>1, <1>2, <1>3 DEF Balanced

\* Moving one process from outside its slot to outside it, or within it, or out of it.
LEMMA MoveBalanced ==
    ASSUME TypeOK, NEW p \in Proc, NEW l, Move(p, l), Worth' >= Worth,
           l \in Counted => pc[p] \in Counted
    PROVE  Balanced(p)
BY DEF TypeOK, Move, Holding, Balanced, Proc

LEMMA DecrementBalanced ==
    ASSUME TypeOK, NEW s \in Sched, TakeQueued(s) \/ LeaveActive(s)
    PROVE  Balanced(s)
<1> s \in Proc BY DEF Proc
<1> USE DEF TakeQueued, LeaveActive, Decrement, Goto, At, Add, histVars, oddVars
<1>1. CASE TakeQueued(s)
  <2>1. Worth' = Worth /\ \E l \in {"untake", "count"} : Move(s, l)
    BY <1>1 DEF Worth, TypeOK
  <2>2. Worth' >= Worth BY <2>1 DEF Worth, TypeOK
  <2> QED BY <2>1, <2>2, MoveBalanced DEF Counted
<1>2. CASE LeaveActive(s) /\ ~ At(s, "uncount")
  <2>1. Worth' = Worth /\ At(s, "leave") /\ \E l \in {"uncount", "unlock"} : Move(s, l)
    BY <1>2 DEF Worth, TypeOK
  <2> QED BY <2>1, MoveBalanced DEF Counted, Worth, TypeOK
<1>3. CASE LeaveActive(s) /\ At(s, "uncount")
  <2>1. Worth' = Worth - 1
    BY <1>3 DEF Worth, TypeOK
  <2>2. pc[s] = "uncount" /\ pc' = [pc EXCEPT ![s] = "unlock"]
    BY <1>3 DEF Move
  <2>3. s \in Holding BY <2>2 DEF Holding, Counted
  <2>4. ASSUME NEW t \in Sched
        PROVE  pc'[t] \in Counted <=> (pc[t] \in Counted /\ t # s)
    BY <2>2 DEF Counted, TypeOK, Proc
  <2>5. Holding' = Holding \ {s} BY <2>4 DEF Holding
  <2> QED BY <2>1, <2>3, <2>5 DEF Balanced
<1> QED BY <1>1, <1>2, <1>3

LEMMA SchedBalanced ==
    ASSUME TypeOK, NEW s \in Sched, SchedStep(s)
    PROVE  Balanced(s)
<1> s \in Proc BY DEF Proc
<1>1. CASE TakeQueued(s) \/ LeaveActive(s)
  BY <1>1, DecrementBalanced
<1>2. CASE CountActive(s)
  <2>1. Worth' = Worth + 1
    BY <1>2 DEF CountActive, Add, Worth, TypeOK, histVars, oddVars
  <2>2. Holding' \subseteq Holding \cup {s}
    BY <1>2 DEF CountActive, Goto, Move, Holding, TypeOK
  <2> QED BY <2>1, <2>2 DEF Balanced
<1>3. CASE ~(TakeQueued(s) \/ LeaveActive(s) \/ CountActive(s))
  <2>1. count' = count /\ missed' = missed
    BY <1>3 DEF SchedStep, ReadDue, RemoveDue, PushDue, Pop, EndPass, TakeLock, LockTaken,
       Load, Start, FailForGood, Generate, Complete, Except, ScheduleRetry, Unlock, histVars, oddVars
  <2>2. \E l \in {"pop", "move", "push", "lock", "idle", "load", "start", "unlock", "take"} :
            Move(s, l)
        \/ (pc[s] \in Counted /\ \E k \in Counted : Move(s, k))
    <3>1. CASE ReadDue(s) \/ RemoveDue(s) \/ PushDue(s) \/ Pop(s) \/ EndPass(s)
               \/ TakeLock(s) \/ LockTaken(s) \/ Load(s) \/ Start(s) \/ Unlock(s)
      BY <3>1 DEF ReadDue, RemoveDue, PushDue, Pop, EndPass, TakeLock, LockTaken, LetGo,
                  Load, Start, Unlock, Goto
    <3>2. CASE FailForGood(s) \/ Generate(s) \/ Complete(s) \/ Except(s) \/ ScheduleRetry(s)
      BY <3>2 DEF FailForGood, Generate, Complete, Except, Reschedule, ScheduleRetry, Goto, At,
                  Counted
    <3> QED BY <1>3, <3>1, <3>2 DEF SchedStep
  <2>3. Worth' >= Worth BY <2>1 DEF Worth, TypeOK
  <2> QED BY <2>2, <2>3, MoveBalanced DEF Counted
<1> QED BY <1>1, <1>2, <1>3

LEMMA RequestBalanced ==
    ASSUME TypeOK, NEW r \in Request, Admit(r) \/ RequestStep(r)
    PROVE  Balanced(r)
<1> r \in Proc BY DEF Proc
<1>1. \E l \in {"save", "enqueue", "record", "idle"} : Move(r, l)
  BY DEF Admit, RequestStep, SaveNew, Enqueue, RecordQueued, Goto
<1>2. Worth' >= Worth
  BY DEF Admit, RequestStep, SaveNew, Enqueue, RecordQueued, Add, Worth, TypeOK, histVars, oddVars
<1> QED BY <1>1, <1>2, MoveBalanced DEF Counted

LEMMA FaultBalanced ==
    ASSUME TypeOK, NEW p \in Proc, Fault(p)
    PROVE  Balanced(p)
<1>1. CASE CounterFails(p)
  <2>1. CASE At(p, "count") /\ Move(p, "work") /\ missed' = missed + 1
    <3>1. Worth' = Worth + 1 BY <1>1, <2>1 DEF CounterFails, Worth, TypeOK
    <3>2. Holding' \subseteq Holding \cup {p} BY <2>1 DEF Move, Holding, TypeOK
    <3> QED BY <3>1, <3>2 DEF Balanced
  <2>2. CASE missed' = missed /\ \E l \in {"save", "idle", "count", "unlock"} : Move(p, l)
    <3>1. Worth' >= Worth BY <1>1, <2>2 DEF CounterFails, Worth, TypeOK
    <3> QED BY <2>2, <3>1, MoveBalanced DEF Counted
  <2> QED BY <1>1, <2>1, <2>2 DEF CounterFails, Goto
<1>2. CASE ~CounterFails(p)
  <2>1. count' = count /\ missed' = missed
    BY <1>2 DEF Fault, Crash, EnqueueFails, PushDueFails, PopFails, LockError, LoadFails,
       SaveFails, RetryFails, UnlockFails
  <2>2. \E l \in {"pop", "move", "idle", "unlock", "take"} : Move(p, l)
        \/ (pc[p] \in Counted /\ \E k \in Counted : Move(p, k))
    <3>1. CASE Crash(p) \/ EnqueueFails(p) \/ PushDueFails(p) \/ PopFails(p) \/ LockError(p)
               \/ LoadFails(p) \/ UnlockFails(p)
      BY <3>1 DEF Crash, EnqueueFails, PushDueFails, PopFails, LockError, LoadFails,
                  UnlockFails, LetGo, Goto
    <3>2. CASE SaveFails(p) \/ RetryFails(p)
      BY <3>2 DEF SaveFails, RetryFails, Goto, At, Counted
    <3> QED BY <1>2, <3>1, <3>2 DEF Fault
  <2>3. Worth' >= Worth BY <2>1 DEF Worth, TypeOK
  <2> QED BY <2>2, <2>3, MoveBalanced DEF Counted
<1> QED BY <1>1, <1>2

\* When keys expire nobody is at work.
LEMMA TimeBalanced ==
    ASSUME TypeOK, (\E j \in Job : LockExpires(j)) \/ HourPasses \/ UNCHANGED vars
    PROVE  ActiveCoversWorking => ActiveCoversWorking'
<1>1. CASE (\E j \in Job : LockExpires(j)) \/ UNCHANGED vars
  BY <1>1 DEF LockExpires, vars, locVars, histVars, oddVars, ActiveCoversWorking
<1>2. CASE HourPasses
  <2>1. {s \in Sched : pc'[s] \in Counted} = {}
    BY <1>2 DEF HourPasses, locVars, At, Proc, Counted
  <2>2. count'["active"] = 0 BY <1>2 DEF HourPasses, TypeOK
  <2>a. missed' \in Nat BY <1>2 DEF HourPasses, histVars, oddVars, TypeOK
  <2>3. Cardinality({s \in Sched : pc'[s] \in Counted}) = 0 BY <2>1, FS_EmptySet
  <2>4. count'["active"] + missed' >= 0
    <3>1. \A n \in Nat : 0 + n >= 0 OBVIOUS
    <3> QED BY <2>2, <2>a, <3>1, Zenon
  <2>5. ActiveCoversWorking' BY <2>3, <2>4 DEF ActiveCoversWorking
  <2> QED BY <2>5
<1> QED BY <1>1, <1>2

\* The counter that limits a user's concurrent jobs is never below the number of her
\* jobs being processed, missed increments apart, for any number of schedulers,
\* crashes and failed calls: every decrement is made by the holder of a slot.
THEOREM LimitIsKept == Spec => []ActiveCoversWorking
<1>1. Init => TypeOK /\ ActiveCoversWorking
  <2>1. ASSUME Init PROVE ActiveCoversWorking
    <3>1. {s \in Sched : pc[s] \in Counted} = {} BY <2>1 DEF Init, Proc, Counted
    <3>2. count["active"] = 0 /\ missed = 0 BY <2>1 DEF Init
    <3> QED BY <3>1, <3>2, FS_EmptySet DEF ActiveCoversWorking
  <2> QED BY <2>1, TypeInit
<1>2. TypeOK /\ ActiveCoversWorking /\ [Next]_vars => (TypeOK /\ ActiveCoversWorking)'
  <2> SUFFICES ASSUME TypeOK, ActiveCoversWorking, [Next]_vars
               PROVE  TypeOK' /\ ActiveCoversWorking'
    OBVIOUS
  <2>1. TypeOK' BY TypeNext
  <2>2. (\E s : Balanced(s)) \/ (\E j \in Job : LockExpires(j)) \/ HourPasses \/ UNCHANGED vars
    BY SchedBalanced, RequestBalanced, FaultBalanced DEF Next
  <2>3. ActiveCoversWorking' BY <2>1, <2>2, BalancedCovers, TimeBalanced
  <2> QED BY <2>1, <2>3
<1> QED BY <1>1, <1>2, PTL DEF Spec

-----------------------------------------------------------------------------
(* One processor per job, and how often a job is begun                     *)

\* The lock taken and the job not begun yet; about to begin it; working on it.
Fronting(s, j)  == Has(s, j) /\ pc[s] \in {"load", "start"}
Starting(s, j)  == Has(s, j) /\ pc[s] = "start"
WorkingOn(s, j) == Has(s, j) /\ pc[s] \in Started

\* The lock covers the way from SETNX to the status "processing", and from there
\* on it is the status that keeps others away: the lock may expire or be deleted.
Exclusive(j) ==
    /\ \A s \in Sched : Fronting(s, j) => j \in lock
    /\ \A s, t \in Sched : Fronting(s, j) /\ Fronting(t, j) => s = t
    /\ \A s \in Sched : Starting(s, j) => status[j] \in {"queued", "dead"}
    /\ \A s \in Sched : WorkingOn(s, j) => status[j] = "processing"
    /\ \A s, t \in Sched : WorkingOn(s, j) /\ WorkingOn(t, j) => s = t

\* retry_count, in the key or in the worker's copy, counts the attempts made.
Attempts(j) ==
    /\ begun[j] <= MaxRetries + 1
    /\ status[j] = "none" => begun[j] = 0
    /\ status[j] = "queued" => begun[j] <= retries[j] /\ retries[j] <= MaxRetries
    /\ \A s \in Sched : Starting(s, j) => begun[j] <= tried[s] /\ tried[s] <= MaxRetries
    /\ \A s \in Sched : WorkingOn(s, j) => begun[j] <= tried[s] + 1 /\ tried[s] <= MaxRetries

Guarded(j) == Exclusive(j) /\ Attempts(j)

HoldsOne == \A p \in Proc : hold[p] = {} \/ \E j \in Job : Has(p, j)

\* The jobs the promise is made for.
Sound == Job \ (unsaved \cup robbed)

GuardInv == TypeOK /\ HoldsOne /\ \A j \in Sound : Guarded(j)

\* The key of j stays as it is.
KeyKept(j) == status'[j] = status[j] /\ retries'[j] = retries[j] /\ begun'[j] = begun[j]

\* Nobody but p moves.
Only(p) ==
    /\ \A q \in Proc : q # p => pc'[q] = pc[q] /\ hold'[q] = hold[q]
    /\ \A t \in Sched : t # p => tried'[t] = tried[t]

\* A step that leaves the key of j alone and brings nobody nearer to it.
LEMMA QuietGuarded ==
    ASSUME TypeOK, NEW j \in Job, Guarded(j), KeyKept(j),
           \A s \in Sched : Fronting(s, j)' => Fronting(s, j) /\ (j \in lock => j \in lock'),
           \A s \in Sched : Starting(s, j)' => Starting(s, j) /\ tried'[s] = tried[s],
           \A s \in Sched : WorkingOn(s, j)' => WorkingOn(s, j) /\ tried'[s] = tried[s]
    PROVE  Guarded(j)'
<1>1. Exclusive(j)' BY DEF Guarded, Exclusive, KeyKept
<1>2. Attempts(j)' BY DEF Guarded, Attempts, KeyKept
<1> QED BY <1>1, <1>2 DEF Guarded

\* One process moves, to a place where it does not matter, or on within its work.
LEMMA AsideGuarded ==
    ASSUME TypeOK, NEW p \in Proc, NEW j \in Job, Guarded(j), KeyKept(j), Only(p),
           lock \subseteq lock',
           \/ pc'[p] \notin Started \cup {"load", "start"}
           \/ hold'[p] # {j}
           \/ pc[p] \in Started /\ pc'[p] \in Started /\ hold'[p] = hold[p]
              /\ (p \in Sched => tried'[p] = tried[p])
    PROVE  Guarded(j)'
<1> USE DEF Has, Only, Proc
<1>1. \A s \in Sched : Fronting(s, j)' => Fronting(s, j)
  BY DEF Fronting, Started
<1>2. \A s \in Sched : Starting(s, j)' => Starting(s, j) /\ tried'[s] = tried[s]
  BY DEF Starting, Started
<1>3. \A s \in Sched : WorkingOn(s, j)' => WorkingOn(s, j) /\ tried'[s] = tried[s]
  BY DEF WorkingOn
<1> QED BY <1>1, <1>2, <1>3, QuietGuarded

LEMMA RequestGuarded ==
    ASSUME TypeOK, NEW r \in Request, Admit(r) \/ RequestStep(r), NEW j \in Job, Guarded(j)
    PROVE  Guarded(j)'
<1> r \in Proc /\ r \notin Sched BY ConstantsAssumption DEF Proc
<1>1. CASE Admit(r) \/ Enqueue(r) \/ RecordQueued(r)
  <2>1. \E l \in {"save", "record", "idle"} : Move(r, l)
    BY <1>1 DEF Admit, Enqueue, RecordQueued, Goto
  <2>2. pc'[r] \notin Started \cup {"load", "start"} BY <2>1 DEF Move, TypeOK, Started
  <2>3. Only(r)
    BY <1>1, <2>1 DEF Only, Move, Admit, Enqueue, RecordQueued, Goto, TypeOK
  <2>4. KeyKept(j) /\ lock' = lock
    BY <1>1 DEF Admit, Enqueue, RecordQueued, KeyKept, keyVars, histVars
  <2> QED BY <2>2, <2>3, <2>4, AsideGuarded
<1>2. CASE SaveNew(r)
  <2>1. Only(r) /\ pc'[r] = "enqueue" BY <1>2 DEF SaveNew, Only, Move, TypeOK
  <2>2. UNCHANGED <<lock, begun, tried>> BY <1>2 DEF SaveNew, histVars
  <2>3. PICK k \in Job : status[k] = "none" /\ Save(k, "queued", 0)
    BY <1>2 DEF SaveNew
  <2>4. CASE k # j
    <3>1. KeyKept(j) BY <2>2, <2>3, <2>4 DEF Save, KeyKept, TypeOK
    <3> QED BY <2>1, <2>2, <3>1, AsideGuarded DEF Started
  <2>5. CASE k = j
    <3>1. status'[j] = "queued" /\ retries'[j] = 0 BY <2>3, <2>5 DEF Save, TypeOK
    <3>2. \A s \in Sched : pc'[s] = pc[s] /\ hold'[s] = hold[s] BY <2>1 DEF Only, Proc
    <3>3. \A s \in Sched : ~Starting(s, j) /\ ~WorkingOn(s, j)
      BY <2>3, <2>5 DEF Guarded, Exclusive
    <3>4. Exclusive(j)'
      BY <2>2, <3>1, <3>2, <3>3 DEF Guarded, Exclusive, Fronting, Starting, WorkingOn, Has
    <3>5. begun'[j] = 0 BY <2>2, <2>3, <2>5 DEF Guarded, Attempts
    <3>6. Attempts(j)'
      BY <3>1, <3>2, <3>3, <3>5, ConstantsAssumption
      DEF Attempts, Starting, WorkingOn, Has
    <3> QED BY <3>4, <3>6 DEF Guarded
  <2> QED BY <2>4, <2>5
<1> QED BY <1>1, <1>2 DEF RequestStep

\* The steps of a scheduler that leave every key alone, but for those that take or
\* delete a lock and the one that leads to the start of a job.
LEMMA PassGuarded ==
    ASSUME TypeOK, NEW s \in Sched, NEW j \in Job, Guarded(j),
           \/ ReadDue(s) \/ RemoveDue(s) \/ PushDue(s) \/ Pop(s) \/ EndPass(s) \/ LockTaken(s)
           \/ TakeQueued(s) \/ CountActive(s) \/ Generate(s) \/ ScheduleRetry(s) \/ LeaveActive(s)
    PROVE  Guarded(j)'
<1> s \in Proc BY DEF Proc
<1>1. KeyKept(j) /\ lock' = lock
  BY DEF ReadDue, RemoveDue, PushDue, Pop, EndPass, LockTaken, TakeQueued, CountActive,
         Generate, ScheduleRetry, LeaveActive, Decrement, KeyKept, keyVars, histVars
<1>2. CASE ReadDue(s) \/ RemoveDue(s) \/ PushDue(s) \/ Pop(s) \/ EndPass(s) \/ LockTaken(s)
  <2>1. \E l \in {"pop", "move", "push", "lock", "idle"} : Move(s, l)
    BY <1>2 DEF ReadDue, RemoveDue, PushDue, Pop, EndPass, LockTaken, LetGo
  <2>2. pc'[s] \notin Started \cup {"load", "start"} BY <2>1 DEF Move, TypeOK, Started
  <2>3. Only(s)
    BY <1>2, <2>1 DEF Only, Move, ReadDue, RemoveDue, PushDue, Pop, EndPass, LockTaken, LetGo,
                      TypeOK
  <2> QED BY <1>1, <2>2, <2>3, AsideGuarded
<1>3. CASE TakeQueued(s) \/ CountActive(s) \/ Generate(s)
  <2>1. /\ UNCHANGED <<hold, tried>> /\ pc[s] \in Started
        /\ \E l \in Started : Move(s, l)
    BY <1>3 DEF TakeQueued, Decrement, CountActive, Generate, Goto, At, Started
  <2>2. Only(s) /\ pc'[s] \in Started BY <2>1 DEF Only, Move, TypeOK
  <2> QED BY <1>1, <2>1, <2>2, AsideGuarded
<1>4. CASE ScheduleRetry(s) \/ LeaveActive(s)
  <2>1. UNCHANGED <<hold, tried>> /\ \E l \in {"leave", "uncount", "unlock"} : Move(s, l)
    BY <1>4 DEF ScheduleRetry, LeaveActive, Decrement, Goto
  <2>2. Only(s) /\ pc'[s] \notin Started \cup {"load", "start"}
    BY <2>1 DEF Only, Move, TypeOK, Started
  <2> QED BY <1>1, <2>2, AsideGuarded
<1> QED BY <1>2, <1>3, <1>4

LEMMA TakeLockGuarded ==
    ASSUME TypeOK, NEW s \in Sched, TakeLock(s), NEW j \in Job, Guarded(j)
    PROVE  Guarded(j)'
<1> s \in Proc BY DEF Proc
<1>1. KeyKept(j) /\ lock \subseteq lock' /\ UNCHANGED <<hold, tried>>
  BY DEF TakeLock, KeyKept, keyVars, histVars, Goto
<1>2. Only(s) /\ pc'[s] = "load" BY DEF TakeLock, Only, Goto, Move, TypeOK
<1>3. CASE ~Has(s, j) BY <1>1, <1>2, <1>3, AsideGuarded DEF Has
<1>4. CASE Has(s, j)
  <2>1. j \notin lock /\ j \in lock' BY <1>4 DEF TakeLock, Has
  <2>2. \A t \in Sched : ~Fronting(t, j) BY <2>1 DEF Guarded, Exclusive
  <2>3. \A t \in Sched : Fronting(t, j)' => t = s
    BY <1>1, <1>2, <2>2 DEF Only, Fronting, Has, Proc
  <2>4. \A t \in Sched : ~Starting(t, j)' BY <1>1, <1>2, <2>2 DEF Only, Fronting, Starting, Has, Proc
  <2>5. \A t \in Sched : WorkingOn(t, j)' => WorkingOn(t, j) /\ tried'[t] = tried[t]
    BY <1>1, <1>2 DEF Only, WorkingOn, Has, Proc, Started
  <2>6. Exclusive(j)' BY <1>1, <2>1, <2>3, <2>4, <2>5 DEF Guarded, Exclusive, KeyKept
  <2>7. Attempts(j)' BY <1>1, <2>4, <2>5 DEF Guarded, Attempts, KeyKept
  <2> QED BY <2>6, <2>7 DEF Guarded
<1> QED BY <1>3, <1>4

LEMMA LoadGuarded ==
    ASSUME TypeOK, NEW s \in Sched, Load(s), NEW j \in Job, Guarded(j)
    PROVE  Guarded(j)'
<1> s \in Proc BY DEF Proc
<1>1. KeyKept(j) /\ UNCHANGED <<lock, hold>> BY DEF Load, KeyKept, keyVars, histVars
<1>2. PICK k \in Job : /\ Has(s, k) /\ tried' = [tried EXCEPT ![s] = retries[k]]
                       /\ Move(s, IF status[k] = "queued" THEN "start" ELSE "unlock")
  BY DEF Load
<1>3. Only(s) BY <1>1, <1>2 DEF Only, Move, TypeOK
<1>4. CASE k # j \/ status[j] # "queued"
  <2>1. pc'[s] \notin Started \cup {"load", "start"} \/ hold'[s] # {j}
    BY <1>1, <1>2, <1>4 DEF Move, TypeOK, Started, Has
  <2> QED BY <1>1, <1>3, <2>1, AsideGuarded
<1>5. CASE k = j /\ status[j] = "queued"
  <2>1. pc'[s] = "start" /\ pc[s] = "load" /\ tried'[s] = retries[j] /\ Has(s, j)
    BY <1>2, <1>5 DEF Move, TypeOK, Load, At
  <2>2. \A t \in Sched : Fronting(t, j) <=> t = s
    BY <2>1 DEF Guarded, Exclusive, Fronting
  <2>3. \A t \in Sched : Fronting(t, j)' => t = s
    BY <1>1, <1>3, <2>2 DEF Only, Fronting, Has, Proc
  <2>4. \A t \in Sched : Starting(t, j)' => t = s
    BY <2>3 DEF Fronting, Starting
  <2>5. \A t \in Sched : WorkingOn(t, j)' => WorkingOn(t, j) /\ tried'[t] = tried[t]
    BY <1>1, <1>3, <2>1 DEF Only, WorkingOn, Has, Proc, Started
  <2>6. Exclusive(j)'
    BY <1>1, <1>5, <2>2, <2>3, <2>4, <2>5 DEF Guarded, Exclusive, KeyKept
  <2>7. begun[j] <= retries[j] /\ retries[j] <= MaxRetries BY <1>5 DEF Guarded, Attempts
  <2>8. Attempts(j)'
    BY <1>1, <1>5, <2>1, <2>4, <2>5, <2>7 DEF Guarded, Attempts, KeyKept
  <2> QED BY <2>6, <2>8 DEF Guarded
<1> QED BY <1>4, <1>5

LEMMA StartGuarded ==
    ASSUME TypeOK, NEW s \in Sched, Start(s), NEW j \in Job, Guarded(j)
    PROVE  Guarded(j)'
<1> s \in Proc BY DEF Proc
<1>1. UNCHANGED <<lock, hold, tried>> BY DEF Start, Goto
<1>2. PICK k \in Job : /\ Has(s, k) /\ Save(k, "processing", tried[s])
                       /\ begun' = [begun EXCEPT ![k] = @ + 1]
  BY DEF Start
<1>3. Only(s) /\ pc[s] = "start" /\ pc'[s] = "take"
  BY <1>1 DEF Start, Only, Goto, Move, TypeOK, At
<1>4. CASE k # j
  <2>1. KeyKept(j) BY <1>2, <1>4 DEF Save, KeyKept, TypeOK
  <2>2. hold'[s] # {j} BY <1>1, <1>2, <1>4 DEF Has
  <2> QED BY <1>1, <1>3, <2>1, <2>2, AsideGuarded
<1>5. CASE k = j
  <2>1. Starting(s, j) /\ Fronting(s, j) BY <1>2, <1>3, <1>5 DEF Starting, Fronting
  <2>2. status'[j] = "processing" /\ begun'[j] = begun[j] + 1
    BY <1>2, <1>5 DEF Save, TypeOK
  <2>3. \A t \in Sched : ~WorkingOn(t, j) BY <2>1 DEF Guarded, Exclusive
  <2>4. \A t \in Sched : ~Fronting(t, j)' /\ ~Starting(t, j)'
    BY <1>1, <1>3, <2>1 DEF Guarded, Exclusive, Fronting, Starting, Only, Has, Proc
  <2>5. \A t \in Sched : WorkingOn(t, j)' => t = s
    BY <1>1, <1>3, <2>3 DEF WorkingOn, Only, Has, Proc
  <2>6. Exclusive(j)' BY <2>2, <2>4, <2>5 DEF Exclusive
  <2>7. begun[j] <= tried[s] /\ tried[s] <= MaxRetries BY <2>1 DEF Guarded, Attempts
  <2>8. begun[j] \in Nat /\ tried[s] \in Nat /\ MaxRetries \in Nat
    BY ConstantsAssumption DEF TypeOK
  <2>9. begun'[j] <= tried'[s] + 1 /\ begun'[j] <= MaxRetries + 1 /\ tried'[s] <= MaxRetries
    BY <1>1, <2>2, <2>7, <2>8
  <2>10. Attempts(j)' BY <2>2, <2>4, <2>5, <2>9 DEF Attempts
  <2> QED BY <2>6, <2>10 DEF Guarded
<1> QED BY <1>4, <1>5

\* The end of the work on a job: its status is decided, or it is queued once more.
LEMMA EndGuarded ==
    ASSUME TypeOK, NEW s \in Sched, FailForGood(s) \/ Complete(s) \/ Except(s),
           NEW j \in Job, Guarded(j)
    PROVE  Guarded(j)'
<1> s \in Proc BY DEF Proc
<1>1. /\ UNCHANGED <<lock, hold, begun>>
      /\ \A t \in Sched : t # s => tried'[t] = tried[t]
  BY DEF FailForGood, Complete, Except, Reschedule, Goto, histVars, TypeOK
<1>2. pc[s] \in Started /\ \E l \in {"requeue", "leave"} : Move(s, l)
  BY DEF FailForGood, Complete, Except, Reschedule, Goto, At, Started
<1>3. PICK k \in Job :
          /\ Has(s, k)
          /\ \/ Save(k, "failed", tried[s]) \/ Save(k, "completed", tried[s])
                \/ Save(k, "dead", tried[s])
             \/ CanRetry(tried[s]) /\ Save(k, "queued", tried[s] + 1)
  BY DEF FailForGood, Complete, Except, Reschedule
<1>4. Only(s) /\ pc'[s] \notin Started \cup {"load", "start"}
  BY <1>1, <1>2 DEF Only, Move, TypeOK, Started
<1>5. CASE k # j
  <2>1. KeyKept(j) BY <1>1, <1>3, <1>5 DEF Save, KeyKept, TypeOK
  <2> QED BY <1>1, <1>4, <2>1, AsideGuarded
<1>6. CASE k = j
  <2>1. WorkingOn(s, j) BY <1>2, <1>3, <1>6 DEF WorkingOn
  <2>2. \A t \in Sched : ~Starting(t, j) /\ (WorkingOn(t, j) => t = s)
    BY <2>1 DEF Guarded, Exclusive
  <2>3. \A t \in Sched : (Fronting(t, j)' => Fronting(t, j)) /\ ~Starting(t, j)' /\ ~WorkingOn(t, j)'
    BY <1>1, <1>4, <2>2 DEF Fronting, Starting, WorkingOn, Only, Has, Proc
  <2>4. Exclusive(j)' BY <1>1, <2>3 DEF Guarded, Exclusive
  <2>5. begun[j] <= tried[s] + 1 /\ begun[j] <= MaxRetries + 1
    BY <2>1 DEF Guarded, Attempts
  <2>6. /\ status'[j] # "none"
        /\ status'[j] = "queued" => CanRetry(tried[s]) /\ retries'[j] = tried[s] + 1
    BY <1>3, <1>6 DEF Save, TypeOK
  <2>7. begun[j] \in Nat /\ tried[s] \in Nat /\ MaxRetries \in Nat
    BY ConstantsAssumption DEF TypeOK
  <2>8. status'[j] = "queued" => begun'[j] <= retries'[j] /\ retries'[j] <= MaxRetries
    BY <1>1, <2>5, <2>6, <2>7 DEF CanRetry
  <2>9. Attempts(j)' BY <1>1, <2>3, <2>5, <2>6, <2>8 DEF Attempts
  <2> QED BY <2>4, <2>9 DEF Guarded
<1> QED BY <1>5, <1>6

\* The lock of a sound job is not deleted under the worker about to begin it.
LEMMA UnlockGuarded ==
    ASSUME TypeOK, NEW s \in Sched, Unlock(s), NEW j \in Job, j \notin robbed', Guarded(j)
    PROVE  Guarded(j)'
<1> s \in Proc BY DEF Proc
<1>1. KeyKept(j) BY DEF Unlock, KeyKept, keyVars
<1>2. Only(s) /\ pc'[s] = "pop" BY DEF Unlock, LetGo, Only, Move, TypeOK
<1>3. \A t \in Sched : Fronting(t, j) /\ j \in lock => j \in lock'
  BY DEF Unlock, Fronting
<1>4. \A t \in Sched : /\ Fronting(t, j)' => Fronting(t, j)
                       /\ Starting(t, j)' => Starting(t, j) /\ tried'[t] = tried[t]
                       /\ WorkingOn(t, j)' => WorkingOn(t, j) /\ tried'[t] = tried[t]
  BY <1>2 DEF Only, Fronting, Starting, WorkingOn, Has, Proc, Started
<1> QED BY <1>1, <1>3, <1>4, QuietGuarded

LEMMA LockErrorGuarded ==
    ASSUME TypeOK, NEW s \in Sched, LockError(s), NEW j \in Job, j \notin unsaved', Guarded(j)
    PROVE  Guarded(j)'
<1> s \in Proc BY DEF Proc
<1>1. PICK k \in Job :
          /\ Has(s, k)
          /\ \/ CanRetry(retries[k]) /\ Save(k, "queued", retries[k] + 1)
             \/ Save(k, "dead", retries[k])
          /\ lock' \in {lock, lock \cup {k}}
          /\ unsaved' = IF status[k] = "queued" THEN unsaved ELSE unsaved \cup {k}
  BY DEF LockError
<1>2. Only(s) /\ pc'[s] = "pop" BY DEF LockError, LetGo, Only, Move, TypeOK
<1>3. lock \subseteq lock' /\ begun' = begun BY <1>1 DEF LockError
<1>4. CASE k # j
  <2>1. KeyKept(j) BY <1>1, <1>3, <1>4 DEF Save, KeyKept, TypeOK
  <2> QED BY <1>2, <1>3, <2>1, AsideGuarded DEF Started
<1>5. CASE k = j
  <2>1. status[j] = "queued" BY <1>1, <1>5
  <2>2. \A t \in Sched : ~WorkingOn(t, j) BY <2>1 DEF Guarded, Exclusive
  <2>3. \A t \in Sched : /\ Fronting(t, j)' => Fronting(t, j)
                         /\ Starting(t, j)' => Starting(t, j) /\ tried'[t] = tried[t]
                         /\ ~WorkingOn(t, j)'
    BY <1>2, <2>2 DEF Only, Fronting, Starting, WorkingOn, Has, Proc, Started
  <2>4. /\ status'[j] \in {"queued", "dead"}
        /\ status'[j] = "queued" => CanRetry(retries[j]) /\ retries'[j] = retries[j] + 1
    BY <1>1, <1>5 DEF Save, TypeOK
  <2>5. Exclusive(j)' BY <1>3, <2>3, <2>4 DEF Guarded, Exclusive
  <2>6. begun[j] <= retries[j] /\ retries[j] <= MaxRetries BY <2>1 DEF Guarded, Attempts
  <2>7. begun[j] \in Nat /\ retries[j] \in Nat /\ MaxRetries \in Nat
    BY ConstantsAssumption DEF TypeOK
  <2>8. status'[j] = "queued" => begun'[j] <= retries'[j] /\ retries'[j] <= MaxRetries
    BY <1>3, <2>4, <2>6, <2>7 DEF CanRetry
  <2>9. Attempts(j)' BY <1>3, <2>3, <2>4, <2>8 DEF Guarded, Attempts
  <2> QED BY <2>5, <2>9 DEF Guarded
<1> QED BY <1>4, <1>5

LEMMA SaveFailsGuarded ==
    ASSUME TypeOK, HoldsOne, NEW s \in Sched, SaveFails(s),
           NEW j \in Job, j \notin unsaved', Guarded(j)
    PROVE  Guarded(j)'
<1> s \in Proc BY DEF Proc
<1>1. UNCHANGED <<status, retries, lock, hold>> BY DEF SaveFails, keyVars, Goto
<1>2. CASE At(s, "start")
  <2>1. /\ unsaved' = unsaved \cup hold[s] /\ Move(s, "take") /\ tried' = tried
        /\ begun' = [k \in Job |-> IF Has(s, k) THEN begun[k] + 1 ELSE begun[k]]
    BY <1>2 DEF SaveFails, At, Goto
  <2>2. ~Has(s, j) BY <2>1 DEF Has
  <2>3. KeyKept(j) BY <1>1, <2>1, <2>2 DEF KeyKept
  <2>4. Only(s) BY <1>1, <2>1 DEF Only, Move, TypeOK
  <2> QED BY <1>1, <2>2, <2>3, <2>4, AsideGuarded DEF Has
<1>3. CASE ~At(s, "start")
  <2>1. /\ begun' = begun /\ \E l \in {"leave", "requeue"} : Move(s, l)
        /\ \A t \in Sched : t # s => tried'[t] = tried[t]
    BY <1>3 DEF SaveFails, Goto, TypeOK
  <2>2. Only(s) /\ pc'[s] \notin Started \cup {"load", "start"}
    BY <1>1, <2>1 DEF Only, Move, TypeOK, Started
  <2> QED BY <1>1, <2>1, <2>2, AsideGuarded DEF KeyKept
<1> QED BY <1>2, <1>3

LEMMA FaultGuarded ==
    ASSUME TypeOK, HoldsOne, NEW p \in Proc, Fault(p),
           NEW j \in Job, j \notin unsaved', Guarded(j)
    PROVE  Guarded(j)'
<1>1. CASE Crash(p) \/ (p \in Request /\ EnqueueFails(p))
           \/ (p \in Sched /\ (PushDueFails(p) \/ PopFails(p) \/ LoadFails(p) \/ RetryFails(p)
                               \/ UnlockFails(p)))
  <2>1. KeyKept(j) /\ lock' = lock
    BY <1>1 DEF Crash, EnqueueFails, PushDueFails, PopFails, LoadFails, RetryFails,
                UnlockFails, KeyKept, keyVars
  <2>2. \E l \in {"idle", "pop", "move", "unlock", "leave"} : Move(p, l)
    BY <1>1 DEF Crash, EnqueueFails, PushDueFails, PopFails, LoadFails, RetryFails,
                UnlockFails, LetGo, Goto
  <2>3. Only(p)
    <3>1. \A q \in Proc : q # p => pc'[q] = pc[q] BY <2>2 DEF Move, TypeOK
    <3>2. hold' = hold \/ hold' = [hold EXCEPT ![p] = {}]
      BY <1>1 DEF Crash, EnqueueFails, PushDueFails, PopFails, LoadFails, RetryFails,
                  UnlockFails, LetGo, Goto
    <3>3. tried' = tried \/ tried' = [tried EXCEPT ![p] = 0]
      BY <1>1 DEF Crash, EnqueueFails, PushDueFails, PopFails, LoadFails, RetryFails,
                  UnlockFails, LetGo, Goto
    <3> QED BY <3>1, <3>2, <3>3 DEF Only, TypeOK
  <2>4. pc'[p] \notin Started \cup {"load", "start"} BY <2>2 DEF Move, TypeOK, Started
  <2> QED BY <2>1, <2>3, <2>4, AsideGuarded
<1>2. CASE CounterFails(p)
  <2>1. KeyKept(j) /\ UNCHANGED <<lock, hold, tried>>
    BY <1>2 DEF CounterFails, KeyKept, keyVars, Goto
  <2>2. \/ \E l \in {"save", "idle", "unlock"} : Move(p, l)
        \/ pc[p] \in Started /\ \E l \in Started : Move(p, l)
    BY <1>2 DEF CounterFails, Goto, At, Started
  <2>3. Only(p) BY <2>1, <2>2 DEF Only, Move, TypeOK
  <2>4. \/ pc'[p] \notin Started \cup {"load", "start"}
        \/ pc[p] \in Started /\ pc'[p] \in Started
    BY <2>2 DEF Move, TypeOK, Started
  <2> QED BY <2>1, <2>3, <2>4, AsideGuarded
<1>3. CASE p \in Sched /\ (LockError(p) \/ SaveFails(p))
  BY <1>3, LockErrorGuarded, SaveFailsGuarded
<1> QED BY <1>1, <1>2, <1>3 DEF Fault

\* A lock expires and keys are gone only while nobody is about to begin a job.
LEMMA TimeGuarded ==
    ASSUME TypeOK, (\E k \in Job : LockExpires(k)) \/ HourPasses \/ UNCHANGED vars,
           NEW j \in Job, Guarded(j)
    PROVE  Guarded(j)'
<1>1. CASE \E k \in Job : LockExpires(k)
  <2>1. PICK k \in Job : LockExpires(k) BY <1>1
  <2>2. KeyKept(j) /\ UNCHANGED <<pc, hold, tried>>
    BY <2>1 DEF LockExpires, KeyKept, keyVars, locVars, histVars
  <2>3. \A s \in Sched : Fronting(s, j) /\ j \in lock => j \in lock'
    BY <2>1 DEF LockExpires, Fronting
  <2> QED BY <2>2, <2>3, QuietGuarded DEF Fronting, Starting, WorkingOn, Has
<1>2. CASE HourPasses
  <2>1. UNCHANGED <<pc, hold, tried, begun>> BY <1>2 DEF HourPasses, locVars, histVars
  <2>2. \A s \in Sched : pc'[s] = "idle" BY <1>2, <2>1 DEF HourPasses, At, Proc
  <2>3. \A s \in Sched : ~Fronting(s, j)' /\ ~Starting(s, j)' /\ ~WorkingOn(s, j)'
    BY <2>2 DEF Fronting, Starting, WorkingOn, Started
  <2>4. status'[j] # "queued" /\ (status'[j] = "none" => status[j] = "none")
    BY <1>2 DEF HourPasses
  <2>5. Exclusive(j)' BY <2>3 DEF Exclusive
  <2>6. Attempts(j)' BY <2>1, <2>3, <2>4 DEF Guarded, Attempts
  <2> QED BY <2>5, <2>6 DEF Guarded
<1>3. CASE UNCHANGED vars
  <2>1. KeyKept(j) /\ UNCHANGED <<lock, pc, hold, tried>>
    BY <1>3 DEF vars, keyVars, locVars, histVars, KeyKept
  <2> QED BY <2>1, QuietGuarded DEF Fronting, Starting, WorkingOn, Has
<1> QED BY <1>1, <1>2, <1>3

\* A process takes one job at a time.
LEMMA HoldsOneNext == TypeOK /\ HoldsOne /\ [Next]_vars => HoldsOne'
<1> SUFFICES ASSUME TypeOK, HoldsOne, [Next]_vars PROVE HoldsOne' OBVIOUS
<1> USE DEF Goto, LetGo
<1>1. \/ hold' = hold
      \/ \E p \in Proc : hold' = [hold EXCEPT ![p] = {}]
      \/ \E p \in Proc : \E j \in Job : hold' = [hold EXCEPT ![p] = {j}]
  <2>1. CASE \E r \in Request : Admit(r) \/ RequestStep(r)
    BY <2>1 DEF Admit, RequestStep, SaveNew, Enqueue, RecordQueued, Proc
  <2>2. ASSUME NEW s \in Sched, SchedStep(s)
        PROVE  \/ hold' = hold \/ hold' = [hold EXCEPT ![s] = {}]
               \/ \E j \in Job : hold' = [hold EXCEPT ![s] = {j}]
    <3>a. CASE RemoveDue(s)
      <4>1. PICK j \in due[s] : hold' = [hold EXCEPT ![s] = {j}] BY <3>a DEF RemoveDue
      <4>2. j \in Job BY DEF TypeOK
      <4> QED BY <4>1, <4>2
    <3>b. CASE Pop(s)
      <4>1. Head(queue) \in Job BY <3>b DEF Pop, TypeOK
      <4> QED BY <3>b, <4>1 DEF Pop
    <3>1. CASE RemoveDue(s) \/ Pop(s) BY <3>a, <3>b, <3>1
    <3>2. CASE ~(RemoveDue(s) \/ Pop(s))
      BY <2>2, <3>2 DEF SchedStep, ReadDue, PushDue, EndPass, TakeLock, LockTaken, Load, Start,
         TakeQueued, LeaveActive, Decrement, CountActive, FailForGood, Generate, Complete,
         Except, ScheduleRetry, Unlock
    <3> QED BY <3>1, <3>2
  <2>3. ASSUME NEW p \in Proc, Fault(p)
        PROVE  hold' = hold \/ hold' = [hold EXCEPT ![p] = {}]
    BY <2>3 DEF Fault, Crash, CounterFails, EnqueueFails, PushDueFails, PopFails, LockError,
       LoadFails, SaveFails, RetryFails, UnlockFails
  <2>4. CASE (\E j \in Job : LockExpires(j)) \/ HourPasses \/ UNCHANGED vars
    BY <2>4 DEF LockExpires, HourPasses, vars, locVars
  <2> QED BY <2>1, <2>2, <2>3, <2>4 DEF Next, Proc
<1> QED BY <1>1 DEF HoldsOne, Has, TypeOK

\* What is on record stays on record.
LEMMA HistoryGrows ==
    ASSUME TypeOK, [Next]_vars
    PROVE  /\ unsaved \subseteq unsaved' /\ robbed \subseteq robbed'
           /\ lost \subseteq lost' /\ early \subseteq early'
<1> USE DEF histVars, oddVars
<1>1. ASSUME NEW r \in Request, Admit(r) \/ RequestStep(r)
      PROVE  UNCHANGED <<unsaved, robbed, lost, early>>
  BY <1>1 DEF Admit, RequestStep, SaveNew, Enqueue, RecordQueued
<1>2. ASSUME NEW s \in Sched, SchedStep(s)
      PROVE  /\ UNCHANGED <<unsaved, lost>>
             /\ robbed \subseteq robbed' /\ early \subseteq early'
  BY <1>2 DEF SchedStep, ReadDue, RemoveDue, PushDue, Pop, EndPass, TakeLock, LockTaken, Load,
     Start, TakeQueued, LeaveActive, Decrement, CountActive, FailForGood, Generate, Complete,
     Except, ScheduleRetry, Unlock
<1>3. ASSUME NEW p \in Proc, Fault(p)
      PROVE  /\ UNCHANGED <<robbed, early>>
             /\ unsaved \subseteq unsaved' /\ lost \subseteq lost'
  BY <1>3 DEF Fault, Crash, CounterFails, EnqueueFails, PushDueFails, PopFails, LockError,
     LoadFails, SaveFails, RetryFails, UnlockFails, Lose
<1>4. ASSUME (\E j \in Job : LockExpires(j)) \/ HourPasses \/ UNCHANGED vars
      PROVE  UNCHANGED <<unsaved, robbed, lost, early>>
  BY <1>4 DEF LockExpires, HourPasses, vars
<1> QED BY <1>1, <1>2, <1>3, <1>4 DEF Next

LEMMA SchedGuarded ==
    ASSUME TypeOK, NEW s \in Sched, SchedStep(s), NEW j \in Job, j \notin robbed', Guarded(j)
    PROVE  Guarded(j)'
BY PassGuarded, TakeLockGuarded, LoadGuarded, StartGuarded, EndGuarded, UnlockGuarded
   DEF SchedStep

LEMMA GuardInit == Init => GuardInv
<1> SUFFICES ASSUME Init PROVE GuardInv OBVIOUS
<1>1. TypeOK BY TypeInit
<1>2. HoldsOne BY DEF Init, HoldsOne
<1>3. ASSUME NEW j \in Job PROVE Guarded(j)
  <2>1. \A s \in Sched : ~Has(s, j) BY DEF Init, Has, Proc
  <2>2. Exclusive(j) BY <2>1 DEF Exclusive, Fronting, Starting, WorkingOn
  <2>3. Attempts(j) BY <2>1, ConstantsAssumption DEF Init, Attempts, Starting, WorkingOn
  <2> QED BY <2>2, <2>3 DEF Guarded
<1> QED BY <1>1, <1>2, <1>3 DEF GuardInv, Sound

LEMMA GuardNext == GuardInv /\ [Next]_vars => GuardInv'
<1> SUFFICES ASSUME GuardInv, [Next]_vars PROVE GuardInv' OBVIOUS
<1>1. TypeOK /\ HoldsOne BY DEF GuardInv
<1>2. TypeOK' BY <1>1, TypeNext
<1>3. HoldsOne' BY <1>1, HoldsOneNext
<1>4. ASSUME NEW j \in Sound' PROVE Guarded(j)'
  <2>1. j \in Job /\ j \notin unsaved' /\ j \notin robbed' BY DEF Sound
  <2>2. Guarded(j) BY <1>1, <2>1, HistoryGrows DEF GuardInv, Sound
  <2> QED BY <1>1, <2>1, <2>2, RequestGuarded, SchedGuarded, FaultGuarded, TimeGuarded DEF Next
<1> QED BY <1>2, <1>3, <1>4 DEF GuardInv

LEMMA GuardIsKept == Spec => []GuardInv
BY GuardInit, GuardNext, PTL DEF Spec

\* No two schedulers process one job at a time, however many run, wherever the lock
\* expires and however often a retry is moved, but for jobs whose saved status a fault
\* left wrong and jobs whose lock a leaving worker deleted under the next one.
THEOREM OneAtATime == Spec => []OneProcessorPerJob
<1>1. GuardInv => OneProcessorPerJob
  <2> SUFFICES ASSUME GuardInv, NEW s \in Working, NEW t \in Working, s # t,
                      NEW j \in hold[s] \cap hold[t]
               PROVE  j \in unsaved \cup robbed
    BY DEF OneProcessorPerJob
  <2>1. s \in Proc /\ t \in Proc /\ s \in Sched /\ t \in Sched BY DEF Working, Proc
  <2>2. Has(s, j) /\ Has(t, j) /\ j \in Job BY <2>1 DEF GuardInv, HoldsOne, Has, TypeOK
  <2>3. WorkingOn(s, j) /\ WorkingOn(t, j) BY <2>2 DEF Working, WorkingOn
  <2> QED BY <2>1, <2>2, <2>3 DEF GuardInv, Sound, Guarded, Exclusive
<1> QED BY <1>1, GuardIsKept, PTL

\* With the same exceptions a job is begun at most MAX_RETRIES + 1 times, in all.
THEOREM BegunIsBounded == Spec => []BegunBounded
<1>1. GuardInv => BegunBounded BY DEF GuardInv, Guarded, Attempts, Sound, BegunBounded
<1> QED BY <1>1, GuardIsKept, PTL

-----------------------------------------------------------------------------
(* Where a queued job is                                                   *)

InList(j) == \E i \in DOMAIN queue : queue[i] = j

\* A scheduler that has taken the lock and will still put the job into the queue or
\* decide it; one that has done so; a process whose hands a waiting job is in.
Keeping(s, j)  == Has(s, j) /\ pc[s] \in {"load", "start", "requeue"} \cup Started
Leaving(s, j)  == Has(s, j) /\ pc[s] \in {"leave", "uncount", "unlock"}
Carrying(p, j) == Has(p, j) /\ pc[p] \in {"enqueue", "push", "lock", "load", "start", "requeue"} \cup Started

Dropped(j) == j \in lost \cup early

\* A job that is not saved yet is nowhere.
Fresh(j) ==
    status[j] = "none" =>
        /\ ~InList(j) /\ j \notin retryQueue \cup lock
        /\ \A s \in Sched : j \notin due[s]
        /\ \A p \in Proc : j \notin hold[p]

\* A queued job is in a queue or in somebody's hands, and a lock that would turn its
\* next entry away has somebody behind it who brings the job back.
Traced(j) ==
    /\ status[j] = "queued" =>
          Dropped(j) \/ j \in retryQueue \/ InList(j) \/ \E p \in Proc : Carrying(p, j)
    /\ j \in lock => j \in lost \/ \E s \in Sched : Keeping(s, j) \/ Leaving(s, j)
    /\ status[j] = "queued" /\ j \in lock =>
          Dropped(j) \/ j \in retryQueue \/ \E s \in Sched : Keeping(s, j)

TraceInv == TypeOK /\ HoldsOne /\ \A j \in Job : Fresh(j) /\ Traced(j)

\* Nobody's place or job changes but p's.
Alone(p) == \A q \in Proc : q # p => pc'[q] = pc[q] /\ hold'[q] = hold[q]

\* Process p moves, and the job goes from hand to queue, or on within a hand.
LEMMA MovedTraced ==
    ASSUME TypeOK, NEW p \in Proc, NEW j \in Job, Traced(j), Alone(p),
           lost \subseteq lost', early \subseteq early',
           j \in lock' => j \in lock,
           status'[j] = "queued" => status[j] = "queued" \/ (p \in Sched /\ Keeping(p, j)'),
           j \in retryQueue => j \in retryQueue',
           InList(j) => InList(j)' \/ Carrying(p, j)',
           Carrying(p, j) => Keeping(p, j) \/ Carrying(p, j)' \/ InList(j)' \/ j \in lost',
           Keeping(p, j) => \/ Keeping(p, j)' \/ j \in lost'
                            \/ Leaving(p, j)' /\ (status'[j] # "queued" \/ j \in retryQueue'),
           Leaving(p, j) => Leaving(p, j)' \/ j \notin lock' \/ j \in lost'
    PROVE  Traced(j)'
<1> USE DEF Proc
<1>1. \A q \in Proc : q # p => /\ Carrying(q, j)' <=> Carrying(q, j)
                               /\ Keeping(q, j)' <=> Keeping(q, j)
                               /\ Leaving(q, j)' <=> Leaving(q, j)
  BY DEF Alone, Carrying, Keeping, Leaving, Has
<1>2. \A q \in Proc : Keeping(q, j) => Carrying(q, j) BY DEF Keeping, Carrying
<1>3. \A q \in Proc : Keeping(q, j)' => Carrying(q, j)' BY DEF Keeping, Carrying
<1>4. Dropped(j) => Dropped(j)' BY DEF Dropped
<1>5. j \in lost' => Dropped(j)' BY DEF Dropped
<1>6. ASSUME status'[j] = "queued"
      PROVE  Dropped(j)' \/ j \in retryQueue' \/ InList(j)' \/ \E q \in Proc : Carrying(q, j)'
  <2>1. CASE p \in Sched /\ Keeping(p, j)' BY <1>3, <2>1
  <2>2. CASE status[j] = "queued"
    <3>1. Dropped(j) \/ j \in retryQueue \/ InList(j) \/ \E q \in Proc : Carrying(q, j)
      BY <2>2 DEF Traced
    <3>2. CASE \E q \in Proc : q # p /\ Carrying(q, j) BY <1>1, <3>2
    <3>3. CASE Carrying(p, j) BY <1>3, <1>5, <1>6, <3>3
    <3> QED BY <1>4, <3>1, <3>2, <3>3
  <2> QED BY <1>6, <2>1, <2>2
<1>7. ASSUME j \in lock'
      PROVE  j \in lost' \/ \E s \in Sched : (Keeping(s, j) \/ Leaving(s, j))'
  <2>1. j \in lost \/ \E s \in Sched : Keeping(s, j) \/ Leaving(s, j) BY <1>7 DEF Traced
  <2>2. CASE \E s \in Sched : s # p /\ (Keeping(s, j) \/ Leaving(s, j)) BY <1>1, <2>2
  <2>3. CASE p \in Sched /\ (Keeping(p, j) \/ Leaving(p, j)) BY <1>7, <2>3
  <2> QED BY <2>1, <2>2, <2>3
<1>8. ASSUME j \in lock', status'[j] = "queued"
      PROVE  Dropped(j)' \/ j \in retryQueue' \/ \E s \in Sched : Keeping(s, j)'
  <2>1. CASE p \in Sched /\ Keeping(p, j)' BY <2>1
  <2>2. CASE status[j] = "queued"
    <3>1. Dropped(j) \/ j \in retryQueue \/ \E s \in Sched : Keeping(s, j)
      BY <1>8, <2>2 DEF Traced
    <3>2. CASE \E s \in Sched : s # p /\ Keeping(s, j) BY <1>1, <3>2
    <3>3. CASE p \in Sched /\ Keeping(p, j) BY <1>5, <1>8, <3>3
    <3> QED BY <1>4, <3>1, <3>2, <3>3
  <2> QED BY <1>8, <2>1, <2>2
<1> QED BY <1>6, <1>7, <1>8 DEF Traced

\* What a push at the tail and a pop at the head do to the list.
LEMMA PushLists ==
    ASSUME TypeOK, NEW p, NEW k \in Job, Has(p, k), Push(k), NEW j \in Job
    PROVE  /\ InList(j)' <=> InList(j) \/ Has(p, j)
           /\ InList(j)' <=> InList(j) \/ k = j
<1>1. queue \in Seq(Job) /\ queue' = Append(queue, k) BY DEF TypeOK, Push
<1>2. /\ Len(queue) \in Nat /\ Len(queue') = Len(queue) + 1
      /\ DOMAIN queue = 1..Len(queue) /\ DOMAIN queue' = 1..Len(queue')
      /\ \A i \in DOMAIN queue : queue'[i] = queue[i]
      /\ queue'[Len(queue) + 1] = k
  BY <1>1
<1>3. DOMAIN queue' = DOMAIN queue \cup {Len(queue) + 1} BY <1>2
<1>4. InList(j)' <=> InList(j) \/ k = j BY <1>2, <1>3 DEF InList
<1>5. Has(p, j) <=> k = j BY DEF Has
<1> QED BY <1>4, <1>5

LEMMA PopLists ==
    ASSUME TypeOK, queue # <<>>, queue' = Tail(queue), NEW j \in Job
    PROVE  InList(j) <=> InList(j)' \/ Head(queue) = j
<1>1. queue \in Seq(Job) BY DEF TypeOK
<1>2. /\ Len(queue) \in Nat /\ Len(queue) > 0 /\ Len(queue') = Len(queue) - 1
      /\ DOMAIN queue = 1..Len(queue) /\ DOMAIN queue' = 1..Len(queue')
      /\ Head(queue) = queue[1]
      /\ \A i \in DOMAIN queue' : queue'[i] = queue[i + 1]
  BY <1>1
<1>3. ASSUME NEW i \in DOMAIN queue, queue[i] = j
      PROVE  InList(j)' \/ Head(queue) = j
  <2>1. CASE i = 1 BY <1>2, <1>3, <2>1
  <2>2. CASE i # 1
    <3>1. i - 1 \in DOMAIN queue' /\ queue'[i - 1] = queue[(i - 1) + 1] BY <1>2, <2>2
    <3>2. (i - 1) + 1 = i BY <1>2
    <3> QED BY <1>3, <3>1, <3>2 DEF InList
  <2> QED BY <2>1, <2>2
<1>4. ASSUME NEW i \in DOMAIN queue', queue'[i] = j PROVE InList(j)
  <2>1. i + 1 \in DOMAIN queue BY <1>2
  <2> QED BY <1>2, <1>4, <2>1 DEF InList
<1>5. Head(queue) = j => InList(j) BY <1>2 DEF InList
<1> QED BY <1>3, <1>4, <1>5 DEF InList

LEMMA RequestTraced ==
    ASSUME TypeOK, NEW r \in Request, Admit(r) \/ RequestStep(r),
           NEW j \in Job, Fresh(j), Traced(j)
    PROVE  Traced(j)'
<1> r \in Proc /\ r \notin Sched BY ConstantsAssumption DEF Proc
<1>1. lost' = lost /\ early' = early /\ lock' = lock /\ retryQueue' = retryQueue
  BY DEF Admit, RequestStep, SaveNew, Enqueue, RecordQueued, histVars, oddVars
<1>2. CASE Admit(r) \/ RecordQueued(r)
  <2>1. /\ UNCHANGED <<status, queue, hold>> /\ pc[r] \in {"idle", "record"}
        /\ \E l \in {"save", "idle"} : Move(r, l)
    BY <1>2 DEF Admit, RecordQueued, Goto, At, keyVars
  <2>2. Alone(r) BY <2>1 DEF Alone, Move, TypeOK
  <2>3. ~Carrying(r, j) /\ ~Keeping(r, j) /\ ~Leaving(r, j)
    BY <2>1 DEF Carrying, Keeping, Leaving, Started
  <2> QED BY <1>1, <2>1, <2>2, <2>3, MovedTraced DEF InList
<1>3. CASE SaveNew(r)
  <2>1. PICK k \in Job : /\ status[k] = "none" /\ Save(k, "queued", 0)
                         /\ hold' = [hold EXCEPT ![r] = {k}]
    BY <1>3 DEF SaveNew
  <2>2. queue' = queue /\ pc[r] = "save" /\ pc' = [pc EXCEPT ![r] = "enqueue"]
    BY <1>3 DEF SaveNew, At, Move
  <2>3. Alone(r) BY <2>1, <2>2 DEF Alone, TypeOK
  <2>4. ~Carrying(r, j) /\ ~Keeping(r, j) /\ ~Leaving(r, j)
    BY <2>2 DEF Carrying, Keeping, Leaving, Started
  <2>5. CASE k # j
    <3>1. status'[j] = status[j] BY <2>1, <2>5 DEF Save, TypeOK
    <3> QED BY <1>1, <2>2, <2>3, <2>4, <3>1, MovedTraced DEF InList
  <2>6. CASE k = j
    <3>1. j \notin lock' BY <1>1, <2>1, <2>6 DEF Fresh
    <3>2. Carrying(r, j)' BY <2>1, <2>2, <2>6 DEF Carrying, Has, TypeOK
    <3> QED BY <3>1, <3>2 DEF Traced
  <2> QED BY <2>5, <2>6
<1>4. CASE Enqueue(r)
  <2>1. PICK k \in Job : Has(r, k) /\ Push(k) BY <1>4 DEF Enqueue
  <2>2. /\ status' = status /\ pc[r] = "enqueue" /\ pc' = [pc EXCEPT ![r] = "record"]
        /\ hold' = [hold EXCEPT ![r] = {}]
    BY <1>4 DEF Enqueue, At, Move, keyVars
  <2>3. Alone(r) BY <2>2 DEF Alone, TypeOK
  <2>4. InList(j) \/ Has(r, j) => InList(j)' BY <2>1, PushLists
  <2>5. ~Keeping(r, j) /\ ~Leaving(r, j) BY <2>2 DEF Keeping, Leaving, Started
  <2> QED BY <1>1, <2>2, <2>3, <2>4, <2>5, MovedTraced DEF Carrying
<1> QED BY <1>2, <1>3, <1>4 DEF RequestStep

\* The steps of a scheduler on the lists.
LEMMA ListsTraced ==
    ASSUME TypeOK, NEW s \in Sched, ReadDue(s) \/ RemoveDue(s) \/ PushDue(s) \/ Pop(s) \/ EndPass(s),
           NEW j \in Job, Traced(j)
    PROVE  Traced(j)'
<1> s \in Proc BY DEF Proc
<1>1. lost' = lost /\ status' = status /\ lock' = lock /\ early \subseteq early'
  BY DEF ReadDue, RemoveDue, PushDue, Pop, EndPass, histVars, oddVars, keyVars
<1>2. CASE ReadDue(s) \/ EndPass(s)
  <2>1. /\ UNCHANGED <<queue, retryQueue, hold>> /\ pc[s] \in {"idle", "pop"}
        /\ \E l \in {"pop", "move", "idle"} : Move(s, l)
    BY <1>2 DEF ReadDue, EndPass, At
  <2>2. Alone(s) BY <2>1 DEF Alone, Move, TypeOK
  <2>3. ~Carrying(s, j) /\ ~Keeping(s, j) /\ ~Leaving(s, j)
    BY <2>1 DEF Carrying, Keeping, Leaving, Started
  <2> QED BY <1>1, <2>1, <2>2, <2>3, MovedTraced DEF InList
<1>3. CASE PushDue(s)
  <2>1. PICK k \in Job : Has(s, k) /\ Push(k) BY <1>3 DEF PushDue
  <2>2. /\ pc[s] = "push" /\ retryQueue' = retryQueue
        /\ \E l \in {"pop", "move"} : Move(s, l)
        /\ hold' = [hold EXCEPT ![s] = {}]
    BY <1>3 DEF PushDue, At
  <2>3. Alone(s) BY <2>2 DEF Alone, Move, TypeOK
  <2>4. InList(j) \/ Has(s, j) => InList(j)' BY <2>1, PushLists
  <2>5. ~Keeping(s, j) /\ ~Leaving(s, j) BY <2>2 DEF Keeping, Leaving, Started
  <2> QED BY <1>1, <2>2, <2>3, <2>4, <2>5, MovedTraced DEF Carrying
<1>4. CASE Pop(s)
  <2>1. /\ pc[s] = "pop" /\ pc' = [pc EXCEPT ![s] = "lock"] /\ retryQueue' = retryQueue
        /\ queue # <<>> /\ queue' = Tail(queue)
        /\ hold' = [hold EXCEPT ![s] = {Head(queue)}]
    BY <1>4 DEF Pop, At, Move
  <2>2. Alone(s) BY <2>1 DEF Alone, TypeOK
  <2>3. Head(queue) = j => Carrying(s, j)' BY <2>1 DEF Carrying, Has, TypeOK
  <2>4. InList(j) => InList(j)' \/ Carrying(s, j)' BY <2>1, <2>3, PopLists
  <2>5. ~Carrying(s, j) /\ ~Keeping(s, j) /\ ~Leaving(s, j)
    BY <2>1 DEF Carrying, Keeping, Leaving, Started
  <2> QED BY <1>1, <2>1, <2>2, <2>4, <2>5, MovedTraced
<1>5. CASE RemoveDue(s)
  <2>1. PICK k \in due[s] :
            /\ retryQueue' = retryQueue \ {k} /\ hold' = [hold EXCEPT ![s] = {k}]
            /\ early' = IF k \in retryQueue \ MayBeDue THEN early \cup {k} ELSE early
    BY <1>5 DEF RemoveDue
  <2>2. /\ pc[s] = "move" /\ pc' = [pc EXCEPT ![s] = "push"] /\ queue' = queue
    BY <1>5 DEF RemoveDue, At, Move
  <2>3. Alone(s) BY <2>1, <2>2 DEF Alone, TypeOK
  <2>4. ~Carrying(s, j) /\ ~Keeping(s, j) /\ ~Leaving(s, j)
    BY <2>2 DEF Carrying, Keeping, Leaving, Started
  <2>5. CASE k # j \/ j \notin retryQueue
    BY <1>1, <2>1, <2>2, <2>3, <2>4, <2>5, MovedTraced DEF InList
  <2>6. CASE k = j /\ j \in retryQueue
    <3>1. Carrying(s, j)' BY <2>1, <2>2, <2>6 DEF Carrying, Has, TypeOK
    <3>2. \A t \in Sched : /\ Keeping(t, j) => Keeping(t, j)'
                           /\ Leaving(t, j) => Leaving(t, j)'
      BY <2>3, <2>4 DEF Alone, Keeping, Leaving, Has, Proc
    <3>3. (\E t \in Sched : Leaving(t, j)) => j \in early'
      BY <2>1, <2>6 DEF Leaving, MayBeDue
    <3> QED BY <1>1, <3>1, <3>2, <3>3 DEF Traced, Dropped
  <2> QED BY <2>5, <2>6
<1> QED BY <1>2, <1>3, <1>4, <1>5

LEMMA LockTraced ==
    ASSUME TypeOK, NEW s \in Sched, TakeLock(s) \/ LockTaken(s) \/ Unlock(s), NEW j \in Job, Traced(j)
    PROVE  Traced(j)'
<1> s \in Proc BY DEF Proc
<1>1. lost' = lost /\ status' = status /\ queue' = queue /\ retryQueue' = retryQueue
      /\ early' = early
  BY DEF TakeLock, LockTaken, Unlock, histVars, oddVars, keyVars
<1>2. CASE TakeLock(s)
  <2>1. PICK k \in Job \ lock : Has(s, k) /\ lock' = lock \cup {k} BY <1>2 DEF TakeLock
  <2>2. pc[s] = "lock" /\ pc' = [pc EXCEPT ![s] = "load"] /\ hold' = hold
    BY <1>2 DEF TakeLock, Goto, Move, At
  <2>3. Alone(s) BY <2>2 DEF Alone, TypeOK
  <2>4. Carrying(s, j) => Keeping(s, j)' BY <2>2 DEF Carrying, Keeping, Has, TypeOK
  <2>5. ~Keeping(s, j) /\ ~Leaving(s, j) BY <2>2 DEF Keeping, Leaving, Started
  <2>6. CASE k # j
    <3>1. j \in lock' => j \in lock BY <2>1, <2>6
    <3>2. ~Carrying(s, j) BY <2>1, <2>6 DEF Carrying, Has
    <3> QED BY <1>1, <2>3, <2>5, <3>1, <3>2, MovedTraced DEF InList
  <2>7. CASE k = j
    <3>1. Carrying(s, j) BY <2>1, <2>2, <2>7 DEF Carrying
    <3>2. Keeping(s, j)' BY <2>4, <3>1
    <3>3. Carrying(s, j)' BY <3>2 DEF Keeping, Carrying
    <3> QED BY <3>2, <3>3 DEF Traced
  <2> QED BY <2>6, <2>7
<1>3. CASE LockTaken(s)
  <2>1. /\ pc[s] = "lock" /\ hold[s] \subseteq lock /\ lock' = lock
        /\ pc' = [pc EXCEPT ![s] = "pop"] /\ hold' = [hold EXCEPT ![s] = {}]
    BY <1>3 DEF LockTaken, LetGo, Move, At
  <2>2. Alone(s) BY <2>1 DEF Alone, TypeOK
  <2>3. ~Keeping(s, j) /\ ~Leaving(s, j) BY <2>1 DEF Keeping, Leaving, Started
  <2>4. CASE ~Has(s, j)
    <3>1. ~Carrying(s, j) BY <2>4 DEF Carrying
    <3> QED BY <1>1, <2>1, <2>2, <2>3, <3>1, MovedTraced DEF InList
  <2>5. CASE Has(s, j)
    <3>1. j \in lock BY <2>1, <2>5 DEF Has
    <3>2. \A t \in Sched : /\ Keeping(t, j) => Keeping(t, j)'
                           /\ Leaving(t, j) => Leaving(t, j)'
      BY <2>2, <2>3 DEF Alone, Keeping, Leaving, Has, Proc
    <3>3. \A t \in Sched : Keeping(t, j)' => Carrying(t, j)' BY DEF Keeping, Carrying
    <3> QED BY <1>1, <2>1, <3>1, <3>2, <3>3 DEF Traced, Dropped, Proc
  <2> QED BY <2>4, <2>5
<1>4. CASE Unlock(s)
  <2>1. /\ pc[s] = "unlock" /\ lock' = lock \ hold[s]
        /\ pc' = [pc EXCEPT ![s] = "pop"] /\ hold' = [hold EXCEPT ![s] = {}]
    BY <1>4 DEF Unlock, LetGo, Move, At
  <2>2. Alone(s) BY <2>1 DEF Alone, TypeOK
  <2>3. ~Keeping(s, j) /\ ~Carrying(s, j) BY <2>1 DEF Keeping, Carrying, Started
  <2>4. Leaving(s, j) => j \notin lock' BY <2>1 DEF Leaving, Has
  <2>5. j \in lock' => j \in lock BY <2>1
  <2> QED BY <1>1, <2>2, <2>3, <2>4, <2>5, MovedTraced DEF InList
<1> QED BY <1>2, <1>3, <1>4

LEMMA WorkTraced ==
    ASSUME TypeOK, NEW s \in Sched,
           \/ Load(s) \/ Start(s) \/ TakeQueued(s) \/ CountActive(s) \/ Generate(s)
           \/ FailForGood(s) \/ Complete(s) \/ Except(s) \/ ScheduleRetry(s) \/ LeaveActive(s),
           NEW j \in Job, Traced(j)
    PROVE  Traced(j)'
<1> s \in Proc BY DEF Proc
<1>1. /\ UNCHANGED <<lost, early, lock, queue, hold>>
      /\ retryQueue \subseteq retryQueue'
  BY DEF Load, Start, TakeQueued, CountActive, Generate, FailForGood, Complete, Except,
         ScheduleRetry, LeaveActive, Decrement, Goto, histVars, oddVars
<1>2. \E l \in {"start", "unlock", "take", "untake", "count", "work", "finish", "leave",
                "requeue", "uncount"} : Move(s, l)
  BY DEF Load, Start, TakeQueued, CountActive, Generate, FailForGood, Complete, Except,
         Reschedule, ScheduleRetry, LeaveActive, Decrement, Goto
<1>3. Alone(s) BY <1>1, <1>2 DEF Alone, Move, TypeOK
<1>4. InList(j)' <=> InList(j) BY <1>1 DEF InList
<1>5. CASE Load(s)
  <2>1. PICK k \in Job : /\ Has(s, k) /\ status' = status
                         /\ pc' = [pc EXCEPT ![s] = IF status[k] = "queued" THEN "start" ELSE "unlock"]
    BY <1>5 DEF Load, Move, keyVars
  <2>2. pc[s] = "load" BY <1>5 DEF Load, At
  <2>3. ~Leaving(s, j) BY <2>2 DEF Leaving
  <2>4. Has(s, j) => \/ Keeping(s, j)' \/ (Leaving(s, j)' /\ status'[j] # "queued")
    BY <1>1, <2>1 DEF Keeping, Leaving, Has, TypeOK
  <2>5. Carrying(s, j) => Keeping(s, j) BY <2>2 DEF Carrying, Keeping
  <2>6. Keeping(s, j) => Has(s, j) BY DEF Keeping
  <2> QED BY <1>1, <1>3, <1>4, <2>1, <2>3, <2>4, <2>5, <2>6, MovedTraced
<1>6. CASE Start(s) \/ TakeQueued(s) \/ CountActive(s) \/ Generate(s)
  <2>1. /\ pc[s] \in {"start"} \cup Started /\ \E l \in Started : Move(s, l)
        /\ status'[j] = "queued" => status[j] = "queued"
    BY <1>6 DEF Start, Save, TakeQueued, Decrement, CountActive, Generate, Goto, At, Started,
                keyVars, TypeOK
  <2>2. Has(s, j) <=> Keeping(s, j) BY <2>1 DEF Keeping
  <2>3. ~Leaving(s, j) /\ (Carrying(s, j) => Keeping(s, j))
    BY <2>1 DEF Leaving, Carrying, Keeping, Started
  <2>4. Has(s, j) => Keeping(s, j)' BY <1>1, <2>1 DEF Keeping, Has, Move, TypeOK
  <2> QED BY <1>1, <1>3, <1>4, <2>1, <2>2, <2>3, <2>4, MovedTraced
<1>7. CASE FailForGood(s) \/ Complete(s) \/ Except(s)
  <2>1. PICK k \in Job :
          /\ Has(s, k)
          /\ \/ /\ Save(k, "failed", tried[s]) \/ Save(k, "completed", tried[s])
                   \/ Save(k, "dead", tried[s])
                /\ Move(s, "leave")
             \/ Save(k, "queued", tried[s] + 1) /\ Move(s, "requeue")
    BY <1>7 DEF FailForGood, Complete, Except, Reschedule, Goto
  <2>2. pc[s] \in {"work", "finish"} BY <1>7 DEF FailForGood, Complete, Except, At
  <2>3. ~Leaving(s, j) /\ (Carrying(s, j) => Keeping(s, j))
    BY <2>2 DEF Leaving, Carrying, Keeping, Started
  <2>4. CASE k # j
    <3>1. status'[j] = status[j] BY <2>1, <2>4 DEF Save, TypeOK
    <3>2. ~Has(s, j) BY <2>1, <2>4 DEF Has
    <3>3. ~Keeping(s, j) BY <3>2 DEF Keeping
    <3> QED BY <1>1, <1>3, <1>4, <2>3, <3>1, <3>3, MovedTraced
  <2>5. CASE k = j
    <3>1. Keeping(s, j)' \/ (Leaving(s, j)' /\ status'[j] # "queued")
      BY <1>1, <2>1, <2>5 DEF Keeping, Leaving, Has, Save, Move, TypeOK
    <3>2. status'[j] = "queued" => Keeping(s, j)'
      BY <3>1
    <3> QED BY <1>1, <1>3, <1>4, <2>3, <3>1, <3>2, MovedTraced
  <2> QED BY <2>4, <2>5
<1>8. CASE ScheduleRetry(s) \/ LeaveActive(s)
  <2>1. /\ status' = status /\ pc[s] \in {"requeue", "leave", "uncount"}
        /\ \E l \in {"leave", "uncount", "unlock"} : Move(s, l)
        /\ pc[s] = "requeue" => retryQueue' = retryQueue \cup hold[s]
    BY <1>8 DEF ScheduleRetry, LeaveActive, Decrement, Goto, At, keyVars
  <2>2. Has(s, j) => Leaving(s, j)' BY <1>1, <2>1 DEF Leaving, Has, Move, TypeOK
  <2>3. Keeping(s, j) => j \in retryQueue' BY <2>1 DEF Keeping, Has, Started
  <2>4. Carrying(s, j) => Keeping(s, j) BY <2>1 DEF Keeping, Carrying, Started
  <2>5. Keeping(s, j) \/ Leaving(s, j) => Has(s, j) BY DEF Keeping, Leaving
  <2> QED BY <1>1, <1>3, <1>4, <2>1, <2>2, <2>3, <2>4, <2>5, MovedTraced
<1> QED BY <1>5, <1>6, <1>7, <1>8

LEMMA LockErrorTraced ==
    ASSUME TypeOK, NEW s \in Sched, LockError(s), NEW j \in Job, Traced(j)
    PROVE  Traced(j)'
<1> s \in Proc BY DEF Proc
<1>1. PICK k \in Job :
          /\ Has(s, k)
          /\ \/ Save(k, "queued", retries[k] + 1) /\ retryQueue' = retryQueue \cup {k}
             \/ Save(k, "dead", retries[k]) /\ retryQueue' = retryQueue
          /\ lock' \in {lock, lock \cup {k}}
  BY DEF LockError
<1>2. lost' = IF lock' = lock THEN lost ELSE lost \cup hold[s] BY DEF LockError
<1>3. /\ queue' = queue /\ early' = early /\ pc[s] = "lock"
      /\ pc' = [pc EXCEPT ![s] = "pop"] /\ hold' = [hold EXCEPT ![s] = {}]
  BY DEF LockError, LetGo, At, Move, oddVars
<1>4. Alone(s) BY <1>3 DEF Alone, TypeOK
<1>5. ~Keeping(s, j) /\ ~Leaving(s, j) BY <1>3 DEF Keeping, Leaving, Started
<1>6. CASE k # j
  <2>1. status'[j] = status[j] /\ (j \in lock' => j \in lock)
    BY <1>1, <1>6 DEF Save, TypeOK
  <2>2. ~Carrying(s, j) BY <1>1, <1>6 DEF Carrying, Has
  <2> QED BY <1>1, <1>2, <1>3, <1>4, <1>5, <2>1, <2>2, MovedTraced DEF InList
<1>7. CASE k = j
  <2>1. status'[j] = "queued" => j \in retryQueue' BY <1>1, <1>7 DEF Save, TypeOK
  <2>2. j \in lock' => j \in lost' \/ j \in lock BY <1>1, <1>2, <1>7 DEF Has
  <2>3. \A t \in Sched : /\ Keeping(t, j) => Keeping(t, j)'
                         /\ Leaving(t, j) => Leaving(t, j)'
    BY <1>4, <1>5 DEF Alone, Keeping, Leaving, Has, Proc
  <2>4. lost \subseteq lost' BY <1>2
  <2> QED BY <2>1, <2>2, <2>3, <2>4 DEF Traced
<1> QED BY <1>6, <1>7

LEMMA FaultTraced ==
    ASSUME TypeOK, NEW p \in Proc, Fault(p), NEW j \in Job, Traced(j)
    PROVE  Traced(j)'
<1>1. CASE p \in Sched /\ LockError(p) BY <1>1, LockErrorTraced
<1>2. CASE ~(p \in Sched /\ LockError(p))
  <2>1. /\ UNCHANGED <<status, lock, retryQueue, queue, early>> /\ lost \subseteq lost'
    BY <1>2 DEF Fault, Crash, CounterFails, EnqueueFails, PushDueFails, PopFails,
       LoadFails, SaveFails, RetryFails, UnlockFails, keyVars, oddVars, Lose
  <2>2. \E l \in {"idle", "save", "pop", "move", "count", "work", "take", "unlock", "leave",
                  "requeue"} : Move(p, l)
    BY <1>2 DEF Fault, Crash, CounterFails, EnqueueFails, PushDueFails, PopFails,
       LoadFails, SaveFails, RetryFails, UnlockFails, Goto, LetGo
  <2>3. hold' = hold \/ hold' = [hold EXCEPT ![p] = {}]
    BY <1>2 DEF Fault, Crash, CounterFails, EnqueueFails, PushDueFails, PopFails,
       LoadFails, SaveFails, RetryFails, UnlockFails, Goto, LetGo
  <2>4. Alone(p) BY <2>2, <2>3 DEF Alone, Move, TypeOK
  <2>5. InList(j)' <=> InList(j) BY <2>1 DEF InList
  <2>6. CASE CounterFails(p)
    <3>1. /\ hold' = hold
          /\ \/ pc[p] \in {"idle", "record"}
             \/ pc[p] \in Started /\ \E l \in Started : Move(p, l)
             \/ pc[p] \in {"leave", "uncount"} /\ Move(p, "unlock")
      BY <2>6 DEF CounterFails, Goto, At, Started
    <3>2. Carrying(p, j) => Keeping(p, j)
      BY <3>1 DEF Carrying, Keeping, Started
    <3>3. Keeping(p, j) => Keeping(p, j)'
      BY <3>1 DEF Keeping, Has, Move, Started, TypeOK
    <3>4. Leaving(p, j) => Leaving(p, j)'
      BY <3>1 DEF Leaving, Has, Move, Started, TypeOK
    <3> QED BY <2>1, <2>4, <2>5, <3>2, <3>3, <3>4, MovedTraced
  <2>7. CASE lost' = lost \cup hold[p]
    <3>1. Carrying(p, j) \/ Keeping(p, j) \/ Leaving(p, j) => j \in lost'
      BY <2>7 DEF Carrying, Keeping, Leaving, Has
    <3> QED BY <2>1, <2>4, <2>5, <3>1, MovedTraced
  <2>8. CASE PopFails(p)
    <3>1. pc[p] = "pop" BY <2>8 DEF PopFails, At
    <3>2. ~Carrying(p, j) /\ ~Keeping(p, j) /\ ~Leaving(p, j)
      BY <3>1 DEF Carrying, Keeping, Leaving, Started
    <3> QED BY <2>1, <2>4, <2>5, <3>2, MovedTraced
  <2> QED BY <1>2, <2>6, <2>7, <2>8 DEF Fault, Crash, EnqueueFails, PushDueFails,
       LoadFails, SaveFails, RetryFails, UnlockFails, Lose
<1> QED BY <1>1, <1>2

LEMMA TimeTraced ==
    ASSUME TypeOK, (\E k \in Job : LockExpires(k)) \/ HourPasses \/ UNCHANGED vars,
           NEW j \in Job, Traced(j)
    PROVE  Traced(j)'
<1>1. UNCHANGED <<queue, retryQueue, pc, hold, lost, early>> /\ lock' \subseteq lock
  BY DEF LockExpires, HourPasses, vars, locVars, histVars, oddVars
<1>2. status'[j] = "queued" => status[j] = "queued"
  BY DEF LockExpires, HourPasses, vars, keyVars
<1> QED BY <1>1, <1>2 DEF Traced, InList, Dropped, Carrying, Keeping, Leaving, Has

LEMMA FreshRequest ==
    ASSUME TypeOK, NEW r \in Request, Admit(r) \/ RequestStep(r), NEW j \in Job, Fresh(j)
    PROVE  Fresh(j)'
<1> r \in Proc BY DEF Proc
<1>1. UNCHANGED <<lock, retryQueue, due>>
  BY DEF Admit, RequestStep, SaveNew, Enqueue, RecordQueued, Goto
<1>2. CASE Admit(r) \/ RecordQueued(r)
  BY <1>1, <1>2 DEF Admit, RecordQueued, Goto, keyVars, Fresh, InList
<1>3. CASE SaveNew(r)
  <2>1. PICK k \in Job : Save(k, "queued", 0) /\ hold' = [hold EXCEPT ![r] = {k}]
    BY <1>3 DEF SaveNew
  <2>2. queue' = queue BY <1>3 DEF SaveNew
  <2>3. CASE k = j BY <2>1, <2>3 DEF Save, TypeOK, Fresh
  <2>4. CASE k # j
    <3>1. status'[j] = status[j] BY <2>1, <2>4 DEF Save, TypeOK
    <3>2. \A p \in Proc : j \in hold'[p] => j \in hold[p] BY <2>1, <2>4 DEF TypeOK
    <3> QED BY <1>1, <2>2, <3>1, <3>2 DEF Fresh, InList
  <2> QED BY <2>3, <2>4
<1>4. CASE Enqueue(r)
  <2>1. PICK k \in Job : Has(r, k) /\ Push(k) BY <1>4 DEF Enqueue
  <2>2. status' = status /\ hold' = [hold EXCEPT ![r] = {}] BY <1>4 DEF Enqueue, keyVars
  <2>3. InList(j)' => InList(j) \/ Has(r, j) BY <2>1, PushLists
  <2>4. \A p \in Proc : j \in hold'[p] => j \in hold[p] BY <2>2 DEF TypeOK
  <2> QED BY <1>1, <2>2, <2>3, <2>4 DEF Fresh, Has
<1> QED BY <1>2, <1>3, <1>4 DEF RequestStep

LEMMA FreshSched ==
    ASSUME TypeOK, NEW s \in Sched, SchedStep(s), NEW j \in Job, Fresh(j)
    PROVE  Fresh(j)'
<1> s \in Proc BY DEF Proc
<1> SUFFICES ASSUME status'[j] = "none" PROVE Fresh(j)' BY DEF Fresh
<1>1. status[j] = "none"
  BY DEF SchedStep, ReadDue, RemoveDue, PushDue, Pop, EndPass, TakeLock, LockTaken, Load,
     Start, TakeQueued, LeaveActive, Decrement, CountActive, FailForGood, Generate, Complete,
     Except, Reschedule, ScheduleRetry, Unlock, keyVars, Save, TypeOK
<1>2. /\ ~InList(j) /\ j \notin retryQueue \cup lock
      /\ \A t \in Sched : j \notin due[t]
      /\ \A p \in Proc : j \notin hold[p]
  BY <1>1 DEF Fresh
<1>3. \A p \in Proc : j \notin hold'[p]
  <2>1. CASE RemoveDue(s)
    <3>1. PICK k \in due[s] : hold' = [hold EXCEPT ![s] = {k}] BY <2>1 DEF RemoveDue
    <3>2. k # j BY <1>2
    <3> QED BY <1>2, <3>1, <3>2 DEF TypeOK
  <2>2. CASE Pop(s)
    <3>1. Head(queue) # j BY <1>2, <2>2, PopLists DEF Pop
    <3> QED BY <1>2, <2>2, <3>1 DEF Pop, TypeOK
  <2>3. CASE ~(RemoveDue(s) \/ Pop(s))
    <3>1. hold' = hold \/ hold' = [hold EXCEPT ![s] = {}]
      BY <2>3 DEF SchedStep, ReadDue, PushDue, EndPass, TakeLock, LockTaken, Load, Start,
         TakeQueued, LeaveActive, Decrement, CountActive, FailForGood, Generate, Complete,
         Except, ScheduleRetry, Unlock, Goto, LetGo
    <3> QED BY <1>2, <3>1 DEF TypeOK
  <2> QED BY <2>1, <2>2, <2>3
<1>4. \A t \in Sched : j \notin due'[t]
  <2>1. CASE ReadDue(s)
    <3>1. PICK D \in SUBSET MayBeDue : due' = [due EXCEPT ![s] = D] BY <2>1 DEF ReadDue
    <3>2. j \notin D BY <1>2 DEF MayBeDue
    <3> QED BY <1>2, <3>1, <3>2 DEF TypeOK
  <2>2. CASE RemoveDue(s)
    <3>1. PICK k \in due[s] : due' = [due EXCEPT ![s] = @ \ {k}] BY <2>2 DEF RemoveDue
    <3> QED BY <1>2, <3>1 DEF TypeOK
  <2>3. CASE ~(ReadDue(s) \/ RemoveDue(s))
    <3>1. due' = due
      BY <2>3 DEF SchedStep, PushDue, Pop, EndPass, TakeLock, LockTaken, Load, Start,
         TakeQueued, LeaveActive, Decrement, CountActive, FailForGood, Generate, Complete,
         Except, ScheduleRetry, Unlock, Goto, LetGo
    <3> QED BY <1>2, <3>1
  <2> QED BY <2>1, <2>2, <2>3
<1>5. j \notin retryQueue' \cup lock'
  <2>1. retryQueue' \subseteq retryQueue \cup hold[s]
    BY DEF SchedStep, ReadDue, RemoveDue, PushDue, Pop, EndPass, TakeLock, LockTaken, Load,
       Start, TakeQueued, LeaveActive, Decrement, CountActive, FailForGood, Generate, Complete,
       Except, ScheduleRetry, Unlock
  <2>2. lock' \subseteq lock \cup hold[s]
    BY DEF SchedStep, ReadDue, RemoveDue, PushDue, Pop, EndPass, TakeLock, LockTaken, Load,
       Start, TakeQueued, LeaveActive, Decrement, CountActive, FailForGood, Generate, Complete,
       Except, ScheduleRetry, Unlock, Has
  <2> QED BY <1>2, <2>1, <2>2
<1>6. ~InList(j)'
  <2>1. CASE PushDue(s)
    <3>1. PICK k \in Job : Has(s, k) /\ Push(k) BY <2>1 DEF PushDue
    <3>2. k # j BY <1>2, <3>1 DEF Has
    <3> QED BY <1>2, <3>1, <3>2, PushLists
  <2>2. CASE Pop(s) BY <1>2, <2>2, PopLists DEF Pop
  <2>3. CASE ~(PushDue(s) \/ Pop(s))
    <3>1. queue' = queue
      BY <2>3 DEF SchedStep, ReadDue, RemoveDue, EndPass, TakeLock, LockTaken, Load, Start,
         TakeQueued, LeaveActive, Decrement, CountActive, FailForGood, Generate, Complete,
         Except, ScheduleRetry, Unlock
    <3> QED BY <1>2, <3>1 DEF InList
  <2> QED BY <2>1, <2>2, <2>3
<1> QED BY <1>3, <1>4, <1>5, <1>6 DEF Fresh

LEMMA FreshOther ==
    ASSUME TypeOK, NEW j \in Job, Fresh(j),
           \/ \E p \in Proc : Fault(p)
           \/ (\E k \in Job : LockExpires(k)) \/ HourPasses \/ UNCHANGED vars
    PROVE  Fresh(j)'
<1> SUFFICES ASSUME status'[j] = "none" PROVE Fresh(j)' BY DEF Fresh
<1>1. ASSUME NEW p \in Proc, Fault(p)
      PROVE  /\ status[j] = "none" /\ queue' = queue
             /\ retryQueue' \subseteq retryQueue \cup hold[p] /\ lock' \subseteq lock \cup hold[p]
             /\ \A t \in Sched : due'[t] \subseteq due[t]
             /\ \A q \in Proc : hold'[q] \subseteq hold[q]
  <2>1. CASE p \in Sched /\ LockError(p)
    BY <2>1 DEF LockError, Save, LetGo, Has, TypeOK
  <2>2. CASE ~(p \in Sched /\ LockError(p))
    BY <1>1, <2>2 DEF Fault, Crash, CounterFails, EnqueueFails, PushDueFails, PopFails,
       LoadFails, SaveFails, RetryFails, UnlockFails, keyVars, Goto, LetGo, TypeOK
  <2> QED BY <2>1, <2>2
<1>2. ASSUME (\E k \in Job : LockExpires(k)) \/ HourPasses \/ UNCHANGED vars
      PROVE  /\ status[j] = "none" /\ UNCHANGED <<queue, retryQueue, due, hold>>
             /\ lock' \subseteq lock
  BY <1>2 DEF LockExpires, HourPasses, vars, keyVars, locVars
<1> QED BY <1>1, <1>2 DEF Fresh, InList

LEMMA TraceInit == Init => TraceInv
<1> SUFFICES ASSUME Init PROVE TraceInv OBVIOUS
<1>1. TypeOK BY TypeInit
<1>2. \A j \in Job : Fresh(j) /\ Traced(j)
  BY DEF Init, Fresh, Traced, InList, Proc
<1> QED BY <1>1, <1>2 DEF TraceInv, Init, HoldsOne

LEMMA TraceNext == TraceInv /\ [Next]_vars => TraceInv'
<1> SUFFICES ASSUME TraceInv, [Next]_vars PROVE TraceInv' OBVIOUS
<1>1. TypeOK /\ HoldsOne BY DEF TraceInv
<1>2. TypeOK' /\ HoldsOne' BY <1>1, TypeNext, HoldsOneNext
<1>3. ASSUME NEW j \in Job PROVE Fresh(j)' /\ Traced(j)'
  <2>1. Fresh(j) /\ Traced(j) BY DEF TraceInv
  <2>2. ASSUME NEW s \in Sched, SchedStep(s) PROVE Fresh(j)' /\ Traced(j)'
    BY <1>1, <2>1, <2>2, FreshSched, ListsTraced, LockTraced, WorkTraced DEF SchedStep
  <2>3. ASSUME NEW r \in Request, Admit(r) \/ RequestStep(r) PROVE Fresh(j)' /\ Traced(j)'
    BY <1>1, <2>1, <2>3, FreshRequest, RequestTraced
  <2>4. ASSUME NEW p \in Proc, Fault(p) PROVE Fresh(j)' /\ Traced(j)'
    BY <1>1, <2>1, <2>4, FreshOther, FaultTraced
  <2>5. ASSUME (\E k \in Job : LockExpires(k)) \/ HourPasses \/ UNCHANGED vars
        PROVE  Fresh(j)' /\ Traced(j)'
    BY <1>1, <2>1, <2>5, FreshOther, TimeTraced
  <2> QED BY <2>2, <2>3, <2>4, <2>5 DEF Next
<1> QED BY <1>2, <1>3 DEF TraceInv

\* A queued job is never out of reach without a fault: it is in the list, in the
\* retry queue or in the hands of a process, or a crash or a failed call dropped it, or
\* a second scheduler removed its retry before the worker that added it let go.
THEOREM QueuedIsFound == Spec => []QueuedIsSomewhere
<1>1. TraceInv => QueuedIsSomewhere
  BY DEF TraceInv, Traced, Dropped, InList, Carrying, QueuedIsSomewhere
<1> QED BY <1>1, TraceInit, TraceNext, PTL DEF Spec

-----------------------------------------------------------------------------
(* With one scheduler: the leader lock of the scheduler holds              *)

SingleScheduler == \A s, t \in Sched : s = t

\* A status that only an end of the job's work gives, or that it has before it is saved.
Decided == {"none", "completed", "failed", "dead"}

InListOnce(j) == \A i, k \in DOMAIN queue : queue[i] = j /\ queue[k] = j => i = k

\* An undecided job has one copy at most, in the list, in the retry queue or in a hand;
\* a decided job has none.
SingleCopy(j) ==
    /\ InListOnce(j)
    /\ InList(j) => j \notin retryQueue
    /\ \A p \in Proc : Carrying(p, j) => ~InList(j) /\ j \notin retryQueue
    /\ \A p, q \in Proc : Carrying(p, j) /\ Carrying(q, j) => p = q
    /\ status[j] \in Decided => /\ ~InList(j) /\ j \notin retryQueue
                                /\ \A p \in Proc : ~Carrying(p, j)

DueThere == \A s \in Sched : due[s] \subseteq retryQueue

\* Process p moves and takes no copy, or gives one up.
LEMMA QuietSingle ==
    ASSUME TypeOK, NEW p \in Proc, NEW j \in Job, SingleCopy(j), Alone(p), queue' = queue,
           j \in retryQueue' => j \in retryQueue,
           Carrying(p, j)' => Carrying(p, j),
           status'[j] \in Decided =>
               status[j] \in Decided \/ (Carrying(p, j) /\ ~Carrying(p, j)')
    PROVE  SingleCopy(j)'
<1>1. \A q \in Proc : q # p => (Carrying(q, j)' <=> Carrying(q, j))
  BY DEF Alone, Carrying, Has
<1>2. (InList(j)' <=> InList(j)) /\ (InListOnce(j)' <=> InListOnce(j))
  BY DEF InList, InListOnce
<1>3. \A q \in Proc : Carrying(q, j)' => Carrying(q, j) BY <1>1
<1>4. ASSUME status'[j] \in Decided
      PROVE  ~InList(j)' /\ j \notin retryQueue' /\ \A q \in Proc : ~Carrying(q, j)'
  <2>1. CASE status[j] \in Decided BY <1>2, <1>3, <2>1 DEF SingleCopy
  <2>2. CASE Carrying(p, j) /\ ~Carrying(p, j)'
    BY <1>1, <1>2, <2>2 DEF SingleCopy
  <2> QED BY <1>4, <2>1, <2>2
<1> QED BY <1>2, <1>3, <1>4 DEF SingleCopy

\* A copy goes from the hand of p to the end of the list, or from its head to the hand.
LEMMA PushOnce ==
    ASSUME TypeOK, NEW p, NEW k \in Job, Has(p, k), Push(k), NEW j \in Job, InListOnce(j),
           k = j => ~InList(j)
    PROVE  InListOnce(j)'
<1>1. queue \in Seq(Job) /\ queue' = Append(queue, k) BY DEF TypeOK, Push
<1>2. /\ Len(queue) \in Nat /\ Len(queue') = Len(queue) + 1
      /\ DOMAIN queue = 1..Len(queue) /\ DOMAIN queue' = 1..Len(queue')
      /\ \A i \in DOMAIN queue : queue'[i] = queue[i]
      /\ queue'[Len(queue) + 1] = k
  BY <1>1
<1>3. DOMAIN queue' = DOMAIN queue \cup {Len(queue) + 1} BY <1>2
<1> QED BY <1>2, <1>3 DEF InListOnce, InList

LEMMA PopOnce ==
    ASSUME TypeOK, queue # <<>>, queue' = Tail(queue), NEW j \in Job, InListOnce(j)
    PROVE  InListOnce(j)' /\ (Head(queue) = j => ~InList(j)')
<1>1. queue \in Seq(Job) BY DEF TypeOK
<1>2. /\ Len(queue) \in Nat /\ Len(queue) > 0 /\ Len(queue') = Len(queue) - 1
      /\ DOMAIN queue = 1..Len(queue) /\ DOMAIN queue' = 1..Len(queue')
      /\ Head(queue) = queue[1]
      /\ \A i \in DOMAIN queue' : queue'[i] = queue[i + 1]
  BY <1>1
<1>3. \A i \in DOMAIN queue' : i \in Nat /\ i + 1 \in DOMAIN queue /\ i + 1 # 1 BY <1>2
<1>4. ASSUME NEW i \in DOMAIN queue', NEW k \in DOMAIN queue', queue'[i] = j, queue'[k] = j
      PROVE  i = k
  <2>1. i + 1 = k + 1 BY <1>2, <1>3, <1>4 DEF InListOnce
  <2> QED BY <1>3, <2>1
<1>5. ASSUME Head(queue) = j, NEW i \in DOMAIN queue', queue'[i] = j
      PROVE  FALSE
  <2>1. 1 \in DOMAIN queue BY <1>2
  <2> QED BY <1>2, <1>3, <1>5, <2>1 DEF InListOnce
<1> QED BY <1>4, <1>5 DEF InListOnce, InList

LEMMA HandToList ==
    ASSUME TypeOK, NEW p \in Proc, NEW k \in Job, Has(p, k), Push(k), Alone(p),
           pc[p] \in {"enqueue", "push"}, hold'[p] = {},
           UNCHANGED <<status, retryQueue>>, NEW j \in Job, SingleCopy(j)
    PROVE  SingleCopy(j)'
<1>1. \A q \in Proc : q # p => (Carrying(q, j)' <=> Carrying(q, j))
  BY DEF Alone, Carrying, Has
<1>2. ~Carrying(p, j)' BY DEF Carrying, Has
<1>3. Carrying(p, j) <=> k = j BY DEF Carrying, Has
<1>4. InList(j)' <=> InList(j) \/ k = j BY PushLists
<1>5. InListOnce(j)' BY <1>3, PushOnce DEF SingleCopy
<1> QED BY <1>1, <1>2, <1>3, <1>4, <1>5 DEF SingleCopy

LEMMA ListToHand ==
    ASSUME TypeOK, NEW s \in Sched, Pop(s), NEW j \in Job, SingleCopy(j)
    PROVE  SingleCopy(j)'
<1> s \in Proc BY DEF Proc
<1>1. /\ pc[s] = "pop" /\ pc' = [pc EXCEPT ![s] = "lock"] /\ UNCHANGED <<status, retryQueue>>
      /\ queue # <<>> /\ queue' = Tail(queue)
      /\ hold' = [hold EXCEPT ![s] = {Head(queue)}]
  BY DEF Pop, At, Move, keyVars
<1>2. \A q \in Proc : q # s => (Carrying(q, j)' <=> Carrying(q, j))
  BY <1>1 DEF Carrying, Has, TypeOK
<1>3. ~Carrying(s, j) BY <1>1 DEF Carrying, Started
<1>4. Carrying(s, j)' <=> Head(queue) = j BY <1>1 DEF Carrying, Has, TypeOK
<1>5. InList(j) <=> InList(j)' \/ Head(queue) = j BY <1>1, PopLists
<1>6. InListOnce(j)' /\ (Head(queue) = j => ~InList(j)') BY <1>1, PopOnce DEF SingleCopy
<1> QED BY <1>1, <1>2, <1>3, <1>4, <1>5, <1>6 DEF SingleCopy

\* A copy goes from the retry queue to the hand of s, where it is due, or back.
LEMMA RetryToHand ==
    ASSUME TypeOK, DueThere, NEW s \in Sched, RemoveDue(s), NEW j \in Job, SingleCopy(j)
    PROVE  SingleCopy(j)'
<1> s \in Proc BY DEF Proc
<1>1. PICK k \in due[s] :
          retryQueue' = retryQueue \ {k} /\ hold' = [hold EXCEPT ![s] = {k}]
  BY DEF RemoveDue
<1>2. /\ pc[s] = "move" /\ pc' = [pc EXCEPT ![s] = "push"] /\ UNCHANGED <<status, queue>>
  BY DEF RemoveDue, At, Move, keyVars
<1>3. k \in retryQueue BY <1>1 DEF DueThere
<1>4. \A q \in Proc : q # s => (Carrying(q, j)' <=> Carrying(q, j))
  BY <1>1, <1>2 DEF Carrying, Has, TypeOK
<1>5. ~Carrying(s, j) BY <1>2 DEF Carrying, Started
<1>6. Carrying(s, j)' <=> k = j BY <1>1, <1>2 DEF Carrying, Has, TypeOK
<1>7. (InList(j)' <=> InList(j)) /\ (InListOnce(j)' <=> InListOnce(j))
  BY <1>2 DEF InList, InListOnce
<1> QED BY <1>1, <1>2, <1>3, <1>4, <1>5, <1>6, <1>7 DEF SingleCopy

LEMMA HandToRetry ==
    ASSUME TypeOK, NEW s \in Sched, NEW k \in Job, Carrying(s, k), Alone(s), queue' = queue,
           retryQueue' = retryQueue \cup {k}, ~Carrying(s, k)', hold'[s] \in {{}, {k}},
           NEW j \in Job, SingleCopy(j),
           status'[j] \in Decided => (k # j /\ status[j] \in Decided) \/ status' = status
    PROVE  SingleCopy(j)'
<1> s \in Proc BY DEF Proc
<1>1. \A q \in Proc : q # s => (Carrying(q, j)' <=> Carrying(q, j))
  BY DEF Alone, Carrying, Has
<1>2. ~Carrying(s, j)' BY DEF Carrying, Has
<1>3. Carrying(s, j) <=> k = j BY DEF Carrying, Has
<1>4. (InList(j)' <=> InList(j)) /\ (InListOnce(j)' <=> InListOnce(j))
  BY DEF InList, InListOnce
<1> QED BY <1>1, <1>2, <1>3, <1>4 DEF SingleCopy

LEMMA RequestSingle ==
    ASSUME TypeOK, NEW r \in Request, Admit(r) \/ RequestStep(r), NEW j \in Job, SingleCopy(j)
    PROVE  SingleCopy(j)'
<1> r \in Proc BY DEF Proc
<1>1. retryQueue' = retryQueue BY DEF Admit, RequestStep, SaveNew, Enqueue, RecordQueued
<1>2. CASE Admit(r) \/ RecordQueued(r)
  <2>1. UNCHANGED <<status, queue, hold>> /\ \E l \in {"save", "idle"} : Move(r, l)
    BY <1>2 DEF Admit, RecordQueued, Goto, keyVars
  <2>2. Alone(r) BY <2>1 DEF Alone, Move, TypeOK
  <2>3. ~Carrying(r, j)' BY <2>1 DEF Carrying, Move, TypeOK, Started
  <2> QED BY <1>1, <2>1, <2>2, <2>3, QuietSingle
<1>3. CASE SaveNew(r)
  <2>1. PICK k \in Job : /\ status[k] = "none" /\ Save(k, "queued", 0)
                         /\ hold' = [hold EXCEPT ![r] = {k}]
    BY <1>3 DEF SaveNew
  <2>2. queue' = queue /\ pc[r] = "save" /\ pc' = [pc EXCEPT ![r] = "enqueue"]
    BY <1>3 DEF SaveNew, At, Move
  <2>3. Alone(r) BY <2>1, <2>2 DEF Alone, TypeOK
  <2>4. Carrying(r, j)' <=> k = j BY <2>1, <2>2 DEF Carrying, Has, TypeOK
  <2>5. CASE k # j
    <3>1. status'[j] = status[j] BY <2>1, <2>5 DEF Save, TypeOK
    <3> QED BY <1>1, <2>2, <2>3, <2>4, <2>5, <3>1, QuietSingle
  <2>6. CASE k = j
    <3>1. ~InList(j) /\ j \notin retryQueue /\ \A p \in Proc : ~Carrying(p, j)
      BY <2>1, <2>6 DEF SingleCopy, Decided
    <3>2. \A q \in Proc : Carrying(q, j)' => q = r
      BY <2>3, <3>1 DEF Alone, Carrying, Has
    <3>3. status'[j] = "queued" BY <2>1, <2>6 DEF Save, TypeOK
    <3> QED BY <1>1, <2>2, <3>1, <3>2, <3>3 DEF SingleCopy, InList, InListOnce, Decided
  <2> QED BY <2>5, <2>6
<1>4. CASE Enqueue(r)
  <2>1. PICK k \in Job : Has(r, k) /\ Push(k) BY <1>4 DEF Enqueue
  <2>2. /\ status' = status /\ pc[r] = "enqueue" /\ pc' = [pc EXCEPT ![r] = "record"]
        /\ hold' = [hold EXCEPT ![r] = {}]
    BY <1>4 DEF Enqueue, At, Move, keyVars
  <2>3. Alone(r) /\ hold'[r] = {} BY <2>2 DEF Alone, TypeOK
  <2> QED BY <1>1, <2>1, <2>2, <2>3, HandToList
<1> QED BY <1>2, <1>3, <1>4 DEF RequestStep

LEMMA ListsSingle ==
    ASSUME TypeOK, DueThere, NEW s \in Sched,
           ReadDue(s) \/ RemoveDue(s) \/ PushDue(s) \/ Pop(s) \/ EndPass(s),
           NEW j \in Job, SingleCopy(j)
    PROVE  SingleCopy(j)'
<1> s \in Proc BY DEF Proc
<1>1. CASE ReadDue(s) \/ EndPass(s)
  <2>1. /\ UNCHANGED <<status, queue, retryQueue, hold>>
        /\ \E l \in {"pop", "move", "idle"} : Move(s, l)
    BY <1>1 DEF ReadDue, EndPass, keyVars
  <2>2. Alone(s) BY <2>1 DEF Alone, Move, TypeOK
  <2>3. ~Carrying(s, j)' BY <2>1 DEF Carrying, Move, TypeOK, Started
  <2> QED BY <2>1, <2>2, <2>3, QuietSingle
<1>2. CASE PushDue(s)
  <2>1. PICK k \in Job : Has(s, k) /\ Push(k) BY <1>2 DEF PushDue
  <2>2. /\ pc[s] = "push" /\ UNCHANGED <<status, retryQueue>>
        /\ \E l \in {"pop", "move"} : Move(s, l)
        /\ hold' = [hold EXCEPT ![s] = {}]
    BY <1>2 DEF PushDue, At, keyVars
  <2>3. Alone(s) /\ hold'[s] = {} BY <2>2 DEF Alone, Move, TypeOK
  <2> QED BY <2>1, <2>2, <2>3, HandToList
<1> QED BY <1>1, <1>2, RetryToHand, ListToHand

LEMMA WorkSingle ==
    ASSUME TypeOK, HoldsOne, NEW s \in Sched,
           \/ TakeLock(s) \/ LockTaken(s) \/ Load(s) \/ Start(s) \/ TakeQueued(s) \/ CountActive(s)
           \/ Generate(s) \/ FailForGood(s) \/ Complete(s) \/ Except(s) \/ ScheduleRetry(s)
           \/ LeaveActive(s) \/ Unlock(s),
           NEW j \in Job, SingleCopy(j)
    PROVE  SingleCopy(j)'
<1> s \in Proc BY DEF Proc
<1>1. queue' = queue
  BY DEF TakeLock, LockTaken, Load, Start, TakeQueued, LeaveActive, Decrement, CountActive,
         FailForGood, Generate, Complete, Except, ScheduleRetry, Unlock
<1>2. \E l \in {"load", "pop", "start", "unlock", "take", "untake", "count", "work", "finish",
                "leave", "requeue", "uncount"} : Move(s, l)
  BY DEF TakeLock, LockTaken, Load, Start, TakeQueued, LeaveActive, Decrement, CountActive,
         FailForGood, Generate, Complete, Except, Reschedule, ScheduleRetry, Unlock, Goto, LetGo
<1>3. hold' = hold \/ hold' = [hold EXCEPT ![s] = {}]
  BY DEF TakeLock, LockTaken, Load, Start, TakeQueued, LeaveActive, Decrement, CountActive,
         FailForGood, Generate, Complete, Except, ScheduleRetry, Unlock, Goto, LetGo
<1>4. Alone(s) BY <1>2, <1>3 DEF Alone, Move, TypeOK
<1>5. Has(s, j)' => Has(s, j) BY <1>3 DEF Has, TypeOK
<1>6. CASE LockTaken(s) \/ Unlock(s) \/ LeaveActive(s)
  <2>1. /\ UNCHANGED <<status, retryQueue>>
        /\ \E l \in {"pop", "uncount", "unlock"} : Move(s, l)
    BY <1>6 DEF LockTaken, Unlock, LeaveActive, Decrement, Goto, LetGo, keyVars
  <2>2. ~Carrying(s, j)' BY <2>1 DEF Carrying, Move, TypeOK, Started
  <2> QED BY <1>1, <1>4, <2>1, <2>2, QuietSingle
<1>7. CASE TakeLock(s) \/ Load(s) \/ Start(s) \/ TakeQueued(s) \/ CountActive(s) \/ Generate(s)
  <2>1. /\ pc[s] \in {"lock", "load", "start"} \cup Started /\ retryQueue' = retryQueue
        /\ status'[j] \in Decided => status[j] \in Decided
    BY <1>7 DEF TakeLock, Load, Start, Save, TakeQueued, Decrement, CountActive, Generate, At,
                Started, keyVars, TypeOK, Decided
  <2>2. Has(s, j) => Carrying(s, j) BY <2>1 DEF Carrying
  <2>3. Carrying(s, j)' => Carrying(s, j) BY <1>5, <2>2 DEF Carrying
  <2> QED BY <1>1, <1>4, <2>1, <2>3, QuietSingle
<1>8. CASE FailForGood(s) \/ Complete(s) \/ Except(s)
  <2>1. PICK k \in Job :
          /\ Has(s, k)
          /\ \/ /\ Save(k, "failed", tried[s]) \/ Save(k, "completed", tried[s])
                   \/ Save(k, "dead", tried[s])
                /\ Move(s, "leave")
             \/ Save(k, "queued", tried[s] + 1) /\ Move(s, "requeue")
    BY <1>8 DEF FailForGood, Complete, Except, Reschedule, Goto
  <2>2. pc[s] \in {"work", "finish"} /\ retryQueue' = retryQueue
    BY <1>8 DEF FailForGood, Complete, Except, At
  <2>3. Carrying(s, j)' => Carrying(s, j) BY <1>5, <2>2 DEF Carrying, Started
  <2>4. CASE k # j
    <3>1. status'[j] = status[j] BY <2>1, <2>4 DEF Save, TypeOK
    <3> QED BY <1>1, <1>4, <2>2, <2>3, <3>1, QuietSingle
  <2>5. CASE k = j
    <3>1. Carrying(s, j) BY <2>1, <2>2, <2>5 DEF Carrying, Started
    <3>2. status'[j] \in Decided => ~Carrying(s, j)'
      BY <2>1, <2>5 DEF Carrying, Save, Move, TypeOK, Decided, Started
    <3> QED BY <1>1, <1>4, <2>2, <2>3, <3>1, <3>2, QuietSingle
  <2> QED BY <2>4, <2>5
<1>9. CASE ScheduleRetry(s)
  <2>1. /\ retryQueue' = retryQueue \cup hold[s] /\ UNCHANGED <<status, hold>>
        /\ pc[s] = "requeue" /\ pc' = [pc EXCEPT ![s] = "leave"]
    BY <1>9 DEF ScheduleRetry, Goto, Move, At, keyVars
  <2>2. \A k : ~Carrying(s, k)' BY <2>1 DEF Carrying, Started, TypeOK
  <2>3. CASE \E k \in Job : Has(s, k)
    <3>1. PICK k \in Job : Has(s, k) BY <2>3
    <3>2. Carrying(s, k) /\ hold'[s] = {k} /\ retryQueue' = retryQueue \cup {k}
      BY <2>1, <3>1 DEF Carrying, Has
    <3> QED BY <1>1, <1>4, <2>1, <2>2, <3>2, HandToRetry
  <2>4. CASE j \notin hold[s]
    <3>1. j \in retryQueue' => j \in retryQueue BY <2>1, <2>4
    <3> QED BY <1>1, <1>4, <2>1, <2>2, <3>1, QuietSingle
  <2>5. (\E k \in Job : Has(s, k)) \/ j \notin hold[s]
    BY DEF HoldsOne
  <2> QED BY <2>3, <2>4, <2>5
<1> QED BY <1>6, <1>7, <1>8, <1>9

LEMMA LockErrorSingle ==
    ASSUME TypeOK, NEW s \in Sched, LockError(s), NEW j \in Job, SingleCopy(j)
    PROVE  SingleCopy(j)'
<1> s \in Proc BY DEF Proc
<1>1. PICK k \in Job :
          /\ Has(s, k)
          /\ \/ Save(k, "queued", retries[k] + 1) /\ retryQueue' = retryQueue \cup {k}
             \/ Save(k, "dead", retries[k]) /\ retryQueue' = retryQueue
  BY DEF LockError
<1>2. /\ queue' = queue /\ pc[s] = "lock"
      /\ pc' = [pc EXCEPT ![s] = "pop"] /\ hold' = [hold EXCEPT ![s] = {}]
  BY DEF LockError, LetGo, At, Move
<1>3. Alone(s) /\ hold'[s] = {} BY <1>2 DEF Alone, TypeOK
<1>4. ~Carrying(s, k)' /\ ~Carrying(s, j)' BY <1>3 DEF Carrying, Has
<1>5. Carrying(s, k) BY <1>1, <1>2 DEF Carrying
<1>6. k # j => status'[j] = status[j] BY <1>1 DEF Save, TypeOK
<1>7. CASE Save(k, "queued", retries[k] + 1) /\ retryQueue' = retryQueue \cup {k}
  <2>1. status'[k] = "queued" BY <1>7 DEF Save, TypeOK
  <2>2. status'[j] \in Decided => k # j /\ status[j] \in Decided
    BY <1>6, <2>1 DEF Decided
  <2> QED BY <1>2, <1>3, <1>4, <1>5, <1>7, <2>2, HandToRetry
<1>8. CASE retryQueue' = retryQueue
  <2>1. status'[j] \in Decided => status[j] \in Decided \/ (Carrying(s, j) /\ ~Carrying(s, j)')
    BY <1>4, <1>5, <1>6
  <2> QED BY <1>2, <1>3, <1>4, <1>8, <2>1, QuietSingle
<1> QED BY <1>1, <1>7, <1>8

LEMMA FaultSingle ==
    ASSUME TypeOK, NEW p \in Proc, Fault(p), NEW j \in Job, SingleCopy(j)
    PROVE  SingleCopy(j)'
<1>1. CASE p \in Sched /\ LockError(p) BY <1>1, LockErrorSingle
<1>2. CASE ~(p \in Sched /\ LockError(p))
  <2>1. UNCHANGED <<status, retryQueue, queue>>
    BY <1>2 DEF Fault, Crash, CounterFails, EnqueueFails, PushDueFails, PopFails,
       LoadFails, SaveFails, RetryFails, UnlockFails, keyVars
  <2>2. \/ \E l \in {"idle", "save", "pop", "move", "unlock", "leave"} : Move(p, l)
        \/ /\ pc[p] \in {"start"} \cup Started
           /\ \E l \in {"count", "work", "take", "requeue"} : Move(p, l)
    BY <1>2 DEF Fault, Crash, CounterFails, EnqueueFails, PushDueFails, PopFails,
       LoadFails, SaveFails, RetryFails, UnlockFails, Goto, LetGo, At, Started
  <2>3. hold' = hold \/ hold' = [hold EXCEPT ![p] = {}]
    BY <1>2 DEF Fault, Crash, CounterFails, EnqueueFails, PushDueFails, PopFails,
       LoadFails, SaveFails, RetryFails, UnlockFails, Goto, LetGo
  <2>4. Alone(p) BY <2>2, <2>3 DEF Alone, Move, TypeOK
  <2>5. Has(p, j)' => Has(p, j) BY <2>3 DEF Has, TypeOK
  <2>6. Carrying(p, j)' => Carrying(p, j)
    <3>1. CASE \E l \in {"idle", "save", "pop", "move", "unlock", "leave"} : Move(p, l)
      BY <3>1 DEF Carrying, Move, TypeOK, Started
    <3>2. CASE pc[p] \in {"start"} \cup Started BY <2>5, <3>2 DEF Carrying
    <3> QED BY <2>2, <3>1, <3>2
  <2> QED BY <2>1, <2>4, <2>6, QuietSingle
<1> QED BY <1>1, <1>2

LEMMA TimeSingle ==
    ASSUME TypeOK, (\E k \in Job : LockExpires(k)) \/ HourPasses \/ UNCHANGED vars,
           NEW j \in Job, SingleCopy(j)
    PROVE  SingleCopy(j)'
<1>1. UNCHANGED <<queue, retryQueue, pc, hold>>
  BY DEF LockExpires, HourPasses, vars, locVars
<1>2. status'[j] \in Decided => status[j] \in Decided
  BY DEF LockExpires, HourPasses, vars, keyVars, Decided
<1> QED BY <1>1, <1>2 DEF SingleCopy, InList, InListOnce, Carrying, Has

LEMMA DueNext ==
    ASSUME SingleScheduler, TypeOK, DueThere, [Next]_vars
    PROVE  DueThere'
<1>1. ASSUME NEW s \in Sched, SchedStep(s), NEW t \in Sched PROVE due'[t] \subseteq retryQueue'
  <2>1. t = s /\ due[s] \subseteq retryQueue BY DEF SingleScheduler, DueThere
  <2>2. CASE ReadDue(s)
    <3>1. PICK D \in SUBSET MayBeDue : due' = [due EXCEPT ![s] = D] BY <2>2 DEF ReadDue
    <3>2. retryQueue' = retryQueue BY <2>2 DEF ReadDue
    <3> QED BY <2>1, <3>1, <3>2 DEF TypeOK, MayBeDue
  <2>3. CASE RemoveDue(s)
    <3>1. PICK k \in due[s] : /\ retryQueue' = retryQueue \ {k}
                              /\ due' = [due EXCEPT ![s] = @ \ {k}]
      BY <2>3 DEF RemoveDue
    <3> QED BY <2>1, <3>1 DEF TypeOK
  <2>4. CASE ~(ReadDue(s) \/ RemoveDue(s))
    <3>1. due' = due /\ retryQueue \subseteq retryQueue'
      BY <1>1, <2>4 DEF SchedStep, PushDue, Pop, EndPass, TakeLock, LockTaken, Load, Start,
         TakeQueued, LeaveActive, Decrement, CountActive, FailForGood, Generate, Complete,
         Except, ScheduleRetry, Unlock, Goto, LetGo
    <3> QED BY <2>1, <3>1
  <2> QED BY <2>2, <2>3, <2>4
<1>2. ASSUME NEW p \in Proc, Fault(p), NEW t \in Sched PROVE due'[t] \subseteq retryQueue'
  <2>1. retryQueue \subseteq retryQueue' /\ due'[t] \subseteq due[t]
    <3>1. CASE p \in Sched /\ LockError(p) BY <3>1 DEF LockError, LetGo
    <3>2. CASE ~(p \in Sched /\ LockError(p))
      BY <1>2, <3>2 DEF Fault, Crash, CounterFails, EnqueueFails, PushDueFails, PopFails,
         LoadFails, SaveFails, RetryFails, UnlockFails, Goto, LetGo, TypeOK
    <3> QED BY <3>1, <3>2
  <2> QED BY <2>1 DEF DueThere
<1>3. ASSUME NEW r \in Request, Admit(r) \/ RequestStep(r) PROVE UNCHANGED <<due, retryQueue>>
  BY <1>3 DEF Admit, RequestStep, SaveNew, Enqueue, RecordQueued, Goto
<1>4. ASSUME (\E k \in Job : LockExpires(k)) \/ HourPasses \/ UNCHANGED vars
      PROVE  UNCHANGED <<due, retryQueue>>
  BY <1>4 DEF LockExpires, HourPasses, vars, locVars
<1> QED BY <1>1, <1>2, <1>3, <1>4 DEF Next, DueThere

\* What the attempts cost: one for every retry counted, and one more while the job is
\* worked on; any beyond that has cost two faults, one at each of its two saves.
Paid(j) ==
    /\ status[j] = "none" => begun[j] = 0
    /\ status[j] \in {"queued", "processing"} => retries[j] <= MaxRetries
    /\ status[j] = "queued" => 2 * begun[j] <= 2 * retries[j] + faults + 1
    /\ status[j] = "queued" /\ (\A s \in Sched : ~WorkingOn(s, j)) =>
          2 * begun[j] <= 2 * retries[j] + faults
    /\ status[j] = "processing" => 2 * begun[j] <= 2 * retries[j] + 2 + faults
    /\ \A s \in Sched : Starting(s, j) => status[j] = "queued" /\ tried[s] = retries[j]
    /\ \A s \in Sched : WorkingOn(s, j) =>
          status[j] \in {"queued", "processing"} /\ tried[s] = retries[j]

LEMMA QuietPaid ==
    ASSUME TypeOK, TypeOK', NEW j \in Job, Paid(j), KeyKept(j), faults <= faults',
           \A s \in Sched : Starting(s, j)' => Starting(s, j) /\ tried'[s] = tried[s],
           \A s \in Sched : WorkingOn(s, j)' => WorkingOn(s, j) /\ tried'[s] = tried[s],
           \A s \in Sched : WorkingOn(s, j) /\ ~WorkingOn(s, j)' => faults' = faults + 1
    PROVE  Paid(j)'
<1>1. {begun[j], retries[j], faults, faults'} \subseteq Nat BY DEF TypeOK
<1>2. status'[j] = "queued" => 2 * begun'[j] <= 2 * retries'[j] + faults' + 1
  BY <1>1 DEF Paid, KeyKept
<1>3. ASSUME status'[j] = "queued", \A s \in Sched : ~WorkingOn(s, j)'
      PROVE  2 * begun'[j] <= 2 * retries'[j] + faults'
  <2>1. CASE \E s \in Sched : WorkingOn(s, j)
    <3>1. faults' = faults + 1 BY <1>3, <2>1
    <3> QED BY <1>1, <1>3, <3>1 DEF Paid, KeyKept
  <2>2. CASE \A s \in Sched : ~WorkingOn(s, j) BY <1>1, <1>3, <2>2 DEF Paid, KeyKept
  <2> QED BY <2>1, <2>2
<1>4. status'[j] = "processing" => 2 * begun'[j] <= 2 * retries'[j] + 2 + faults'
  BY <1>1 DEF Paid, KeyKept
<1>5. \A s \in Sched : Starting(s, j)' => status'[j] = "queued" /\ tried'[s] = retries'[j]
  BY DEF Paid, KeyKept
<1>6. \A s \in Sched : WorkingOn(s, j)' =>
          status'[j] \in {"queued", "processing"} /\ tried'[s] = retries'[j]
  BY DEF Paid, KeyKept
<1>7. /\ status'[j] = "none" => begun'[j] = 0
      /\ status'[j] \in {"queued", "processing"} => retries'[j] <= MaxRetries
  BY DEF Paid, KeyKept
<1> QED BY <1>2, <1>3, <1>4, <1>5, <1>6, <1>7 DEF Paid

LEMMA AsidePaid ==
    ASSUME TypeOK, TypeOK', NEW p \in Proc, NEW j \in Job, Paid(j), KeyKept(j), Only(p),
           faults <= faults',
           \/ pc'[p] \notin Started \cup {"start"} \/ hold'[p] # {j}
           \/ pc[p] \in Started /\ pc'[p] \in Started /\ hold'[p] = hold[p]
              /\ (p \in Sched => tried'[p] = tried[p]),
           \/ pc[p] \notin Started \/ ~Has(p, j) \/ faults' = faults + 1
           \/ pc'[p] \in Started /\ hold'[p] = hold[p]
    PROVE  Paid(j)'
<1> USE DEF Has, Only, Proc
<1>1. \A s \in Sched : Starting(s, j)' => Starting(s, j) /\ tried'[s] = tried[s]
  BY DEF Starting, Started
<1>2. \A s \in Sched : WorkingOn(s, j)' => WorkingOn(s, j) /\ tried'[s] = tried[s]
  BY DEF WorkingOn
<1>3. \A s \in Sched : WorkingOn(s, j) /\ ~WorkingOn(s, j)' => faults' = faults + 1
  BY DEF WorkingOn
<1> QED BY <1>1, <1>2, <1>3, QuietPaid

LEMMA RequestPaid ==
    ASSUME TypeOK, TypeOK', NEW r \in Request, Admit(r) \/ RequestStep(r), NEW j \in Job, Paid(j)
    PROVE  Paid(j)'
<1> r \in Proc /\ r \notin Sched BY ConstantsAssumption DEF Proc
<1>a. faults' = faults /\ faults \in Nat
  BY DEF Admit, RequestStep, SaveNew, Enqueue, RecordQueued, histVars, TypeOK
<1>b. \E l \in {"save", "record", "idle", "enqueue"} : Move(r, l)
  BY DEF Admit, RequestStep, SaveNew, Enqueue, RecordQueued, Goto
<1>c. Only(r) /\ tried' = tried
  BY <1>b DEF Only, Move, Admit, RequestStep, SaveNew, Enqueue, RecordQueued, Goto, TypeOK
<1>d. \A s \in Sched : /\ Starting(s, j)' <=> Starting(s, j)
                       /\ WorkingOn(s, j)' <=> WorkingOn(s, j)
  BY <1>c DEF Only, Starting, WorkingOn, Has, Proc
<1>1. CASE Admit(r) \/ Enqueue(r) \/ RecordQueued(r)
  <2>1. KeyKept(j)
    BY <1>1 DEF Admit, Enqueue, RecordQueued, KeyKept, keyVars, histVars
  <2> QED BY <1>a, <1>c, <1>d, <2>1, QuietPaid
<1>2. CASE SaveNew(r)
  <2>1. PICK k \in Job : status[k] = "none" /\ Save(k, "queued", 0) BY <1>2 DEF SaveNew
  <2>2. begun' = begun BY <1>2 DEF SaveNew, histVars
  <2>3. CASE k # j
    <3>1. KeyKept(j) BY <2>1, <2>2, <2>3 DEF Save, KeyKept, TypeOK
    <3> QED BY <1>a, <1>c, <1>d, <3>1, QuietPaid
  <2>4. CASE k = j
    <3>1. status'[j] = "queued" /\ retries'[j] = 0 BY <2>1, <2>4 DEF Save, TypeOK
    <3>2. begun'[j] = 0 BY <2>1, <2>2, <2>4 DEF Paid
    <3>3. \A s \in Sched : ~Starting(s, j)' /\ ~WorkingOn(s, j)'
      BY <1>d, <2>1, <2>4 DEF Paid
    <3>4. /\ retries'[j] <= MaxRetries /\ 2 * begun'[j] <= 2 * retries'[j] + faults'
          /\ 2 * begun'[j] <= 2 * retries'[j] + faults' + 1
      BY <1>a, <3>1, <3>2, ConstantsAssumption
    <3> QED BY <3>1, <3>2, <3>3, <3>4 DEF Paid
  <2> QED BY <2>3, <2>4
<1> QED BY <1>1, <1>2 DEF RequestStep

LEMMA PassPaid ==
    ASSUME TypeOK, TypeOK', NEW s \in Sched, NEW j \in Job, Paid(j),
           \/ ReadDue(s) \/ RemoveDue(s) \/ PushDue(s) \/ Pop(s) \/ EndPass(s) \/ TakeLock(s)
           \/ LockTaken(s) \/ TakeQueued(s) \/ CountActive(s) \/ Generate(s) \/ ScheduleRetry(s)
           \/ LeaveActive(s) \/ Unlock(s)
    PROVE  Paid(j)'
<1> s \in Proc BY DEF Proc
<1>1. KeyKept(j) /\ faults' = faults /\ faults \in Nat
  BY DEF ReadDue, RemoveDue, PushDue, Pop, EndPass, TakeLock, LockTaken, TakeQueued, CountActive,
         Generate, ScheduleRetry, LeaveActive, Unlock, Decrement, KeyKept, keyVars, histVars,
         TypeOK
<1>2. CASE TakeQueued(s) \/ CountActive(s) \/ Generate(s)
  <2>1. UNCHANGED <<hold, tried>> /\ pc[s] \in Started /\ \E l \in Started : Move(s, l)
    BY <1>2 DEF TakeQueued, Decrement, CountActive, Generate, Goto, At, Started
  <2>2. Only(s) /\ pc'[s] \in Started BY <2>1 DEF Only, Move, TypeOK
  <2> QED BY <1>1, <2>1, <2>2, AsidePaid
<1>3. CASE ReadDue(s) \/ RemoveDue(s) \/ PushDue(s) \/ Pop(s) \/ EndPass(s) \/ TakeLock(s)
           \/ LockTaken(s) \/ ScheduleRetry(s) \/ LeaveActive(s) \/ Unlock(s)
  <2>1. /\ pc[s] \notin Started
        /\ \E l \in {"pop", "move", "push", "lock", "idle", "load", "leave", "uncount",
                     "unlock"} : Move(s, l)
    BY <1>3 DEF ReadDue, RemoveDue, PushDue, Pop, EndPass, TakeLock, LockTaken, ScheduleRetry,
         LeaveActive, Unlock, Decrement, Goto, LetGo, At, Started
  <2>2. pc'[s] \notin Started \cup {"start"} BY <2>1 DEF Move, TypeOK, Started
  <2>3. Only(s)
    <3>1. \A q \in Proc : q # s => pc'[q] = pc[q] BY <2>1 DEF Move, TypeOK
    <3>2. \A q \in Proc : q # s => hold'[q] = hold[q]
      BY <1>3 DEF ReadDue, RemoveDue, PushDue, Pop, EndPass, TakeLock, LockTaken, ScheduleRetry,
         LeaveActive, Unlock, Decrement, Goto, LetGo, TypeOK
    <3>3. \A t \in Sched : t # s => tried'[t] = tried[t]
      BY <1>3 DEF ReadDue, RemoveDue, PushDue, Pop, EndPass, TakeLock, LockTaken, ScheduleRetry,
         LeaveActive, Unlock, Decrement, Goto, LetGo, TypeOK
    <3> QED BY <3>1, <3>2, <3>3 DEF Only
  <2> QED BY <1>1, <2>1, <2>2, <2>3, AsidePaid
<1> QED BY <1>2, <1>3

LEMMA LoadPaid ==
    ASSUME SingleScheduler, TypeOK, TypeOK', NEW s \in Sched, Load(s), NEW j \in Job, Paid(j)
    PROVE  Paid(j)'
<1> s \in Proc BY DEF Proc
<1>1. KeyKept(j) /\ UNCHANGED <<hold, faults>> /\ faults \in Nat
  BY DEF Load, KeyKept, keyVars, histVars, TypeOK
<1>2. PICK k \in Job : /\ Has(s, k) /\ tried' = [tried EXCEPT ![s] = retries[k]]
                       /\ Move(s, IF status[k] = "queued" THEN "start" ELSE "unlock")
  BY DEF Load
<1>3. Only(s) /\ pc[s] = "load" BY <1>1, <1>2 DEF Only, Move, TypeOK, Load, At
<1>4. CASE k # j \/ status[j] # "queued"
  <2>1. pc'[s] \notin Started \cup {"start"} \/ hold'[s] # {j}
    BY <1>1, <1>2, <1>4 DEF Move, TypeOK, Started, Has
  <2> QED BY <1>1, <1>3, <2>1, AsidePaid DEF Started
<1>5. CASE k = j /\ status[j] = "queued"
  <2>1. pc'[s] = "start" /\ tried'[s] = retries[j] BY <1>2, <1>5 DEF Move, TypeOK
  <2>2. \A t \in Sched : ~WorkingOn(t, j) /\ ~WorkingOn(t, j)'
    BY <1>3, <2>1 DEF WorkingOn, SingleScheduler, Started
  <2>3. \A t \in Sched : tried'[t] = retries'[j]
    BY <1>1, <2>1 DEF SingleScheduler, KeyKept
  <2> QED BY <1>1, <1>5, <2>2, <2>3 DEF Paid, KeyKept
<1> QED BY <1>4, <1>5

LEMMA StartPaid ==
    ASSUME SingleScheduler, TypeOK, TypeOK', NEW s \in Sched,
           Start(s) \/ (SaveFails(s) /\ At(s, "start")), NEW j \in Job, Paid(j)
    PROVE  Paid(j)'
<1> s \in Proc BY DEF Proc
<1>1. UNCHANGED <<hold, tried>> /\ pc[s] = "start" /\ pc' = [pc EXCEPT ![s] = "take"]
  BY DEF Start, SaveFails, Goto, Move, At, Started
<1>2. Only(s) /\ pc'[s] = "take" BY <1>1 DEF Only, TypeOK
<1>3. faults \in Nat /\ faults' \in Nat /\ begun[j] \in Nat /\ retries[j] \in Nat
  BY DEF TypeOK
<1>4. faults <= faults' BY <1>3 DEF Start, SaveFails, NewFault
<1>5. CASE ~Has(s, j)
  <2>1. KeyKept(j) BY <1>5 DEF Start, SaveFails, Save, Has, KeyKept, keyVars, At, TypeOK
  <2> QED BY <1>1, <1>2, <1>4, <1>5, <2>1, AsidePaid DEF Has
<1>6. CASE Has(s, j)
  <2>1. Starting(s, j) BY <1>1, <1>6 DEF Starting
  <2>2. status[j] = "queued" /\ tried[s] = retries[j] /\ retries[j] <= MaxRetries
    BY <2>1 DEF Paid
  <2>3. \A t \in Sched : ~WorkingOn(t, j) BY <1>1 DEF WorkingOn, SingleScheduler, Started
  <2>4. 2 * begun[j] <= 2 * retries[j] + faults BY <2>2, <2>3 DEF Paid
  <2>5. WorkingOn(s, j)' /\ \A t \in Sched : ~Starting(t, j)'
    BY <1>1, <1>2, <1>6 DEF WorkingOn, Starting, Has, SingleScheduler, Started
  <2>6. \A t \in Sched : tried'[t] = retries[j] BY <1>1, <2>2 DEF SingleScheduler
  <2>7. CASE Start(s)
    <3>1. status'[j] = "processing" /\ retries'[j] = retries[j] /\ begun'[j] = begun[j] + 1
      <4>1. PICK k \in Job : /\ Has(s, k) /\ Save(k, "processing", tried[s])
                             /\ begun' = [begun EXCEPT ![k] = @ + 1]
        BY <2>7 DEF Start
      <4>2. k = j BY <1>6, <4>1 DEF Has
      <4> QED BY <2>2, <4>1, <4>2 DEF Save, TypeOK
    <3>2. 2 * begun'[j] <= 2 * retries'[j] + 2 + faults' BY <1>3, <1>4, <2>4, <3>1
    <3> QED BY <2>2, <2>5, <2>6, <3>1, <3>2 DEF Paid
  <2>8. CASE SaveFails(s) /\ At(s, "start")
    <3>1. /\ status' = status /\ retries' = retries /\ faults' = faults + 1
          /\ begun' = [k \in Job |-> IF Has(s, k) THEN begun[k] + 1 ELSE begun[k]]
      BY <2>8 DEF SaveFails, keyVars, NewFault, At
    <3>2. begun'[j] = begun[j] + 1 BY <1>6, <3>1
    <3>3. 2 * begun'[j] <= 2 * retries'[j] + faults' + 1 BY <1>3, <2>4, <3>1, <3>2
    <3> QED BY <2>2, <2>5, <2>6, <3>1, <3>3 DEF Paid
  <2> QED BY <2>7, <2>8
<1> QED BY <1>5, <1>6

LEMMA EndPaid ==
    ASSUME SingleScheduler, TypeOK, TypeOK', NEW s \in Sched,
           FailForGood(s) \/ Complete(s) \/ Except(s), NEW j \in Job, Paid(j)
    PROVE  Paid(j)'
<1> s \in Proc BY DEF Proc
<1>1. /\ UNCHANGED <<hold, begun, faults>> /\ faults \in Nat
      /\ \A t \in Sched : t # s => tried'[t] = tried[t]
  BY DEF FailForGood, Complete, Except, Reschedule, Goto, histVars, TypeOK
<1>2. pc[s] \in Started /\ \E l \in {"requeue", "leave"} : Move(s, l)
  BY DEF FailForGood, Complete, Except, Reschedule, Goto, At, Started
<1>3. PICK k \in Job :
          /\ Has(s, k)
          /\ \/ Save(k, "failed", tried[s]) \/ Save(k, "completed", tried[s])
                \/ Save(k, "dead", tried[s])
             \/ CanRetry(tried[s]) /\ Save(k, "queued", tried[s] + 1)
  BY DEF FailForGood, Complete, Except, Reschedule
<1>4. Only(s) /\ pc'[s] \notin Started \cup {"load", "start"}
  BY <1>1, <1>2 DEF Only, Move, TypeOK, Started
<1>5. CASE k # j
  <2>1. KeyKept(j) BY <1>1, <1>3, <1>5 DEF Save, KeyKept, TypeOK
  <2>2. ~Has(s, j) BY <1>3, <1>5 DEF Has
  <2> QED BY <1>1, <1>4, <2>1, <2>2, AsidePaid
<1>6. CASE k = j
  <2>1. WorkingOn(s, j) BY <1>2, <1>3, <1>6 DEF WorkingOn
  <2>2. status[j] \in {"queued", "processing"} /\ tried[s] = retries[j] BY <2>1 DEF Paid
  <2>3. \A t \in Sched : ~Starting(t, j)' /\ ~WorkingOn(t, j)'
    BY <1>4 DEF Starting, WorkingOn, SingleScheduler
  <2>4. begun[j] \in Nat /\ retries[j] \in Nat /\ MaxRetries \in Nat
    BY ConstantsAssumption DEF TypeOK
  <2>5. 2 * begun[j] <= 2 * retries[j] + 2 + faults BY <1>1, <2>2, <2>4 DEF Paid
  <2>6. CASE status'[j] \in {"failed", "completed", "dead"} BY <2>3, <2>6 DEF Paid
  <2>7. CASE CanRetry(retries[j]) /\ Save(j, "queued", retries[j] + 1)
    <3>1. status'[j] = "queued" /\ retries'[j] = retries[j] + 1 BY <2>7 DEF Save, TypeOK
    <3>2. /\ retries'[j] <= MaxRetries /\ 2 * begun'[j] <= 2 * retries'[j] + faults'
          /\ 2 * begun'[j] <= 2 * retries'[j] + faults' + 1
      BY <1>1, <2>4, <2>5, <2>7, <3>1 DEF CanRetry
    <3> QED BY <2>3, <3>1, <3>2 DEF Paid
  <2> QED BY <1>3, <1>6, <2>2, <2>6, <2>7 DEF Save, TypeOK
<1> QED BY <1>5, <1>6

LEMMA LockErrorPaid ==
    ASSUME SingleScheduler, TypeOK, TypeOK', NEW s \in Sched, LockError(s),
           NEW j \in Job, SingleCopy(j), Paid(j)
    PROVE  Paid(j)'
<1> s \in Proc BY DEF Proc
<1>1. PICK k \in Job :
          /\ Has(s, k) /\ status[k] # "gone"
          /\ \/ CanRetry(retries[k]) /\ Save(k, "queued", retries[k] + 1)
             \/ Save(k, "dead", retries[k])
  BY DEF LockError
<1>2. Only(s) /\ pc[s] = "lock" /\ pc'[s] = "pop" BY DEF LockError, LetGo, Only, Move, TypeOK, At
<1>3. begun' = begun /\ faults' = faults + 1 /\ faults \in Nat
  BY DEF LockError, NewFault, TypeOK
<1>4. CASE k # j
  <2>1. KeyKept(j) BY <1>1, <1>3, <1>4 DEF Save, KeyKept, TypeOK
  <2> QED BY <1>2, <1>3, <2>1, AsidePaid DEF Started
<1>5. CASE k = j
  <2>1. Carrying(s, j) BY <1>1, <1>2, <1>5 DEF Carrying
  <2>2. status[j] \in {"queued", "processing"}
    BY <1>1, <1>5, <2>1 DEF SingleCopy, Decided, TypeOK, Status
  <2>3. \A t \in Sched : ~Starting(t, j)' /\ ~WorkingOn(t, j)'
    BY <1>2 DEF Starting, WorkingOn, SingleScheduler, Started
  <2>4. begun[j] \in Nat /\ retries[j] \in Nat /\ MaxRetries \in Nat
    BY ConstantsAssumption DEF TypeOK
  <2>5. 2 * begun[j] <= 2 * retries[j] + 2 + faults BY <1>3, <2>2, <2>4 DEF Paid
  <2>6. CASE Save(j, "dead", retries[j])
    <3>1. status'[j] = "dead" BY <2>6 DEF Save, TypeOK
    <3> QED BY <2>3, <3>1 DEF Paid
  <2>7. CASE CanRetry(retries[j]) /\ Save(j, "queued", retries[j] + 1)
    <3>1. status'[j] = "queued" /\ retries'[j] = retries[j] + 1 BY <2>7 DEF Save, TypeOK
    <3>2. /\ retries'[j] <= MaxRetries /\ 2 * begun'[j] <= 2 * retries'[j] + faults'
          /\ 2 * begun'[j] <= 2 * retries'[j] + faults' + 1
      BY <1>3, <2>4, <2>5, <2>7, <3>1 DEF CanRetry
    <3> QED BY <2>3, <3>1, <3>2 DEF Paid
  <2> QED BY <1>1, <1>5, <2>6, <2>7
<1> QED BY <1>4, <1>5

LEMMA FaultPaid ==
    ASSUME SingleScheduler, TypeOK, TypeOK', NEW p \in Proc, Fault(p),
           NEW j \in Job, SingleCopy(j), Paid(j)
    PROVE  Paid(j)'
<1>1. faults' = faults + 1 /\ faults \in Nat
  BY DEF Fault, Crash, CounterFails, EnqueueFails, PushDueFails, PopFails, LockError, LoadFails,
     SaveFails, RetryFails, UnlockFails, NewFault, TypeOK
<1>2. CASE p \in Sched /\ LockError(p) BY <1>2, LockErrorPaid
<1>3. CASE p \in Sched /\ SaveFails(p) /\ At(p, "start") BY <1>3, StartPaid
<1>4. CASE ~(p \in Sched /\ (LockError(p) \/ (SaveFails(p) /\ At(p, "start"))))
  <2>1. KeyKept(j)
    BY <1>4 DEF Fault, Crash, CounterFails, EnqueueFails, PushDueFails, PopFails, LoadFails,
       SaveFails, RetryFails, UnlockFails, KeyKept, keyVars
  <2>2. \/ \E l \in {"idle", "save", "pop", "move", "unlock", "leave", "requeue"} : Move(p, l)
        \/ /\ pc[p] \in Started /\ UNCHANGED <<hold, tried>>
           /\ \E l \in {"count", "work"} : Move(p, l)
    BY <1>4 DEF Fault, Crash, CounterFails, EnqueueFails, PushDueFails, PopFails, LoadFails,
       SaveFails, RetryFails, UnlockFails, Goto, LetGo, At, Started
  <2>3. Only(p)
    <3>1. \A q \in Proc : q # p => pc'[q] = pc[q] BY <2>2 DEF Move, TypeOK
    <3>2. \A q \in Proc : q # p => hold'[q] = hold[q]
      BY <1>4 DEF Fault, Crash, CounterFails, EnqueueFails, PushDueFails, PopFails, LoadFails,
         SaveFails, RetryFails, UnlockFails, Goto, LetGo, TypeOK
    <3>3. \A t \in Sched : t # p => tried'[t] = tried[t]
      BY <1>4 DEF Fault, Crash, CounterFails, EnqueueFails, PushDueFails, PopFails, LoadFails,
         SaveFails, RetryFails, UnlockFails, Goto, LetGo, TypeOK
    <3> QED BY <3>1, <3>2, <3>3 DEF Only
  <2>4. \/ pc'[p] \notin Started \cup {"start"}
        \/ pc[p] \in Started /\ pc'[p] \in Started /\ UNCHANGED <<hold, tried>>
    BY <2>2 DEF Move, TypeOK, Started
  <2> QED BY <1>1, <2>1, <2>3, <2>4, AsidePaid
<1> QED BY <1>2, <1>3, <1>4

LEMMA TimePaid ==
    ASSUME TypeOK, TypeOK', (\E k \in Job : LockExpires(k)) \/ HourPasses \/ UNCHANGED vars,
           NEW j \in Job, Paid(j)
    PROVE  Paid(j)'
<1>1. UNCHANGED <<pc, hold, tried, begun, faults>> /\ faults \in Nat
  BY DEF LockExpires, HourPasses, vars, locVars, histVars, TypeOK
<1>2. \A s \in Sched : /\ Starting(s, j)' <=> Starting(s, j)
                       /\ WorkingOn(s, j)' <=> WorkingOn(s, j)
  BY <1>1 DEF Starting, WorkingOn, Has
<1>3. CASE (\E k \in Job : LockExpires(k)) \/ UNCHANGED vars
  <2>1. KeyKept(j) BY <1>1, <1>3 DEF LockExpires, vars, keyVars, KeyKept
  <2> QED BY <1>1, <1>2, <2>1, QuietPaid
<1>4. CASE HourPasses
  <2>1. \A s \in Sched : ~Starting(s, j)' /\ ~WorkingOn(s, j)'
    BY <1>1, <1>4 DEF HourPasses, At, Starting, WorkingOn, Started, Proc
  <2>2. status'[j] \notin {"queued", "processing"} /\ (status'[j] = "none" => status[j] = "none")
    BY <1>4 DEF HourPasses
  <2> QED BY <1>1, <2>1, <2>2 DEF Paid
<1> QED BY <1>3, <1>4

FaultsBounded == faults <= MaxFaults

LEMMA FaultsNext ==
    ASSUME TypeOK, FaultsBounded, [Next]_vars
    PROVE  FaultsBounded'
<1>1. ASSUME NEW r \in Request, Admit(r) \/ RequestStep(r) PROVE faults' = faults
  BY <1>1 DEF Admit, RequestStep, SaveNew, Enqueue, RecordQueued, histVars
<1>2. ASSUME NEW s \in Sched, SchedStep(s) PROVE faults' = faults
  BY <1>2 DEF SchedStep, ReadDue, RemoveDue, PushDue, Pop, EndPass, TakeLock, LockTaken, Load,
     Start, TakeQueued, LeaveActive, Decrement, CountActive, FailForGood, Generate, Complete,
     Except, ScheduleRetry, Unlock, histVars
<1>3. ASSUME NEW p \in Proc, Fault(p) PROVE faults < MaxFaults /\ faults' = faults + 1
  BY <1>3 DEF Fault, Crash, CounterFails, EnqueueFails, PushDueFails, PopFails, LockError,
     LoadFails, SaveFails, RetryFails, UnlockFails, NewFault
<1>4. ASSUME (\E k \in Job : LockExpires(k)) \/ HourPasses \/ UNCHANGED vars
      PROVE  faults' = faults
  BY <1>4 DEF LockExpires, HourPasses, vars, histVars
<1>5. faults \in Nat /\ MaxFaults \in Nat BY ConstantsAssumption DEF TypeOK
<1> QED BY <1>1, <1>2, <1>3, <1>4, <1>5 DEF Next, FaultsBounded

SingleInv ==
    /\ TypeOK /\ HoldsOne /\ DueThere /\ FaultsBounded
    /\ \A j \in Job : SingleCopy(j) /\ Paid(j)

LEMMA SingleInit == Init => SingleInv
<1> SUFFICES ASSUME Init PROVE SingleInv OBVIOUS
<1>1. TypeOK BY TypeInit
<1>2. HoldsOne /\ DueThere /\ FaultsBounded
  BY ConstantsAssumption DEF Init, HoldsOne, DueThere, FaultsBounded
<1>3. ASSUME NEW j \in Job PROVE SingleCopy(j) /\ Paid(j)
  <2>1. \A p \in Proc : ~Has(p, j) BY DEF Init, Has
  <2>2. SingleCopy(j)
    BY <2>1 DEF Init, SingleCopy, InList, InListOnce, Carrying
  <2>3. Paid(j) BY <2>1 DEF Init, Paid, Starting, WorkingOn, Proc
  <2> QED BY <2>2, <2>3
<1> QED BY <1>1, <1>2, <1>3 DEF SingleInv

LEMMA SingleNext == SingleScheduler => (SingleInv /\ [Next]_vars => SingleInv')
<1> SUFFICES ASSUME SingleScheduler, SingleInv, [Next]_vars PROVE SingleInv' OBVIOUS
<1>1. TypeOK /\ HoldsOne /\ DueThere /\ FaultsBounded BY DEF SingleInv
<1>2. TypeOK' /\ HoldsOne' /\ DueThere' /\ FaultsBounded'
  BY <1>1, TypeNext, HoldsOneNext, DueNext, FaultsNext
<1>3. ASSUME NEW j \in Job PROVE SingleCopy(j)' /\ Paid(j)'
  <2>1. SingleCopy(j) /\ Paid(j) BY DEF SingleInv
  <2>2. ASSUME NEW s \in Sched, SchedStep(s) PROVE SingleCopy(j)'
    BY <1>1, <2>1, <2>2, ListsSingle, WorkSingle DEF SchedStep
  <2>3. ASSUME NEW s \in Sched, SchedStep(s) PROVE Paid(j)'
    BY <1>1, <1>2, <2>1, <2>3, PassPaid, LoadPaid, StartPaid, EndPaid DEF SchedStep
  <2>4. ASSUME NEW r \in Request, Admit(r) \/ RequestStep(r) PROVE SingleCopy(j)' /\ Paid(j)'
    BY <1>1, <1>2, <2>1, <2>4, RequestSingle, RequestPaid
  <2>5. ASSUME NEW p \in Proc, Fault(p) PROVE SingleCopy(j)' /\ Paid(j)'
    BY <1>1, <1>2, <2>1, <2>5, FaultSingle, FaultPaid
  <2>6. ASSUME (\E k \in Job : LockExpires(k)) \/ HourPasses \/ UNCHANGED vars
        PROVE  SingleCopy(j)' /\ Paid(j)'
    BY <1>1, <1>2, <2>1, <2>6, TimeSingle, TimePaid
  <2> QED BY <2>2, <2>3, <2>4, <2>5, <2>6 DEF Next
<1> QED BY <1>2, <1>3 DEF SingleInv

Busy     == UNION {hold[s] : s \in Working}
Finished == {j \in Job : status[j] \in {"completed", "gone"}}
Limit    == MaxRetries + 1 + MaxFaults \div 2

LEMMA BusyIs ==
    ASSUME SingleScheduler, NEW s \in Sched
    PROVE  /\ Busy = IF pc[s] \in Started THEN hold[s] ELSE {}
           /\ Busy' = IF pc'[s] \in Started THEN hold'[s] ELSE {}
<1>1. Working = IF pc[s] \in Started THEN {s} ELSE {} BY DEF SingleScheduler, Working
<1>2. Working' = IF pc'[s] \in Started THEN {s} ELSE {} BY DEF SingleScheduler, Working
<1> QED BY <1>1, <1>2 DEF Busy

\* No work begins or ends, and no job is finished.
LEMMA StepStutters ==
    ASSUME begun' = begun, Busy' = Busy,
           \A j \in Job : status'[j] \in {"completed", "gone"} <=> status[j] \in {"completed", "gone"}
    PROVE  UNCHANGED <<begun, Busy, Finished>>
BY DEF Finished

LEMMA BeginRefines ==
    ASSUME SingleScheduler, SingleInv, NEW s \in Sched,
           Start(s) \/ (SaveFails(s) /\ At(s, "start"))
    PROVE  Tries!Next \/ UNCHANGED <<begun, Busy, Finished>>
<1> s \in Proc BY DEF Proc
<1>t. TypeOK BY DEF SingleInv
<1>1. UNCHANGED hold /\ pc[s] = "start" /\ pc' = [pc EXCEPT ![s] = "take"]
  BY DEF Start, SaveFails, Goto, Move, At, Started
<1>2. pc'[s] = "take" BY <1>1, <1>t DEF TypeOK
<1>3. Busy = {} /\ Busy' = hold[s] BY <1>1, <1>2, BusyIs DEF Started
<1>4. CASE hold[s] = {}
  <2>1. SaveFails(s) BY <1>4 DEF Start, Has
  <2>2. status' = status /\ begun' = [j \in Job |-> IF Has(s, j) THEN begun[j] + 1 ELSE begun[j]]
    BY <1>1, <2>1 DEF SaveFails, keyVars, At, Started
  <2>3. begun' = begun
    <3>1. \A j \in Job : ~Has(s, j) BY <1>4 DEF Has
    <3>2. begun \in [Job -> Nat] BY <1>t DEF TypeOK
    <3> QED BY <2>2, <3>1, <3>2
  <2> QED BY <1>3, <1>4, <2>2, <2>3, StepStutters
<1>5. CASE \E j \in Job : Has(s, j)
  <2>1. PICK j \in Job : Has(s, j) BY <1>5
  <2>2. Paid(j) /\ Starting(s, j) BY <1>1, <2>1 DEF SingleInv, Starting
  <2>3. status[j] = "queued" /\ retries[j] <= MaxRetries BY <2>2 DEF Paid
  <2>4. \A t \in Sched : ~WorkingOn(t, j) BY <1>1 DEF WorkingOn, SingleScheduler, Started
  <2>5. 2 * begun[j] <= 2 * retries[j] + faults BY <2>2, <2>3, <2>4 DEF Paid
  <2>6. /\ {begun[j], retries[j], faults, MaxRetries, MaxFaults} \subseteq Nat
        /\ faults <= MaxFaults
    BY <1>t, ConstantsAssumption DEF TypeOK, SingleInv, FaultsBounded
  <2>7. begun[j] < Limit BY <2>3, <2>5, <2>6 DEF Limit
  <2>8. begun' = [begun EXCEPT ![j] = @ + 1]
    <3>1. CASE Start(s) BY <2>1, <3>1 DEF Start, Has
    <3>2. CASE SaveFails(s) /\ At(s, "start")
      <4>1. begun' = [k \in Job |-> IF Has(s, k) THEN begun[k] + 1 ELSE begun[k]]
        BY <3>2 DEF SaveFails, At, Started
      <4>2. \A k \in Job : Has(s, k) <=> k = j BY <2>1 DEF Has
      <4>3. begun \in [Job -> Nat] BY <1>t DEF TypeOK
      <4> QED BY <4>1, <4>2, <4>3
    <3> QED BY <3>1, <3>2
  <2>9. Finished' = Finished /\ j \notin Finished
    <3>1. CASE Start(s)
      <4>1. status' = [status EXCEPT ![j] = "processing"]
        BY <2>1, <3>1 DEF Start, Save, Has
      <4> QED BY <1>t, <2>3, <4>1 DEF Finished, TypeOK
    <3>2. CASE SaveFails(s) BY <2>3, <3>2 DEF SaveFails, keyVars, Finished
    <3> QED BY <3>1, <3>2
  <2>10. Busy' = Busy \cup {j} BY <1>3, <2>1 DEF Has
  <2>11. Tries!Begin(j)
    BY <1>3, <2>7, <2>8, <2>9, <2>10 DEF Tries!Begin, Busy, Finished, Limit
  <2> QED BY <2>11 DEF Tries!Next
<1>6. hold[s] = {} \/ \E j \in Job : Has(s, j) BY DEF SingleInv, HoldsOne
<1> QED BY <1>4, <1>5, <1>6

\* A worker lets go of its job: with its result, without, or by dying.
LEMMA EndRefines ==
    ASSUME SingleScheduler, SingleInv, NEW s \in Sched,
           \/ FailForGood(s) \/ Complete(s) \/ Except(s)
           \/ SaveFails(s) /\ ~At(s, "start")
           \/ Crash(s) /\ pc[s] \in Started
    PROVE  Tries!Next \/ UNCHANGED <<begun, Busy, Finished>>
<1> s \in Proc BY DEF Proc
<1>t. TypeOK BY DEF SingleInv
<1>1. /\ begun' = begun /\ pc[s] \in Started
      /\ \E l \in {"requeue", "leave", "idle"} : Move(s, l)
  BY DEF FailForGood, Complete, Except, Reschedule, SaveFails, Crash, Goto, At, Started, histVars
<1>2. pc'[s] \notin Started BY <1>1, <1>t DEF Move, TypeOK, Started
<1>3. Busy = hold[s] /\ Busy' = {} BY <1>1, <1>2, BusyIs
<1>4. CASE hold[s] = {}
  <2>1. status' = status
    BY <1>4 DEF FailForGood, Complete, Except, Has, SaveFails, Crash, keyVars
  <2> QED BY <1>1, <1>3, <1>4, <2>1, StepStutters
<1>5. CASE \E j \in Job : Has(s, j)
  <2>1. PICK j \in Job : Has(s, j) BY <1>5
  <2>2. Paid(j) /\ WorkingOn(s, j) BY <1>1, <2>1 DEF SingleInv, WorkingOn
  <2>3. status[j] \in {"queued", "processing"} BY <2>2 DEF Paid
  <2>4. Busy = {j} /\ Busy' = Busy \ {j} /\ j \in Job \ Finished
    BY <1>3, <2>1, <2>3 DEF Has, Finished
  <2>5. CASE Complete(s)
    <3>1. status' = [status EXCEPT ![j] = "completed"] BY <2>1, <2>5 DEF Complete, Save, Has
    <3>2. Finished' = Finished \cup {j} BY <1>t, <3>1 DEF Finished, TypeOK
    <3>3. Tries!Succeed(j)
      BY <1>1, <2>4, <3>2 DEF Tries!Succeed, Busy, Finished
    <3> QED BY <3>3 DEF Tries!Next
  <2>6. CASE ~Complete(s)
    <3>1. status' = status \/ \E st \in {"failed", "dead", "queued"} : status' = [status EXCEPT ![j] = st]
      BY <2>1, <2>6 DEF FailForGood, Except, Reschedule, SaveFails, Crash, Save, Has, keyVars
    <3>2. Finished' = Finished BY <1>t, <2>3, <3>1 DEF Finished, TypeOK
    <3>3. Tries!Release(j)
      BY <1>1, <2>4, <3>2 DEF Tries!Release, Busy, Finished
    <3> QED BY <3>3 DEF Tries!Next
  <2> QED BY <2>5, <2>6
<1>6. hold[s] = {} \/ \E j \in Job : Has(s, j) BY DEF SingleInv, HoldsOne
<1> QED BY <1>4, <1>5, <1>6

LEMMA RequestRefines ==
    ASSUME SingleInv, NEW r \in Request, Admit(r) \/ RequestStep(r)
    PROVE  UNCHANGED <<begun, Busy, Finished>>
<1> r \in Proc /\ r \notin Sched BY ConstantsAssumption DEF Proc
<1>t. TypeOK BY DEF SingleInv
<1>1. begun' = begun BY DEF Admit, RequestStep, SaveNew, Enqueue, RecordQueued, histVars
<1>2. \A s \in Sched : pc'[s] = pc[s] /\ hold'[s] = hold[s]
  BY <1>t DEF Admit, RequestStep, SaveNew, Enqueue, RecordQueued, Goto, Move, TypeOK, Proc
<1>3. Working' = Working /\ Busy' = Busy BY <1>2 DEF Working, Busy
<1>4. status' = status \/ \E k \in Job : status[k] = "none" /\ status' = [status EXCEPT ![k] = "queued"]
  BY DEF Admit, RequestStep, SaveNew, Enqueue, RecordQueued, Save, keyVars
<1>5. \A j \in Job : status'[j] \in {"completed", "gone"} <=> status[j] \in {"completed", "gone"}
  BY <1>t, <1>4 DEF TypeOK
<1> QED BY <1>1, <1>3, <1>5, StepStutters

LEMMA SchedRefines ==
    ASSUME SingleScheduler, SingleInv, NEW s \in Sched, SchedStep(s)
    PROVE  Tries!Next \/ UNCHANGED <<begun, Busy, Finished>>
<1> s \in Proc BY DEF Proc
<1>t. TypeOK BY DEF SingleInv
<1>1. CASE Start(s) \/ FailForGood(s) \/ Complete(s) \/ Except(s)
  BY <1>1, BeginRefines, EndRefines
<1>2. CASE ~(Start(s) \/ FailForGood(s) \/ Complete(s) \/ Except(s))
  <2>1. begun' = begun /\ status' = status
    BY <1>2 DEF SchedStep, ReadDue, RemoveDue, PushDue, Pop, EndPass, TakeLock, LockTaken, Load,
       TakeQueued, LeaveActive, Decrement, CountActive, Generate, ScheduleRetry, Unlock,
       histVars, keyVars
  <2>2. \/ hold' = hold /\ pc[s] \in Started /\ \E l \in Started : Move(s, l)
        \/ /\ pc[s] \notin Started
           /\ \E l \in {"pop", "move", "push", "lock", "idle", "load", "start", "leave", "uncount",
                        "unlock"} : Move(s, l)
    <3>1. CASE TakeQueued(s) \/ CountActive(s) \/ Generate(s)
      BY <3>1 DEF TakeQueued, Decrement, CountActive, Generate, Goto, At, Started
    <3>2. CASE ~(TakeQueued(s) \/ CountActive(s) \/ Generate(s))
      BY <1>2, <3>2 DEF SchedStep, ReadDue, RemoveDue, PushDue, Pop, EndPass, TakeLock, LockTaken,
         Load, LeaveActive, Decrement, ScheduleRetry, Unlock, Goto, LetGo, At, Started
    <3> QED BY <3>1, <3>2
  <2>3. Busy' = Busy
    <3>1. CASE pc[s] \in Started /\ pc'[s] \in Started /\ hold' = hold BY <3>1, BusyIs
    <3>2. CASE pc[s] \notin Started /\ pc'[s] \notin Started BY <3>2, BusyIs
    <3> QED BY <1>t, <2>2, <3>1, <3>2 DEF Move, TypeOK, Started
  <2> QED BY <2>1, <2>3, StepStutters
<1> QED BY <1>1, <1>2

LEMMA FaultRefines ==
    ASSUME SingleScheduler, SingleInv, NEW p \in Proc, Fault(p)
    PROVE  Tries!Next \/ UNCHANGED <<begun, Busy, Finished>>
<1>t. TypeOK BY DEF SingleInv
<1>1. CASE p \in Sched /\ (SaveFails(p) \/ (Crash(p) /\ pc[p] \in Started))
  BY <1>1, BeginRefines, EndRefines
<1>2. CASE ~(p \in Sched /\ (SaveFails(p) \/ (Crash(p) /\ pc[p] \in Started)))
  <2>0. \/ Crash(p) /\ (p \in Sched => pc[p] \notin Started)
        \/ CounterFails(p)
        \/ p \in Request /\ EnqueueFails(p)
        \/ p \in Sched /\ LockError(p)
        \/ p \in Sched /\ (PushDueFails(p) \/ PopFails(p) \/ LoadFails(p) \/ RetryFails(p) \/ UnlockFails(p))
    BY <1>2 DEF Fault
  <2>1. begun' = begun
    <3>1. CASE Crash(p) \/ CounterFails(p) \/ EnqueueFails(p)
      BY <3>1 DEF Crash, CounterFails, EnqueueFails
    <3>2. CASE LockError(p) BY <3>2 DEF LockError
    <3>3. CASE PushDueFails(p) \/ PopFails(p) \/ LoadFails(p) \/ RetryFails(p) \/ UnlockFails(p)
      BY <3>3 DEF PushDueFails, PopFails, LoadFails, RetryFails, UnlockFails
    <3> QED BY <2>0, <3>1, <3>2, <3>3
  <2>2. \A j \in Job : status'[j] \in {"completed", "gone"} <=> status[j] \in {"completed", "gone"}
    <3>1. CASE p \in Sched /\ LockError(p)
      <4>1. PICK k \in Job : /\ Has(p, k) /\ status[k] # "gone"
                             /\ \E st \in {"queued", "dead"} : status' = [status EXCEPT ![k] = st]
        BY <3>1 DEF LockError, Save
      <4>2. Carrying(p, k) BY <3>1, <4>1 DEF LockError, At, Carrying
      <4>3. status[k] \notin {"completed", "gone"} BY <4>1, <4>2 DEF SingleInv, SingleCopy, Decided
      <4> QED BY <1>t, <4>1, <4>3 DEF TypeOK
    <3>2. CASE ~(p \in Sched /\ LockError(p))
      <4>1. status' = status
        BY <2>0, <3>2 DEF Crash, CounterFails, EnqueueFails, PushDueFails, PopFails, LoadFails,
           RetryFails, UnlockFails, keyVars
      <4> QED BY <4>1
    <3> QED BY <3>1, <3>2
  <2>3. p \in Sched =>
           \/ hold' = hold /\ pc[p] \in Started /\ \E l \in Started : Move(p, l)
           \/ /\ pc[p] \notin Started
              /\ \E l \in {"idle", "save", "pop", "move", "unlock", "leave"} : Move(p, l)
    <3>1. CASE CounterFails(p)
      BY <3>1 DEF CounterFails, Goto, At, Started
    <3>2. CASE Crash(p) \/ EnqueueFails(p) \/ LockError(p)
      <4>1. CASE Crash(p) BY <1>2, <4>1 DEF Crash, At
      <4>2. CASE EnqueueFails(p) BY <4>2 DEF EnqueueFails, At, Started
      <4>3. CASE LockError(p) BY <4>3 DEF LockError, LetGo, At, Started
      <4> QED BY <3>2, <4>1, <4>2, <4>3
    <3>3. CASE PushDueFails(p) \/ PopFails(p) \/ LoadFails(p) \/ RetryFails(p) \/ UnlockFails(p)
      BY <3>3 DEF PushDueFails, PopFails, LoadFails, RetryFails, UnlockFails, Goto, LetGo, At, Started
    <3> QED BY <2>0, <3>1, <3>2, <3>3
  <2>4. CASE p \in Sched
    <3>1. CASE pc[p] \in Started /\ pc'[p] \in Started /\ hold' = hold
      BY <2>1, <2>2, <2>4, <3>1, BusyIs, StepStutters
    <3>2. CASE pc[p] \notin Started /\ pc'[p] \notin Started
      BY <2>1, <2>2, <2>4, <3>2, BusyIs, StepStutters
    <3> QED BY <1>t, <2>3, <2>4, <3>1, <3>2 DEF Move, TypeOK, Started
  <2>5. CASE p \notin Sched
    <3>1. \A t \in Sched : pc'[t] = pc[t] /\ hold'[t] = hold[t]
      BY <1>t, <1>2, <2>5 DEF Fault, Crash, CounterFails, EnqueueFails, Goto, Move, TypeOK, Proc
    <3>2. Working' = Working /\ Busy' = Busy BY <3>1 DEF Working, Busy
    <3> QED BY <2>1, <2>2, <3>2, StepStutters
  <2> QED BY <2>4, <2>5
<1> QED BY <1>1, <1>2

LEMMA TimeRefines ==
    ASSUME SingleInv, (\E j \in Job : LockExpires(j)) \/ HourPasses \/ UNCHANGED vars
    PROVE  Tries!Next \/ UNCHANGED <<begun, Busy, Finished>>
<1>t. TypeOK BY DEF SingleInv
<1>1. UNCHANGED <<begun, pc, hold>>
  BY DEF LockExpires, HourPasses, vars, locVars, histVars
<1>2. Busy' = Busy BY <1>1 DEF Working, Busy
<1>3. CASE (\E j \in Job : LockExpires(j)) \/ UNCHANGED vars
  <2>1. status' = status BY <1>3 DEF LockExpires, vars, keyVars
  <2> QED BY <1>1, <1>2, <2>1, StepStutters
<1>4. CASE HourPasses
  <2>1. Busy = {} BY <1>4 DEF HourPasses, At, Busy, Working, Started, Proc
  <2>2. PICK S \in SUBSET Job : Finished' = Finished \cup S
    <3>1. Finished' \in SUBSET Job BY DEF Finished
    <3>2. Finished' = Finished \cup Finished' BY <1>t, <1>4 DEF HourPasses, Finished, TypeOK
    <3> QED BY <3>1, <3>2
  <2>3. Tries!Drop(S)
    BY <1>1, <1>2, <2>1, <2>2 DEF Tries!Drop, Busy, Finished
  <2> QED BY <2>2, <2>3 DEF Tries!Next
<1> QED BY <1>3, <1>4

\* With one scheduler, which is what the leader lock is for, the queue is an exclusive
\* retry queue: each job in one pair of hands, begun a bounded number of times, and
\* not again once it was completed or has expired, whatever fails.
THEOREM QueueIsExclusiveRetry == SingleScheduler => (Spec => ImplementsExclusiveRetry)
<1> SUFFICES ASSUME SingleScheduler PROVE Spec => ImplementsExclusiveRetry OBVIOUS
<1>1. Init => Tries!Init
  BY DEF Init, Tries!Init, Working, Started, Proc
<1>2. SingleInv /\ [Next]_vars => [Tries!Next]_<<begun, Busy, Finished>>
  BY RequestRefines, SchedRefines, FaultRefines, TimeRefines DEF Next
<1>3. SingleInv /\ [Next]_vars => SingleInv' BY SingleNext
<1>4. QED
  BY <1>1, <1>2, <1>3, SingleInit, PTL
     DEF Spec, ImplementsExclusiveRetry, Tries!Spec, Busy, Finished

\* Nor does it meet what the exceptions are for: no lock is deleted under a worker
\* and no retry removed early, so a job whose key is right is begun MaxRetries + 1
\* times at most and is always found.
THEOREM NothingOddAlone ==
    SingleScheduler => (Spec => [](/\ robbed = {} /\ early = {}
                                   /\ \A j \in Job \ unsaved : begun[j] <= MaxRetries + 1))
<1> SUFFICES ASSUME SingleScheduler
             PROVE  Spec => [](/\ robbed = {} /\ early = {}
                               /\ \A j \in Job \ unsaved : begun[j] <= MaxRetries + 1)
    OBVIOUS
<1> DEFINE Even == robbed = {} /\ early = {}
<1>1. Init => Even BY DEF Init
<1>2. ASSUME Even, [Next]_vars PROVE Even'
  <2>1. CASE \E s \in Sched : RemoveDue(s)
    <3>1. PICK s \in Sched : RemoveDue(s) BY <2>1
    <3>2. \A j \in retryQueue : j \in MayBeDue
      BY <3>1 DEF RemoveDue, At, MayBeDue, SingleScheduler
    <3> QED BY <1>2, <3>1, <3>2 DEF RemoveDue
  <2>2. CASE \E s \in Sched : Unlock(s)
    <3>1. PICK s \in Sched : Unlock(s) BY <2>2
    <3>2. \A t \in Sched : pc[t] \notin {"load", "start"}
      BY <3>1 DEF Unlock, At, SingleScheduler
    <3> QED BY <1>2, <3>1, <3>2 DEF Unlock
  <2>3. CASE \E r \in Request : Admit(r) \/ RequestStep(r)
    BY <1>2, <2>3 DEF Admit, RequestStep, SaveNew, Enqueue, RecordQueued, histVars, oddVars
  <2>4. CASE \E s \in Sched : SchedStep(s) /\ ~RemoveDue(s) /\ ~Unlock(s)
    BY <1>2, <2>4 DEF SchedStep, ReadDue, PushDue, Pop, EndPass, TakeLock, LockTaken, Load,
       Start, TakeQueued, LeaveActive, Decrement, CountActive, FailForGood, Generate, Complete,
       Except, ScheduleRetry, histVars, oddVars
  <2>5. CASE \E p \in Proc : Fault(p)
    BY <1>2, <2>5 DEF Fault, Crash, CounterFails, EnqueueFails, PushDueFails, PopFails, LockError,
       LoadFails, SaveFails, RetryFails, UnlockFails, oddVars
  <2>6. CASE (\E j \in Job : LockExpires(j)) \/ HourPasses \/ UNCHANGED vars
    BY <1>2, <2>6 DEF LockExpires, HourPasses, vars, histVars, oddVars
  <2> QED BY <1>2, <2>1, <2>2, <2>3, <2>4, <2>5, <2>6 DEF Next
<1>3. Even /\ BegunBounded => \A j \in Job \ unsaved : begun[j] <= MaxRetries + 1
  BY DEF BegunBounded
<1> QED BY <1>1, <1>2, <1>3, BegunIsBounded, PTL DEF Spec
=============================================================================
