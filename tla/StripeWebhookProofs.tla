------------------------- MODULE StripeWebhookProofs -------------------------
(***************************************************************************)
(* Proofs about the webhook's keys and answers, for any number of workers, *)
(* events and failures.                                                    *)
(***************************************************************************)
EXTENDS StripeWebhook, FiniteSetTheorems, TLAPS

\* Nobody works on an event Stripe has not sent.
HeldSent == \A w \in Worker : ~ At(w, "idle") => req[w].e \in sent

\* The events are finitely many, and each tells of a change that was made.
Told == IsFiniteSet(sent) /\ \A e \in sent : e.n <= change

TInv == TypeOK /\ HeldSent /\ Told

Label == {"idle", "claim", "load", "fetch", "insert", "write", "brief", "finish", "giveup"}
Request(S) == [pc : Label, e : S \cup {NoEvent}, val : Status \cup {None}, keyed : BOOLEAN]

LEMMA ReqType == TypeOK => req \in [Worker -> Request(sent)]
BY DEF TypeOK, Request, Label

-----------------------------------------------------------------------------
(* Types: Stripe                                                           *)

LEMMA FewKinds ==
    ASSUME NEW a, NEW b, NEW k
    PROVE  /\ IsFiniteSet({a, b}) /\ Cardinality({a, b}) >= 1
           /\ IsFiniteSet([kind : {a, b}, n : {k}])
<1>1. IsFiniteSet({a}) /\ Cardinality({a}) = 1 BY FS_Singleton
<1>2. {a, b} = {a} \cup {b} OBVIOUS
<1>3. IsFiniteSet({a} \cup {b}) /\ Cardinality({a} \cup {b}) \in {1, 2}
  BY <1>1, FS_AddElement
<1>4. IsFiniteSet({[kind |-> a, n |-> k]}) BY FS_Singleton
<1>5. IsFiniteSet({[kind |-> a, n |-> k]} \cup {[kind |-> b, n |-> k]})
  BY <1>4, FS_AddElement
<1>6. [kind : {a, b}, n : {k}] \subseteq {[kind |-> a, n |-> k]} \cup {[kind |-> b, n |-> k]}
  <2> SUFFICES ASSUME NEW x \in [kind : {a, b}, n : {k}]
               PROVE  x = [kind |-> a, n |-> k] \/ x = [kind |-> b, n |-> k]
    OBVIOUS
  <2>1. x = [kind |-> x.kind, n |-> x.n] /\ x.kind \in {a, b} /\ x.n = k OBVIOUS
  <2> QED BY <2>1
<1>7. IsFiniteSet([kind : {a, b}, n : {k}]) BY <1>5, <1>6, FS_Subset
<1>8. Cardinality({a, b}) >= 1 BY <1>2, <1>3
<1> QED BY <1>2, <1>3, <1>7, <1>8

LEMMA ChangesTyped ==
    ASSUME TInv, NEW from, NEW to \in Status, NEW a \in Kind, NEW b \in Kind,
           Changes(from, to, {a, b})
    PROVE  TInv'
<1> DEFINE new == [kind : {a, b}, n : {change + 1}]
<1> USE ConstantsAssumption
<1>1. /\ sent' = sent \cup new /\ change' = change + 1 /\ remote' \in Status
      /\ Cardinality(sent) + change + faults + Cardinality({a, b}) + 1 <= MaxSpent
      /\ UNCHANGED <<acked, redis, local, req, others, faults, history>>
  BY DEF Changes, Spent
<1>2. /\ IsFiniteSet(sent) /\ Cardinality(sent) \in Nat
      /\ change \in Nat /\ faults \in Nat
  BY FS_CardinalityType DEF TInv, Told, TypeOK
<1>3. Cardinality({a, b}) \in Nat /\ Cardinality({a, b}) >= 1 /\ IsFiniteSet(new)
  BY FewKinds, FS_CardinalityType
<1>4. change + 1 \in 0..MaxSpent BY <1>1, <1>2, <1>3
<1>5. sent' \subseteq Event /\ sent \subseteq sent'
  BY <1>1, <1>4 DEF TInv, TypeOK, Event
<1>6. IsFiniteSet(sent') BY <1>1, <1>2, <1>3, FS_Union
<1>8. \A e \in sent' : e.n <= change'
  <2>1. \A e \in sent : e.n \in Nat /\ e.n <= change BY DEF TInv, Told, TypeOK, Event
  <2>2. \A e \in new : e.n = change + 1 OBVIOUS
  <2> QED BY <1>1, <1>2, <2>1, <2>2
<1>9. TypeOK'
  <2>1. req' \in [Worker -> Request(sent')] BY <1>1, <1>5, ReqType DEF TInv, Request
  <2>2. remote' \in Status /\ change' \in 0..MaxSpent /\ sent' \subseteq Event
    BY <1>1, <1>4, <1>5
  <2>3. /\ acked' \subseteq sent' /\ processing' \subseteq sent' /\ lasting' \subseteq processing'
        /\ processed' \subseteq handled' \cup givenUp'
        /\ \A h \in {handled', again', givenUp', broken', excused'} : h \subseteq sent'
    BY <1>1, <1>5 DEF TInv, TypeOK, redis, history, outcome
  <2>4. /\ sub' \in Status \cup {None} /\ brief' \in {"active", "paused"}
        /\ sweep' \in [pc : {"idle", "fetch", "commit"}, val : Status \cup {None}]
        /\ visit' \in [pc : {"idle", "sync"}, val : Status \cup {None}]
        /\ faults' \in 0..MaxSpent /\ disorder' \in BOOLEAN
    BY <1>1 DEF TInv, TypeOK, local, others, history
  <2> QED BY <2>1, <2>2, <2>3, <2>4 DEF TypeOK, Request, Label
<1>10. HeldSent' BY <1>1, <1>5 DEF TInv, HeldSent, At
<1> QED BY <1>6, <1>8, <1>9, <1>10 DEF TInv, Told

LEMMA StripeTyped ==
    ASSUME TInv, PaymentFails \/ Recovers \/ Pauses \/ Resumes \/ Cancels
    PROVE  TInv'
<1> USE DEF Status, Access, Kind, Pausing
<1>1. CASE PaymentFails BY <1>1, ChangesTyped DEF PaymentFails
<1>2. ASSUME NEW from, NEW to \in Status, NEW a \in Kind, Changes(from, to, {a}) PROVE TInv'
  <2>1. {a} = {a, a} OBVIOUS
  <2> QED BY <1>2, <2>1, ChangesTyped
<1>3. CASE Recovers BY <1>2, <1>3 DEF Recovers
<1>4. CASE Pauses BY <1>2, <1>4 DEF Pauses
<1>5. CASE Resumes BY <1>2, <1>5 DEF Resumes
<1>6. CASE Cancels BY <1>2, <1>6 DEF Cancels
<1> QED BY <1>1, <1>3, <1>4, <1>5, <1>6

-----------------------------------------------------------------------------
(* Types: the webhook and the reconciliation                               *)

\* A request that goes on to a known place with a known status stays a request.
LEMMA RequestKept ==
    ASSUME TInv, sent' = sent, NEW w \in Worker,
           \/ \E l \in Label, v \in Status \cup {None} : ~ At(w, "idle") /\ GoTo(w, l, v)
           \/ Drop(w)
           \/ \E q \in Request(sent) : q.e \in sent /\ req' = [req EXCEPT ![w] = q]
    PROVE  req' \in [Worker -> Request(sent)] /\ HeldSent'
<1> USE ReqType DEF TInv, HeldSent, At
<1>1. CASE \E l \in Label, v \in Status \cup {None} : ~ At(w, "idle") /\ GoTo(w, l, v)
  <2>1. PICK l \in Label, v \in Status \cup {None} : ~ At(w, "idle") /\ GoTo(w, l, v)
    BY <1>1
  <2> DEFINE q == [req[w] EXCEPT !.pc = l, !.val = v]
  <2>2. q \in Request(sent) /\ q.e = req[w].e BY DEF Request
  <2>3. req' = [req EXCEPT ![w] = q] BY <2>1 DEF GoTo
  <2> QED BY <2>1, <2>2, <2>3
<1>2. CASE Drop(w)
  <2>1. Idle \in Request(sent) /\ Idle.pc = "idle" BY DEF Idle, Request, Label, None
  <2> QED BY <1>2, <2>1 DEF Drop
<1>3. CASE \E q \in Request(sent) : q.e \in sent /\ req' = [req EXCEPT ![w] = q]
  BY <1>3
<1> QED BY <1>1, <1>2, <1>3

\* The steps that change no more than a request, the briefings, the status, and a fault.
LEMMA FaultTyped == TInv /\ Fault => faults' \in 0..MaxSpent
BY ConstantsAssumption, FS_CardinalityType DEF TInv, Told, TypeOK, Fault, Spent

LEMMA HandlerTyped ==
    ASSUME TInv, NEW w \in Worker,
           Load(w) \/ Fetch(w) \/ FetchFails(w) \/ Write(w) \/ PlanUnknown(w) \/ SetBriefings(w)
    PROVE  TInv'
<1> USE DEF TInv, Keeping
<1>1. /\ UNCHANGED <<stripe, acked, redis, others, history>>
      /\ faults' \in 0..MaxSpent
      /\ sub' \in Status \cup {None} /\ brief' \in {"active", "paused"}
  <2>1. UNCHANGED <<stripe, acked, redis, others, history>>
    BY DEF Load, Fetch, FetchFails, Write, PlanUnknown, SetBriefings
  <2>2. faults' \in 0..MaxSpent
    BY FaultTyped DEF Load, Fetch, FetchFails, Write, PlanUnknown, SetBriefings, TypeOK
  <2>3. sub' \in Status \cup {None} /\ brief' \in {"active", "paused"}
    BY ReqType DEF Load, Fetch, FetchFails, Write, PlanUnknown, SetBriefings, TypeOK, local, Request
  <2> QED BY <2>1, <2>2, <2>3
<1>2. \E l \in Label, v \in Status \cup {None} : ~ At(w, "idle") /\ GoTo(w, l, v)
  <2> USE ReqType DEF At, Label, Request
  <2>1. CASE Load(w) BY <2>1 DEF Load, Change, Named, TypeOK, Status, Access
  <2>2. CASE Fetch(w) BY <2>2 DEF Fetch, Change, TypeOK
  <2>3. CASE FetchFails(w) BY <2>3 DEF FetchFails, Change, Status, Access
  <2>4. CASE Write(w) BY <2>4 DEF Write
  <2>5. CASE PlanUnknown(w) BY <2>5 DEF PlanUnknown
  <2>6. CASE SetBriefings(w) BY <2>6 DEF SetBriefings
  <2> QED BY <2>1, <2>2, <2>3, <2>4, <2>5, <2>6
<1>3. sent' = sent BY <1>1 DEF stripe
<1>4. req' \in [Worker -> Request(sent)] /\ HeldSent' BY <1>2, <1>3, RequestKept
<1>5. TypeOK' BY <1>1, <1>4 DEF TypeOK, stripe, redis, others, history, outcome, Request, Label
<1>6. Told' BY <1>1 DEF Told, stripe
<1> QED BY <1>4, <1>5, <1>6

LEMMA KeysTyped ==
    ASSUME TInv, NEW w \in Worker,
           \/ Deliver(w) \/ Duplicate(w) \/ Claim(w) \/ FailOpen(w) \/ Dismiss(w)
           \/ Refuse(w) \/ Finish(w) \/ FinishUnmarked(w) \/ Crash(w)
    PROVE  TInv'
<1> USE DEF TInv
<1>1. UNCHANGED <<stripe, local, others>> /\ faults' \in 0..MaxSpent
  <2>1. UNCHANGED <<stripe, local, others>>
    BY DEF Deliver, Duplicate, Claim, FailOpen, Dismiss, Refuse, Finish, FinishUnmarked,
           Crash, Returned, BreakOff
  <2>2. faults' \in 0..MaxSpent
    BY FaultTyped DEF Deliver, Duplicate, Claim, FailOpen, Dismiss, Refuse, Finish,
           FinishUnmarked, Crash, Returned, TypeOK
  <2> QED BY <2>1, <2>2
<1>2. sent' = sent BY <1>1 DEF stripe
<1>3. \/ req' = req
      \/ Drop(w)
      \/ \E q \in Request(sent) : q.e \in sent /\ req' = [req EXCEPT ![w] = q]
  <2>1. CASE Deliver(w)
    <3>1. PICK e \in sent : At(w, "idle") /\ req' = [req EXCEPT ![w].pc = "claim", ![w].e = e]
      BY <2>1 DEF Deliver, Free
    <3>2. req' = [req EXCEPT ![w] = [req[w] EXCEPT !.pc = "claim", !.e = e]]
      BY <3>1, ReqType
    <3>3. [req[w] EXCEPT !.pc = "claim", !.e = e] \in Request(sent)
          /\ [req[w] EXCEPT !.pc = "claim", !.e = e].e \in sent
      BY <3>1, ReqType DEF Request, Label
    <3> QED BY <3>2, <3>3
  <2>2. ASSUME NEW e \in sent, NEW b \in BOOLEAN, Begin(w, e, b)
        PROVE  \E q \in Request(sent) : q.e \in sent /\ req' = [req EXCEPT ![w] = q]
    <3> DEFINE q == [Idle EXCEPT !.pc = First(e.kind), !.e = e, !.keyed = b]
    <3>1. q \in Request(sent) /\ q.e \in sent BY DEF Idle, First, Request, Label, None
    <3> QED BY <2>2, <3>1 DEF Begin
  <2>3. CASE Claim(w)
    <3>1. req[w].e \in sent BY <2>3 DEF Claim, HeldSent, At
    <3> QED BY <2>2, <2>3, <3>1 DEF Claim
  <2>4. CASE FailOpen(w) BY <2>2, <2>4 DEF FailOpen
  <2>5. CASE Duplicate(w) BY <2>5 DEF Duplicate
  <2>6. CASE Dismiss(w) \/ Refuse(w) \/ Finish(w) \/ FinishUnmarked(w) \/ Crash(w)
    BY <2>6 DEF Dismiss, Refuse, Finish, FinishUnmarked, Crash, Returned, BreakOff
  <2> QED BY <2>1, <2>3, <2>4, <2>5, <2>6
<1>4. req' \in [Worker -> Request(sent)] /\ HeldSent'
  <2>1. CASE req' = req BY <1>2, <2>1, ReqType DEF HeldSent, At
  <2> QED BY <1>2, <1>3, <2>1, RequestKept
<1>5. /\ acked' \subseteq sent /\ processing' \subseteq sent /\ lasting' \subseteq processing'
      /\ processed' \subseteq handled' \cup givenUp'
      /\ \A h \in {handled', again', givenUp', broken', excused'} : h \subseteq sent
      /\ disorder' \in BOOLEAN
  <2>1. At(w, "idle") \/ req[w].e \in sent BY DEF HeldSent
  <2>2. CASE Deliver(w) \/ Duplicate(w) \/ Crash(w)
    BY <2>1, <2>2 DEF Deliver, Duplicate, Crash, BreakOff, At, TypeOK, redis, history, outcome
  <2>a. ASSUME NEW e \in sent, NEW b \in BOOLEAN, Begin(w, e, b)
        PROVE  /\ UNCHANGED outcome /\ excused' \subseteq sent
               /\ disorder' \in BOOLEAN
    <3>1. UNCHANGED outcome /\ excused' \subseteq sent
      BY <2>a DEF Begin, TypeOK
    <3>2. disorder' \in BOOLEAN BY <2>a DEF Begin, OutOfTurn, TypeOK
    <3> QED BY <3>1, <3>2
  <2>3. CASE Claim(w)
    <3>1. req[w].e \in sent BY <2>1, <2>3 DEF Claim, At
    <3>2. /\ acked' = acked /\ processing' = processing \cup {req[w].e} /\ processed' = processed
          /\ lasting' = lasting \/ lasting' = lasting \cup {req[w].e}
          /\ \E b \in BOOLEAN : Begin(w, req[w].e, b)
      BY <2>3 DEF Claim
    <3>3. /\ UNCHANGED outcome /\ excused' \subseteq sent
          /\ disorder' \in BOOLEAN
      BY <3>1, <3>2, <2>a
    <3> QED BY <3>1, <3>2, <3>3 DEF TypeOK, outcome
  <2>4. CASE FailOpen(w)
    <3>1. UNCHANGED <<acked, redis>> /\ \E e \in sent : Begin(w, e, FALSE)
      BY <2>4 DEF FailOpen
    <3>2. /\ UNCHANGED outcome /\ excused' \subseteq sent
          /\ disorder' \in BOOLEAN
      BY <3>1, <2>a
    <3> QED BY <3>1, <3>2 DEF TypeOK, redis, outcome
  <2>5. CASE Dismiss(w) BY <2>1, <2>5 DEF Dismiss, At, TypeOK, redis, history, outcome
  <2>6. CASE Refuse(w) BY <2>1, <2>6 DEF Refuse, BreakOff, Release, Answered500, At, TypeOK
  <2>7. CASE Finish(w) BY <2>1, <2>7 DEF Finish, Returned, Marks, At, TypeOK, redis
  <2>8. CASE FinishUnmarked(w) BY <2>1, <2>8 DEF FinishUnmarked, Returned, At, TypeOK, redis
  <2> QED BY <2>2, <2>3, <2>4, <2>5, <2>6, <2>7, <2>8
<1>6. TypeOK' BY <1>1, <1>2, <1>4, <1>5 DEF TypeOK, stripe, local, others, Request, Label
<1>7. Told' BY <1>1 DEF Told, stripe
<1> QED BY <1>4, <1>6, <1>7

\* The reconciliation and the visit.
Others == Sweep \/ SweepFails \/ VisitFetch \/ VisitSync \/ VisitFails

LEMMA OthersAlone == Others => UNCHANGED <<stripe, acked, redis, brief, req, history>>
BY DEF Others, Sweep, SweepLoad, SweepFetch, SweepCommit, SweepFails, VisitFetch, VisitSync,
       VisitFails, local

LEMMA OtherTyped ==
    ASSUME TInv, (\E e \in sent : KeyExpires(e)) \/ Others \/ UNCHANGED vars
    PROVE  TInv'
<1> USE DEF TInv
<1>1. CASE \E e \in sent : KeyExpires(e)
  <2>1. PICK e \in sent : KeyExpires(e) BY <1>1
  <2>2. faults' \in 0..MaxSpent BY <2>1, FaultTyped DEF KeyExpires, TypeOK
  <2>3. UNCHANGED <<stripe, acked, lasting, processed, local, req, others,
                   outcome, disorder>>
        /\ processing' = processing \ {e} /\ excused' \subseteq excused \cup {e}
        /\ e \notin lasting
    BY <2>1 DEF KeyExpires
  <2>4. TypeOK' BY <2>2, <2>3 DEF TypeOK, stripe, local, others, outcome
  <2>5. HeldSent' /\ Told' BY <2>3 DEF HeldSent, Told, At, stripe
  <2> QED BY <2>4, <2>5
<1>2. CASE Others
  <2>1. UNCHANGED <<stripe, acked, redis, brief, req, history>> BY <1>2, OthersAlone
  <2>2. /\ sub' \in Status \cup {None} /\ faults' \in 0..MaxSpent
        /\ sweep' \in [pc : {"idle", "fetch", "commit"}, val : Status \cup {None}]
        /\ visit' \in [pc : {"idle", "sync"}, val : Status \cup {None}]
    <3> USE DEF TypeOK, local, Quiet
    <3>1. CASE Sweep BY <1>2, <3>1 DEF Sweep, SweepLoad, SweepFetch, SweepCommit
    <3>2. CASE SweepFails BY <3>2, FaultTyped DEF SweepFails
    <3>3. CASE VisitFetch BY <3>3 DEF VisitFetch
    <3>4. CASE VisitSync BY <3>4 DEF VisitSync
    <3>5. CASE VisitFails BY <3>5, FaultTyped DEF VisitFails
    <3> QED BY <1>2, <3>1, <3>2, <3>3, <3>4, <3>5 DEF Others
  <2>3. TypeOK' BY <2>1, <2>2 DEF TypeOK, stripe, redis, history, outcome
  <2>4. HeldSent' /\ Told' BY <2>1 DEF HeldSent, Told, At, stripe
  <2> QED BY <2>3, <2>4
<1>3. CASE UNCHANGED vars
  BY <1>3 DEF vars, stripe, redis, local, others, history, outcome, TypeOK, HeldSent, Told, At
<1> QED BY <1>1, <1>2, <1>3

-----------------------------------------------------------------------------
(* Theorems                                                                *)

LEMMA TypeInit == Init => TInv
<1> SUFFICES ASSUME Init PROVE TInv
  OBVIOUS
<1>1. Told /\ sent \subseteq Event /\ change \in 0..MaxSpent
  <2>1. IsFiniteSet(Creation) /\ IsFiniteSet({}) BY FewKinds, FS_EmptySet DEF Creation
  <2>2. 0 \in 0..MaxSpent /\ 1 \in 0..MaxSpent BY ConstantsAssumption
  <2>3. Creation \subseteq Event /\ \A e \in Creation : e.n = 1
    BY <2>2 DEF Creation, Event, Kind
  <2>4. (sent = {} /\ change = 0) \/ (sent = Creation /\ change = 1) BY DEF Init
  <2> QED BY <2>1, <2>2, <2>3, <2>4 DEF Told
<1>3. req \in [Worker -> Request(sent)] /\ HeldSent
  <2>1. Idle \in Request(sent) /\ Idle.pc = "idle" BY DEF Idle, Request, Label, None
  <2> QED BY <2>1 DEF Init, HeldSent, At
<1>4. TypeOK
  <2>1. 0 \in 0..MaxSpent BY ConstantsAssumption
  <2>2. /\ Quiet \in [pc : {"idle", "fetch", "commit"}, val : Status \cup {None}]
        /\ Quiet \in [pc : {"idle", "sync"}, val : Status \cup {None}]
    BY DEF Quiet, None
  <2>3. /\ remote \in Status /\ faults \in 0..MaxSpent
        /\ sub \in Status \cup {None} /\ brief \in {"active", "paused"}
    BY <2>1 DEF Init, Status, Access, None
  <2> QED BY <1>1, <1>3, <2>2, <2>3 DEF Init, TypeOK, Request, Label
<1> QED BY <1>1, <1>3, <1>4 DEF TInv

LEMMA TypeNext == TInv /\ [Next]_vars => TInv'
BY StripeTyped, HandlerTyped, KeysTyped, OtherTyped DEF Next, Work, Others

\* The types, with what ties the marks and the keys to the events they stand for.
THEOREM TypeCorrect == Spec => []TypeOK
<1>1. TInv => TypeOK BY DEF TInv
<1> QED BY TypeInit, TypeNext, <1>1, PTL DEF Spec

\* An event that is claimed or was answered has a handler, or had one whose end is on record.
Ended(e) == e \in handled \cup givenUp \cup broken
Handling(w) == req[w].pc \notin {"idle", "claim"}
Attended ==
    \A e \in acked \cup processing :
        Ended(e) \/ \E w \in Worker : Handling(w) /\ req[w].e = e

LEMMA AttendedNext == TInv /\ Attended /\ [Next]_vars => Attended'
<1> SUFFICES ASSUME TInv, Attended, [Next]_vars PROVE Attended' OBVIOUS
<1> USE ReqType DEF TInv, Attended, Ended, Handling, At
<1>1. CASE PaymentFails \/ Recovers \/ Pauses \/ Resumes \/ Cancels
  <2>1. UNCHANGED <<acked, redis, req, history>>
    BY <1>1 DEF PaymentFails, Recovers, Pauses, Resumes, Cancels, Changes
  <2> QED BY <2>1 DEF redis, history, outcome
<1>2. ASSUME NEW w \in Worker,
             \/ Load(w) \/ Fetch(w) \/ FetchFails(w) \/ Write(w) \/ PlanUnknown(w)
             \/ SetBriefings(w)
      PROVE  Attended'
  <2>1. UNCHANGED <<acked, redis, history>>
    BY <1>2 DEF Load, Fetch, FetchFails, Write, PlanUnknown, SetBriefings, Keeping
  <2>2. \A v \in Worker : req'[v].e = req[v].e /\ (Handling(v) => Handling(v)')
    BY <1>2 DEF Load, Fetch, FetchFails, Write, PlanUnknown, SetBriefings, GoTo, Request
  <2> QED BY <2>1, <2>2 DEF redis, history, outcome
<1>3. ASSUME NEW w \in Worker, Deliver(w) \/ Duplicate(w) \/ Dismiss(w) PROVE Attended'
  <2>1. /\ UNCHANGED <<processing, history>> /\ req[w].pc \in {"idle", "claim"}
        /\ \A v \in Worker \ {w} : req'[v] = req[v]
    BY <1>3 DEF Deliver, Duplicate, Dismiss, Drop, Free, redis
  <2>2. \A e \in acked' \ acked : e \in processed \/ e \in processing
    BY <1>3 DEF Deliver, Duplicate, Dismiss
  <2>3. processed \subseteq handled \cup givenUp BY DEF TypeOK
  <2> QED BY <2>1, <2>2, <2>3 DEF history, outcome
<1>4. ASSUME NEW w \in Worker, Claim(w) \/ FailOpen(w) PROVE Attended'
  <2>1. ASSUME NEW e, NEW b, Begin(w, e, b), ~ Handling(w), acked' = acked,
               processing' \subseteq processing \cup {e}
        PROVE  Attended'
    <3>1. /\ UNCHANGED outcome /\ Handling(w)' /\ req'[w].e = e
          /\ \A v \in Worker \ {w} : req'[v] = req[v]
      BY <2>1 DEF Begin, Idle, First
    <3> QED BY <2>1, <3>1 DEF outcome
  <2>2. CASE Claim(w)
    <3>1. Begin(w, req[w].e, TRUE) \/ Begin(w, req[w].e, FALSE) BY <2>2 DEF Claim
    <3>2. acked' = acked /\ processing' = processing \cup {req[w].e} /\ ~ Handling(w)
      BY <2>2 DEF Claim
    <3> QED BY <2>1, <3>1, <3>2
  <2>3. CASE FailOpen(w)
    <3>1. UNCHANGED <<acked, processing>> /\ ~ Handling(w) BY <2>3 DEF FailOpen, Free, redis
    <3>2. PICK e \in sent : Begin(w, e, FALSE) BY <2>3 DEF FailOpen
    <3> QED BY <2>1, <3>1, <3>2
  <2> QED BY <1>4, <2>2, <2>3
<1>5. ASSUME NEW w \in Worker, Refuse(w) \/ Crash(w) PROVE Attended'
  <2> QED BY <1>5 DEF Refuse, Crash, BreakOff, Release, Drop, Answered500, redis
<1>6. ASSUME NEW w \in Worker, Finish(w) \/ FinishUnmarked(w) PROVE Attended'
  <2> QED BY <1>6 DEF Finish, FinishUnmarked, Returned, Drop, redis
<1>7. CASE \E e \in sent : KeyExpires(e)
  BY <1>7 DEF KeyExpires, outcome
<1>8. CASE Others \/ UNCHANGED vars
  <2>1. UNCHANGED <<acked, redis, req, history>> BY <1>8, OthersAlone DEF vars
  <2> QED BY <2>1 DEF redis, history, outcome
<1> QED BY <1>1, <1>2, <1>3, <1>4, <1>5, <1>6, <1>7, <1>8 DEF Next, Work, Others

\* Whatever fails, and whoever asks at once, an event answered with 200 was handled or
\* given up, or is being handled, or its handler broke off after the claim had another
\* delivery dismissed, or with the claim left to dismiss one: routes.py answers
\* already_processing with 200, and nothing else loses an event.
THEOREM AnswersAreHandled == Spec => []AckedIsHandled
<1>1. Init => Attended BY DEF Init, Attended
<1>2. Attended => AckedIsHandled
  BY DEF Attended, Ended, AckedIsHandled, Handling, Handlers, Holders, At
<1> QED BY TypeInit, TypeNext, AttendedNext, <1>1, <1>2, PTL DEF Spec

\* Who handles an event that is not excused holds its claim, alone, and the event has
\* not been marked; what was handled and is not excused has been.
Alone ==
    \A w \in Worker :
        Handling(w) /\ req[w].e \notin excused =>
            /\ req[w].keyed /\ req[w].e \in processing \ processed
            /\ \A v \in Worker : Handling(v) /\ req[v].e = req[w].e => v = w
Marked == handled \ excused \subseteq processed
KInv == Alone /\ Marked /\ HandledOnce

\* A step of w that leaves every key, mark and excuse, and at most ends w's handling.
LEMMA KeysKept ==
    ASSUME TInv, KInv, NEW w \in Worker,
           UNCHANGED <<processing, processed, handled, again, excused>>,
           \A v \in Worker \ {w} : req'[v] = req[v],
           Handling(w)' => Handling(w) /\ req'[w].e = req[w].e /\ req'[w].keyed = req[w].keyed
    PROVE  KInv'
BY DEF KInv, Alone, Marked, HandledOnce, Handling, history, outcome

LEMMA HandlerOnce ==
    ASSUME TInv, KInv, NEW w \in Worker,
           \/ Load(w) \/ Fetch(w) \/ FetchFails(w) \/ Write(w) \/ PlanUnknown(w)
           \/ SetBriefings(w) \/ Deliver(w) \/ Duplicate(w) \/ Crash(w)
    PROVE  KInv'
<1> USE ReqType DEF TInv
<1>1. CASE Deliver(w)
  <2>1. UNCHANGED <<processing, processed, history>> BY <1>1 DEF Deliver, redis
  <2>2. PICK e \in sent : req' = [req EXCEPT ![w].pc = "claim", ![w].e = e]
    BY <1>1 DEF Deliver
  <2>3. req' = [req EXCEPT ![w] = [req[w] EXCEPT !.pc = "claim", !.e = e]] BY <2>2
  <2>4. req'[w].pc = "claim" /\ \A v \in Worker \ {w} : req'[v] = req[v]
    BY <2>3 DEF Request
  <2> QED BY <2>1, <2>4, KeysKept DEF Handling, history, outcome
<1>2. CASE Duplicate(w) BY <1>2, KeysKept DEF Duplicate, Handling, redis, history, outcome
<1>3. CASE Crash(w) BY <1>3, KeysKept DEF Crash, BreakOff, Drop, Idle, Handling, redis
<1>4. ASSUME NEW l \in Label, NEW v, ~ At(w, "idle"), ~ At(w, "claim"), GoTo(w, l, v),
             UNCHANGED <<processing, processed, history>>
      PROVE  KInv'
  BY <1>4, KeysKept DEF GoTo, At, Handling, Request, history, outcome
<1>5. CASE Load(w) \/ Fetch(w) \/ FetchFails(w) \/ Write(w) \/ PlanUnknown(w) \/ SetBriefings(w)
  <2>1. UNCHANGED <<processing, processed, history>>
    BY <1>5 DEF Load, Fetch, FetchFails, Write, PlanUnknown, SetBriefings, Keeping, redis
  <2>2. ~ At(w, "idle") /\ ~ At(w, "claim")
    BY <1>5 DEF Load, Fetch, FetchFails, Write, PlanUnknown, SetBriefings, At
  <2>3. \E l \in Label : \E v : GoTo(w, l, v)
    BY <1>5 DEF Load, Fetch, FetchFails, Write, PlanUnknown, SetBriefings, Label
  <2> QED BY <1>4, <2>1, <2>2, <2>3
<1> QED BY <1>1, <1>2, <1>3, <1>5

\* A handler begins only when nobody handles the event, or the event is excused.
LEMMA BeginOnce ==
    ASSUME TInv, KInv, NEW w \in Worker, Claim(w) \/ FailOpen(w)
    PROVE  KInv'
<1> USE ReqType DEF TInv, Handling
<1>1. PICK e \in sent, b \in BOOLEAN :
        /\ Begin(w, e, b) /\ ~ Handling(w)
        /\ processed' = processed /\ processing \subseteq processing'
        /\ b => e \in processing' \ processing
  <2>1. CASE Claim(w)
    <3>1. req[w].e \in sent BY <2>1 DEF Claim, At, HeldSent
    <3> QED BY <2>1, <3>1 DEF Claim, At
  <2>2. CASE FailOpen(w) BY <2>2 DEF FailOpen, Free, At, redis
  <2> QED BY <2>1, <2>2
<1>2. /\ \A v \in Worker \ {w} : req'[v] = req[v]
      /\ req'[w].e = e /\ req'[w].keyed = b
      /\ excused \subseteq excused' /\ UNCHANGED <<handled, again>>
      /\ (~ b \/ e \in processed) => e \in excused'
  BY <1>1 DEF Begin, Idle, outcome
<1>3. Marked' /\ HandledOnce' BY <1>1, <1>2 DEF KInv, Marked, HandledOnce
<1>4. Alone'
  <2> SUFFICES ASSUME NEW v \in Worker, Handling(v)', req'[v].e \notin excused'
               PROVE  /\ req'[v].keyed /\ req'[v].e \in processing' \ processed'
                      /\ \A u \in Worker : Handling(u)' /\ req'[u].e = req'[v].e => u = v
    BY DEF Alone
  <2>1. CASE v = w
    <3>1. b /\ e \notin processed /\ e \notin processing /\ e \in processing' /\ e \notin excused
      BY <1>1, <1>2, <2>1
    <3>2. \A u \in Worker \ {w} : Handling(u) => req[u].e # e
      BY <3>1 DEF KInv, Alone
    <3> QED BY <1>1, <1>2, <2>1, <3>1, <3>2
  <2>2. CASE v # w
    <3>1. /\ Handling(v) /\ req'[v] = req[v] /\ req[v].e \notin excused BY <1>2, <2>2
    <3>2. /\ req[v].keyed /\ req[v].e \in processing \ processed
          /\ \A u \in Worker : Handling(u) /\ req[u].e = req[v].e => u = v
      BY <3>1 DEF KInv, Alone
    <3>3. req[v].e # e BY <1>1, <1>2, <3>1, <3>2
    <3> QED BY <1>1, <1>2, <3>1, <3>2, <3>3
  <2> QED BY <2>1, <2>2
<1> QED BY <1>3, <1>4 DEF KInv

\* What w lets go is its own event's.
LEMMA EndOnce ==
    ASSUME TInv, KInv, NEW w \in Worker,
           Dismiss(w) \/ Refuse(w) \/ Finish(w) \/ FinishUnmarked(w)
    PROVE  KInv'
<1> USE ReqType DEF TInv, Handling
<1> DEFINE e == req[w].e
<1>1. /\ \A v \in Worker \ {w} : req'[v] = req[v]
      /\ req'[w].pc = "idle"
  BY DEF Dismiss, Refuse, BreakOff, Finish, FinishUnmarked, Returned, Drop, Idle
<1>2. CASE Dismiss(w)
  BY <1>1, <1>2 DEF Dismiss, redis, history, outcome, KInv, Alone, Marked, HandledOnce
<1>3. CASE ~ Dismiss(w)
  <2>1. Handling(w) BY <1>3 DEF Refuse, Finish, FinishUnmarked, Returned, At
  <2>2. /\ processing \ {e} \subseteq processing' /\ processed \subseteq processed'
        /\ processed' \subseteq processed \cup {e} /\ excused \subseteq excused'
    BY <1>3 DEF Refuse, BreakOff, Release, Finish, FinishUnmarked, Returned, Marks, redis
  <2>3. Alone' BY <1>1, <2>1, <2>2 DEF KInv, Alone
  <2>4. \/ UNCHANGED <<handled, again>>
        \/ /\ handled' \subseteq handled \cup {e} /\ again' \subseteq again \cup ({e} \cap handled)
           /\ req[w].keyed => e \in processed' \cup excused'
    BY <1>3 DEF Refuse, BreakOff, Finish, FinishUnmarked, Returned, Marks
  <2>5. req[w].keyed \/ e \in excused BY <2>1 DEF KInv, Alone
  <2>6. e \in excused \/ e \notin handled BY <2>1 DEF KInv, Alone, Marked
  <2>7. Marked' /\ HandledOnce'
    BY <2>2, <2>4, <2>5, <2>6 DEF KInv, Marked, HandledOnce
  <2> QED BY <2>3, <2>7 DEF KInv
<1> QED BY <1>2, <1>3

LEMMA OtherOnce ==
    ASSUME TInv, KInv,
           \/ PaymentFails \/ Recovers \/ Pauses \/ Resumes \/ Cancels
           \/ (\E e \in sent : KeyExpires(e)) \/ Others \/ UNCHANGED vars
    PROVE  KInv'
<1>1. CASE \E e \in sent : KeyExpires(e)
  <2>1. PICK e \in sent : KeyExpires(e) BY <1>1
  <2>2. /\ UNCHANGED <<processed, req, handled, again>> /\ processing' = processing \ {e}
        /\ excused \subseteq excused'
        /\ \A w \in Worker : Handling(w) /\ req[w].e = e => e \in excused'
    BY <2>1 DEF KeyExpires, Handlers, Holders, Handling, At, outcome
  <2> QED BY <2>2 DEF KInv, Alone, Marked, HandledOnce, Handling
<1>2. CASE ~ \E e \in sent : KeyExpires(e)
  <2>1. UNCHANGED <<redis, req, history>>
    BY <1>2, OthersAlone DEF PaymentFails, Recovers, Pauses, Resumes, Cancels, Changes, vars
  <2> QED BY <2>1 DEF redis, history, outcome, KInv, Alone, Marked, HandledOnce, Handling
<1> QED BY <1>1, <1>2

\* The two keys do what they are for, for any number of workers: an event is handled
\* twice only when a delivery that asked before it was marked claimed it afterwards,
\* when its claim ran out under its handler, or when Redis failed.
THEOREM NotHandledTwice == Spec => []HandledOnce
<1>1. Init => KInv
  BY DEF Init, KInv, Alone, Marked, HandledOnce, Handling, Idle
<1>2. TInv /\ KInv /\ [Next]_vars => KInv'
  BY HandlerOnce, BeginOnce, EndOnce, OtherOnce DEF Next, Work, Others
<1>3. KInv => HandledOnce BY DEF KInv
<1> QED BY TypeInit, TypeNext, <1>1, <1>2, <1>3, PTL DEF Spec
=============================================================================
