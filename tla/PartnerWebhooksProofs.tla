------------------------ MODULE PartnerWebhooksProofs ------------------------
(***************************************************************************)
(* Proofs about the delivery of partner events, for any number of requests *)
(* that overlap with the scheduler: no event is given up before its calls  *)
(* were made, a second acceptance has its reason, and so has an open row   *)
(* that is never due.                                                      *)
(***************************************************************************)
EXTENDS PartnerWebhooks, TLAPS, FiniteSetTheorems

(* The times a row is due are of no concern before the last section. *)

IsRow(r) == /\ r = [st |-> r.st, n |-> r.n, due |-> r.due]
            /\ r.st \in Status /\ r.n \in Nat

Types ==
    /\ DOMAIN row = Event /\ \A e \in Event : IsRow(row[e])
    /\ pc \in [Worker -> {"idle", "load", "visit", "post", "record"}]
    /\ batch \in [Worker -> SUBSET Event] /\ cur \in [Worker -> Event \cup {NoEvent}]
    /\ DOMAIN seen = Worker
    /\ \A w \in Worker :
          /\ seen[w] = [row |-> seen[w].row, active |-> seen[w].active]
          /\ IsRow(seen[w].row) /\ seen[w].active \in BOOLEAN
    /\ active \in BOOLEAN
    /\ answer \in [Worker -> Answer]
    /\ faults \in Nat /\ tries \in [Event -> Nat] /\ accepted \in [Event -> Nat]
    /\ shared \subseteq Event /\ crowded \subseteq Event /\ paused \subseteq Event

\* A worker has a row exactly while it posts and records.
Places ==
    \A w \in Worker :
        /\ pc[w] \in {"idle", "load"} => batch[w] = {} /\ cur[w] = NoEvent
        /\ pc[w] = "visit" => cur[w] = NoEvent
        /\ pc[w] \in {"post", "record"} => cur[w] \in Event \ batch[w]

WInv == Types /\ Places

-----------------------------------------------------------------------------
(* Rows                                                                    *)

LEMMA RowMade ==
    ASSUME NEW s \in Status, NEW n \in Nat, NEW d
    PROVE  IsRow([st |-> s, n |-> n, due |-> d])
BY DEF IsRow

\* Due times change nothing else.
LEMMA DueSet ==
    ASSUME NEW r, IsRow(r), NEW d
    PROVE  /\ IsRow([r EXCEPT !.due = d])
           /\ [r EXCEPT !.due = d].st = r.st /\ [r EXCEPT !.due = d].n = r.n
<1>1. r = [st |-> r.st, n |-> r.n, due |-> r.due] /\ r.st \in Status /\ r.n \in Nat BY DEF IsRow
<1>2. [r EXCEPT !.due = d] = [st |-> r.st, n |-> r.n, due |-> d]
  <2> DEFINE q == [st |-> r.st, n |-> r.n, due |-> r.due]
  <2>1. [q EXCEPT !.due = d] = [st |-> r.st, n |-> r.n, due |-> d] OBVIOUS
  <2> QED BY <1>1, <2>1
<1> QED BY <1>1, <1>2, RowMade

\* What a worker that read r sets: one call more, unless none was made.
LEMMA OutcomeIs ==
    ASSUME NEW r, IsRow(r), NEW a \in Answer
    PROVE  /\ IsRow(Outcome(r, a))
           /\ Outcome(r, a).n = IF a = "none" THEN r.n ELSE r.n + 1
           /\ Outcome(r, a).st = "failed" => a = "none" \/ r.n + 1 >= MaxAttempts
           /\ Outcome(r, a).st \in {"failed", "delivered", "retrying"}
           /\ Outcome(r, a).st = "delivered" <=> a = "ok"
<1> USE ConstantsAssumption
<1>1. r = [st |-> r.st, n |-> r.n, due |-> r.due] /\ r.st \in Status /\ r.n \in Nat BY DEF IsRow
<1>2. CASE a = "none"
  <2>1. [r EXCEPT !.st = "failed", !.due = NoDue] = [st |-> "failed", n |-> r.n, due |-> NoDue]
    <3> DEFINE q == [st |-> r.st, n |-> r.n, due |-> r.due]
    <3>1. [q EXCEPT !.st = "failed"] = [st |-> "failed", n |-> r.n, due |-> r.due] OBVIOUS
    <3>2. [q EXCEPT !.st = "failed", !.due = NoDue] = [[q EXCEPT !.st = "failed"] EXCEPT !.due = NoDue]
      OBVIOUS
    <3>3. [[st |-> "failed", n |-> r.n, due |-> r.due] EXCEPT !.due = NoDue]
            = [st |-> "failed", n |-> r.n, due |-> NoDue]
      OBVIOUS
    <3> QED BY <1>1, <3>1, <3>2, <3>3
  <2>2. Outcome(r, a) = [st |-> "failed", n |-> r.n, due |-> NoDue]
    BY <1>2, <2>1 DEF Outcome
  <2> QED BY <1>1, <1>2, <2>2, RowMade DEF Status
<1>3. CASE a = "ok"
  <2>1. Outcome(r, a) = [st |-> "delivered", n |-> r.n + 1, due |-> NoDue]
    BY <1>3 DEF Outcome
  <2> QED BY <1>1, <1>3, <2>1, RowMade DEF Status
<1>4. CASE a \notin {"none", "ok"}
  <2>1. Outcome(r, a) = Retry(r) BY <1>4 DEF Outcome
  <2>2. \/ /\ r.n + 1 >= MaxAttempts
           /\ Retry(r) = [st |-> "failed", n |-> r.n + 1, due |-> NoDue]
        \/ Retry(r) = [st |-> "retrying", n |-> r.n + 1, due |-> Backoff(r.n + 1)]
    BY <1>1 DEF Retry
  <2>3. IsRow(Retry(r)) BY <1>1, <2>2, RowMade DEF Status
  <2> QED BY <1>1, <1>4, <2>1, <2>2, <2>3
<1> QED BY <1>2, <1>3, <1>4

\* Each column of the row after an UPDATE is the outcome's, or as it was.
LEMMA WrittenIs ==
    ASSUME NEW r, IsRow(r), NEW o, IsRow(o), NEW old, IsRow(old)
    PROVE  /\ IsRow(Written(r, o, old))
           /\ Written(r, o, old).n \in {o.n, old.n}
           /\ \/ Written(r, o, old).st = o.st
              \/ Written(r, o, old).st = old.st /\ o.st = r.st
<1> DEFINE d == IF o.due = NoDue THEN Column(r.due, NoDue, old.due) ELSE o.due
           s == Column(r.st, o.st, old.st)
           n == Column(r.n, o.n, old.n)
<1>1. Written(r, o, old) = [st |-> s, n |-> n, due |-> d] BY DEF Written
<1>2. {o.st, old.st} \subseteq Status /\ {o.n, old.n} \subseteq Nat BY DEF IsRow
<1>3. s \in Status /\ (s = o.st \/ (s = old.st /\ o.st = r.st)) BY <1>2 DEF Column
<1>4. n \in Nat /\ n \in {o.n, old.n} BY <1>2 DEF Column
<1> HIDE DEF s, n, d
<1>5. IsRow(Written(r, o, old)) BY <1>1, <1>3, <1>4, RowMade
<1> QED BY <1>1, <1>3, <1>4, <1>5

-----------------------------------------------------------------------------
(* Types and places                                                        *)

LocalTypes ==
    /\ pc \in [Worker -> {"idle", "load", "visit", "post", "record"}]
    /\ batch \in [Worker -> SUBSET Event] /\ cur \in [Worker -> Event \cup {NoEvent}]
    /\ shared \subseteq Event /\ crowded \subseteq Event
SeenTypes ==
    /\ DOMAIN seen = Worker
    /\ \A w \in Worker :
          /\ seen[w] = [row |-> seen[w].row, active |-> seen[w].active]
          /\ IsRow(seen[w].row) /\ seen[w].active \in BOOLEAN

InPlace(label, b, e) ==
    /\ label \in {"idle", "load"} => b = {} /\ e = NoEvent
    /\ label = "visit" => e = NoEvent
    /\ label \in {"post", "record"} => e \in Event \ b

LEMMA MoveTyped ==
    ASSUME WInv, NEW w \in Worker, NEW label \in {"idle", "load", "visit", "post", "record"},
           NEW b \in SUBSET Event, NEW e \in Event \cup {NoEvent}, InPlace(label, b, e),
           Move(w, label, b, e)
    PROVE  LocalTypes' /\ Places'
<1>1. /\ pc' = [pc EXCEPT ![w] = label] /\ batch' = [batch EXCEPT ![w] = b]
      /\ cur' = [cur EXCEPT ![w] = e] /\ shared' \subseteq Event /\ crowded' \subseteq Event
  BY DEF Move, WInv, Types
<1>2. LocalTypes' BY <1>1 DEF WInv, Types, LocalTypes
<1>3. Places' BY <1>1 DEF WInv, Types, Places, InPlace
<1> QED BY <1>2, <1>3

LEMMA SeenTyped ==
    ASSUME WInv, NEW w \in Worker, NEW r, IsRow(r), NEW a \in BOOLEAN,
           seen' = [seen EXCEPT ![w] = [row |-> r, active |-> a]]
    PROVE  SeenTypes' /\ seen'[w].row = r /\ \A v \in Worker \ {w} : seen'[v] = seen[v]
BY DEF WInv, Types, SeenTypes

LEMMA NewIsRow == IsRow(NewRow) /\ IsRow([NewRow EXCEPT !.st = "deleted"])
                  /\ [NewRow EXCEPT !.st = "deleted"].n = 0
                  /\ [NewRow EXCEPT !.st = "deleted"].st = "deleted"
<1>1. [NewRow EXCEPT !.st = "deleted"] = [st |-> "deleted", n |-> 0, due |-> NoDue]
  BY DEF NewRow
<1> QED BY <1>1, RowMade DEF NewRow, Status

LEMMA StopTyped ==
    ASSUME WInv, NEW w \in Worker, Stop(w)
    PROVE  /\ LocalTypes' /\ Places' /\ SeenTypes' /\ answer' \in [Worker -> Answer]
           /\ \A v \in Worker \ {w} : seen'[v] = seen[v]
<1>1. LocalTypes' /\ Places' BY MoveTyped DEF Stop, InPlace
<1>2. SeenTypes' /\ \A v \in Worker \ {w} : seen'[v] = seen[v]
  BY SeenTyped, NewIsRow DEF Stop
<1>3. answer' \in [Worker -> Answer] BY DEF Stop, Answer, WInv, Types
<1> QED BY <1>1, <1>2, <1>3

\* A worker takes a row: it sees what the row is.
Takes(w, e) ==
    /\ pc'[w] = "post" /\ cur'[w] = e /\ e \in Event
    /\ seen'[w].row = row[e]
    /\ \A v \in Worker \ {w} : seen'[v] = seen[v]

LEMMA TakeTyped ==
    ASSUME WInv, NEW w \in Worker, NEW e \in Event, NEW b \in SUBSET Event, e \notin b,
           Move(w, "post", b, e), Read(w, e)
    PROVE  LocalTypes' /\ Places' /\ SeenTypes' /\ Takes(w, e)
<1>1. LocalTypes' /\ Places' BY MoveTyped DEF InPlace
<1>2. SeenTypes' /\ seen'[w].row = row[e] /\ \A v \in Worker \ {w} : seen'[v] = seen[v]
  BY SeenTyped DEF Read, WInv, Types
<1>3. pc'[w] = "post" /\ cur'[w] = e BY DEF Move, WInv, Types
<1> QED BY <1>1, <1>2, <1>3 DEF Takes

Rest == /\ DOMAIN row = Event /\ \A e \in Event : IsRow(row[e])
        /\ active \in BOOLEAN /\ answer \in [Worker -> Answer]
        /\ faults \in Nat /\ tries \in [Event -> Nat] /\ accepted \in [Event -> Nat]
        /\ paused \subseteq Event

LEMMA TypesParts == LocalTypes' /\ SeenTypes' /\ Rest' => Types'
BY DEF Types, LocalTypes, SeenTypes, Rest

LEMMA FaultNat == faults \in Nat /\ Fault => faults' \in Nat /\ faults' = faults + 1
BY DEF Fault

\* What the record of an answer does to the row.
Records(w) ==
    /\ pc[w] = "record" /\ cur[w] \in Event
    /\ \/ /\ row[cur[w]].st # "deleted" /\ faults' = faults
          /\ row' = [row EXCEPT ![cur[w]] = Written(seen[w].row, Outcome(seen[w].row, answer[w]), @)]
       \/ /\ row' = row /\ faults' \in Nat
          /\ \/ row[cur[w]].st # "deleted" /\ faults' = faults + 1
             \/ row[cur[w]].st = "deleted" /\ faults' = faults

LEMMA RecordTyped ==
    ASSUME WInv, NEW w \in Worker, Record(w)
    PROVE  /\ WInv' /\ Records(w) /\ pc'[w] \notin {"post", "record"}
           /\ cur'[w] = NoEvent /\ batch'[w] = batch[w]
           /\ \A v \in Worker \ {w} : seen'[v] = seen[v]
<1> USE DEF WInv
<1>1. Records(w) BY FaultNat DEF Record, Records, Places, Types
<1>2. DOMAIN row' = Event /\ \A e \in Event : IsRow(row'[e])
  <2>1. CASE row' = row BY <2>1 DEF Types
  <2>2. CASE row' = [row EXCEPT ![cur[w]] = Written(seen[w].row, Outcome(seen[w].row, answer[w]), @)]
    <3>1. cur[w] \in Event /\ IsRow(row[cur[w]]) /\ IsRow(seen[w].row) /\ answer[w] \in Answer
      BY <1>1 DEF Records, Types
    <3>2. IsRow(Written(seen[w].row, Outcome(seen[w].row, answer[w]), row[cur[w]]))
      BY <3>1, OutcomeIs, WrittenIs
    <3> QED BY <2>2, <3>2 DEF Types
  <2> QED BY <1>1, <2>1, <2>2 DEF Records
<1>3. /\ LocalTypes' /\ Places' /\ SeenTypes' /\ answer' \in [Worker -> Answer]
      /\ \A v \in Worker \ {w} : seen'[v] = seen[v]
  <2>1. CASE Stop(w) BY <2>1, StopTyped
  <2>2. CASE /\ Move(w, "visit", batch[w], NoEvent) /\ seen' = seen
             /\ answer' = [answer EXCEPT ![w] = "none"]
    <3>1. LocalTypes' /\ Places' BY <2>2, MoveTyped DEF InPlace, Types
    <3> QED BY <2>2, <3>1 DEF SeenTypes, Types, Answer
  <2> QED BY <2>1, <2>2 DEF Record
<1>4. active' \in BOOLEAN /\ tries' \in [Event -> Nat] /\ accepted' \in [Event -> Nat]
      /\ paused' \subseteq Event /\ faults' \in Nat
  BY <1>1 DEF Record, Records, Types
<1>5. /\ pc'[w] \notin {"post", "record"} /\ cur'[w] = NoEvent /\ batch'[w] = batch[w]
  BY DEF Record, Stop, Move, Types
<1> QED BY <1>1, <1>2, <1>3, <1>4, <1>5, TypesParts DEF Rest

\* A worker looks for rows, or visits the next.
Looks(w) == Load(w) \/ Visit(w)

LEMMA LookTyped ==
    ASSUME WInv, NEW w \in Worker, Looks(w)
    PROVE  /\ WInv' /\ row' = row /\ UNCHANGED <<faults, tries, accepted, paused>>
           /\ \A v \in Worker \ {w} : seen'[v] = seen[v]
           /\ (pc'[w] = "idle" /\ batch'[w] = {} /\ cur'[w] = NoEvent) \/ \E e \in Event : Takes(w, e)
<1> USE DEF WInv
<1>1. UNCHANGED <<table, faults, tries, accepted, paused>> BY DEF Looks, Load, Visit
<1>2. \/ Stop(w)
      \/ \E e \in Event, b \in SUBSET Event :
            e \notin b /\ Move(w, "post", b, e) /\ Read(w, e) /\ UNCHANGED answer
  <2>1. CASE Load(w)
    <3>1. Due \in SUBSET Event /\ \A e \in Due : Due \ {e} \in SUBSET Event BY DEF Due
    <3> QED BY <2>1, <3>1 DEF Load
  <2>2. CASE Visit(w)
    <3>1. batch[w] \in SUBSET Event /\ \A e \in batch[w] : batch[w] \ {e} \in SUBSET Event
      BY DEF Types
    <3> QED BY <2>2, <3>1 DEF Visit
  <2> QED BY <2>1, <2>2 DEF Looks
<1>3. Rest' <=> answer' \in [Worker -> Answer] BY <1>1 DEF Rest, Types, table
<1>4. CASE Stop(w)
  <2>1. pc'[w] = "idle" /\ batch'[w] = {} /\ cur'[w] = NoEvent
    BY <1>4 DEF Stop, Move, Types
  <2> QED BY <1>1, <1>3, <1>4, <2>1, StopTyped, TypesParts DEF table
<1>5. CASE \E e \in Event, b \in SUBSET Event :
              e \notin b /\ Move(w, "post", b, e) /\ Read(w, e) /\ UNCHANGED answer
  <2>1. PICK e \in Event, b \in SUBSET Event :
              e \notin b /\ Move(w, "post", b, e) /\ Read(w, e) /\ UNCHANGED answer
    BY <1>5
  <2>2. LocalTypes' /\ Places' /\ SeenTypes' /\ Takes(w, e) BY <2>1, TakeTyped
  <2>3. answer' \in [Worker -> Answer] BY <2>1 DEF Types
  <2> QED BY <1>1, <1>3, <2>2, <2>3, TypesParts DEF table, Takes
<1> QED BY <1>2, <1>4, <1>5

\* A worker posts, or passes over an endpoint that is not active.
Answers(w) ==
    /\ pc[w] = "post" /\ pc' = [pc EXCEPT ![w] = "record"] /\ cur[w] \in Event
    /\ UNCHANGED <<row, batch, cur, seen, shared, crowded>>
    /\ \A v \in Worker \ {w} : answer'[v] = answer[v]
    /\ \/ /\ answer'[w] = "none" /\ paused' = paused \cup {cur[w]}
          /\ UNCHANGED <<tries, accepted, faults>>
       \/ /\ answer'[w] # "none" /\ tries' = [tries EXCEPT ![cur[w]] = @ + 1]
          /\ paused' = paused
          /\ \/ answer'[w] = "ok" /\ faults' = faults
                /\ accepted' = [accepted EXCEPT ![cur[w]] = @ + 1]
             \/ answer'[w] = "refused" /\ UNCHANGED <<faults, accepted>>
             \/ answer'[w] = "error" /\ faults' = faults + 1
                /\ accepted' = [accepted EXCEPT ![cur[w]] = @ + 1]

LEMMA AnswerTyped ==
    ASSUME WInv, NEW w \in Worker, Inactive(w) \/ Post(w)
    PROVE  WInv' /\ Answers(w)
<1> USE DEF WInv
<1>1. Answers(w)
  BY FaultNat DEF Inactive, Post, Answered, Answers, table, Places, Types
<1>2. LocalTypes' /\ Places' BY <1>1 DEF Answers, LocalTypes, Places, Types
<1>3. SeenTypes' BY <1>1 DEF Answers, SeenTypes, Types
<1>4. answer' \in [Worker -> Answer] /\ active' = active
  BY DEF Inactive, Post, Answered, Types, Answer, table
<1>5. /\ tries' \in [Event -> Nat] /\ accepted' \in [Event -> Nat]
      /\ faults' \in Nat /\ paused' \subseteq Event
  <2>1. cur[w] \in Event /\ faults \in Nat /\ paused \subseteq Event
        /\ tries \in [Event -> Nat] /\ accepted \in [Event -> Nat]
    BY <1>1 DEF Answers, Types
  <2>2. paused' = paused \/ paused' = paused \cup {cur[w]} BY <1>1 DEF Answers
  <2>3. tries' = tries \/ tries' = [tries EXCEPT ![cur[w]] = @ + 1] BY <1>1 DEF Answers
  <2>4. accepted' = accepted \/ accepted' = [accepted EXCEPT ![cur[w]] = @ + 1]
    BY <1>1 DEF Answers
  <2>5. faults' = faults \/ faults' = faults + 1 BY <1>1 DEF Answers
  <2>6. tries' \in [Event -> Nat] BY <2>1, <2>3
  <2>7. accepted' \in [Event -> Nat] BY <2>1, <2>4
  <2> QED BY <2>1, <2>2, <2>5, <2>6, <2>7
<1>6. Rest' BY <1>1, <1>4, <1>5 DEF Answers, Rest, Types
<1> QED BY <1>1, <1>2, <1>3, <1>6, TypesParts

\* The steps that touch no worker's row.
LEMMA EmitTyped ==
    ASSUME WInv, NEW w \in Worker, NEW e \in Event, Emit(w, e)
    PROVE  /\ WInv' /\ UNCHANGED <<seen, answer, faults, tries, accepted, paused>>
           /\ row[e].st = "new" /\ pc'[w] \in {"load", "visit"}
           /\ row'[e].st = "pending" /\ row'[e].n = 0
           /\ \A x \in Event \ {e} : row'[x] = row[x]
<1> USE DEF WInv
<1>1. UNCHANGED <<active, seen, answer, faults, tries, accepted, paused>> /\ row[e].st = "new"
  BY DEF Emit
<1>2. LocalTypes' /\ Places' /\ pc'[w] \in {"load", "visit"}
  <2>1. CASE Move(w, "load", {}, NoEvent)
    BY <2>1, MoveTyped DEF InPlace, Move, Types
  <2>2. CASE Move(w, "visit", {e}, NoEvent)
    <3>1. {e} \in SUBSET Event /\ InPlace("visit", {e}, NoEvent) BY DEF InPlace
    <3>2. LocalTypes' /\ Places' BY <2>2, <3>1, MoveTyped
    <3> QED BY <2>2, <3>2 DEF Move, Types
  <2> QED BY <2>1, <2>2 DEF Emit
<1>3. IsRow([st |-> "pending", n |-> 0, due |-> 0]) BY RowMade DEF Status
<1>4. row' = [row EXCEPT ![e] = [st |-> "pending", n |-> 0, due |-> 0]] BY DEF Emit
<1>5. SeenTypes' BY <1>1 DEF SeenTypes, Types
<1>6. Rest' BY <1>1, <1>3, <1>4 DEF Rest, Types
<1> QED BY <1>1, <1>2, <1>4, <1>5, <1>6, TypesParts DEF Types

LEMMA CrashTyped ==
    ASSUME WInv, NEW w \in Worker, Crash(w)
    PROVE  /\ WInv' /\ UNCHANGED <<row, tries, accepted, paused>> /\ faults' = faults + 1
           /\ pc'[w] = "idle" /\ batch'[w] = {} /\ cur'[w] = NoEvent
           /\ \A v \in Worker \ {w} : seen'[v] = seen[v]
<1> USE DEF WInv
<1>1. UNCHANGED <<row, active, tries, accepted, paused>> /\ faults' = faults + 1 /\ Stop(w)
  BY FaultNat DEF Crash, table, Types
<1>2. pc'[w] = "idle" /\ batch'[w] = {} /\ cur'[w] = NoEvent BY <1>1 DEF Stop, Move, Types
<1>3. Rest' <=> answer' \in [Worker -> Answer] BY <1>1 DEF Rest, Types
<1> QED BY <1>1, <1>2, <1>3, StopTyped, TypesParts

LEMMA OutsideTyped ==
    ASSUME WInv, SetActive \/ DeleteEndpoint \/ Tick \/ UNCHANGED vars
    PROVE  /\ WInv' /\ UNCHANGED <<pc, batch, cur, seen, answer, history>> /\ faults' >= faults
           /\ \/ \A e \in Event : row'[e].st = row[e].st /\ row'[e].n = row[e].n
              \/ \A e \in Event : row'[e].st = "deleted" /\ row'[e].n = 0
<1> USE DEF WInv
<1>1. /\ UNCHANGED <<pc, batch, cur, seen, answer, history>>
      /\ faults' \in Nat /\ faults' >= faults /\ active' \in BOOLEAN
  <2> USE FaultNat DEF Types
  <2>1. CASE SetActive BY <2>1 DEF SetActive, workers
  <2>2. CASE DeleteEndpoint
    <3>1. active' = FALSE /\ UNCHANGED <<workers, faults, history>> BY <2>2 DEF DeleteEndpoint
    <3>2. faults' \in Nat /\ faults' >= faults BY <3>1
    <3>3. UNCHANGED <<pc, batch, cur, seen, answer, history>> BY <3>1 DEF workers
    <3>4. active' \in BOOLEAN BY <3>1, Zenon
    <3> QED BY <3>2, <3>3, <3>4
  <2>3. CASE Tick BY <2>3 DEF Tick
  <2>4. CASE UNCHANGED vars BY <2>4 DEF vars, table, workers
  <2> QED BY <2>1, <2>2, <2>3, <2>4
<1>2. /\ DOMAIN row' = Event /\ \A e \in Event : IsRow(row'[e])
      /\ \/ \A e \in Event : row'[e].st = row[e].st /\ row'[e].n = row[e].n
         \/ \A e \in Event : row'[e].st = "deleted" /\ row'[e].n = 0
  <2>1. CASE SetActive \/ UNCHANGED vars BY <2>1 DEF SetActive, vars, table, Types
  <2>2. CASE DeleteEndpoint BY <2>2, NewIsRow DEF DeleteEndpoint
  <2>3. CASE Tick
    <3> DEFINE d(e) == IF row[e].due > 0 THEN row[e].due - 1 ELSE row[e].due
    <3>1. row' = [e \in Event |-> [row[e] EXCEPT !.due = d(e)]] BY <2>3 DEF Tick
    <3> HIDE DEF d
    <3>2. \A e \in Event : IsRow(row[e]) BY DEF Types
    <3> QED BY <3>1, <3>2, DueSet
  <2> QED BY <2>1, <2>2, <2>3
<1>3. LocalTypes' /\ SeenTypes' /\ Places'
  BY <1>1 DEF LocalTypes, SeenTypes, Places, Types, history
<1>4. Rest' BY <1>1, <1>2 DEF Rest, Types, history
<1> QED BY <1>1, <1>2, <1>3, <1>4, TypesParts

LEMMA NextTyped == WInv /\ [Next]_vars => WInv'
BY LookTyped, AnswerTyped, RecordTyped, CrashTyped, EmitTyped, OutsideTyped DEF Next, Step, Looks

LEMMA InitTyped == Init => WInv
<1> SUFFICES ASSUME Init PROVE WInv
  OBVIOUS
<1>1. Rest BY NewIsRow DEF Init, Rest, Answer
<1>2. LocalTypes /\ Places BY DEF Init, LocalTypes, Places
<1>3. SeenTypes BY NewIsRow DEF Init, SeenTypes
<1> QED BY <1>1, <1>2, <1>3 DEF WInv, Types, LocalTypes, SeenTypes, Rest

-----------------------------------------------------------------------------
(* Given up only after the calls                                           *)

\* A count of attempts, in the row or in a worker's hands, is a count of calls made.
RowCounts == \A e \in Event : row[e].n <= tries[e]
SeenCounts ==
    \A w \in Worker :
        pc[w] \in {"post", "record"} =>
            /\ seen[w].row.n <= tries[cur[w]]
            /\ pc[w] = "record" => IF answer[w] = "none" THEN cur[w] \in paused
                                   ELSE seen[w].row.n + 1 <= tries[cur[w]]
Calls == RowCounts /\ SeenCounts /\ GivenUpAfterAttempts

\* A step of one worker that makes no row and no call worse.
LEMMA OthersCount ==
    ASSUME WInv, WInv', Calls, NEW w \in Worker,
           \A v \in Worker \ {w} : /\ seen'[v] = seen[v] /\ answer'[v] = answer[v]
                                    /\ pc'[v] = pc[v] /\ cur'[v] = cur[v],
           \A e \in Event : tries'[e] >= tries[e], paused \subseteq paused'
    PROVE  \A v \in Worker \ {w} :
              pc'[v] \in {"post", "record"} =>
                /\ seen'[v].row.n <= tries'[cur'[v]]
                /\ pc'[v] = "record" => IF answer'[v] = "none" THEN cur'[v] \in paused'
                                        ELSE seen'[v].row.n + 1 <= tries'[cur'[v]]
<1> SUFFICES ASSUME NEW v \in Worker \ {w}, pc[v] \in {"post", "record"}
             PROVE  /\ seen[v].row.n <= tries'[cur[v]]
                    /\ pc[v] = "record" => IF answer[v] = "none" THEN cur[v] \in paused'
                                           ELSE seen[v].row.n + 1 <= tries'[cur[v]]
  OBVIOUS
<1>1. cur[v] \in Event /\ seen[v].row.n \in Nat BY DEF WInv, Places, Types, IsRow
<1>2. /\ tries[cur[v]] \in Nat /\ tries'[cur[v]] \in Nat /\ tries'[cur[v]] >= tries[cur[v]]
  BY <1>1 DEF WInv, Types
<1> QED BY <1>1, <1>2 DEF Calls, SeenCounts

LEMMA MovesAlone ==
    ASSUME WInv, NEW w \in Worker,
           \/ Looks(w) \/ Record(w) \/ Crash(w) \/ \E e \in Event : Emit(w, e)
    PROVE  \A v \in Worker \ {w} : /\ answer'[v] = answer[v]
                                    /\ pc'[v] = pc[v] /\ cur'[v] = cur[v] /\ batch'[v] = batch[v]
BY DEF Looks, Load, Visit, Record, Crash, Emit, Stop, Move, WInv, Types

LEMMA WorkerCalls ==
    ASSUME WInv, WInv', Calls, NEW w \in Worker,
           \/ Step(w) \/ Crash(w) \/ \E e \in Event : Emit(w, e)
    PROVE  Calls'
<1>1. CASE Inactive(w) \/ Post(w)
  <2>1. Answers(w) BY <1>1, AnswerTyped
  <2>2. \A e \in Event : tries[e] \in Nat /\ tries'[e] \in Nat /\ tries'[e] >= tries[e]
    BY <2>1 DEF Answers, WInv, Types
  <2>3. RowCounts'
    <3>1. \A e \in Event : row[e].n \in Nat BY DEF WInv, Types, IsRow
    <3> QED BY <2>1, <2>2, <3>1 DEF Answers, Calls, RowCounts
  <2>4. GivenUpAfterAttempts'
    BY <2>1, <2>2, ConstantsAssumption DEF Answers, Calls, GivenUpAfterAttempts
  <2>5. SeenCounts'
    <3>1. \A v \in Worker \ {w} : /\ seen'[v] = seen[v] /\ answer'[v] = answer[v]
                                   /\ pc'[v] = pc[v] /\ cur'[v] = cur[v]
      BY <2>1 DEF Answers, WInv, Types
    <3>2. paused \subseteq paused' BY <2>1 DEF Answers
    <3>3. /\ pc[w] = "post" /\ cur[w] \in Event /\ cur'[w] = cur[w] /\ seen'[w] = seen[w]
          /\ seen[w].row.n \in Nat /\ seen[w].row.n <= tries[cur[w]]
      BY <2>1 DEF Answers, WInv, Types, IsRow, Calls, SeenCounts
    <3>4. IF answer'[w] = "none" THEN cur'[w] \in paused'
          ELSE seen'[w].row.n + 1 <= tries'[cur'[w]]
      BY <2>1, <2>2, <3>3 DEF Answers, WInv, Types
    <3>5. seen'[w].row.n <= tries'[cur'[w]] BY <2>2, <3>3
    <3> QED BY <2>2, <3>1, <3>2, <3>4, <3>5, OthersCount DEF SeenCounts
  <2> QED BY <2>3, <2>4, <2>5 DEF Calls
<1>2. CASE Looks(w) \/ Crash(w) \/ \E e \in Event : Emit(w, e)
  <2>1. /\ UNCHANGED <<tries, paused>> /\ \A v \in Worker \ {w} : seen'[v] = seen[v]
        /\ \A e \in Event : row'[e] = row[e] \/ (row'[e].n = 0 /\ row'[e].st = "pending")
        /\ \/ pc'[w] \notin {"post", "record"}
           \/ \E e \in Event : Takes(w, e)
    BY <1>2, LookTyped, CrashTyped, EmitTyped
  <2>2. \A e \in Event : tries[e] \in Nat /\ row[e].n \in Nat BY DEF WInv, Types, IsRow
  <2>3. RowCounts' /\ GivenUpAfterAttempts'
    BY <2>1, <2>2 DEF Calls, RowCounts, GivenUpAfterAttempts
  <2>4. pc'[w] \in {"post", "record"} =>
           pc'[w] = "post" /\ seen'[w].row.n <= tries'[cur'[w]]
    BY <2>1 DEF Takes, Calls, RowCounts
  <2>5. SeenCounts'
    BY <1>2, <2>1, <2>2, <2>4, MovesAlone, OthersCount DEF SeenCounts
  <2> QED BY <2>3, <2>5 DEF Calls
<1>3. CASE Record(w)
  <2> DEFINE e == cur[w]
             r == seen[w].row
             o == Outcome(r, answer[w])
  <2>1. /\ Records(w) /\ pc'[w] \notin {"post", "record"}
        /\ \A v \in Worker \ {w} : seen'[v] = seen[v]
        /\ UNCHANGED <<tries, paused>>
    BY <1>3, RecordTyped DEF Record
  <2>2. \A x \in Event : tries[x] \in Nat /\ row[x].n \in Nat /\ IsRow(row[x])
    BY DEF WInv, Types, IsRow
  <2>3. /\ e \in Event /\ IsRow(r) /\ answer[w] \in Answer /\ r.n \in Nat
        /\ r.n <= tries[e]
        /\ IF answer[w] = "none" THEN e \in paused ELSE r.n + 1 <= tries[e]
    BY <2>1 DEF Records, WInv, Types, IsRow, Calls, SeenCounts
  <2>4. SeenCounts' BY <1>3, <2>1, <2>2, MovesAlone, OthersCount DEF SeenCounts
  <2>5. CASE row' = row
    BY <2>1, <2>4, <2>5 DEF Calls, RowCounts, GivenUpAfterAttempts
  <2>6. CASE row' = [row EXCEPT ![e] = Written(r, o, @)]
    <3>1. o.n <= tries[e] /\ (o.st = "failed" => e \in paused \/ tries[e] >= MaxAttempts)
      BY <2>2, <2>3, OutcomeIs, ConstantsAssumption
    <3>2. IsRow(o) BY <2>3, OutcomeIs
    <3>3. row'[e] = Written(r, o, row[e]) /\ \A x \in Event \ {e} : row'[x] = row[x]
      BY <2>3, <2>6 DEF WInv, Types
    <3> HIDE DEF o, r, e
    <3>4. row'[e].n \in {o.n, row[e].n} /\ row'[e].st \in {o.st, row[e].st}
      BY <2>2, <2>3, <3>2, <3>3, WrittenIs
    <3>5. RowCounts' BY <2>1, <2>2, <3>1, <3>3, <3>4 DEF Calls, RowCounts
    <3>6. GivenUpAfterAttempts'
      BY <2>1, <2>2, <3>1, <3>3, <3>4 DEF Calls, GivenUpAfterAttempts
    <3> QED BY <2>4, <3>5, <3>6 DEF Calls
  <2> QED BY <2>1, <2>5, <2>6 DEF Records
<1> QED BY <1>1, <1>2, <1>3 DEF Step, Looks

\* However the workers overlap, whatever they lose, and whenever the endpoint is
\* paused or deleted: an event is given up only after MaxAttempts calls, or because a
\* visit found the endpoint inactive.
THEOREM NotGivenUpEarly == Spec => []GivenUpAfterAttempts
<1>1. Init => Calls
  BY DEF Init, NewRow, Calls, RowCounts, SeenCounts, GivenUpAfterAttempts
<1>2. WInv /\ Calls /\ [Next]_vars => Calls'
  <2> SUFFICES ASSUME WInv, Calls, [Next]_vars PROVE Calls'
    OBVIOUS
  <2>1. WInv' BY NextTyped
  <2>2. CASE SetActive \/ DeleteEndpoint \/ Tick \/ UNCHANGED vars
    <3>1. \A e \in Event : tries[e] \in Nat BY DEF WInv, Types
    <3> QED BY <2>2, <3>1, OutsideTyped
            DEF history, Calls, RowCounts, SeenCounts, GivenUpAfterAttempts
  <2> QED BY <2>1, <2>2, WorkerCalls DEF Next
<1>3. Calls => GivenUpAfterAttempts BY DEF Calls
<1> QED BY InitTyped, NextTyped, <1>1, <1>2, <1>3, PTL DEF Spec

-----------------------------------------------------------------------------
(* Accepted twice only for a reason                                        *)

Holds(w, e) == cur[w] = e \/ e \in batch[w]
TakenOver(w, e) == pc[w] = "record" /\ cur[w] = e /\ answer[w] = "ok"

\* An event in nobody's hands that is still open, or in one worker's that has not been
\* told of an acceptance, was accepted no more often than something went wrong.
OnceFor(e) ==
    /\ accepted[e] <= faults + 1
    /\ \A w, v \in Worker : Holds(w, e) /\ Holds(v, e) => v = w
    /\ \A w \in Worker : Holds(w, e) => row[e].st \in Open \cup {"deleted"}
    /\ \A w \in Worker : cur[w] = e => seen[w].row.st \in Open
    /\ row[e].st \in Open \cup {"new"} \/ (\E w \in Worker : Holds(w, e)) =>
          accepted[e] <= faults \/ \E w \in Worker : TakenOver(w, e)
Once == \A e \in Event : e \notin shared => OnceFor(e)

LEMMA SharedGrows ==
    ASSUME NEW w \in Worker,
           Looks(w) \/ Record(w) \/ Crash(w) \/ \E e \in Event : Emit(w, e)
    PROVE  shared \subseteq shared'
BY DEF Looks, Load, Visit, Record, Crash, Emit, Stop, Move

LEMMA Counted ==
    ASSUME WInv
    PROVE  \A e \in Event : accepted[e] \in Nat /\ faults \in Nat
BY DEF WInv, Types

\* Letting go of rows, with faults counted, keeps what is said of the others.
LEMMA LetGoOnce ==
    ASSUME WInv, NEW w \in Worker, NEW e \in Event, OnceFor(e),
           row'[e].st = row[e].st \/ row'[e].st = "deleted", accepted' = accepted,
           \A v \in Worker \ {w} : /\ answer'[v] = answer[v] /\ pc'[v] = pc[v]
                                    /\ cur'[v] = cur[v] /\ batch'[v] = batch[v]
                                    /\ seen'[v] = seen[v],
           Holds(w, e)' => Holds(w, e) /\ cur'[w] # e, faults' \in Nat, faults' >= faults,
           TakenOver(w, e) => faults' = faults + 1
    PROVE  OnceFor(e)'
<1>1. accepted[e] \in Nat /\ faults \in Nat BY Counted
<1>2. /\ accepted'[e] <= faults' + 1
      /\ \A u, v \in Worker : Holds(u, e)' /\ Holds(v, e)' => v = u
  BY <1>1 DEF OnceFor, Holds
<1>3. /\ \A v \in Worker : Holds(v, e)' => Holds(v, e)
      /\ \A v \in Worker : Holds(v, e)' => row'[e].st \in Open \cup {"deleted"}
      /\ \A v \in Worker : cur'[v] = e => seen'[v].row.st \in Open
  BY DEF OnceFor, Holds
<1>4. ASSUME row'[e].st \in Open \cup {"new"} \/ (\E v \in Worker : Holds(v, e)')
      PROVE  accepted'[e] <= faults' \/ \E v \in Worker : TakenOver(v, e)'
  <2>1. row[e].st \in Open \cup {"new"} \/ (\E v \in Worker : Holds(v, e))
    BY <1>3, <1>4 DEF Open
  <2>2. CASE accepted[e] <= faults BY <1>1, <2>2
  <2>3. CASE TakenOver(w, e) BY <1>1, <2>3 DEF OnceFor
  <2>4. CASE \E v \in Worker \ {w} : TakenOver(v, e) BY <2>4 DEF TakenOver
  <2> QED BY <2>1, <2>2, <2>3, <2>4 DEF OnceFor
<1> QED BY <1>2, <1>3, <1>4 DEF OnceFor

LEMMA AnswerOnce ==
    ASSUME WInv, WInv', Once, NEW w \in Worker, Inactive(w) \/ Post(w)
    PROVE  Once'
<1>1. Answers(w) BY AnswerTyped
<1> SUFFICES ASSUME NEW e \in Event, e \notin shared PROVE OnceFor(e)'
  BY <1>1 DEF Once, Answers
<1>2. OnceFor(e) /\ accepted[e] \in Nat /\ faults \in Nat /\ accepted'[e] \in Nat /\ faults' \in Nat
  BY Counted DEF Once, WInv, Types
<1>3. /\ UNCHANGED <<row, batch, cur, seen>> /\ pc[w] = "post" /\ pc'[w] = "record"
      /\ \A v \in Worker \ {w} : pc'[v] = pc[v] /\ answer'[v] = answer[v]
  BY <1>1 DEF Answers, WInv, Types
<1>4. \A v \in Worker : Holds(v, e)' <=> Holds(v, e) BY <1>3 DEF Holds
<1>5. CASE cur[w] = e
  <2>1. \A v \in Worker : ~ TakenOver(v, e)
    BY <1>2, <1>3, <1>5 DEF OnceFor, TakenOver, Holds
  <2>2. accepted[e] <= faults BY <1>2, <1>5, <2>1 DEF OnceFor, Holds
  <2>3. accepted'[e] <= faults' \/ (answer'[w] = "ok" /\ accepted'[e] <= faults' + 1)
    BY <1>1, <1>2, <1>5, <2>2 DEF Answers, WInv, Types
  <2>4. accepted'[e] <= faults' + 1 BY <1>2, <2>3
  <2>5. accepted'[e] <= faults' \/ TakenOver(w, e)' BY <1>3, <1>5, <2>3 DEF TakenOver
  <2> QED BY <1>2, <1>3, <1>4, <2>4, <2>5 DEF OnceFor
<1>6. CASE cur[w] # e
  <2>1. accepted'[e] = accepted[e] /\ faults' >= faults
    BY <1>1, <1>2, <1>6 DEF Answers, WInv, Types
  <2>2. \A v \in Worker : TakenOver(v, e) => TakenOver(v, e)' BY <1>3, <1>6 DEF TakenOver
  <2>3. accepted'[e] <= faults' + 1 /\ (accepted[e] <= faults => accepted'[e] <= faults')
    BY <1>2, <2>1 DEF OnceFor
  <2> QED BY <1>2, <1>3, <1>4, <2>2, <2>3 DEF OnceFor
<1> QED BY <1>5, <1>6

LEMMA RecordOnce ==
    ASSUME WInv, WInv', Once, NEW w \in Worker, Record(w)
    PROVE  Once'
<1>1. /\ Records(w) /\ pc'[w] \notin {"post", "record"} /\ cur'[w] = NoEvent
      /\ batch'[w] = batch[w] /\ \A v \in Worker \ {w} : seen'[v] = seen[v]
      /\ accepted' = accepted /\ shared \subseteq shared'
  BY RecordTyped, SharedGrows DEF Record
<1> SUFFICES ASSUME NEW e \in Event, e \notin shared PROVE OnceFor(e)'
  BY <1>1 DEF Once
<1>2. OnceFor(e) /\ accepted[e] \in Nat /\ faults \in Nat BY Counted DEF Once
<1>3. faults' \in Nat /\ faults' >= faults BY <1>1, <1>2 DEF Records
<1>4. \A v \in Worker \ {w} : /\ answer'[v] = answer[v] /\ pc'[v] = pc[v]
                               /\ cur'[v] = cur[v] /\ batch'[v] = batch[v]
  BY MovesAlone
<1>5. Holds(w, e)' => Holds(w, e) /\ cur'[w] # e
  BY <1>1, ConstantsAssumption DEF Holds
<1>6. CASE cur[w] # e
  <2>1. row'[e] = row[e] /\ ~ TakenOver(w, e)
    BY <1>1, <1>6 DEF Records, WInv, Types, TakenOver
  <2> QED BY <1>1, <1>2, <1>3, <1>4, <1>5, <2>1, LetGoOnce
<1>7. CASE cur[w] = e
  <2>1. \A v \in Worker : ~ Holds(v, e)'
    <3>1. e \notin batch[w] BY <1>1, <1>7 DEF Records, WInv, Places
    <3>2. \A v \in Worker \ {w} : ~ Holds(v, e) BY <1>2, <1>7 DEF OnceFor, Holds
    <3> QED BY <1>1, <1>4, <3>1, <3>2, ConstantsAssumption DEF Holds
  <2>2. accepted'[e] <= faults' + 1 BY <1>1, <1>2, <1>3 DEF OnceFor
  <2>3. row'[e].st \in Open \cup {"new"} => accepted[e] <= faults'
    <3> DEFINE writes == row' = [row EXCEPT ![cur[w]] =
                                   Written(seen[w].row, Outcome(seen[w].row, answer[w]), @)]
    <3>1. CASE ~ writes
      <4>1. row' = row /\ (row[e].st = "deleted" \/ faults' = faults + 1)
        BY <1>1, <1>7, <3>1 DEF Records
      <4> QED BY <1>2, <4>1 DEF OnceFor, Open
    <3>2. CASE answer[w] # "ok"
      <4>1. accepted[e] <= faults BY <1>2, <1>7, <3>2 DEF OnceFor, TakenOver, Holds
      <4> QED BY <1>2, <1>3, <4>1
    <3>3. CASE writes /\ answer[w] = "ok"
      <4> DEFINE r == seen[w].row
                 o == Outcome(r, answer[w])
      <4>1. row'[e] = Written(r, o, row[e]) /\ IsRow(r) /\ IsRow(row[e]) /\ answer[w] \in Answer
        BY <1>1, <1>7, <3>3 DEF Records, WInv, Types
      <4>2. r.st \in Open BY <1>2, <1>7 DEF OnceFor
      <4>3. IsRow(o) /\ o.st = "delivered" BY <3>3, <4>1, OutcomeIs
      <4> HIDE DEF o, r
      <4>4. row'[e].st = "delivered" BY <4>1, <4>2, <4>3, WrittenIs DEF Open
      <4> QED BY <4>4 DEF Open
    <3> QED BY <3>1, <3>2, <3>3
  <2>4. \A v \in Worker : cur'[v] # e BY <2>1 DEF Holds
  <2> QED BY <1>1, <2>1, <2>2, <2>3, <2>4 DEF OnceFor
<1> QED BY <1>6, <1>7

LEMMA CrashOnce ==
    ASSUME WInv, WInv', Once, NEW w \in Worker, Crash(w)
    PROVE  Once'
<1>1. /\ UNCHANGED <<row, accepted>> /\ faults' = faults + 1 /\ faults' >= faults /\ faults' \in Nat
      /\ batch'[w] = {} /\ cur'[w] = NoEvent /\ \A v \in Worker \ {w} : seen'[v] = seen[v]
  BY CrashTyped DEF WInv, Types
<1>2. \A e \in Event : ~ Holds(w, e)' BY <1>1, ConstantsAssumption DEF Holds
<1>3. \A v \in Worker \ {w} : /\ answer'[v] = answer[v] /\ pc'[v] = pc[v]
                               /\ cur'[v] = cur[v] /\ batch'[v] = batch[v]
  BY MovesAlone
<1>4. shared \subseteq shared' BY SharedGrows
<1> QED BY <1>1, <1>2, <1>3, <1>4, LetGoOnce DEF Once

LEMMA EmitOnce ==
    ASSUME WInv, WInv', Once, NEW w \in Worker, NEW x \in Event, Emit(w, x)
    PROVE  Once'
<1>1. /\ UNCHANGED <<seen, answer, faults, accepted>> /\ row[x].st = "new" /\ row'[x].st = "pending"
      /\ pc'[w] \in {"load", "visit"} /\ \A e \in Event \ {x} : row'[e] = row[e]
      /\ pc[w] = "idle" /\ cur'[w] = NoEvent /\ batch'[w] \in {{}, {x}} /\ shared \subseteq shared'
  BY EmitTyped, SharedGrows DEF Emit, Move, WInv, Types
<1>2. \A v \in Worker \ {w} : /\ answer'[v] = answer[v] /\ pc'[v] = pc[v]
                               /\ cur'[v] = cur[v] /\ batch'[v] = batch[v] /\ seen'[v] = seen[v]
  BY <1>1, MovesAlone
<1> SUFFICES ASSUME NEW e \in Event, e \notin shared PROVE OnceFor(e)'
  BY <1>1 DEF Once
<1>3. OnceFor(e) /\ accepted[e] \in Nat /\ faults \in Nat /\ faults' \in Nat /\ faults' >= faults
  BY <1>1, Counted DEF Once
<1>4. CASE e # x
  <2>1. Holds(w, e)' => Holds(w, e) /\ cur'[w] # e BY <1>1, <1>4, ConstantsAssumption DEF Holds
  <2>2. ~ TakenOver(w, e) BY <1>1 DEF TakenOver
  <2> QED BY <1>1, <1>2, <1>3, <1>4, <2>1, <2>2, LetGoOnce
<1>5. CASE e = x
  <2>1. \A v \in Worker : ~ Holds(v, e) BY <1>1, <1>3, <1>5 DEF OnceFor, Open
  <2>2. accepted[e] <= faults BY <1>1, <1>3, <1>5, <2>1 DEF OnceFor, TakenOver, Holds
  <2>3. /\ \A v \in Worker \ {w} : ~ Holds(v, e)' BY <1>2, <2>1 DEF Holds
  <2>4. \A v \in Worker : cur'[v] # e BY <1>1, <2>3, ConstantsAssumption DEF Holds
  <2>5. accepted'[e] <= faults' /\ accepted'[e] <= faults' + 1 BY <1>1, <1>3, <2>2
  <2>6. row'[e].st \in Open BY <1>1, <1>5 DEF Open
  <2> QED BY <2>3, <2>4, <2>5, <2>6 DEF OnceFor
<1> QED BY <1>4, <1>5

\* A worker that looks lets its rows go, or takes one: of those that are due, which
\* others may hold too, or of those it has.
LEMMA LookHolds ==
    ASSUME WInv, NEW w \in Worker, Looks(w)
    PROVE  /\ pc[w] \in {"idle", "load", "visit"} /\ shared \subseteq shared' /\ cur[w] = NoEvent
           /\ \/ batch'[w] = {} /\ cur'[w] = NoEvent
              \/ /\ pc'[w] = "post" /\ cur'[w] \in Event
                 /\ seen'[w].row = row[cur'[w]] /\ row[cur'[w]].st # "deleted"
                 /\ \A x \in Event \ shared' : Holds(w, x)' =>
                       /\ \A v \in Worker \ {w} : ~ Holds(v, x)
                       /\ row[x].st \in Open \/ Holds(w, x)
<1> USE DEF WInv
<1>1. /\ pc[w] \in {"idle", "load", "visit"} /\ shared \subseteq shared' /\ cur[w] = NoEvent
  <2>1. pc[w] \in {"idle", "load", "visit"} BY DEF Looks, Load, Visit
  <2>2. cur[w] = NoEvent BY <2>1 DEF Places
  <2> QED BY <2>1, <2>2, SharedGrows
<1>2. CASE Stop(w)
  <2>1. batch'[w] = {} /\ cur'[w] = NoEvent BY <1>2 DEF Stop, Move, Types
  <2> QED BY <1>1, <2>1
<1>3. ASSUME NEW e \in Event, NEW b \in SUBSET Event, Move(w, "post", b, e), Read(w, e),
             row[e].st # "deleted", \A x \in b \cup {e} : row[x].st \in Open \/ x \in batch[w]
      PROVE  /\ pc'[w] = "post" /\ cur'[w] \in Event
             /\ seen'[w].row = row[cur'[w]] /\ row[cur'[w]].st # "deleted"
             /\ \A x \in Event \ shared' : Holds(w, x)' =>
                   /\ \A v \in Worker \ {w} : ~ Holds(v, x)
                   /\ row[x].st \in Open \/ Holds(w, x)
  <2>1. /\ pc'[w] = "post" /\ cur'[w] = e /\ batch'[w] = b
        /\ shared' = shared \cup {x \in Event : x \in b \cup {e} /\ Holders(x) \ {w} # {}}
    BY <1>3 DEF Move, Types
  <2>2. seen'[w].row = row[e] BY <1>3 DEF Read, Types
  <2>3. \A x \in Event \ shared' : Holds(w, x)' =>
           x \in b \cup {e} /\ \A v \in Worker \ {w} : ~ Holds(v, x)
    BY <2>1 DEF Holds, Holders
  <2> QED BY <1>3, <2>1, <2>2, <2>3 DEF Holds
<1>4. CASE Load(w)
  <2>1. Due \subseteq Event /\ \A e \in Due : row[e].st \in Open /\ row[e].st # "deleted"
    BY DEF Due, Open
  <2>2. CASE ~ Stop(w)
    <3>1. PICK e \in Due : Move(w, "post", Due \ {e}, e) /\ Read(w, e) BY <1>4, <2>2 DEF Load
    <3>2. e \in Event /\ Due \ {e} \in SUBSET Event BY <2>1
    <3> QED BY <1>1, <1>3, <2>1, <3>1, <3>2
  <2> QED BY <1>2, <2>2
<1>5. CASE Visit(w)
  <2>1. CASE ~ Stop(w)
    <3>1. PICK e \in batch[w] : /\ Move(w, "post", batch[w] \ {e}, e) /\ Read(w, e)
                                /\ row[e].st # "deleted"
      BY <1>5, <2>1 DEF Visit
    <3>2. e \in Event /\ batch[w] \ {e} \in SUBSET Event BY DEF Types
    <3> QED BY <1>1, <1>3, <3>1, <3>2
  <2> QED BY <1>2, <2>1
<1> QED BY <1>4, <1>5 DEF Looks

LEMMA LookOnce ==
    ASSUME WInv, WInv', Once, NEW w \in Worker, Looks(w)
    PROVE  Once'
<1>1. /\ UNCHANGED <<row, faults, accepted>> /\ shared \subseteq shared' /\ cur[w] = NoEvent
      /\ pc[w] \in {"idle", "load", "visit"}
  BY LookTyped, LookHolds
<1>2. \A v \in Worker \ {w} : /\ answer'[v] = answer[v] /\ pc'[v] = pc[v]
                               /\ cur'[v] = cur[v] /\ batch'[v] = batch[v] /\ seen'[v] = seen[v]
  BY MovesAlone, LookTyped
<1> SUFFICES ASSUME NEW e \in Event, e \notin shared' PROVE OnceFor(e)'
  BY DEF Once
<1>3. OnceFor(e) /\ accepted[e] \in Nat /\ faults \in Nat BY <1>1, Counted DEF Once
<1>4. ~ TakenOver(w, e) BY <1>1 DEF TakenOver
<1>5. CASE ~ Holds(w, e)'
  <2>1. faults' \in Nat /\ faults' >= faults BY <1>1, <1>3
  <2> QED BY <1>1, <1>2, <1>3, <1>4, <1>5, <2>1, LetGoOnce
<1>6. CASE Holds(w, e)'
  <2>1. /\ pc'[w] = "post" /\ cur'[w] \in Event
        /\ seen'[w].row = row[cur'[w]] /\ row[cur'[w]].st # "deleted"
        /\ \A v \in Worker \ {w} : ~ Holds(v, e)
        /\ row[e].st \in Open \/ Holds(w, e)
    BY <1>6, LookHolds, ConstantsAssumption DEF Holds
  <2>2. row[e].st \in Open \cup {"deleted"} BY <1>3, <2>1 DEF OnceFor
  <2>3. \A v \in Worker : ~ TakenOver(v, e) BY <1>4, <2>1 DEF TakenOver, Holds
  <2>4. accepted[e] <= faults BY <1>3, <2>1, <2>3 DEF OnceFor
  <2>5. \A v \in Worker \ {w} : ~ Holds(v, e)' BY <1>2, <2>1 DEF Holds
  <2>6. \A v \in Worker : cur'[v] = e => seen'[v].row.st \in Open
    BY <2>1, <2>2, <2>5 DEF Holds
  <2>7. accepted'[e] <= faults' /\ accepted'[e] <= faults' + 1 BY <1>1, <1>3, <2>4
  <2> QED BY <1>1, <2>2, <2>5, <2>6, <2>7 DEF OnceFor
<1> QED BY <1>5, <1>6

LEMMA OutsideOnce ==
    ASSUME WInv, WInv', Once, SetActive \/ DeleteEndpoint \/ Tick \/ UNCHANGED vars
    PROVE  Once'
<1>1. /\ UNCHANGED <<pc, batch, cur, seen, answer, accepted, shared>>
      /\ faults' \in Nat /\ faults' >= faults
      /\ \A e \in Event : row'[e].st = row[e].st \/ row'[e].st = "deleted"
  BY OutsideTyped DEF history, WInv, Types
<1> SUFFICES ASSUME NEW e \in Event, e \notin shared PROVE OnceFor(e)'
  BY <1>1 DEF Once
<1>2. OnceFor(e) /\ accepted[e] \in Nat /\ faults \in Nat BY Counted DEF Once
<1>3. accepted'[e] <= faults' + 1 /\ (accepted[e] <= faults => accepted'[e] <= faults')
  BY <1>1, <1>2 DEF OnceFor
<1>4. pc' = pc /\ batch' = batch /\ cur' = cur /\ seen' = seen /\ answer' = answer BY <1>1
<1>5. \A v \in Worker : Holds(v, e)' <=> Holds(v, e) BY <1>4 DEF Holds
<1>6. \A v \in Worker : TakenOver(v, e)' <=> TakenOver(v, e) BY <1>4 DEF TakenOver
<1>7. row'[e].st \in Open \cup {"new"} => row[e].st \in Open \cup {"new"} BY <1>1 DEF Open
<1>8. \A v \in Worker : Holds(v, e)' => row'[e].st \in Open \cup {"deleted"}
  BY <1>1, <1>2, <1>5 DEF OnceFor
<1> QED BY <1>2, <1>3, <1>4, <1>5, <1>6, <1>7, <1>8 DEF OnceFor

LEMMA OnceAtFirst == Init => Once
BY ConstantsAssumption DEF Init, NewRow, Once, OnceFor, Holds, Open

LEMMA OnceKept == WInv /\ Once /\ [Next]_vars => Once'
BY NextTyped, LookOnce, AnswerOnce, RecordOnce, CrashOnce, EmitOnce, OutsideOnce
   DEF Next, Step, Looks

\* For any number of workers that load rows without a lock: an event no two of them held
\* at once is accepted by the partner once, failures apart.
THEOREM NotAcceptedTwice == Spec => []AcceptedOnce
<1>1. WInv /\ Once => AcceptedOnce
  BY Counted DEF Once, OnceFor, AcceptedOnce
<1> QED BY InitTyped, NextTyped, OnceAtFirst, OnceKept, <1>1, PTL DEF Spec

-----------------------------------------------------------------------------
(* Due times                                                               *)

IsDue(d) == d \in Int /\ d >= NoDue
Dues == (\A e \in Event : IsDue(row[e].due)) /\ (\A w \in Worker : IsDue(seen[w].row.due))

LEMMA BackoffNat ==
    ASSUME NEW n \in Nat
    PROVE  Backoff(n + 1) \in Nat
<1>1. IsFiniteSet(1 .. n) /\ Cardinality(1 .. n) = n BY FS_Interval
<1>2. 2 ^ n = Cardinality(SUBSET (1 .. n)) /\ IsFiniteSet(SUBSET (1 .. n)) BY <1>1, FS_SUBSET
<1>3. 2 ^ n \in Nat BY <1>2, FS_CardinalityType
<1>4. n + 1 - 1 = n /\ Minute \in Nat BY ConstantsAssumption
<1>5. Minute * 2 ^ n \in Nat BY <1>3, <1>4
<1> QED BY <1>4, <1>5 DEF Backoff

\* What a worker sets: a time with a retry, and none with what ends the row.
LEMMA OutcomeDue ==
    ASSUME NEW r, IsRow(r), NEW a \in Answer
    PROVE  /\ IsDue(Outcome(r, a).due)
           /\ Outcome(r, a).st = "retrying" => Outcome(r, a).due >= 0
<1>1. r = [st |-> r.st, n |-> r.n, due |-> r.due] /\ r.n \in Nat BY DEF IsRow
<1>2. CASE a = "none"
  <2> DEFINE f == [r EXCEPT !.st = "failed", !.due = NoDue]
             q == [st |-> r.st, n |-> r.n, due |-> r.due]
  <2>1. LET g == [q EXCEPT !.st = "failed", !.due = NoDue] IN g.st = "failed" /\ g.due = NoDue
    OBVIOUS
  <2>2. f.st = "failed" /\ f.due = NoDue BY <1>1, <2>1
  <2>3. Outcome(r, a) = f BY <1>2 DEF Outcome
  <2> HIDE DEF f
  <2> QED BY <2>2, <2>3 DEF IsDue, NoDue
<1>3. CASE a = "ok" BY <1>3 DEF Outcome, IsDue, NoDue
<1>4. CASE a \notin {"none", "ok"}
  <2>1. Outcome(r, a) = Retry(r) BY <1>4 DEF Outcome
  <2>2. Backoff(r.n + 1) \in Nat BY <1>1, BackoffNat
  <2>3. \/ Retry(r) = [st |-> "failed", n |-> r.n + 1, due |-> NoDue]
        \/ Retry(r) = [st |-> "retrying", n |-> r.n + 1, due |-> Backoff(r.n + 1)]
    BY DEF Retry
  <2> QED BY <2>1, <2>2, <2>3 DEF IsDue, NoDue
<1> QED BY <1>2, <1>3, <1>4

\* The UPDATE of a worker that read an open row leaves it done or due, and so does any
\* UPDATE of a row that is not open.
LEMMA WrittenDue ==
    ASSUME NEW r, IsRow(r), IsDue(r.due), NEW a \in Answer,
           NEW old, IsRow(old), IsDue(old.due)
    PROVE  LET o == Outcome(r, a)
           IN /\ IsDue(Written(r, o, old).due)
              /\ (r.st \in Open \/ old.st \notin Open) /\ Written(r, o, old).st \in Open =>
                    Written(r, o, old).due # NoDue
<1> DEFINE o == Outcome(r, a)
<1>1. /\ IsDue(o.due) /\ (o.st = "retrying" => o.due >= 0)
      /\ o.st \in {"failed", "delivered", "retrying"}
  BY OutcomeIs, OutcomeDue
<1> HIDE DEF o
<1>2. Written(r, o, old).due = IF o.due = NoDue THEN Column(r.due, NoDue, old.due) ELSE o.due
  BY DEF Written
<1>3. IsDue(Written(r, o, old).due) BY <1>1, <1>2 DEF Column, IsDue, NoDue
<1>4. Written(r, o, old).st = Column(r.st, o.st, old.st) BY DEF Written
<1>5. CASE o.st = "retrying"
  <2>1. Written(r, o, old).due = o.due /\ o.due # NoDue BY <1>1, <1>2, <1>5 DEF NoDue
  <2> QED BY <1>3, <2>1 DEF o
<1>6. CASE o.st # "retrying"
  <2>1. r.st \in Open \/ old.st \notin Open => Written(r, o, old).st \notin Open
    BY <1>1, <1>4, <1>6 DEF Column, Open
  <2> QED BY <1>3, <2>1 DEF o
<1> QED BY <1>5, <1>6

\* What a worker holds of a row it read from the table.
LEMMA SeenFrom ==
    ASSUME WInv, NEW w \in Worker,
           \/ Step(w) \/ Crash(w) \/ \E e \in Event : Emit(w, e)
    PROVE  \A v \in Worker : \/ seen'[v].row \in {seen[v].row, NewRow}
                             \/ \E e \in Event : seen'[v].row = row[e]
<1>1. CASE Load(w)
  <2>1. CASE Stop(w) BY <2>1 DEF Stop, WInv, Types
  <2>2. CASE \E e \in Due : Read(w, e) BY <2>2 DEF Read, Due, WInv, Types
  <2> QED BY <1>1, <2>1, <2>2 DEF Load
<1>2. CASE Visit(w)
  <2>1. CASE Stop(w) BY <2>1 DEF Stop, WInv, Types
  <2>2. CASE \E e \in batch[w] : Read(w, e)
    <3>1. batch[w] \subseteq Event BY DEF WInv, Types
    <3> QED BY <2>2, <3>1 DEF Read, WInv, Types
  <2> QED BY <1>2, <2>1, <2>2 DEF Visit
<1>3. CASE Record(w) \/ Crash(w)
  <2>1. CASE Stop(w) BY <2>1 DEF Stop, WInv, Types
  <2>2. CASE seen' = seen BY <2>2
  <2> QED BY <1>3, <2>1, <2>2 DEF Record, Crash
<1>4. CASE Inactive(w) \/ Post(w) BY <1>4 DEF Inactive, Post, Answered
<1>5. CASE \E e \in Event : Emit(w, e) BY <1>5 DEF Emit
<1> QED BY <1>1, <1>2, <1>3, <1>4, <1>5 DEF Step

WritesOn(w, e) ==
    /\ pc[w] = "record" /\ cur[w] = e /\ answer[w] \in Answer /\ row[e].st # "deleted"
    /\ row'[e] = Written(seen[w].row, Outcome(seen[w].row, answer[w]), row[e])

\* The rows after a step of a worker: new ones are due, one that is recorded is written.
LEMMA WorkerRows ==
    ASSUME WInv, NEW w \in Worker,
           \/ Step(w) \/ Crash(w) \/ \E e \in Event : Emit(w, e)
    PROVE  \A e \in Event :
               \/ row'[e] = row[e]
               \/ row[e].st = "new" /\ row'[e].due = 0 /\ row'[e].st = "pending"
               \/ WritesOn(w, e) /\ ~ Holds(w, e)'
<1>1. CASE Looks(w) BY <1>1, LookTyped
<1>2. CASE Inactive(w) \/ Post(w)
  <2>1. row' = row BY <1>2, AnswerTyped DEF Answers
  <2> QED BY <2>1
<1>3. CASE Record(w)
  <2>1. Records(w) /\ cur'[w] = NoEvent /\ batch'[w] = batch[w] BY <1>3, RecordTyped
  <2>2. CASE row' = row BY <2>2
  <2>3. CASE /\ row' = [row EXCEPT ![cur[w]] =
                           Written(seen[w].row, Outcome(seen[w].row, answer[w]), @)]
             /\ row[cur[w]].st # "deleted"
    <3>1. \A e \in Event : cur[w] = e => ~ Holds(w, e)'
      BY <2>1, ConstantsAssumption DEF Records, Holds, WInv, Places
    <3>2. answer[w] \in Answer /\ pc[w] = "record" /\ cur[w] \in Event
      BY <2>1 DEF Records, WInv, Types
    <3> QED BY <2>3, <3>1, <3>2 DEF WritesOn, WInv, Types
  <2> QED BY <2>1, <2>2, <2>3 DEF Records
<1>4. CASE Crash(w) BY <1>4, CrashTyped
<1>5. CASE \E e \in Event : Emit(w, e)
  <2>1. PICK x \in Event : Emit(w, x) BY <1>5
  <2>2. row' = [row EXCEPT ![x] = [st |-> "pending", n |-> 0, due |-> 0]] /\ row[x].st = "new"
    BY <2>1 DEF Emit
  <2> QED BY <2>2 DEF WInv, Types
<1> QED BY <1>1, <1>2, <1>3, <1>4, <1>5 DEF Step, Looks

\* Who holds a row after a step of w: w itself only if it held it, or took it while it was
\* open or new.
LEMMA HoldersAfter ==
    ASSUME WInv, NEW w \in Worker,
           \/ Step(w) \/ Crash(w) \/ \E e \in Event : Emit(w, e)
    PROVE  /\ crowded \subseteq crowded'
           /\ \A v \in Worker \ {w}, e \in Event :
                 (Holds(v, e)' <=> Holds(v, e)) /\ (cur'[v] = e <=> cur[v] = e) /\ seen'[v] = seen[v]
           /\ \A e \in Event : Holds(w, e)' =>
                 \/ Holds(w, e)
                 \/ /\ row[e].st \in Open \/ (row[e].st = "new" /\ row'[e].st = "pending")
                    /\ e \notin crowded' => \A u, v \in Worker \ {w} : Holds(u, e) /\ Holds(v, e) => u = v
           /\ \A e \in Event : cur'[w] = e =>
                 \/ seen'[w].row = row[e] /\ row'[e] = row[e]
                 \/ seen'[w] = seen[w] /\ cur[w] = e /\ row'[e] = row[e]
<1> USE DEF WInv
<1>1. CASE Inactive(w) \/ Post(w)
  <2>1. Answers(w) BY <1>1, AnswerTyped
  <2>2. UNCHANGED <<row, batch, cur, seen, crowded>> BY <2>1 DEF Answers
  <2>3. \A v \in Worker, e \in Event : Holds(v, e)' <=> Holds(v, e) BY <2>2 DEF Holds
  <2> QED BY <2>2, <2>3
<1>2. CASE ~ (Inactive(w) \/ Post(w))
  <2>1. Looks(w) \/ Record(w) \/ Crash(w) \/ \E e \in Event : Emit(w, e)
    BY <1>2 DEF Step, Looks
  <2>2. crowded \subseteq crowded'
    BY <2>1 DEF Looks, Load, Visit, Record, Crash, Emit, Stop, Move
  <2>3. \A v \in Worker \ {w} : cur'[v] = cur[v] /\ batch'[v] = batch[v] /\ seen'[v] = seen[v]
    <3>1. \A v \in Worker \ {w} : cur'[v] = cur[v] /\ batch'[v] = batch[v] BY <2>1, MovesAlone
    <3>2. \A v \in Worker \ {w} : seen'[v] = seen[v]
      BY <2>1, LookTyped, RecordTyped, CrashTyped, EmitTyped
    <3> QED BY <3>1, <3>2
  <2>4. \A v \in Worker \ {w}, e \in Event : (Holds(v, e)' <=> Holds(v, e)) /\ (cur'[v] = e <=> cur[v] = e)
    BY <2>3 DEF Holds
  <2>5. ASSUME NEW e \in Event, Holds(w, e)', ~ Holds(w, e)
        PROVE  /\ row[e].st \in Open \/ (row[e].st = "new" /\ row'[e].st = "pending")
               /\ e \notin crowded' => \A u, v \in Worker \ {w} : Holds(u, e) /\ Holds(v, e) => u = v
    <3>1. ASSUME NEW label, NEW b \in SUBSET Event, NEW x \in Event \cup {NoEvent}, Move(w, label, b, x)
          PROVE  e \in b \cup {x} /\
                 (e \notin crowded' => \A u, v \in Worker \ {w} : Holds(u, e) /\ Holds(v, e) => u = v)
      <4>1. batch'[w] = b /\ cur'[w] = x BY <3>1 DEF Move, Types
      <4>2. e \in b \cup {x} BY <2>5, <4>1 DEF Holds
      <4>3. e \notin crowded' => ~ \E u, v \in Holders(e) \ {w} : u # v BY <3>1, <4>2 DEF Move
      <4> QED BY <4>2, <4>3 DEF Holds, Holders
    <3>2. CASE Stop(w)
      <4>1. cur'[w] = NoEvent /\ batch'[w] = {} BY <3>2 DEF Stop, Move, Types
      <4> QED BY <2>5, <4>1, ConstantsAssumption DEF Holds
    <3>3. CASE Load(w) /\ ~ Stop(w)
      <4>1. PICK x \in Due : Move(w, "post", Due \ {x}, x) BY <3>3 DEF Load
      <4>2. Due \subseteq Event /\ \A y \in Due : row[y].st \in Open BY DEF Due
      <4> QED BY <3>1, <4>1, <4>2
    <3>4. CASE Visit(w) /\ ~ Stop(w)
      <4>1. PICK x \in batch[w] : Move(w, "post", batch[w] \ {x}, x) BY <3>4 DEF Visit
      <4>2. cur'[w] = x /\ batch'[w] = batch[w] \ {x} BY <4>1 DEF Move, Types
      <4> QED BY <2>5, <4>2 DEF Holds
    <3>5. CASE Record(w) /\ ~ Stop(w)
      <4>1. cur'[w] = NoEvent /\ batch'[w] = batch[w] BY <3>5, RecordTyped
      <4> QED BY <2>5, <4>1, ConstantsAssumption DEF Holds
    <3>6. CASE \E x \in Event : Emit(w, x)
      <4>1. PICK x \in Event : Emit(w, x) BY <3>6
      <4>2. CASE Move(w, "load", {}, NoEvent) BY <3>1, <4>2, ConstantsAssumption
      <4>3. CASE Move(w, "visit", {x}, NoEvent)
        <5>1. e = x BY <3>1, <4>3, ConstantsAssumption
        <5>2. row[e].st = "new" /\ row'[e].st = "pending" BY <4>1, <5>1, EmitTyped
        <5> QED BY <3>1, <4>3, <5>2
      <4> QED BY <4>1, <4>2, <4>3 DEF Emit
    <3> QED BY <2>1, <3>2, <3>3, <3>4, <3>5, <3>6 DEF Looks, Crash
  <2>6. ASSUME NEW e \in Event, cur'[w] = e PROVE seen'[w].row = row[e] /\ row'[e] = row[e]
    <3>1. Looks(w)
      <4>1. CASE Record(w) \/ Crash(w) BY <2>6, <4>1, RecordTyped, CrashTyped, ConstantsAssumption
      <4>2. CASE \E x \in Event : Emit(w, x)
        <5>1. cur'[w] = NoEvent BY <4>2 DEF Emit, Move, Types
        <5> QED BY <2>6, <5>1, ConstantsAssumption
      <4> QED BY <2>1, <4>1, <4>2
    <3> QED BY <2>6, <3>1, LookTyped, ConstantsAssumption DEF Takes
  <2> QED BY <2>2, <2>3, <2>4, <2>5, <2>6
<1> QED BY <1>1, <1>2

\* A row that no three workers held at once: once it is done one worker at most has it still,
\* and a worker that read it as done finds nobody who could open it again.
FewFor(e) ==
    /\ \A u, v, w \in Worker : Holds(u, e) /\ Holds(v, e) /\ Holds(w, e) => u = v \/ v = w \/ u = w
    /\ row[e].st \in {"delivered", "failed"} =>
          \A u, v \in Worker : Holds(u, e) /\ Holds(v, e) => u = v
    /\ \A w \in Worker : cur[w] = e /\ seen[w].row.st \notin Open => row[e].st \notin Open
    /\ row[e].st \in Open => row[e].due # NoDue
Few ==
    \A e \in Event : /\ row[e].st = "new" => \A w \in Worker : ~ Holds(w, e)
                     /\ e \notin crowded => FewFor(e)

LEMMA WorkerDues ==
    ASSUME WInv, WInv', Dues, Few, NEW w \in Worker,
           \/ Step(w) \/ Crash(w) \/ \E e \in Event : Emit(w, e)
    PROVE  Dues' /\ Few'
<1>1. \A v \in Worker : IsDue(seen'[v].row.due)
  BY SeenFrom DEF Dues, NewRow, IsDue, NoDue
<1>2. ASSUME NEW e \in Event PROVE IsDue(row'[e].due)
  <2>1. CASE row'[e] = row[e] BY <2>1 DEF Dues
  <2>2. CASE row'[e].due = 0 BY <2>2 DEF IsDue, NoDue
  <2>3. CASE WritesOn(w, e)
    <3>1. IsRow(seen[w].row) /\ IsRow(row[e]) /\ IsDue(seen[w].row.due) /\ IsDue(row[e].due)
      BY DEF WInv, Types, Dues
    <3> QED BY <2>3, <3>1, WrittenDue DEF WritesOn
  <2> QED BY <2>1, <2>2, <2>3, WorkerRows
<1>3. /\ crowded \subseteq crowded'
      /\ \A v \in Worker \ {w}, e \in Event :
            (Holds(v, e)' <=> Holds(v, e)) /\ (cur'[v] = e <=> cur[v] = e) /\ seen'[v] = seen[v]
      /\ \A e \in Event : Holds(w, e)' =>
            \/ Holds(w, e)
            \/ /\ row[e].st \in Open \/ (row[e].st = "new" /\ row'[e].st = "pending")
               /\ e \notin crowded' => \A u, v \in Worker \ {w} : Holds(u, e) /\ Holds(v, e) => u = v
      /\ \A e \in Event : cur'[w] = e =>
            \/ seen'[w].row = row[e] /\ row'[e] = row[e]
            \/ seen'[w] = seen[w] /\ cur[w] = e /\ row'[e] = row[e]
  BY HoldersAfter
<1>4. ASSUME NEW e \in Event
      PROVE  /\ row'[e].st = "new" => \A v \in Worker : ~ Holds(v, e)'
             /\ e \notin crowded' => FewFor(e)'
  <2>1. \/ row'[e] = row[e]
        \/ row[e].st = "new" /\ row'[e].due = 0 /\ row'[e].st = "pending"
        \/ WritesOn(w, e) /\ ~ Holds(w, e)'
    BY WorkerRows
  <2>2. WritesOn(w, e) => Holds(w, e) /\ row[e].st # "new" BY DEF WritesOn, Holds, Few
  <2>3. WritesOn(w, e) =>
           /\ IsRow(seen[w].row) /\ IsRow(row[e]) /\ IsDue(seen[w].row.due) /\ IsDue(row[e].due)
           /\ IsRow(Outcome(seen[w].row, answer[w]))
           /\ Outcome(seen[w].row, answer[w]).st \in {"failed", "delivered", "retrying"}
    BY OutcomeIs DEF WritesOn, WInv, Types, Dues
  <2>4. WritesOn(w, e) => row'[e].st # "new"
    BY <2>2, <2>3, WrittenIs DEF WritesOn
  <2>5. row'[e].st = "new" => \A v \in Worker : ~ Holds(v, e)'
    <3> SUFFICES ASSUME row'[e].st = "new" PROVE \A v \in Worker : ~ Holds(v, e)'
      OBVIOUS
    <3>1. row'[e] = row[e] BY <2>1, <2>4
    <3>2. row[e].st = "new" /\ \A v \in Worker : ~ Holds(v, e) BY <3>1 DEF Few
    <3> QED BY <1>3, <3>1, <3>2 DEF Open
  <2>6. ASSUME e \notin crowded' PROVE FewFor(e)'
    <3>1. FewFor(e) BY <1>3, <2>6 DEF Few
    <3>2. \A u, v, x \in Worker : Holds(u, e)' /\ Holds(v, e)' /\ Holds(x, e)' => u = v \/ v = x \/ u = x
      BY <1>3, <2>6, <3>1 DEF FewFor
    <3>3. row'[e].st \in {"delivered", "failed"} =>
             \A u, v \in Worker : Holds(u, e)' /\ Holds(v, e)' => u = v
      <4>1. CASE row'[e] = row[e] BY <1>3, <3>1, <4>1 DEF FewFor, Open
      <4>2. CASE WritesOn(w, e) /\ ~ Holds(w, e)' BY <1>3, <2>2, <3>1, <4>2 DEF FewFor
      <4> QED BY <2>1, <4>1, <4>2
    <3>4. \A v \in Worker : cur'[v] = e /\ seen'[v].row.st \notin Open => row'[e].st \notin Open
      <4> SUFFICES ASSUME NEW v \in Worker \ {w}, cur'[v] = e, seen'[v].row.st \notin Open
                   PROVE  row'[e].st \notin Open
        BY <1>3, <3>1 DEF FewFor
      <4>1. /\ cur[v] = e /\ seen[v].row.st \notin Open /\ Holds(v, e)
            /\ row[e].st \notin Open /\ row[e].st # "new"
        BY <1>3, <3>1 DEF FewFor, Few, Holds
      <4>2. CASE WritesOn(w, e)
        <5>1. row[e].st \notin {"delivered", "failed"} BY <2>2, <3>1, <4>1, <4>2 DEF FewFor
        <5>2. row[e].st \in Status /\ row[e].st # "deleted" BY <2>3, <4>2 DEF WritesOn, IsRow
        <5> QED BY <4>1, <5>1, <5>2 DEF Status, Open
      <4> QED BY <2>1, <4>1, <4>2
    <3>5. row'[e].st \in Open => row'[e].due # NoDue
      <4>1. CASE row'[e] = row[e] BY <3>1, <4>1 DEF FewFor
      <4>2. CASE row'[e].due = 0 BY <4>2 DEF NoDue
      <4>3. CASE WritesOn(w, e)
        <5>1. seen[w].row.st \in Open \/ row[e].st \notin Open BY <3>1, <4>3 DEF FewFor, WritesOn
        <5> QED BY <2>3, <4>3, <5>1, WrittenDue DEF WritesOn
      <4> QED BY <2>1, <4>1, <4>2, <4>3
    <3> QED BY <3>2, <3>3, <3>4, <3>5 DEF FewFor
  <2> QED BY <2>5, <2>6
<1> QED BY <1>1, <1>2, <1>4 DEF Dues, Few

\* A tick touches the time alone.
LEMMA TickDue ==
    ASSUME WInv, Tick
    PROVE  \A e \in Event :
              /\ row'[e].st = row[e].st
              /\ row'[e].due = IF row[e].due > 0 THEN row[e].due - 1 ELSE row[e].due
<1> DEFINE d(e) == IF row[e].due > 0 THEN row[e].due - 1 ELSE row[e].due
<1>1. row' = [e \in Event |-> [row[e] EXCEPT !.due = d(e)]] BY DEF Tick
<1> HIDE DEF d
<1>2. ASSUME NEW e \in Event PROVE row'[e].due = d(e) /\ row'[e].st = row[e].st
  <2>1. row[e] = [st |-> row[e].st, n |-> row[e].n, due |-> row[e].due] BY DEF WInv, Types, IsRow
  <2>2. row'[e] = [row[e] EXCEPT !.due = d(e)] BY <1>1
  <2> DEFINE q == [st |-> row[e].st, n |-> row[e].n, due |-> row[e].due]
  <2>3. [q EXCEPT !.due = d(e)].due = d(e) OBVIOUS
  <2>4. IsRow(row[e]) BY DEF WInv, Types
  <2> QED BY <2>1, <2>2, <2>3, <2>4, DueSet
<1> QED BY <1>2 DEF d

\* Time passes: a row that is due at no time stays so, and no other becomes it.
LEMMA OutsideDues ==
    ASSUME WInv, Dues, Few, SetActive \/ DeleteEndpoint \/ Tick \/ UNCHANGED vars
    PROVE  Dues' /\ Few'
<1>1. seen' = seen /\ crowded' = crowded /\ cur' = cur /\ batch' = batch
  BY OutsideTyped DEF history
<1>2. \A w \in Worker, e \in Event : Holds(w, e)' <=> Holds(w, e) BY <1>1 DEF Holds
<1>3. \/ \A e \in Event : row'[e].st = row[e].st /\ (row'[e].due = NoDue => row[e].due = NoDue)
      \/ \A e \in Event : row'[e].st = "deleted"
  <2>1. CASE SetActive \/ UNCHANGED vars BY <2>1 DEF SetActive, vars, table
  <2>2. CASE DeleteEndpoint BY <2>2, NewIsRow DEF DeleteEndpoint
  <2>3. CASE Tick BY <2>3, TickDue DEF Dues, IsDue, NoDue
  <2> QED BY <2>1, <2>2, <2>3
<1>4. \A e \in Event : IsDue(row'[e].due)
  <2>1. CASE SetActive \/ UNCHANGED vars BY <2>1 DEF SetActive, vars, table, Dues
  <2>2. CASE DeleteEndpoint
    <3>1. [NewRow EXCEPT !.st = "deleted"].due = NoDue BY DEF NewRow
    <3>2. \A e \in Event : row'[e].due = NoDue BY <2>2, <3>1 DEF DeleteEndpoint
    <3> QED BY <3>2 DEF IsDue, NoDue
  <2>3. CASE Tick BY <2>3, TickDue DEF Dues, IsDue, NoDue
  <2> QED BY <2>1, <2>2, <2>3
<1>5. Few'
  <2> SUFFICES ASSUME NEW e \in Event
               PROVE  /\ row'[e].st = "new" => \A w \in Worker : ~ Holds(w, e)'
                      /\ e \notin crowded' => FewFor(e)'
    BY DEF Few
  <2>1. CASE row'[e].st = "deleted" BY <1>1, <1>2, <2>1 DEF Few, FewFor, Open
  <2>2. CASE row'[e].st = row[e].st /\ (row'[e].due = NoDue => row[e].due = NoDue)
    BY <1>1, <1>2, <2>2 DEF Few, FewFor
  <2> QED BY <1>3, <2>1, <2>2
<1> QED BY <1>1, <1>4, <1>5 DEF Dues

LEMMA DuesKept == WInv /\ Dues /\ Few /\ [Next]_vars => Dues' /\ Few'
BY NextTyped, WorkerDues, OutsideDues DEF Next

LEMMA DuesAtFirst == Init => Dues /\ Few
BY ConstantsAssumption DEF Init, NewRow, Open, Dues, Few, FewFor, Holds, IsDue, NoDue

\* For any number of workers, faults and attempts: an open row that no query finds was
\* held by three workers at once.
THEOREM NothingStrandedByTwo == Spec => []OpenIsDue
<1>1. Few => OpenIsDue BY DEF Few, FewFor, OpenIsDue
<1> QED BY InitTyped, NextTyped, DuesAtFirst, DuesKept, <1>1, PTL DEF Spec

-----------------------------------------------------------------------------
(* Type correctness                                                        *)

Clocks == age \in [Worker -> Nat] /\ changes \in Nat
Tables == row = [e \in Event |-> row[e]] /\ seen = [w \in Worker |-> seen[w]]

LEMMA TablesKept == WInv /\ Tables /\ [Next]_vars => Tables'
<1> SUFFICES ASSUME WInv, Tables, [Next]_vars PROVE Tables'
  OBVIOUS
<1>1. CASE SetActive \/ DeleteEndpoint \/ Tick \/ UNCHANGED vars
  <2>1. seen' = seen BY <1>1, OutsideTyped
  <2>2. row' = [e \in Event |-> row'[e]]
    <3>1. CASE SetActive \/ UNCHANGED vars BY <3>1 DEF SetActive, vars, table, Tables
    <3>2. CASE DeleteEndpoint
      <4> DEFINE f == [e \in Event |-> [NewRow EXCEPT !.st = "deleted"]]
      <4>1. row' = f BY <3>2 DEF DeleteEndpoint
      <4>2. f = [e \in Event |-> f[e]] OBVIOUS
      <4> QED BY <4>1, <4>2
    <3>3. CASE Tick
      <4> DEFINE f == [e \in Event |-> [row[e] EXCEPT !.due = IF @ > 0 THEN @ - 1 ELSE @]]
      <4>1. row' = f BY <3>3 DEF Tick
      <4>2. f = [e \in Event |-> f[e]] OBVIOUS
      <4> QED BY <4>1, <4>2
    <3> QED BY <1>1, <3>1, <3>2, <3>3
  <2> QED BY <2>1, <2>2 DEF Tables
<1>2. ASSUME NEW w \in Worker, Step(w) \/ Crash(w) \/ \E e \in Event : Emit(w, e)
      PROVE  Tables'
  <2>1. row' = row \/ \E e \in Event : \E r : row' = [row EXCEPT ![e] = r]
    <3>1. CASE Record(w)
      <4>1. Records(w) BY <3>1, RecordTyped
      <4> QED BY <4>1 DEF Records
    <3>2. CASE \E e \in Event : Emit(w, e) BY <3>2 DEF Emit
    <3>3. CASE Looks(w) \/ Inactive(w) \/ Post(w) \/ Crash(w)
      BY <3>3, LookTyped, AnswerTyped, CrashTyped DEF Answers
    <3> QED BY <1>2, <3>1, <3>2, <3>3 DEF Step, Looks
  <2>2. seen' = seen \/ \E r : seen' = [seen EXCEPT ![w] = r]
    <3>1. CASE Stop(w) \/ \E e \in Event : Read(w, e) BY <3>1 DEF Stop, Read
    <3>2. CASE Load(w)
      <4>1. Due \subseteq Event BY DEF Due
      <4> QED BY <3>1, <3>2, <4>1 DEF Load
    <3>3. CASE Visit(w)
      <4>1. batch[w] \subseteq Event BY DEF WInv, Types
      <4> QED BY <3>1, <3>3, <4>1 DEF Visit
    <3>4. CASE Inactive(w) \/ Post(w) BY <3>4 DEF Inactive, Post, Answered
    <3>5. CASE Record(w) \/ Crash(w) \/ \E e \in Event : Emit(w, e)
      BY <3>1, <3>5 DEF Record, Crash, Emit
    <3> QED BY <1>2, <3>2, <3>3, <3>4, <3>5 DEF Step
  <2>3. row' = [e \in Event |-> row'[e]] BY <2>1 DEF Tables, WInv, Types
  <2>4. seen' = [v \in Worker |-> seen'[v]] BY <2>2 DEF Tables, WInv, Types
  <2> QED BY <2>3, <2>4 DEF Tables
<1> QED BY <1>1, <1>2 DEF Next

LEMMA ClocksKept == Clocks /\ [Next]_vars => Clocks'
<1> SUFFICES ASSUME Clocks, [Next]_vars PROVE Clocks'
  OBVIOUS
<1> USE DEF Clocks
<1>1. changes' \in {changes, changes + 1}
  <2>1. CASE \E w \in Worker : Step(w) \/ Crash(w) \/ \E e \in Event : Emit(w, e)
    BY <2>1 DEF Step, Crash, Emit
  <2>2. CASE SetActive \/ DeleteEndpoint BY <2>2 DEF SetActive, DeleteEndpoint, Change
  <2>3. CASE Tick \/ UNCHANGED vars BY <2>3 DEF Tick, vars
  <2> QED BY <2>1, <2>2, <2>3 DEF Next
<1>2. age' \in [Worker -> Nat]
  <2>1. ASSUME NEW w \in Worker, Stop(w) \/ (\E e \in Event : Read(w, e)) PROVE age' \in [Worker -> Nat]
    BY <2>1 DEF Stop, Read
  <2>2. ASSUME NEW w \in Worker, Step(w) PROVE age' \in [Worker -> Nat]
    <3>1. CASE Load(w)
      <4>1. Due \subseteq Event BY DEF Due
      <4> QED BY <2>1, <3>1, <4>1 DEF Load
    <3>2. CASE Visit(w)
      <4>1. CASE Stop(w) BY <2>1, <4>1
      <4>2. CASE \E e \in batch[w] : Read(w, e) BY <4>2 DEF Read
      <4> QED BY <3>2, <4>1, <4>2 DEF Visit
    <3>3. CASE Inactive(w) \/ Post(w) BY <3>3 DEF Inactive, Post, Answered
    <3>4. CASE Record(w) BY <2>1, <3>4 DEF Record
    <3> QED BY <2>2, <3>1, <3>2, <3>3, <3>4 DEF Step
  <2>3. CASE \E w \in Worker : Crash(w) \/ \E e \in Event : Emit(w, e)
    BY <2>1, <2>3 DEF Crash, Emit
  <2>4. CASE SetActive \/ DeleteEndpoint \/ UNCHANGED vars
    BY <2>4 DEF SetActive, DeleteEndpoint, vars, workers
  <2>5. CASE Tick BY <2>5 DEF Tick
  <2> QED BY <2>2, <2>3, <2>4, <2>5 DEF Next
<1> QED BY <1>1, <1>2

\* Rows, what workers read of them and every counter keep to the values the code stores.
THEOREM TypeCorrect == Spec => []TypeOK
<1>1. Init => Clocks /\ Tables BY DEF Init, Clocks, Tables
<1>2. WInv /\ Dues /\ Clocks /\ Tables => TypeOK
  <2> SUFFICES ASSUME WInv, Dues, Clocks, Tables PROVE TypeOK
    OBVIOUS
  <2>1. ASSUME NEW r, IsRow(r), IsDue(r.due) PROVE r \in Row BY <2>1 DEF IsRow, IsDue, Row
  <2>2. row \in [Event -> Row] /\ \A e \in Event : row[e].due >= NoDue
    <3>1. \A e \in Event : row[e] \in Row BY <2>1 DEF WInv, Types, Dues
    <3>2. row = [e \in Event |-> row[e]] BY DEF Tables
    <3> QED BY <3>1, <3>2 DEF Dues, IsDue
  <2>3. seen \in [Worker -> [row : Row, active : BOOLEAN]]
    <3>1. ASSUME NEW w \in Worker PROVE seen[w] \in [row : Row, active : BOOLEAN]
      <4>1. seen[w].row \in Row BY <2>1 DEF WInv, Types, Dues
      <4>2. seen[w] = [row |-> seen[w].row, active |-> seen[w].active] /\ seen[w].active \in BOOLEAN
        BY DEF WInv, Types
      <4> QED BY <4>1, <4>2
    <3>2. seen = [w \in Worker |-> seen[w]] BY DEF Tables
    <3> QED BY <3>1, <3>2
  <2> QED BY <2>2, <2>3 DEF WInv, Types, Clocks, TypeOK
<1> QED BY InitTyped, NextTyped, DuesAtFirst, DuesKept, ClocksKept, TablesKept,
          <1>1, <1>2, PTL DEF Spec
=============================================================================
