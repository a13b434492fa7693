--------------------------- MODULE DeadlinesProofs ---------------------------
(***************************************************************************)
(* Proofs, for any addresses, callers, deployments and bounds, that the    *)
(* deadline store and its processor are well formed and that every         *)
(* deadline is handled as promised.                                        *)
(*                                                                         *)
(* HandledExactly is not inductive: what an acknowledgement or a failure   *)
(* report removes depends on the copies that passes and late calls carry.  *)
(* Safe adds what is true of those copies: each names one incarnation for  *)
(* ever, the copies acknowledged have been handled, every attempt counted  *)
(* or still to be counted answers to a failure of the handler, and without *)
(* disturbance the pass in flight is the only place where a deadline is    *)
(* handled and still pending.                                              *)
(***************************************************************************)
EXTENDS Deadlines, FiniteSetTheorems, SequenceTheorems, TLAPS

Deadline == [id : 0..MaxSchedules, due : 0..MaxTime, attempts : 0..(MaxDeliveryAttempts - 1)]

\* What due() returns, by copy.
Copy == [addr : Addresses, id : Ids, due : Nat]

Passes == [pc : {"idle", "joined"}]
          \cup [pc : {"polling"}, aborted : BOOLEAN]
          \cup [pc : {"handling", "marking"}, aborted : BOOLEAN, batch : Seq(Copy),
                delivered : SUBSET Copy, failed : BOOLEAN]

LateCalls == [op : {"delivered"}, ids : SUBSET Copy]
             \cup [op : {"failed"}, ids : {{d} : d \in Copy}]

\* The types of what TypeOK leaves open.
Shapes ==
    /\ setup \in Setups
    /\ pass \in [Callers -> Passes]
    /\ late \subseteq LateCalls
    /\ handled \subseteq Ids /\ twice \subseteq Ids /\ withdrawn \subseteq Ids
    /\ rejected \in [Ids -> 0..MaxDeliveryAttempts]
    /\ disturbed \in BOOLEAN
    /\ \A c \in Callers : pass[c].pc = "marking" => pass[c].batch # <<>>
    /\ \A a \in Addresses : pending[a].id = 0 => pending[a] = None

Active(c) == pass[c].pc \in {"polling", "handling", "marking"}
AtWork(c) == pass[c].pc \in {"handling", "marking"}

\* The callers whose pass runs are those PollLoop knows of: one at most.
OnePass ==
    /\ inFlight = {c \in Callers : Active(c)}
    /\ \A c, d \in inFlight : c = d

InBatch(c) == {pass[c].batch[i] : i \in DOMAIN pass[c].batch}

\* The copies a pass or a late call still carries.
Held(c) == IF AtWork(c) THEN InBatch(c) \cup pass[c].delivered ELSE {}
Carried == {d \in Copy : \/ \E c \in Callers : d \in Held(c)
                         \/ \E l \in late : d \in l.ids}

\* Identifiers in use have been issued.
Issued ==
    /\ \A a \in Addresses : pending[a].id < nextId
    /\ \A id \in dead \cup handled \cup withdrawn : id < nextId
    /\ \A d \in Carried : d.id < nextId

\* A copy names one incarnation, whose address and due time it carries.
CopiesTrue ==
    /\ \A d, e \in Carried : d.id = e.id => d = e
    /\ \A d \in Carried, a \in Addresses :
          pending[a].id = d.id => d.addr = a /\ d.due = pending[a].due

\* What is to be acknowledged has been handled.
AcknowledgedHandled ==
    /\ \A c \in Callers : AtWork(c) => \A d \in pass[c].delivered : d.id \in handled
    /\ \A l \in late : l.op = "delivered" => \A d \in l.ids : d.id \in handled

\* Failures that the store has still to hear of: in the pass, and in a late call.
Reporting(id) == \E c \in Callers : pass[c].pc = "marking" /\ Current(c).id = id
ReportedLate(id) == \E l \in late : l.op = "failed" /\ \E d \in l.ids : d.id = id

Owed(id) == (IF Reporting(id) THEN 1 ELSE 0) + (IF ReportedLate(id) THEN 1 ELSE 0)

\* Every attempt, counted or owed, answers to a failure of this incarnation's handler.
AttemptsEarned ==
    \A a \in Addresses : Scheduled(a) =>
        \/ rejected[pending[a].id] = MaxDeliveryAttempts
        \/ pending[a].attempts + Owed(pending[a].id) <= rejected[pending[a].id]

\* Undisturbed, a batch repeats nothing, holds nothing that was handled, and
\* what is handled and still pending is about to be acknowledged.
Orderly ==
    ~disturbed =>
        /\ twice = {} /\ late = {} /\ dead \cap handled = {}
        /\ \A c \in Callers : Active(c) => ~pass[c].aborted
        /\ \A c \in Callers : AtWork(c) =>
              /\ \A d \in InBatch(c) : d.id \notin handled \cup dead
              /\ \A i, j \in DOMAIN pass[c].batch :
                    pass[c].batch[i].id = pass[c].batch[j].id => i = j
        /\ \A a \in Addresses : pending[a].id \in handled =>
              \E c \in Callers : AtWork(c) /\ \E d \in pass[c].delivered : d.id = pending[a].id

\* The records that maxRecords bounds can be counted.
Countable == IsFiniteSet({a \in Addresses : Scheduled(a)}) /\ IsFiniteSet(dead)

Safe ==
    /\ TypeOK /\ Shapes /\ OnePass /\ Issued /\ CopiesTrue /\ AcknowledgedHandled
    /\ AttemptsEarned /\ Orderly /\ Countable
    /\ NoDeadlineLost /\ DeadOnlyIfPoison /\ WithinRecords

-----------------------------------------------------------------------------
(* Types *)

\* The options of a deployment have their types.
LEMMA Options ==
  ASSUME setup \in Setups
  PROVE  /\ MaxDeliveryAttempts \in Nat \ {0} /\ MaxRecords \in Nat \ {0}
         /\ BatchSize \in Nat \ {0} /\ MaxTime \in Nat /\ MaxFaults \in Nat
         /\ setup.maxSchedules \in 0..MaxSchedules /\ MaxSchedules \in Nat
  BY DeadlinesAssumption
     DEF MaxDeliveryAttempts, MaxRecords, BatchSize, MaxTime, MaxFaults

\* A pass at work carries a batch of copies and those it has delivered.
LEMMA PassFields ==
  ASSUME Shapes, NEW c \in Callers
  PROVE  /\ pass[c].pc \in {"idle", "joined", "polling", "handling", "marking"}
         /\ Active(c) => pass[c].aborted \in BOOLEAN
         /\ AtWork(c) => /\ pass[c].batch \in Seq(Copy)
                         /\ pass[c].delivered \subseteq Copy
                         /\ pass[c].failed \in BOOLEAN
                         /\ pass[c] \in [pc : {"handling", "marking"}, aborted : BOOLEAN,
                                         batch : Seq(Copy), delivered : SUBSET Copy,
                                         failed : BOOLEAN]
  BY DEF Shapes, Passes, Active, AtWork

\* The deadline in hand is the first of the batch; the rest is its tail.
LEMMA BatchFields ==
  ASSUME Shapes, NEW c \in Callers, AtWork(c), pass[c].batch # <<>>
  PROVE  /\ Current(c) = pass[c].batch[1] /\ Current(c) \in Copy
         /\ Current(c) \in InBatch(c)
         /\ Tail(pass[c].batch) \in Seq(Copy)
         /\ DOMAIN Tail(pass[c].batch) = 1..(Len(pass[c].batch) - 1)
         /\ \A i \in DOMAIN Tail(pass[c].batch) : /\ i + 1 \in DOMAIN pass[c].batch
                                                  /\ Tail(pass[c].batch)[i] = pass[c].batch[i + 1]
         /\ 1 \in DOMAIN pass[c].batch
  BY PassFields, HeadTailProperties DEF Current, InBatch

\* due() returns copies of deadlines that are pending, one for each address.
LEMMA Fresh ==
  ASSUME TypeOK, Shapes, Countable, NEW page \in DuePages
  PROVE  /\ Copies(page) \in Seq(Copy)
         /\ DOMAIN Copies(page) = DOMAIN page
         /\ \A i \in DOMAIN page : /\ page[i] \in Addresses /\ Scheduled(page[i])
                                   /\ Copies(page)[i].addr = page[i]
                                   /\ Copies(page)[i].id = pending[page[i]].id
                                   /\ Copies(page)[i].due = pending[page[i]].due
         /\ \A i, j \in DOMAIN page : page[i] = page[j] => i = j
<1> DEFINE n == Cardinality(DueAddresses)
           m == IF n < BatchSize THEN n ELSE BatchSize
<1>1. IsFiniteSet(DueAddresses)
  BY FS_Subset DEF Countable, DueAddresses
<1>2. m \in Nat
  BY <1>1, FS_CardinalityType, Options DEF Shapes
<1>3. /\ page \in [1..m -> DueAddresses]
      /\ \A i, j \in DOMAIN page : i < j => Earlier(page[i], page[j])
  BY DEF DuePages
<1>4. \A i \in DOMAIN page : page[i] \in Addresses /\ Scheduled(page[i])
  BY <1>3 DEF DueAddresses
<1>5. \A a \in Addresses : Scheduled(a) => pending[a].id \in Ids
  BY DEF TypeOK, Shapes, Scheduled, Ids
<1>6. \A i \in DOMAIN page : Copies(page)[i] \in Copy
  BY <1>3, <1>4, <1>5, Options DEF Copies, Copy, TypeOK, Shapes
<1>7. Copies(page) \in [1..m -> Copy]
  BY <1>3, <1>6 DEF Copies
<1>8. Copies(page) \in Seq(Copy)
  BY <1>2, <1>7
<1>9. \A i, j \in DOMAIN page : page[i] = page[j] => i = j
  <2>1. \A a \in Addresses : ~Earlier(a, a)
    BY SMTT(40), Options DEF Earlier, TypeOK, Shapes
  <2> QED BY <1>2, <1>3, <1>4, <2>1
<1> QED BY <1>3, <1>4, <1>8, <1>9 DEF Copies

\* A deadline that markDelivered removes is among those acknowledged.
LEMMA DeliveredEffect ==
  ASSUME TypeOK, Shapes, UNCHANGED setup, NEW ds \in SUBSET Copy, MarkDelivered(ds)
  PROVE  /\ pending' \in [Addresses -> Deadline]
         /\ dead' = dead \ {d.id : d \in ds}
         /\ \A a \in Addresses :
               \/ pending'[a] = pending[a] /\ \A d \in ds : d.id # pending[a].id
               \/ pending'[a] = None /\ \E d \in ds : d.id = pending[a].id
  BY SMTT(40), Options DEF MarkDelivered, TypeOK, Shapes, Deadline, None

\* markFailed changes one incarnation: an attempt more, or a dead letter.
LEMMA FailedEffect ==
  ASSUME TypeOK, Shapes, UNCHANGED setup, NEW d \in Copy, MarkFailed(d)
  PROVE  /\ pending' \in [Addresses -> Deadline]
         /\ \A a \in Addresses : pending[a].id # d.id => pending'[a] = pending[a]
         /\ \A a \in Addresses : pending[a].id = d.id =>
               \/ /\ pending[a].attempts + 1 >= MaxDeliveryAttempts
                  /\ pending'[a] = None /\ dead' = dead \cup {d.id}
               \/ /\ pending[a].attempts + 1 < MaxDeliveryAttempts
                  /\ pending'[a] = [pending[a] EXCEPT !.attempts = @ + 1]
                  /\ dead' = dead
         /\ (\A a \in Addresses : pending[a].id # d.id) => dead' = dead
         /\ dead' \subseteq dead \cup {d.id}
<1> DEFINE hit == {a \in Addresses : Scheduled(a) /\ pending[a].id = d.id}
<1>1. d.id \in Ids
  BY DEF Copy
<1>2. hit = {a \in Addresses : pending[a].id = d.id}
  BY <1>1, Options DEF Scheduled, None, Ids, Shapes
<1>3. \A a, b \in hit : a = b
  BY DEF TypeOK
<1>4. /\ pending' = [a \in Addresses |->
               IF a \notin hit THEN pending[a]
               ELSE IF Exhausts(pending[a]) THEN None
               ELSE [pending[a] EXCEPT !.attempts = @ + 1]]
      /\ dead' = dead \cup {pending[a].id : a \in {a \in hit : Exhausts(pending[a])}}
  BY DEF MarkFailed
<1>5. \A a \in Addresses : pending[a] \in Deadline
  BY DEF TypeOK, Deadline
<1>6. None \in Deadline
  BY Options DEF None, Deadline, Shapes
<1>7. \A a \in hit : ~Exhausts(pending[a]) =>
         /\ pending[a].attempts + 1 < MaxDeliveryAttempts
         /\ [pending[a] EXCEPT !.attempts = @ + 1] \in Deadline
  <2> TAKE a \in hit
  <2> HAVE ~Exhausts(pending[a])
  <2>1. a \in Addresses /\ pending[a] \in Deadline
    BY <1>5
  <2>2. MaxDeliveryAttempts \in Nat
    BY Options DEF Shapes
  <2>3. pending[a].attempts \in 0..(MaxDeliveryAttempts - 1)
    BY <2>1 DEF Deadline
  <2>4. pending[a].attempts + 1 \in 0..(MaxDeliveryAttempts - 1)
    BY <2>2, <2>3 DEF Exhausts
  <2> QED BY <2>1, <2>2, <2>3, <2>4 DEF Deadline
<1>8. pending' \in [Addresses -> Deadline]
  BY <1>4, <1>5, <1>6, <1>7
<1>9. ASSUME NEW a \in hit
      PROVE  \/ /\ pending[a].attempts + 1 >= MaxDeliveryAttempts
                /\ pending'[a] = None /\ dead' = dead \cup {d.id}
             \/ /\ pending[a].attempts + 1 < MaxDeliveryAttempts
                /\ pending'[a] = [pending[a] EXCEPT !.attempts = @ + 1]
                /\ dead' = dead
  <2>1. hit = {a}
    BY <1>3
  <2>2. CASE Exhausts(pending[a])
    <3>1. {x \in hit : Exhausts(pending[x])} = {a}
      BY <2>1, <2>2
    <3> QED BY <1>2, <1>4, <2>2, <3>1 DEF Exhausts
  <2>3. CASE ~Exhausts(pending[a])
    <3>1. {x \in hit : Exhausts(pending[x])} = {}
      BY <2>1, <2>3
    <3> QED BY <1>2, <1>4, <1>7, <2>3, <3>1
  <2> QED BY <2>2, <2>3
<1>11. dead' \subseteq dead \cup {d.id}
  BY <1>2, <1>4
<1> HIDE DEF hit
<1>10. hit = {} => dead' = dead
  BY <1>4
<1> QED BY <1>2, <1>4, <1>8, <1>9, <1>10, <1>11 DEF Deadline

\* Every kind of pass a step leads to is a pass.
LEMMA PassTypes ==
  /\ Idle \in Passes /\ [pc |-> "joined"] \in Passes /\ Begin \in Passes
  /\ \A b \in BOOLEAN : [pc |-> "polling", aborted |-> b] \in Passes
  BY DEF Idle, Begin, Passes

\* A step of the pass of c leaves a well formed pass.
LEMMA PassStepTypes ==
  ASSUME TypeOK, Shapes, Countable, UNCHANGED setup, NEW c \in Callers, PassStep(c)
  PROVE  /\ pass' \in [Callers -> Passes]
         /\ \A d \in Callers : pass'[d].pc = "marking" => pass'[d].batch # <<>>
<1> DEFINE Goal == /\ pass' \in [Callers -> Passes]
                   /\ \A d \in Callers : pass'[d].pc = "marking" => pass'[d].batch # <<>>
           Work == [pc : {"handling", "marking"}, aborted : BOOLEAN, batch : Seq(Copy),
                    delivered : SUBSET Copy, failed : BOOLEAN]
<1>0. /\ pass \in [Callers -> Passes]
      /\ \A d \in Callers : pass[d].pc = "marking" => pass[d].batch # <<>>
  BY DEF Shapes
<1>1. ASSUME EndPass(c) PROVE Goal
  BY <1>0, <1>1, PassTypes DEF EndPass, Idle
<1>2. ASSUME NEW p \in Passes, pass' = [pass EXCEPT ![c] = p],
             p.pc = "marking" => p.batch # <<>>
      PROVE  Goal
  BY <1>0, <1>2
<1> SUFFICES Goal
  OBVIOUS
<1> HIDE DEF Goal
<1>3. CASE PollEnds(c) \/ PollFails(c)
  BY <1>1, <1>3 DEF PollEnds, PollFails
<1>4. CASE Poll(c)
  <2>1. PICK page \in DuePages : pass' = [pass EXCEPT ![c] = Handling(Copies(page), c)]
    BY <1>4 DEF Poll
  <2>2. Handling(Copies(page), c) \in Passes /\ Handling(Copies(page), c).pc = "handling"
    BY <1>4, Fresh, PassFields DEF Handling, Passes, Poll, Active
  <2> QED BY <1>2, <2>1, <2>2
<1>5. ASSUME AtWork(c), pass[c].batch # <<>>
      PROVE  /\ pass[c] \in Work /\ Tail(pass[c].batch) \in Seq(Copy)
             /\ Current(c) \in Copy
  BY <1>5, PassFields, BatchFields
<1>6. \A p \in Work : p \in Passes
  BY DEF Passes
<1>7. CASE HandlerSucceeds(c)
  <2>1. AtWork(c) /\ pass[c].batch # <<>> /\ pass[c].pc = "handling"
    BY <1>7 DEF HandlerSucceeds, Handles, AtWork
  <2> DEFINE p == [pass[c] EXCEPT !.batch = Tail(@), !.delivered = @ \cup {Current(c)}]
  <2>2. p \in Work /\ p.pc = "handling"
    BY <1>5, <2>1
  <2>3. pass' = [pass EXCEPT ![c] = p]
    BY <1>0, <1>7, <2>1, <1>5 DEF HandlerSucceeds
  <2> QED BY <1>2, <1>6, <2>2, <2>3
<1>8. CASE HandlerRejects(c)
  <2>1. AtWork(c) /\ pass[c].batch # <<>>
    BY <1>8 DEF HandlerRejects, Handles, AtWork
  <2> DEFINE p == [pass[c] EXCEPT !.pc = "marking", !.failed = TRUE]
  <2>2. p \in Work /\ p.batch # <<>>
    BY <1>5, <2>1
  <2>3. pass' = [pass EXCEPT ![c] = p]
    BY <1>0, <1>8, <2>1, <1>5 DEF HandlerRejects
  <2> QED BY <1>2, <1>6, <2>2, <2>3
<1>9. ASSUME NEW reached \in BOOLEAN, HandlerTimesOut(c, reached) PROVE Goal
  <2>1. AtWork(c) /\ pass[c].batch # <<>> /\ pass[c].pc = "handling"
    BY <1>9 DEF HandlerTimesOut, Handles, AtWork
  <2> DEFINE p == [pass[c] EXCEPT !.batch = Tail(@), !.failed = TRUE]
  <2>2. p \in Work /\ p.pc = "handling"
    BY <1>5, <2>1
  <2>3. pass' = [pass EXCEPT ![c] = p]
    BY <1>0, <1>9, <2>1, <1>5 DEF HandlerTimesOut
  <2> QED BY <1>2, <1>6, <2>2, <2>3
<1>10. ASSUME NEW reached \in BOOLEAN, StopHandling(c, reached) PROVE Goal
  <2>1. AtWork(c) /\ pass[c].batch # <<>> /\ pass[c].pc = "handling"
    BY <1>10 DEF StopHandling, AtWork
  <2> DEFINE p == [pass[c] EXCEPT !.batch = <<>>]
  <2>2. p \in Work /\ p.pc = "handling"
    BY <1>5, <2>1, EmptySeq
  <2>3. pass' = [pass EXCEPT ![c] = p]
    BY <1>0, <1>10, <2>1, <1>5 DEF StopHandling
  <2> QED BY <1>2, <1>6, <2>2, <2>3
<1>11. ASSUME pass[c].pc = "marking", Marked(c) PROVE Goal
  <2>1. AtWork(c) /\ pass[c].batch # <<>>
    BY <1>0, <1>11 DEF AtWork
  <2> DEFINE p == [pass[c] EXCEPT !.pc = "handling", !.batch = Tail(@)]
  <2>2. p \in Work /\ p.pc = "handling"
    BY <1>5, <2>1
  <2>3. pass' = [pass EXCEPT ![c] = p]
    BY <1>0, <1>11, <2>1, <1>5 DEF Marked
  <2> QED BY <1>2, <1>6, <2>2, <2>3
<1>12. CASE ReportFailure(c) \/ \E lands \in BOOLEAN : ReportFailureFails(c, lands)
  BY <1>11, <1>12 DEF ReportFailure, ReportFailureFails
<1>13. ASSUME NEW acked \in BOOLEAN, CycleEnds(c, acked) PROVE Goal
  BY <1>1, <1>2, <1>13, PassTypes DEF CycleEnds
<1>14. CASE Acknowledge(c) \/ \E lands \in BOOLEAN : AcknowledgeFails(c, lands)
  BY <1>13, <1>14 DEF Acknowledge, AcknowledgeFails
<1> QED BY <1>3, <1>4, <1>7, <1>8, <1>9, <1>10, <1>12, <1>14 DEF PassStep

-----------------------------------------------------------------------------
(* What a step does to the store *)

\* Six things can happen to the store.
LEMMA StoreCases ==
  ASSUME TypeOK, Shapes, AcknowledgedHandled, Next
  PROVE  /\ UNCHANGED setup /\ handled \subseteq handled' /\ withdrawn \subseteq withdrawn'
         /\ \/ \E a \in Addresses, due \in 0..MaxTime : Schedule(a, due)
            \/ \E a \in Addresses : Cancel(a)
            \/ /\ \E ds \in SUBSET Copy : /\ MarkDelivered(ds)
                                          /\ \A d \in ds : d.id \in handled
               /\ nextId' = nextId /\ handled' = handled /\ rejected' = rejected
            \/ /\ \E d \in Copy : MarkFailed(d) /\ (Reporting(d.id) \/ ReportedLate(d.id))
               /\ nextId' = nextId /\ handled' = handled /\ rejected' = rejected
            \/ \E id \in Ids : Redeliver(id)
            \/ UNCHANGED storeVars
<1> USE DEF storeVars, historyVars
<1>1. ASSUME NEW a \in Addresses, Cancel(a) \/ \E due \in 0..MaxTime : Schedule(a, due)
      PROVE  handled \subseteq handled' /\ withdrawn \subseteq withdrawn'
  BY <1>1 DEF Cancel, Schedule
<1>2. ASSUME NEW c \in Callers, DrainOnce(c) \/ Abort(c)
      PROVE  UNCHANGED <<storeVars, handled, withdrawn>>
  BY <1>2 DEF DrainOnce, Abort
<1>3. ASSUME NEW c \in Callers, PollEnds(c) \/ Poll(c) \/ PollFails(c)
      PROVE  UNCHANGED <<storeVars, handled, withdrawn>>
  BY <1>3 DEF PollEnds, Poll, PollFails
<1>4. ASSUME NEW c \in Callers, HandlerSucceeds(c) \/ HandlerRejects(c)
      PROVE  /\ UNCHANGED <<storeVars, withdrawn>> /\ handled \subseteq handled'
  BY <1>4 DEF HandlerSucceeds, HandlerRejects, Ran
<1>5. ASSUME NEW c \in Callers, NEW reached \in BOOLEAN,
             HandlerTimesOut(c, reached) \/ StopHandling(c, reached)
      PROVE  /\ UNCHANGED <<storeVars, withdrawn>> /\ handled \subseteq handled'
  BY <1>5 DEF HandlerTimesOut, StopHandling, Ran
<1>6. ASSUME NEW c \in Callers, ReportFailure(c)
      PROVE  /\ \E d \in Copy : MarkFailed(d) /\ Reporting(d.id)
             /\ UNCHANGED <<nextId, handled, rejected, withdrawn>>
  <2>1. pass[c].pc = "marking" /\ AtWork(c) /\ pass[c].batch # <<>>
    BY <1>6 DEF ReportFailure, AtWork, Shapes
  <2>2. Current(c) \in Copy /\ MarkFailed(Current(c)) /\ Reporting(Current(c).id)
    BY <1>6, <2>1, BatchFields DEF ReportFailure, Reporting
  <2> QED BY <1>6, <2>2 DEF ReportFailure
<1>7. ASSUME NEW c \in Callers, Acknowledge(c)
      PROVE  /\ \E ds \in SUBSET Copy : MarkDelivered(ds) /\ \A d \in ds : d.id \in handled
             /\ UNCHANGED <<nextId, handled, rejected, withdrawn>>
  <2>1. AtWork(c)
    BY <1>7 DEF Acknowledge, AtWork
  <2>2. pass[c].delivered \in SUBSET Copy /\ \A d \in pass[c].delivered : d.id \in handled
    BY <2>1, PassFields DEF AcknowledgedHandled
  <2> QED BY <1>7, <2>2 DEF Acknowledge
<1>8. ASSUME NEW c \in Callers, NEW lands \in BOOLEAN,
             ReportFailureFails(c, lands) \/ AcknowledgeFails(c, lands)
      PROVE  UNCHANGED <<storeVars, handled, withdrawn>>
  BY <1>8 DEF ReportFailureFails, AcknowledgeFails
<1>9. ASSUME NEW l \in late, LateCall(l)
      PROVE  /\ \/ \E ds \in SUBSET Copy : MarkDelivered(ds) /\ \A d \in ds : d.id \in handled
                \/ \E d \in Copy : MarkFailed(d) /\ ReportedLate(d.id)
             /\ UNCHANGED <<nextId, handled, rejected, withdrawn>>
  <2>1. l \in LateCalls
    BY DEF Shapes
  <2>2. CASE l.op = "delivered"
    <3>1. l.ids \in SUBSET Copy
      BY <2>1, <2>2 DEF LateCalls
    <3> QED BY <1>9, <2>2, <3>1 DEF LateCall, AcknowledgedHandled
  <2>3. CASE l.op = "failed"
    <3>1. l.ids \in SUBSET Copy
      BY <2>1, <2>3 DEF LateCalls
    <3>2. PICK d \in l.ids : MarkFailed(d)
      BY <1>9, <2>3 DEF LateCall
    <3>3. ReportedLate(d.id)
      BY <2>3, <3>2 DEF ReportedLate
    <3> QED BY <1>9, <3>1, <3>2, <3>3 DEF LateCall
  <2> QED BY <2>1, <2>2, <2>3 DEF LateCalls
<1>10. ASSUME NEW id \in Ids, Redeliver(id)
       PROVE  handled \subseteq handled' /\ withdrawn \subseteq withdrawn'
  BY <1>10 DEF Redeliver, Ran
<1>11. CASE Tick
  BY <1>11 DEF Tick, Next
<1> QED
  BY <1>1, <1>2, <1>3, <1>4, <1>5, <1>6, <1>7, <1>8, <1>9, <1>10, <1>11 DEF Next, PassStep

\* The pending deadlines after a step: as they were, fewer, or with a new one.
PendingKept ==
    \A a \in Addresses : \/ pending'[a] = None
                         \/ /\ pending'[a].id = pending[a].id
                            /\ pending'[a].due = pending[a].due
                            /\ Scheduled(a)
                         \/ pending'[a].id = nextId /\ nextId' = nextId + 1

StoreTypes ==
    /\ nextId \in 1..(MaxSchedules + 1) /\ dead \subseteq Ids
    /\ pending \in [Addresses -> Deadline]
    /\ \A a, b \in Addresses : Scheduled(a) /\ pending[a].id = pending[b].id => a = b
    /\ \A a \in Addresses : pending[a].id \notin dead
    /\ \A a \in Addresses : pending[a].id = 0 => pending[a] = None

\* A fresh incarnation is a deadline.
LEMMA FreshDeadline ==
  ASSUME TypeOK, Shapes, nextId <= setup.maxSchedules, NEW due \in 0..MaxTime
  PROVE  [id |-> nextId, due |-> due, attempts |-> 0] \in Deadline
<1>1. nextId \in 0..MaxSchedules /\ 0 \in 0..(MaxDeliveryAttempts - 1)
  BY SMTT(40), Options DEF TypeOK, Shapes
<1> QED BY <1>1 DEF Deadline

\* The store after a step: its types, and what became of each pending deadline.
LEMMA StoreStep ==
  ASSUME TypeOK, Shapes, Issued, AcknowledgedHandled, Next
  PROVE  StoreTypes' /\ PendingKept /\ nextId <= nextId'
<1> DEFINE Goal == StoreTypes' /\ PendingKept /\ nextId <= nextId'
<1>1. /\ UNCHANGED setup /\ Deadline' = Deadline /\ MaxSchedules \in Nat
      /\ StoreTypes /\ nextId \in Nat /\ 0 \notin dead
  <2>1. UNCHANGED setup /\ MaxSchedules \in Nat
    BY StoreCases, Options DEF Shapes
  <2>2. Deadline' = Deadline
    BY <2>1 DEF Deadline, MaxTime, MaxDeliveryAttempts
  <2>3. StoreTypes
    BY DEF StoreTypes, TypeOK, Shapes, Deadline
  <2> QED BY <2>1, <2>2, <2>3 DEF StoreTypes, Ids
<1>2. None \in Deadline
  BY Options DEF None, Deadline, Shapes
<1>3. ASSUME NEW a \in Addresses, NEW due \in 0..MaxTime, Schedule(a, due) PROVE Goal
  <2>1. /\ [id |-> nextId, due |-> due, attempts |-> 0] \in Deadline
        /\ nextId' = nextId + 1 /\ nextId + 1 \in 1..(MaxSchedules + 1)
    BY <1>1, <1>3, FreshDeadline, Options DEF Schedule, Shapes
  <2>2. /\ pending' = [pending EXCEPT ![a] = [id |-> nextId, due |-> due, attempts |-> 0]]
        /\ dead' = dead
    BY <1>3 DEF Schedule
  <2>3. \A b \in Addresses : pending[b].id < nextId /\ pending[b].id \in Nat
    <3> TAKE b \in Addresses
    <3>1. pending[b] \in Deadline
      BY <1>1 DEF StoreTypes
    <3>2. pending[b].id \in 0..MaxSchedules
      BY <3>1 DEF Deadline
    <3> QED BY <1>1, <3>2 DEF Issued
  <2>4. nextId \notin dead
    BY <1>1 DEF Issued
  <2> QED BY <1>1, <2>1, <2>2, <2>3, <2>4 DEF StoreTypes, PendingKept, Scheduled, None
<1>4. ASSUME NEW a \in Addresses, Cancel(a) PROVE Goal
  BY <1>1, <1>2, <1>4 DEF Cancel, StoreTypes, PendingKept, Scheduled, None
<1>5. ASSUME NEW ds \in SUBSET Copy, MarkDelivered(ds), nextId' = nextId PROVE Goal
  <2>1. /\ pending' \in [Addresses -> Deadline] /\ dead' \subseteq dead
        /\ \A a \in Addresses : pending'[a] = pending[a] \/ pending'[a] = None
    BY <1>1, <1>5, DeliveredEffect
  <2> QED BY <1>1, <1>5, <2>1 DEF StoreTypes, PendingKept, Scheduled, None
<1>6. ASSUME NEW d \in Copy, MarkFailed(d), nextId' = nextId PROVE Goal
  <2>1. d.id \in Ids /\ d.id # 0
    BY DEF Copy, Ids
  <2>2. pending' \in [Addresses -> Deadline] /\ dead' \subseteq Ids
    <3>1. pending' \in [Addresses -> Deadline] /\ dead' \subseteq dead \cup {d.id}
      BY <1>1, <1>6, FailedEffect
    <3> QED BY <1>1, <2>1, <3>1 DEF StoreTypes
  <2>3. \A a \in Addresses : \/ pending'[a] = None
                             \/ /\ pending'[a].id = pending[a].id
                                /\ pending'[a].due = pending[a].due
                                /\ pending[a] # None
    <3> TAKE a \in Addresses
    <3>1. CASE pending[a].id # d.id
      BY <1>1, <1>6, <3>1, FailedEffect
    <3>2. CASE pending[a].id = d.id
      <4>1. pending[a] \in Deadline /\ pending[a] # None
        BY <1>1, <2>1, <3>2 DEF StoreTypes, None
      <4> QED BY <1>1, <1>6, <3>2, <4>1, FailedEffect DEF Deadline
    <3> QED BY <3>1, <3>2
  <2>4. \A a \in Addresses : pending'[a].id \notin dead'
    <3> SUFFICES ASSUME NEW a \in Addresses, pending'[a].id \in dead'
                 PROVE  FALSE
      OBVIOUS
    <3>1. pending'[a].id = 0 \/ pending'[a].id = pending[a].id
      BY <2>3 DEF None
    <3>2. dead' \subseteq dead \cup {d.id}
      BY <1>1, <1>6, FailedEffect
    <3>3. pending'[a].id = d.id /\ pending[a].id = d.id /\ pending'[a] # None
      BY <1>1, <2>1, <3>1, <3>2 DEF StoreTypes, None
    <3>4. dead' = dead /\ d.id \notin dead
      BY <1>1, <1>6, <3>3, FailedEffect DEF StoreTypes
    <3> QED BY <3>3, <3>4
  <2> QED BY <1>1, <1>6, <2>2, <2>3, <2>4 DEF StoreTypes, PendingKept, Scheduled, None
<1>7. ASSUME NEW id \in Ids, Redeliver(id) PROVE Goal
  BY <1>1, <1>7 DEF Redeliver, StoreTypes, PendingKept, Scheduled
<1>8. ASSUME UNCHANGED storeVars PROVE Goal
  BY <1>1, <1>8 DEF storeVars, StoreTypes, PendingKept, Scheduled
<1> HIDE DEF Goal
<1>9. Goal
  <2>1. \/ \E a \in Addresses, due \in 0..MaxTime : Schedule(a, due)
        \/ \E a \in Addresses : Cancel(a)
        \/ (\E ds \in SUBSET Copy : MarkDelivered(ds)) /\ nextId' = nextId
        \/ (\E d \in Copy : MarkFailed(d)) /\ nextId' = nextId
        \/ \E id \in Ids : Redeliver(id)
        \/ UNCHANGED storeVars
    BY StoreCases
  <2> QED BY <2>1, <1>3, <1>4, <1>5, <1>6, <1>7, <1>8
<1> QED BY <1>9 DEF Goal

\* The passes after any step.
LEMMA PassesStep ==
  ASSUME TypeOK, Shapes, Countable, Next
  PROVE  /\ pass' \in [Callers -> Passes]
         /\ \A d \in Callers : pass'[d].pc = "marking" => pass'[d].batch # <<>>
<1> DEFINE Goal == /\ pass' \in [Callers -> Passes]
                   /\ \A d \in Callers : pass'[d].pc = "marking" => pass'[d].batch # <<>>
<1>1. /\ pass \in [Callers -> Passes] /\ UNCHANGED setup
      /\ \A d \in Callers : pass[d].pc = "marking" => pass[d].batch # <<>>
  BY DEF Shapes, Next
<1>0. ASSUME NEW c \in Callers, NEW p \in Passes, pass' = [pass EXCEPT ![c] = p],
             p.pc = "marking" => p.batch # <<>>
      PROVE  Goal
  BY <1>0, <1>1
<1>5. ASSUME UNCHANGED pass PROVE Goal
  BY <1>1, <1>5
<1>4. ASSUME NEW c \in Callers, PassStep(c) PROVE Goal
  BY <1>1, <1>4, PassStepTypes
<1> HIDE DEF Goal
<1>2. ASSUME NEW c \in Callers, DrainOnce(c) PROVE Goal
  <2>1. \E p \in Passes : pass' = [pass EXCEPT ![c] = p] /\ p.pc # "marking"
    BY <1>2, PassTypes DEF DrainOnce, Begin
  <2> QED BY <1>0, <2>1
<1>3. ASSUME NEW c \in Callers, Abort(c) PROVE Goal
  <2>1. CASE pass[c].pc = "joined"
    BY <1>0, <1>3, <2>1, PassTypes DEF Abort, Idle
  <2>2. CASE pass[c].pc = "polling"
    <3>1. [pass[c] EXCEPT !.aborted = TRUE] \in Passes
      BY <1>1, <2>2 DEF Passes
    <3>2. [pass[c] EXCEPT !.aborted = TRUE].pc # "marking"
      BY <1>1, <2>2 DEF Passes
    <3> QED BY <1>0, <1>3, <2>2, <3>1, <3>2 DEF Abort
  <2>3. CASE AtWork(c)
    <3> DEFINE p == [pass[c] EXCEPT !.aborted = TRUE]
    <3>1. p \in Passes /\ p.pc = pass[c].pc /\ p.batch = pass[c].batch
      BY <2>3, PassFields DEF Passes
    <3>2. pass' = [pass EXCEPT ![c] = p]
      BY <1>1, <1>3, <2>3 DEF Abort, AtWork
    <3>3. p.pc = "marking" => p.batch # <<>>
      BY <1>1, <3>1
    <3> QED BY <1>0, <3>1, <3>2, <3>3
  <2>4. pass[c].pc = "idle" => pass[c] = Idle
    BY <1>1 DEF Passes, Idle
  <2> QED BY <1>3, <2>1, <2>2, <2>3, <2>4, PassFields DEF Abort, AtWork
<1>6. Goal
  BY <1>2, <1>3, <1>4, <1>5 DEF Next, Schedule, Cancel, LateCall, Redeliver, Tick
<1> QED BY <1>6 DEF Goal

\* Type correctness of a step.
LEMMA TypeStep ==
  ASSUME TypeOK, Shapes, Countable, Issued, AcknowledgedHandled, Next
  PROVE  TypeOK' /\ Shapes'
<1> USE DEF storeVars, historyVars
<1>1. /\ UNCHANGED setup /\ StoreTypes' /\ Deadline' = Deadline
      /\ Passes' = Passes /\ MaxTime' = MaxTime /\ MaxTime \in Nat
      /\ MaxDeliveryAttempts' = MaxDeliveryAttempts /\ MaxDeliveryAttempts \in Nat \ {0}
  BY StoreCases, StoreStep, Options
     DEF Deadline, Passes, Copy, MaxTime, MaxDeliveryAttempts, Shapes
<1>2. now' \in 0..MaxTime
  <2>1. now \in 0..MaxTime
    BY DEF TypeOK
  <2>2. CASE Tick
    BY <1>1, <2>1, <2>2 DEF Tick
  <2>3. CASE UNCHANGED now
    BY <2>1, <2>3
  <2> QED BY ZenonT(60), <2>2, <2>3 DEF Next, Schedule, Cancel, DrainOnce, Abort, PassStep, PollEnds, Poll,
             PollFails, HandlerSucceeds, HandlerRejects, HandlerTimesOut, StopHandling,
             ReportFailure, ReportFailureFails, Acknowledge, AcknowledgeFails, LateCall, Redeliver
<1>3. inFlight' \subseteq Callers
  BY ZenonT(60) DEF TypeOK, Next, Schedule, Cancel, DrainOnce, Abort, PassStep, PollEnds, Poll,
         PollFails, HandlerSucceeds, HandlerRejects, HandlerTimesOut, StopHandling,
         ReportFailure, ReportFailureFails, Acknowledge, AcknowledgeFails, LateCall, Redeliver,
         Tick, EndPass, CycleEnds
<1>4. /\ pass' \in [Callers -> Passes]
      /\ \A d \in Callers : pass'[d].pc = "marking" => pass'[d].batch # <<>>
  BY PassesStep
<1>5. /\ Ids \subseteq Nat
      /\ \A c \in Callers : AtWork(c) /\ pass[c].batch # <<>> =>
            Current(c) \in Copy /\ Current(c).id \in Ids
      /\ \A c \in Callers : AtWork(c) => pass[c].delivered \subseteq Copy
  BY <1>1, PassFields, BatchFields DEF Copy, Ids
<1>6. late' \subseteq LateCalls
  <2>1. late \subseteq LateCalls
    BY DEF Shapes
  <2>2. ASSUME NEW c \in Callers, NEW lands \in BOOLEAN, ReportFailureFails(c, lands)
        PROVE  late' \subseteq LateCalls
    <3>1. Current(c) \in Copy
      BY <1>5, <2>2 DEF ReportFailureFails, AtWork, Shapes
    <3> QED BY <2>1, <2>2, <3>1 DEF ReportFailureFails, LateCalls
  <2>3. ASSUME NEW c \in Callers, NEW lands \in BOOLEAN, AcknowledgeFails(c, lands)
        PROVE  late' \subseteq LateCalls
    <3>1. pass[c].delivered \subseteq Copy
      BY <1>5, <2>3 DEF AcknowledgeFails, AtWork
    <3> QED BY <2>1, <2>3, <3>1 DEF AcknowledgeFails, LateCalls
  <2>4. CASE late' \subseteq late
    BY SMTT(40), <2>1, <2>4
  <2> QED BY <2>2, <2>3, <2>4 DEF Next, Schedule, Cancel, DrainOnce, Abort, PassStep, PollEnds,
             Poll, PollFails, HandlerSucceeds, HandlerRejects, HandlerTimesOut, StopHandling,
             ReportFailure, Acknowledge, LateCall, Redeliver, Tick
<1>7. handled' \subseteq Ids /\ twice' \subseteq Ids
  <2>1. handled \subseteq Ids /\ twice \subseteq Ids
    BY DEF Shapes
  <2>2. ASSUME NEW id \in Ids, Ran(id) PROVE handled' \subseteq Ids /\ twice' \subseteq Ids
    BY <2>1, <2>2 DEF Ran
  <2>3. CASE UNCHANGED <<handled, twice>>
    BY <2>1, <2>3
  <2> QED BY ZenonT(60), <1>5, <2>2, <2>3 DEF Next, Schedule, Cancel, DrainOnce, Abort, PassStep, PollEnds,
             Poll, PollFails, HandlerSucceeds, HandlerRejects, HandlerTimesOut, StopHandling,
             Handles, AtWork, ReportFailure, ReportFailureFails, Acknowledge, AcknowledgeFails,
             LateCall, Redeliver, Tick
<1>8. withdrawn' \subseteq Ids
  <2>1. withdrawn \subseteq Ids
    BY DEF Shapes
  <2>2. \A a \in Addresses : pending[a].id \in Ids \cup {0} /\ (Scheduled(a) => pending[a].id \in Ids)
    BY <1>1, Options DEF TypeOK, Shapes, Scheduled, Ids
  <2>3. CASE UNCHANGED withdrawn
    BY <2>1, <2>3
  <2> QED BY ZenonT(60), <2>1, <2>2, <2>3 DEF Next, Schedule, Cancel, DrainOnce, Abort, PassStep, PollEnds,
             Poll, PollFails, HandlerSucceeds, HandlerRejects, HandlerTimesOut, StopHandling,
             ReportFailure, ReportFailureFails, Acknowledge, AcknowledgeFails,
             LateCall, Redeliver, Tick
<1>9. rejected' \in [Ids -> 0..MaxDeliveryAttempts]
  <2>1. rejected \in [Ids -> 0..MaxDeliveryAttempts]
    BY DEF Shapes
  <2>2. CASE UNCHANGED rejected
    BY <2>1, <2>2
  <2>3. ASSUME NEW c \in Callers, HandlerRejects(c)
        PROVE  rejected' \in [Ids -> 0..MaxDeliveryAttempts]
    <3> DEFINE id == Current(c).id
               n == IF rejected[id] < MaxDeliveryAttempts THEN rejected[id] + 1 ELSE rejected[id]
    <3>1. rejected' = [rejected EXCEPT ![id] = n] /\ n \in 0..MaxDeliveryAttempts
      BY <1>1, <1>5, <2>1, <2>3 DEF HandlerRejects, Handles, AtWork
    <3> QED BY <2>1, <3>1
  <2> QED BY ZenonT(60), <2>2, <2>3 DEF Next, Schedule, Cancel, DrainOnce, Abort, PassStep, PollEnds,
             Poll, PollFails, HandlerSucceeds, HandlerTimesOut, StopHandling,
             ReportFailure, ReportFailureFails, Acknowledge, AcknowledgeFails,
             LateCall, Redeliver, Tick
<1>10. disturbed' \in BOOLEAN
  <2>1. disturbed \in BOOLEAN
    BY DEF Shapes
  <2> QED BY ZenonT(60), <2>1 DEF Next, Schedule, Cancel, DrainOnce, Abort, PassStep, PollEnds,
             Poll, PollFails, HandlerSucceeds, HandlerRejects, HandlerTimesOut, StopHandling,
             Disturb, ReportFailure, ReportFailureFails, Acknowledge, AcknowledgeFails,
             LateCall, Redeliver, Tick
<1>11. \A c \in Callers : pass'[c].pc \in {"idle", "joined", "polling", "handling", "marking"}
  BY <1>4 DEF Passes
<1>12. TypeOK'
  BY <1>1, <1>2, <1>3, <1>11 DEF TypeOK, StoreTypes, Deadline
<1>13. LateCalls' = LateCalls /\ setup' \in Setups
  BY <1>1 DEF LateCalls, Copy, Shapes
<1>14. Shapes'
  BY <1>1, <1>4, <1>6, <1>7, <1>8, <1>9, <1>10, <1>13 DEF Shapes, StoreTypes
<1> QED BY <1>12, <1>14

-----------------------------------------------------------------------------
(* What a step does to the passes *)

\* A call joins or begins a pass, a joined call leaves, the pass of c ends, or
\* it goes on as p.
Continues(c, p) ==
    /\ pass' = [pass EXCEPT ![c] = p] /\ inFlight' = inFlight
    /\ p.pc \in {"polling", "handling", "marking"}

\* What is left of the work of c: less in the batch, the same incarnations in hand.
Narrows(c, p) ==
    /\ AtWork(c) /\ p.pc \in {"handling", "marking"}
    /\ {p.batch[i] : i \in DOMAIN p.batch} \cup p.delivered \subseteq InBatch(c) \cup pass[c].delivered
    /\ \A d \in p.delivered : d \in pass[c].delivered \/ d.id \in handled'

\* A running pass ends, polls, takes a page in hand or works on.
LEMMA PassCases ==
  ASSUME TypeOK, Shapes, Countable, NEW c \in Callers, PassStep(c)
  PROVE  /\ Active(c)
         /\ \/ EndPass(c)
            \/ \E p : Continues(c, p) /\ p.pc = "polling"
            \/ /\ Poll(c)
               /\ \E page \in DuePages : Continues(c, Handling(Copies(page), c))
            \/ \E p : Continues(c, p) /\ Narrows(c, p)
<1> USE DEF Active, Continues
<1>1. CASE PollEnds(c) \/ PollFails(c)
  BY <1>1 DEF PollEnds, PollFails
<1>2. CASE Poll(c)
  BY <1>2 DEF Poll, Handling
<1>3. ASSUME AtWork(c), pass[c].batch # <<>>
      PROVE  /\ Current(c) \in InBatch(c)
             /\ \A i \in DOMAIN Tail(pass[c].batch) : Tail(pass[c].batch)[i] \in InBatch(c)
             /\ pass[c] \in [pc : {"handling", "marking"}, aborted : BOOLEAN, batch : Seq(Copy),
                             delivered : SUBSET Copy, failed : BOOLEAN]
  BY <1>3, BatchFields, PassFields DEF InBatch
<1>4. ASSUME NEW acked, CycleEnds(c, acked)
      PROVE  EndPass(c) \/ \E p : Continues(c, p) /\ p.pc = "polling"
  <2> DEFINE p == [pc |-> "polling", aborted |-> FALSE]
  <2>1. p.pc = "polling"
    OBVIOUS
  <2>2. EndPass(c) \/ Continues(c, p)
    BY <1>4, <2>1 DEF CycleEnds
  <2> QED BY <2>1, <2>2
<1>5. CASE Acknowledge(c) \/ \E lands \in BOOLEAN : AcknowledgeFails(c, lands)
  BY <1>4, <1>5 DEF Acknowledge, AcknowledgeFails
<1>6. CASE HandlerSucceeds(c)
  <2> DEFINE p == [pass[c] EXCEPT !.batch = Tail(@), !.delivered = @ \cup {Current(c)}]
  <2>1. AtWork(c) /\ pass[c].batch # <<>> /\ pass[c].pc = "handling"
    BY <1>6 DEF HandlerSucceeds, Handles, AtWork
  <2>2. /\ p.pc = "handling" /\ p.batch = Tail(pass[c].batch)
        /\ p.delivered = pass[c].delivered \cup {Current(c)}
    BY <1>3, <2>1
  <2>3. Continues(c, p)
    BY <1>3, <1>6, <2>1, <2>2 DEF HandlerSucceeds, Shapes
  <2>4. Narrows(c, p)
    BY <1>3, <1>6, <2>1, <2>2 DEF HandlerSucceeds, Narrows, Ran, InBatch
  <2> QED BY <2>1, <2>3, <2>4 DEF AtWork
<1>7. CASE HandlerRejects(c)
  <2> DEFINE p == [pass[c] EXCEPT !.pc = "marking", !.failed = TRUE]
  <2>1. AtWork(c) /\ pass[c].batch # <<>> /\ pass[c].pc = "handling"
    BY <1>7 DEF HandlerRejects, Handles, AtWork
  <2>2. p.pc = "marking" /\ p.batch = pass[c].batch /\ p.delivered = pass[c].delivered
    BY <1>3, <2>1
  <2>3. Continues(c, p)
    BY <1>3, <1>7, <2>1, <2>2 DEF HandlerRejects, Shapes
  <2>4. Narrows(c, p)
    BY <1>3, <2>1, <2>2 DEF Narrows, InBatch
  <2> QED BY <2>1, <2>3, <2>4 DEF AtWork
<1>8. CASE \E reached \in BOOLEAN : HandlerTimesOut(c, reached)
  <2> DEFINE p == [pass[c] EXCEPT !.batch = Tail(@), !.failed = TRUE]
  <2>1. AtWork(c) /\ pass[c].batch # <<>> /\ pass[c].pc = "handling"
    BY <1>8 DEF HandlerTimesOut, Handles, AtWork
  <2>2. p.pc = "handling" /\ p.batch = Tail(pass[c].batch) /\ p.delivered = pass[c].delivered
    BY <1>3, <2>1
  <2>3. Continues(c, p)
    BY <1>3, <1>8, <2>1, <2>2 DEF HandlerTimesOut, Shapes
  <2>4. Narrows(c, p)
    BY <1>3, <2>1, <2>2 DEF Narrows, InBatch
  <2> QED BY <2>1, <2>3, <2>4 DEF AtWork
<1>9. CASE \E reached \in BOOLEAN : StopHandling(c, reached)
  <2> DEFINE p == [pass[c] EXCEPT !.batch = <<>>]
  <2>1. AtWork(c) /\ pass[c].batch # <<>> /\ pass[c].pc = "handling"
    BY <1>9 DEF StopHandling, AtWork
  <2>2. p.pc = "handling" /\ p.batch = <<>> /\ p.delivered = pass[c].delivered
    BY <1>3, <2>1
  <2>3. Continues(c, p)
    BY <1>3, <1>9, <2>1, <2>2 DEF StopHandling, Shapes
  <2>4. Narrows(c, p)
    BY <1>3, <2>1, <2>2 DEF Narrows, InBatch
  <2> QED BY <2>1, <2>3, <2>4 DEF AtWork
<1>10. CASE pass[c].pc = "marking" /\ Marked(c) /\ UNCHANGED inFlight
  <2> DEFINE p == [pass[c] EXCEPT !.pc = "handling", !.batch = Tail(@)]
  <2>1. AtWork(c) /\ pass[c].batch # <<>> /\ pass[c].pc = "marking"
    BY <1>10 DEF AtWork, Shapes
  <2>2. p.pc = "handling" /\ p.batch = Tail(pass[c].batch) /\ p.delivered = pass[c].delivered
    BY <1>3, <2>1
  <2>3. Continues(c, p)
    BY <1>3, <1>10, <2>1, <2>2 DEF Marked, Shapes
  <2>4. Narrows(c, p)
    BY <1>3, <2>1, <2>2 DEF Narrows, InBatch
  <2> QED BY <2>1, <2>3, <2>4 DEF AtWork
<1>11. CASE ReportFailure(c) \/ \E lands \in BOOLEAN : ReportFailureFails(c, lands)
  BY <1>10, <1>11 DEF ReportFailure, ReportFailureFails
<1> QED BY <1>1, <1>2, <1>5, <1>6, <1>7, <1>8, <1>9, <1>11 DEF PassStep

\* One pass at a time, and PollLoop knows of it.
LEMMA OnePassStep ==
  ASSUME TypeOK, Shapes, Countable, OnePass, Next
  PROVE  OnePass'
<1>1. pass \in [Callers -> Passes]
  BY DEF Shapes
<1>2. ASSUME NEW c \in Callers, Active(c), EndPass(c) PROVE OnePass'
  BY <1>1, <1>2 DEF OnePass, EndPass, Active, Idle
<1>3. ASSUME NEW c \in Callers, NEW p, Active(c), Continues(c, p) PROVE OnePass'
  BY <1>1, <1>3 DEF OnePass, Continues, Active
<1>4. ASSUME NEW c \in Callers, PassStep(c) PROVE OnePass'
  BY <1>2, <1>3, <1>4, PassCases
<1>5. ASSUME NEW c \in Callers, DrainOnce(c) PROVE OnePass'
  BY <1>1, <1>5 DEF OnePass, DrainOnce, Active, Idle, Begin
<1>6. ASSUME NEW c \in Callers, Abort(c) PROVE OnePass'
  <2>1. CASE pass[c].pc = "joined"
    BY <1>1, <1>6, <2>1 DEF OnePass, Abort, Active, Idle
  <2>2. CASE pass[c].pc # "joined"
    <3>1. pass[c].pc # "idle"
      BY <1>1, <1>6 DEF Abort, Passes, Idle
    <3>2. [pass[c] EXCEPT !.aborted = TRUE].pc = pass[c].pc
      BY <1>1, <2>2, <3>1 DEF Passes
    <3>3. Active(c) /\ Continues(c, [pass[c] EXCEPT !.aborted = TRUE])
      BY <1>6, <2>2, <3>1, <3>2, PassFields DEF Abort, Active, Continues
    <3> QED BY <1>3, <3>3
  <2> QED BY <2>1, <2>2
<1>7. CASE UNCHANGED <<pass, inFlight>>
  BY <1>7 DEF OnePass, Active
<1> QED BY <1>4, <1>5, <1>6, <1>7 DEF Next, Schedule, Cancel, LateCall, Redeliver, Tick

\* A call that outlives its timeout carries what its pass carried.
LEMMA LateCases ==
  ASSUME Shapes, Next, NEW l \in late'
  PROVE  \/ l \in late
         \/ \E c \in Callers : /\ pass[c].pc = "marking" /\ disturbed'
                               /\ l = [op |-> "failed", ids |-> {Current(c)}]
         \/ \E c \in Callers : /\ AtWork(c) /\ disturbed'
                               /\ l = [op |-> "delivered", ids |-> pass[c].delivered]
<1>1. CASE late' \subseteq late
  BY <1>1
<1>2. ASSUME NEW c \in Callers, NEW lands \in BOOLEAN,
             ReportFailureFails(c, lands) \/ AcknowledgeFails(c, lands)
      PROVE  \/ l \in late
             \/ /\ pass[c].pc = "marking" /\ disturbed'
                /\ l = [op |-> "failed", ids |-> {Current(c)}]
             \/ /\ AtWork(c) /\ disturbed'
                /\ l = [op |-> "delivered", ids |-> pass[c].delivered]
  BY <1>2 DEF ReportFailureFails, AcknowledgeFails, AtWork, Disturb
<1> QED BY <1>1, <1>2 DEF Next, Schedule, Cancel, DrainOnce, Abort, PassStep, PollEnds,
           Poll, PollFails, HandlerSucceeds, HandlerRejects, HandlerTimesOut, StopHandling,
           ReportFailure, Acknowledge, LateCall, Redeliver, Tick

\* What a pass carries after a step it carried before, unless it takes a page.
LEMMA HeldStep ==
  ASSUME TypeOK, Shapes, Countable, Next, NEW c \in Callers, AtWork(c)'
  PROVE  \/ /\ AtWork(c)
            /\ (InBatch(c) \cup pass[c].delivered)' \subseteq InBatch(c) \cup pass[c].delivered
            /\ \A d \in pass'[c].delivered : d \in pass[c].delivered \/ d.id \in handled'
         \/ /\ Poll(c) /\ pass'[c].delivered = {}
            /\ \E page \in DuePages : /\ InBatch(c)' = {Copies(page)[i] : i \in DOMAIN page}
                                      /\ pass'[c].batch = Copies(page)
<1> DEFINE Same == AtWork(c) /\ pass'[c].batch = pass[c].batch /\ pass'[c].delivered = pass[c].delivered
           Goal ==
             \/ /\ AtWork(c)
                /\ (InBatch(c) \cup pass[c].delivered)' \subseteq InBatch(c) \cup pass[c].delivered
                /\ \A d \in pass'[c].delivered : d \in pass[c].delivered \/ d.id \in handled'
             \/ /\ Poll(c) /\ pass'[c].delivered = {}
                /\ \E page \in DuePages : /\ InBatch(c)' = {Copies(page)[i] : i \in DOMAIN page}
                                          /\ pass'[c].batch = Copies(page)
<1>1. pass \in [Callers -> Passes]
  BY DEF Shapes
<1>2. ASSUME Same PROVE Goal
  BY <1>2 DEF InBatch
<1>3. ASSUME Narrows(c, pass'[c]) PROVE Goal
  BY <1>3 DEF Narrows, InBatch
<1>4. ASSUME NEW page \in DuePages, Poll(c), pass'[c] = Handling(Copies(page), c) PROVE Goal
  BY <1>4, Fresh DEF Handling, InBatch
<1> HIDE DEF Goal
<1>5. ASSUME UNCHANGED pass PROVE Goal
  BY <1>2, <1>5 DEF AtWork
<1>6. ASSUME NEW d \in Callers, PassStep(d) PROVE Goal
  <2>1. CASE EndPass(d)
    BY <1>2, <2>1 DEF EndPass, AtWork, Idle
  <2>2. CASE d # c /\ \E p : Continues(d, p)
    BY <1>1, <1>2, <2>2 DEF Continues, AtWork
  <2>3. CASE d = c /\ \E p : Continues(c, p) /\ p.pc = "polling"
    BY <1>1, <2>3 DEF Continues, AtWork
  <2>4. CASE d = c /\ Poll(c) /\ \E page \in DuePages : Continues(c, Handling(Copies(page), c))
    BY <1>1, <1>4, <2>4 DEF Continues
  <2>5. CASE d = c /\ \E p : Continues(c, p) /\ Narrows(c, p)
    BY <1>1, <1>3, <2>5 DEF Continues
  <2> QED BY <1>6, <2>1, <2>2, <2>3, <2>4, <2>5, PassCases
<1>7. ASSUME NEW d \in Callers, DrainOnce(d) PROVE Goal
  BY <1>1, <1>2, <1>7 DEF DrainOnce, Begin, AtWork
<1>8. ASSUME NEW d \in Callers, Abort(d) PROVE Goal
  <2>1. CASE d # c \/ pass[d].pc = "joined"
    BY <1>1, <1>2, <1>8, <2>1 DEF Abort, AtWork, Idle
  <2>2. CASE d = c /\ pass[c].pc = "polling"
    <3>1. pass'[c] = [pass[c] EXCEPT !.aborted = TRUE]
      BY <1>1, <1>8, <2>2 DEF Abort
    <3>2. pass'[c].pc = "polling"
      BY <1>1, <2>2, <3>1 DEF Passes
    <3> QED BY <3>2 DEF AtWork
  <2>3. CASE d = c /\ AtWork(c)
    <3>1. pass'[c] = [pass[c] EXCEPT !.aborted = TRUE]
      BY <1>1, <1>8, <2>3 DEF Abort, AtWork
    <3>2. Same
      BY <2>3, <3>1, PassFields
    <3> QED BY <1>2, <3>2
  <2> QED BY <1>1, <1>8, <2>1, <2>2, <2>3, PassFields DEF Abort, AtWork, Passes, Idle
<1>9. Goal
  BY <1>5, <1>6, <1>7, <1>8 DEF Next, Schedule, Cancel, LateCall, Redeliver, Tick
<1> QED BY <1>9 DEF Goal

\* Whatever a pass or a late call carries is a copy.
LEMMA CarriedBy ==
  ASSUME Shapes
  PROVE  /\ \A c \in Callers : Held(c) \subseteq Carried
         /\ \A l \in late : l.ids \subseteq Carried
<1>1. \A c \in Callers : Held(c) \subseteq Copy
  <2> TAKE c \in Callers
  <2>1. CASE AtWork(c)
    <3>1. InBatch(c) \subseteq Copy /\ pass[c].delivered \subseteq Copy
      BY <2>1, PassFields DEF InBatch
    <3> QED BY <2>1, <3>1 DEF Held
  <2> QED BY <2>1 DEF Held
<1>2. \A l \in late : l.ids \subseteq Copy
  BY DEF Shapes, LateCalls
<1> QED BY <1>1, <1>2 DEF Carried

\* No step makes up a copy: due() does, of what is pending.
LEMMA CarriedStep ==
  ASSUME TypeOK, Shapes, Countable, OnePass, Next
  PROVE  \/ Carried' \subseteq Carried
         \/ /\ UNCHANGED storeVars
            /\ \E page \in DuePages : \A d \in Carried' :
                  d \in Carried \/ \E i \in DOMAIN page : d = Copies(page)[i]
<1>1. ASSUME NEW l \in late', NEW d \in l.ids PROVE d \in Carried
  <2>1. ASSUME NEW c \in Callers, pass[c].pc = "marking" PROVE Current(c) \in Held(c)
    BY <2>1, BatchFields DEF Held, AtWork, Shapes
  <2>2. ASSUME NEW c \in Callers, AtWork(c) PROVE pass[c].delivered \subseteq Held(c)
    BY <2>2 DEF Held
  <2> QED BY <1>1, <2>1, <2>2, LateCases, CarriedBy
<1>2. ASSUME \A c \in Callers : ~Poll(c)
      PROVE  Carried' \subseteq Carried
  <2>1. ASSUME NEW c \in Callers PROVE Held(c)' \subseteq Held(c)
    BY <1>2, <2>1, HeldStep DEF Held
  <2> QED BY <1>1, <2>1, CarriedBy DEF Carried
<1>3. ASSUME NEW c \in Callers, Poll(c)
      PROVE  /\ UNCHANGED storeVars
             /\ \E page \in DuePages : \A d \in Carried' :
                   d \in Carried \/ \E i \in DOMAIN page : d = Copies(page)[i]
  <2>1. PICK page \in DuePages : pass' = [pass EXCEPT ![c] = Handling(Copies(page), c)]
    BY <1>3 DEF Poll
  <2>2. ASSUME NEW b \in Callers, b # c PROVE Held(b)' = Held(b)
    <3>1. pass'[b] = pass[b]
      BY <2>1, <2>2 DEF Shapes
    <3> QED BY <3>1 DEF Held, InBatch, AtWork
  <2>3. \A d \in Held(c)' : \E i \in DOMAIN page : d = Copies(page)[i]
    <3>1. pass'[c] = Handling(Copies(page), c)
      BY <2>1 DEF Shapes
    <3>2. InBatch(c)' = {Copies(page)[i] : i \in DOMAIN page} /\ pass'[c].delivered = {}
      BY <3>1, Fresh DEF Handling, InBatch
    <3> QED BY <3>2 DEF Held
  <2>4. \A d \in Carried' : d \in Carried \/ \E i \in DOMAIN page : d = Copies(page)[i]
    BY <1>1, <2>2, <2>3, CarriedBy DEF Carried
  <2> QED BY <1>3, <2>4 DEF Poll
<1> QED BY <1>2, <1>3

\* Only what is carried, or a dead letter, is handled; only what is carried is
\* given up; only what is pending is withdrawn.
LEMMA HistoryStep ==
  ASSUME TypeOK, Shapes, AcknowledgedHandled, Next
  PROVE  /\ \A id \in handled' : id \in handled \cup dead \/ \E d \in Carried : d.id = id
         /\ \A id \in dead' : id \in dead \/ \E d \in Carried : d.id = id
         /\ \A id \in withdrawn' : id \in withdrawn \/ \E a \in Addresses : pending[a].id = id
<1>1. ASSUME NEW c \in Callers, AtWork(c), pass[c].batch # <<>>
      PROVE  Current(c) \in Carried
  <2>1. Current(c) \in Held(c)
    BY SMTT(40), <1>1, BatchFields DEF Held
  <2> QED BY <2>1, CarriedBy
<1>2. \A id \in handled' : id \in handled \cup dead \/ \E d \in Carried : d.id = id
  BY ZenonT(60), <1>1 DEF Next, Schedule, Cancel, DrainOnce, Abort, PassStep, PollEnds, Poll,
         PollFails, HandlerSucceeds, HandlerRejects, HandlerTimesOut, StopHandling,
         Handles, AtWork, Ran, ReportFailure, ReportFailureFails, Acknowledge,
         AcknowledgeFails, LateCall, Redeliver, Tick, historyVars
<1>3. \A id \in withdrawn' : id \in withdrawn \/ \E a \in Addresses : pending[a].id = id
  BY DEF Next, Schedule, Cancel, DrainOnce, Abort, PassStep, PollEnds, Poll,
         PollFails, HandlerSucceeds, HandlerRejects, HandlerTimesOut, StopHandling,
         ReportFailure, ReportFailureFails, Acknowledge,
         AcknowledgeFails, LateCall, Redeliver, Tick, historyVars
<1>4. ASSUME NEW d \in Copy, MarkFailed(d), Reporting(d.id) \/ ReportedLate(d.id)
      PROVE  \A id \in dead' : id \in dead \/ \E e \in Carried : e.id = id
  <2>1. CASE Reporting(d.id)
    <3>1. PICK c \in Callers : pass[c].pc = "marking" /\ Current(c).id = d.id
      BY <2>1 DEF Reporting
    <3>2. Current(c) \in Carried
      BY <1>1, <3>1 DEF AtWork, Shapes
    <3> QED BY <1>4, <3>1, <3>2, FailedEffect, StoreCases
  <2>2. CASE ReportedLate(d.id)
    <3>1. PICK l \in late : \E e \in l.ids : e.id = d.id
      BY <2>2 DEF ReportedLate
    <3> QED BY <1>4, <3>1, FailedEffect, StoreCases, CarriedBy
  <2> QED BY <1>4, <2>1, <2>2
<1>5. \A id \in dead' : id \in dead \/ \E d \in Carried : d.id = id
  <2>1. \/ dead' \subseteq dead
        \/ \E d \in Copy : MarkFailed(d) /\ (Reporting(d.id) \/ ReportedLate(d.id))
    BY StoreCases DEF Schedule, Cancel, MarkDelivered, Redeliver, storeVars
  <2> QED BY <1>4, <2>1
<1> QED BY <1>2, <1>3, <1>5

\* Identifiers in use have been issued, after any step.
LEMMA IssuedStep ==
  ASSUME TypeOK, Shapes, Countable, OnePass, Issued, AcknowledgedHandled, Next
  PROVE  Issued'
<1>1. PendingKept /\ nextId <= nextId' /\ nextId \in Nat /\ nextId' \in Nat \ {0}
  BY SMTT(40), StoreStep, Options DEF StoreTypes, TypeOK, Shapes
<1>2. \A a \in Addresses : pending[a].id \in Nat /\ pending[a].id < nextId
  BY Options DEF TypeOK, Issued, Shapes
<1>3. handled \cup dead \cup withdrawn \subseteq Nat /\ \A d \in Carried : d.id \in Nat
  BY Options DEF Shapes, TypeOK, Ids, Carried, Copy
<1>4. \A a \in Addresses : pending'[a].id < nextId'
  BY <1>1, <1>2 DEF PendingKept, None
<1>5. \A id \in dead' \cup handled' \cup withdrawn' : id < nextId'
  BY <1>1, <1>2, <1>3, HistoryStep DEF Issued
<1>6. \A d \in Carried' : d.id < nextId'
  BY <1>1, <1>2, <1>3, CarriedStep, Fresh DEF Issued
<1> QED BY <1>4, <1>5, <1>6 DEF Issued

\* A copy names one incarnation, after any step.
LEMMA CopiesTrueStep ==
  ASSUME TypeOK, Shapes, Countable, OnePass, Issued, CopiesTrue, AcknowledgedHandled, Next
  PROVE  CopiesTrue'
<1>1. PendingKept /\ nextId \in Nat
  BY SMTT(40), StoreStep, Options DEF TypeOK, Shapes
<1>2. \A d \in Carried : d.id \in Ids /\ d.id # 0 /\ d.id < nextId /\ d.id # nextId
  BY Options DEF Carried, Copy, Ids, Issued, Shapes
<1>3. CASE Carried' \subseteq Carried
  <2>1. \A d, e \in Carried' : d.id = e.id => d = e
    BY <1>3 DEF CopiesTrue
  <2>2. ASSUME NEW d \in Carried', NEW a \in Addresses, pending'[a].id = d.id
        PROVE  d.addr = a /\ d.due = pending'[a].due
    <3>1. d \in Carried /\ d.id # 0 /\ d.id # nextId
      BY <1>2, <1>3
    <3>2. pending'[a].id = pending[a].id /\ pending'[a].due = pending[a].due
      BY <1>1, <2>2, <3>1 DEF PendingKept, None
    <3>3. pending[a].id = d.id
      BY <2>2, <3>2
    <3>4. d.addr = a /\ d.due = pending[a].due
      BY <3>1, <3>3 DEF CopiesTrue
    <3> QED BY <3>2, <3>4
  <2> QED BY <2>1, <2>2 DEF CopiesTrue
<1>4. CASE /\ UNCHANGED storeVars
           /\ \E page \in DuePages : \A d \in Carried' :
                 d \in Carried \/ \E i \in DOMAIN page : d = Copies(page)[i]
  <2>1. PICK page \in DuePages : \A d \in Carried' :
                 d \in Carried \/ \E i \in DOMAIN page : d = Copies(page)[i]
    BY <1>4
  <2>2. pending' = pending
    BY <1>4 DEF storeVars
  <2>3. \A d \in Carried' : d \in Copy
    BY DEF Carried, Copy
  <2>4. \A d \in Carried' : \/ d \in Carried
                            \/ \E a \in Addresses : /\ d.addr = a /\ Scheduled(a)
                                                    /\ d.id = pending[a].id
                                                    /\ d.due = pending[a].due
    BY <2>1, Fresh
  <2>5. \A a, b \in Addresses : Scheduled(a) /\ pending[a].id = pending[b].id => a = b
    BY DEF TypeOK
  <2>6. ASSUME NEW d \in Carried', NEW a \in Addresses, pending[a].id = d.id
        PROVE  d.addr = a /\ d.due = pending[a].due
    BY <2>4, <2>5, <2>6 DEF CopiesTrue
  <2>7. ASSUME NEW d \in Carried', NEW e \in Carried', d.id = e.id PROVE d = e
    <3>1. d \in Copy /\ e \in Copy
      BY <2>3
    <3>2. CASE d \in Carried /\ e \in Carried
      BY <2>7, <3>2 DEF CopiesTrue
    <3>3. CASE \E a \in Addresses : pending[a].id = d.id
      <4>1. d.addr = e.addr /\ d.due = e.due
        BY <2>6, <2>7, <3>3
      <4> QED BY <2>7, <3>1, <4>1 DEF Copy
    <3> QED BY <2>4, <2>7, <3>2, <3>3
  <2> QED BY <2>2, <2>6, <2>7 DEF CopiesTrue
<1> QED BY <1>3, <1>4, CarriedStep

\* What is to be acknowledged has been handled, after any step.
LEMMA AcknowledgedStep ==
  ASSUME TypeOK, Shapes, Countable, OnePass, AcknowledgedHandled, Next
  PROVE  AcknowledgedHandled'
<1>1. handled \subseteq handled'
  BY StoreCases
<1>2. ASSUME NEW c \in Callers, AtWork(c)', NEW d \in pass'[c].delivered
      PROVE  d.id \in handled'
  BY <1>1, <1>2, HeldStep DEF AcknowledgedHandled
<1>3. ASSUME NEW l \in late', l.op = "delivered", NEW d \in l.ids
      PROVE  d.id \in handled'
  BY <1>1, <1>3, LateCases DEF AcknowledgedHandled
<1> QED BY <1>2, <1>3 DEF AcknowledgedHandled

-----------------------------------------------------------------------------
(* Attempts *)

\* Only a pass in hand can report, and what it reports has been issued.
LEMMA Reports ==
  ASSUME Shapes, Issued, NEW id, Reporting(id) \/ ReportedLate(id)
  PROVE  id # nextId
<1>1. \A d \in Carried : d.id # nextId
  BY Options DEF Carried, Copy, Ids, Issued, Shapes
<1>2. CASE Reporting(id)
  <2>1. PICK c \in Callers : pass[c].pc = "marking" /\ Current(c).id = id
    BY <1>2 DEF Reporting
  <2>2. Current(c) \in Held(c)
    BY <2>1, BatchFields DEF Held, AtWork, Shapes
  <2> QED BY <1>1, <2>1, <2>2, CarriedBy
<1>3. CASE ReportedLate(id)
  BY <1>1, <1>3, CarriedBy DEF ReportedLate
<1> QED BY <1>2, <1>3

\* But for these four actions, no failure is added to those to be reported, and
\* a pending deadline keeps its attempts.
LEMMA OwedCases ==
  ASSUME TypeOK, Shapes, Countable, Next
  PROVE  \/ \E c \in Callers : \/ ReportFailure(c) \/ HandlerRejects(c)
                               \/ \E lands \in BOOLEAN : ReportFailureFails(c, lands)
         \/ \E l \in late : LateCall(l) /\ l.op = "failed"
         \/ /\ \A id : /\ Reporting(id)' => Reporting(id)
                       /\ ReportedLate(id)' => ReportedLate(id)
            /\ rejected' = rejected
            /\ \A a \in Addresses : \/ pending'[a] \in {None, pending[a]}
                                    \/ pending'[a].id = nextId /\ pending'[a].attempts = 0
<1> DEFINE Still == \A c \in Callers : pass'[c].pc = "marking" =>
                       pass[c].pc = "marking" /\ pass'[c].batch = pass[c].batch
           StoreStill == \A a \in Addresses : \/ pending'[a] \in {None, pending[a]}
                                              \/ pending'[a].id = nextId /\ pending'[a].attempts = 0
           LateStill == \A l \in late' : l.op = "failed" => l \in late
           Rest == Still /\ LateStill /\ StoreStill /\ rejected' = rejected
<1>0. pass \in [Callers -> Passes]
  BY DEF Shapes
<1>1. ASSUME Rest
      PROVE  /\ \A id : /\ Reporting(id)' => Reporting(id)
                        /\ ReportedLate(id)' => ReportedLate(id)
             /\ rejected' = rejected /\ StoreStill
  BY <1>1 DEF Reporting, ReportedLate, Current
<1>2. ASSUME NEW a \in Addresses, Cancel(a) \/ \E due \in 0..MaxTime : Schedule(a, due)
      PROVE  Rest
  BY <1>2 DEF Cancel, Schedule, TypeOK
<1>3. ASSUME NEW c \in Callers, DrainOnce(c) PROVE Rest
  BY <1>0, <1>3 DEF DrainOnce, Begin, storeVars, historyVars
<1>4. ASSUME NEW c \in Callers, Abort(c) PROVE Rest
  <2>1. LateStill /\ StoreStill /\ rejected' = rejected
    BY <1>4 DEF Abort, storeVars
  <2>2. CASE pass[c].pc = "joined"
    BY <1>0, <1>4, <2>1, <2>2 DEF Abort, Idle
  <2>3. CASE pass[c].pc = "polling"
    <3>1. [pass[c] EXCEPT !.aborted = TRUE].pc = "polling"
      BY <1>0, <2>3 DEF Passes
    <3> QED BY <1>0, <1>4, <2>1, <2>3, <3>1 DEF Abort
  <2>4. CASE AtWork(c)
    <3>1. /\ [pass[c] EXCEPT !.aborted = TRUE].pc = pass[c].pc
          /\ [pass[c] EXCEPT !.aborted = TRUE].batch = pass[c].batch
      BY <2>4, PassFields
    <3> QED BY <1>0, <1>4, <2>1, <2>4, <3>1 DEF Abort, AtWork
  <2> QED BY <1>0, <1>4, <2>2, <2>3, <2>4, PassFields DEF Abort, AtWork, Passes, Idle
<1>5. ASSUME NEW c \in Callers, NEW p, pass' = [pass EXCEPT ![c] = p], p.pc # "marking"
      PROVE  Still
  BY <1>0, <1>5
<1>6. ASSUME NEW c \in Callers, EndPass(c) PROVE Still
  BY <1>0, <1>6 DEF EndPass, Idle
<1>7. ASSUME NEW c \in Callers, PollEnds(c) \/ Poll(c) \/ PollFails(c) PROVE Rest
  <2>1. Still
    BY <1>5, <1>6, <1>7 DEF PollEnds, Poll, PollFails, Handling
  <2> QED BY <1>7, <2>1 DEF PollEnds, Poll, PollFails, storeVars, historyVars
<1>8. ASSUME NEW c \in Callers, pass[c].pc = "handling"
      PROVE  \A b, e, f : [pass[c] EXCEPT !.batch = b, !.failed = f].pc = "handling"
                          /\ [pass[c] EXCEPT !.batch = b, !.delivered = e].pc = "handling"
                          /\ [pass[c] EXCEPT !.batch = b].pc = "handling"
  BY <1>8, PassFields DEF AtWork
<1>9. ASSUME NEW c \in Callers,
             \/ HandlerSucceeds(c)
             \/ \E reached \in BOOLEAN : HandlerTimesOut(c, reached) \/ StopHandling(c, reached)
      PROVE  Rest
  <2>1. pass[c].pc = "handling"
    BY <1>9 DEF HandlerSucceeds, HandlerTimesOut, StopHandling, Handles
  <2>2. CASE HandlerSucceeds(c)
    <3>1. pass' = [pass EXCEPT ![c] = [pass[c] EXCEPT !.batch = Tail(@), !.delivered = @ \cup {Current(c)}]]
      BY <1>0, <2>2, <2>1, <1>8 DEF HandlerSucceeds
    <3>2. [pass[c] EXCEPT !.batch = Tail(@), !.delivered = @ \cup {Current(c)}].pc = "handling"
      BY <2>1, PassFields DEF AtWork
    <3>3. Still
      BY <1>5, <3>1, <3>2
    <3> QED BY <2>2, <3>3 DEF HandlerSucceeds, storeVars
  <2>3. CASE \E reached \in BOOLEAN : HandlerTimesOut(c, reached)
    <3>1. pass' = [pass EXCEPT ![c] = [pass[c] EXCEPT !.batch = Tail(@), !.failed = TRUE]]
      BY <1>0, <2>3, <2>1, <1>8 DEF HandlerTimesOut
    <3> QED BY <1>5, <1>8, <2>1, <2>3, <3>1 DEF HandlerTimesOut, storeVars
  <2>4. CASE \E reached \in BOOLEAN : StopHandling(c, reached)
    <3>1. pass' = [pass EXCEPT ![c] = [pass[c] EXCEPT !.batch = <<>>]]
      BY <1>0, <2>4, <2>1, <1>8 DEF StopHandling
    <3> QED BY <1>5, <1>8, <2>1, <2>4, <3>1 DEF StopHandling, storeVars
  <2> QED BY <1>9, <2>2, <2>3, <2>4
<1>10. ASSUME NEW c \in Callers, NEW acked, CycleEnds(c, acked) PROVE Still
  <2>1. [pc |-> "polling", aborted |-> FALSE].pc # "marking"
    OBVIOUS
  <2> HIDE DEF Still
  <2> QED BY <1>5, <1>6, <1>10, <2>1 DEF CycleEnds
<1>11. ASSUME NEW ds, MarkDelivered(ds) PROVE StoreStill
  BY <1>11 DEF MarkDelivered
<1>12. ASSUME NEW c \in Callers, Acknowledge(c) \/ \E lands \in BOOLEAN : AcknowledgeFails(c, lands)
       PROVE  Rest
  <2>1. Still
    BY <1>10, <1>12 DEF Acknowledge, AcknowledgeFails
  <2>2. StoreStill
    BY <1>11, <1>12 DEF Acknowledge, AcknowledgeFails, storeVars
  <2>3. rejected' = rejected
    BY <1>12 DEF Acknowledge, AcknowledgeFails, historyVars
  <2>4. CASE Acknowledge(c)
    BY <2>1, <2>2, <2>3, <2>4 DEF Acknowledge
  <2>5. ASSUME NEW lands \in BOOLEAN, AcknowledgeFails(c, lands) PROVE LateStill
    <3> DEFINE new == [op |-> "delivered", ids |-> pass[c].delivered]
    <3>1. new.op # "failed" /\ late' \subseteq late \cup {new}
      BY <2>5 DEF AcknowledgeFails
    <3> QED BY <3>1
  <2> QED BY <1>12, <2>1, <2>2, <2>3, <2>4, <2>5
<1>13. ASSUME NEW l \in late, LateCall(l), l.op # "failed" PROVE Rest
  <2>1. l.op = "delivered"
    BY <1>13 DEF Shapes, LateCalls
  <2>2. StoreStill
    BY <1>11, <1>13, <2>1 DEF LateCall
  <2>3. Still /\ LateStill /\ rejected' = rejected
    BY <1>13 DEF LateCall, historyVars
  <2> QED BY <2>2, <2>3
<1>14. ASSUME Tick \/ \E id \in Ids : Redeliver(id) PROVE Rest
  BY <1>14 DEF Tick, Redeliver, storeVars, historyVars
<1> HIDE DEF Rest
<1>15. \/ \E c \in Callers : \/ ReportFailure(c) \/ HandlerRejects(c)
                             \/ \E lands \in BOOLEAN : ReportFailureFails(c, lands)
       \/ \E l \in late : LateCall(l) /\ l.op = "failed"
       \/ Rest
  BY <1>2, <1>3, <1>4, <1>7, <1>9, <1>12, <1>13, <1>14 DEF Next, PassStep
<1> QED BY <1>1, <1>15

\* A pass at work is the only one that can report.
LEMMA OnlyReporter ==
  ASSUME Shapes, OnePass, NEW c \in Callers, AtWork(c)
  PROVE  /\ \A id : Reporting(id) <=> pass[c].pc = "marking" /\ Current(c).id = id
         /\ Marked(c) => \A id : ~Reporting(id)'
         /\ HandlerRejects(c) => \A id : Reporting(id)' => id = Current(c).id
<1>1. \A d \in Callers : pass[d].pc = "marking" => d = c
  BY DEF OnePass, Active, AtWork
<1>2. pass \in [Callers -> Passes]
  BY DEF Shapes
<1>3. ASSUME Marked(c) PROVE \A id : ~Reporting(id)'
  <2>1. [pass[c] EXCEPT !.pc = "handling", !.batch = Tail(@)].pc = "handling"
    BY PassFields
  <2>2. pass' = [pass EXCEPT ![c] = [pass[c] EXCEPT !.pc = "handling", !.batch = Tail(@)]]
    BY <1>2, <1>3, PassFields DEF Marked
  <2> QED BY <1>1, <1>2, <2>1, <2>2 DEF Reporting
<1>4. ASSUME HandlerRejects(c) PROVE \A id : Reporting(id)' => id = Current(c).id
  <2>1. [pass[c] EXCEPT !.pc = "marking", !.failed = TRUE].batch = pass[c].batch
    BY PassFields
  <2>2. pass' = [pass EXCEPT ![c] = [pass[c] EXCEPT !.pc = "marking", !.failed = TRUE]]
    BY <1>2, <1>4, PassFields DEF HandlerRejects
  <2> QED BY <1>1, <1>2, <2>1, <2>2 DEF Reporting, Current
<1> QED BY <1>1, <1>3, <1>4 DEF Reporting

\* An attempt is counted when a failure is reported, and owed until then.
LEMMA AttemptsStep ==
  ASSUME TypeOK, Shapes, Countable, OnePass, Issued, CopiesTrue, AcknowledgedHandled,
         AttemptsEarned, DeadOnlyIfPoison, Next
  PROVE  AttemptsEarned' /\ DeadOnlyIfPoison'
<1> USE DEF historyVars
<1>1. /\ MaxDeliveryAttempts' = MaxDeliveryAttempts /\ MaxDeliveryAttempts \in Nat \ {0}
      /\ rejected \in [Ids -> 0..MaxDeliveryAttempts] /\ rejected' \in [Ids -> 0..MaxDeliveryAttempts]
      /\ dead \subseteq Ids /\ dead' \subseteq Ids
      /\ \A a \in Addresses : /\ Scheduled(a) => pending[a].id \in Ids
                              /\ Scheduled(a)' => pending'[a].id \in Ids
                              /\ pending[a].attempts \in Nat
                              /\ pending'[a].attempts \in Nat
      /\ \A a, b \in Addresses : Scheduled(a) /\ pending[a].id = pending[b].id => a = b
  <2>1. UNCHANGED setup
    BY DEF Next
  <2>2. TypeOK' /\ Shapes'
    BY TypeStep
  <2>3. /\ MaxDeliveryAttempts' = MaxDeliveryAttempts /\ MaxDeliveryAttempts \in Nat \ {0}
        /\ MaxTime' = MaxTime
    BY <2>1, Options DEF MaxDeliveryAttempts, MaxTime, Shapes
  <2>4. pending \in [Addresses -> Deadline] /\ pending' \in [Addresses -> Deadline]
    BY <2>2, <2>3 DEF TypeOK, Deadline
  <2>5. \A e \in Deadline : e.attempts \in Nat /\ (e.id # 0 => e.id \in Ids)
    BY <2>3, Options DEF Deadline, Ids, Shapes
  <2>6. \A a \in Addresses : /\ Scheduled(a) => pending[a].id # 0
                             /\ Scheduled(a)' => pending'[a].id # 0
    BY <2>2 DEF Shapes, Scheduled
  <2>7. /\ rejected \in [Ids -> 0..MaxDeliveryAttempts]
        /\ rejected' \in [Ids -> 0..MaxDeliveryAttempts]
        /\ dead \subseteq Ids /\ dead' \subseteq Ids
    BY <2>2, <2>3 DEF Shapes, TypeOK
  <2>8. \A a, b \in Addresses : Scheduled(a) /\ pending[a].id = pending[b].id => a = b
    BY DEF TypeOK
  <2> QED BY <2>3, <2>4, <2>5, <2>6, <2>7, <2>8
<1> DEFINE Earned(a) == \/ rejected[pending[a].id] = MaxDeliveryAttempts
                        \/ pending[a].attempts + Owed(pending[a].id) <= rejected[pending[a].id]
<1>2. \A a \in Addresses : Scheduled(a) => Earned(a)
  BY DEF AttemptsEarned
<1>3. \A id \in dead : rejected[id] = MaxDeliveryAttempts
  BY <1>1 DEF DeadOnlyIfPoison
<1>4. ASSUME NEW id PROVE Owed(id) \in Nat /\ Owed(id)' \in Nat
  BY DEF Owed
<1>5. ASSUME NEW id, Reporting(id)' => Reporting(id), ReportedLate(id)' => ReportedLate(id)
      PROVE  Owed(id)' <= Owed(id)
  BY <1>5 DEF Owed
<1> SUFFICES /\ \A a \in Addresses : Scheduled(a)' => Earned(a)'
             /\ \A id \in dead' : rejected'[id] = MaxDeliveryAttempts
  BY <1>1 DEF AttemptsEarned, DeadOnlyIfPoison
\* A failure report is heard: by d.id, which was owed once more than it is now.
<1>6. ASSUME NEW d \in Copy, MarkFailed(d), rejected' = rejected, Owed(d.id) >= 1 + Owed(d.id)',
             \A id : /\ Reporting(id)' => Reporting(id)
                     /\ ReportedLate(id)' => ReportedLate(id)
      PROVE  /\ \A a \in Addresses : Scheduled(a)' => Earned(a)'
             /\ \A id \in dead' : rejected'[id] = MaxDeliveryAttempts
  <2>1. UNCHANGED setup
    BY DEF Next
  <2>2. ASSUME NEW a \in Addresses, Scheduled(a)', pending[a].id # d.id PROVE Earned(a)'
    <3>1. pending'[a] = pending[a]
      BY <1>6, <2>1, <2>2, FailedEffect
    <3>2. Earned(a) /\ Owed(pending[a].id)' <= Owed(pending[a].id) /\ pending[a].id \in Ids
      BY <1>1, <1>2, <1>5, <1>6, <2>2, <3>1 DEF Scheduled
    <3> QED BY <1>1, <1>4, <1>6, <3>1, <3>2
  <2>3. ASSUME NEW a \in Addresses, pending[a].id = d.id
        PROVE  /\ d.id \in Ids
               /\ Scheduled(a)' => Earned(a)'
               /\ \A id \in dead' : rejected[id] = MaxDeliveryAttempts
    <3>1. d.id \in Ids /\ d.id # 0 /\ Scheduled(a)
      BY <2>3, Options DEF Copy, Ids, Scheduled, None, Shapes
    <3>2. rejected[d.id] = MaxDeliveryAttempts \/ pending[a].attempts + 1 + Owed(d.id)' <= rejected[d.id]
      BY <1>1, <1>2, <1>4, <1>6, <2>3, <3>1
    <3>5. \/ /\ pending[a].attempts + 1 >= MaxDeliveryAttempts
             /\ pending'[a] = None /\ dead' = dead \cup {d.id}
          \/ /\ pending[a].attempts + 1 < MaxDeliveryAttempts
             /\ pending'[a] = [pending[a] EXCEPT !.attempts = @ + 1]
             /\ dead' = dead
      BY <1>6, <2>1, <2>3, FailedEffect
    <3>3. CASE pending[a].attempts + 1 >= MaxDeliveryAttempts
      <4>1. rejected[d.id] = MaxDeliveryAttempts
        BY <1>1, <1>4, <3>1, <3>2, <3>3
      <4>2. pending'[a] = None /\ dead' = dead \cup {d.id}
        BY <1>1, <3>3, <3>5
      <4> QED BY <1>1, <1>3, <3>1, <4>1, <4>2 DEF Scheduled
    <3>4. CASE pending[a].attempts + 1 < MaxDeliveryAttempts
      <4>1. /\ pending'[a] = [pending[a] EXCEPT !.attempts = @ + 1] /\ dead' = dead
        BY <1>1, <3>4, <3>5
      <4>2. pending[a] \in Deadline
        BY DEF TypeOK, Deadline
      <4>3. pending'[a].id = d.id /\ pending'[a].attempts = pending[a].attempts + 1
        BY <2>3, <4>1, <4>2 DEF Deadline
      <4> QED BY <1>1, <1>3, <1>4, <1>6, <3>1, <3>2, <4>1, <4>3
    <3> QED BY <1>1, <3>1, <3>3, <3>4
  <2>4. CASE \A a \in Addresses : pending[a].id # d.id
    BY <1>3, <1>6, <2>1, <2>2, <2>4, FailedEffect
  <2> QED BY <1>6, <2>2, <2>3, <2>4
<1>7. ASSUME NEW c \in Callers, ReportFailure(c)
      PROVE  /\ \A a \in Addresses : Scheduled(a)' => Earned(a)'
             /\ \A id \in dead' : rejected'[id] = MaxDeliveryAttempts
  <2>1. AtWork(c) /\ pass[c].pc = "marking" /\ Current(c) \in Copy
    BY <1>7, BatchFields DEF ReportFailure, AtWork, Shapes
  <2>2. Reporting(Current(c).id) /\ \A id : ~Reporting(id)'
    BY <1>7, <2>1, OnlyReporter DEF ReportFailure
  <2>3. \A id : ReportedLate(id)' <=> ReportedLate(id)
    BY <1>7 DEF ReportFailure, ReportedLate
  <2>4. \A id : id = Current(c).id => Owed(id) >= 1 + Owed(id)'
    BY <2>2, <2>3 DEF Owed
  <2>5. PICK d \in Copy : d = Current(c)
    BY <2>1
  <2> QED BY <1>6, <1>7, <2>2, <2>3, <2>4, <2>5 DEF ReportFailure
<1>8. ASSUME NEW l \in late, LateCall(l), l.op = "failed"
      PROVE  /\ \A a \in Addresses : Scheduled(a)' => Earned(a)'
             /\ \A id \in dead' : rejected'[id] = MaxDeliveryAttempts
  <2>1. PICK d \in Copy : l.ids = {d} /\ MarkFailed(d)
    BY <1>8 DEF LateCall, Shapes, LateCalls
  <2>2. ReportedLate(d.id)
    BY <1>8, <2>1 DEF ReportedLate
  <2>3. ~ReportedLate(d.id)'
    <3> SUFFICES ASSUME NEW m \in late, m # l, m.op = "failed", NEW e \in m.ids, e.id = d.id
                 PROVE  FALSE
      BY <1>8 DEF LateCall, ReportedLate
    <3>1. e \in Carried /\ d \in Carried
      BY <2>1, CarriedBy
    <3>2. e = d
      BY <3>1 DEF CopiesTrue
    <3>3. m \in [op : {"failed"}, ids : {{x} : x \in Copy}] /\ l \in [op : {"failed"}, ids : {{x} : x \in Copy}]
      BY <1>8 DEF Shapes, LateCalls
    <3>4. m.ids = l.ids
      BY <2>1, <3>2, <3>3
    <3> QED BY <1>8, <3>3, <3>4
  <2>4. \A id : /\ Reporting(id)' <=> Reporting(id)
                /\ ReportedLate(id)' => ReportedLate(id)
    BY <1>8 DEF LateCall, Reporting, ReportedLate, Current
  <2>5. Owed(d.id) >= 1 + Owed(d.id)'
    BY <2>2, <2>3, <2>4 DEF Owed
  <2>6. rejected' = rejected
    BY <1>8 DEF LateCall
  <2> QED BY <1>6, <2>1, <2>4, <2>5, <2>6
<1>9. ASSUME NEW c \in Callers, NEW lands \in BOOLEAN, ReportFailureFails(c, lands)
      PROVE  /\ \A a \in Addresses : Scheduled(a)' => Earned(a)'
             /\ \A id \in dead' : rejected'[id] = MaxDeliveryAttempts
  <2>1. AtWork(c) /\ pass[c].pc = "marking"
    BY <1>9 DEF ReportFailureFails, AtWork
  <2>2. Reporting(Current(c).id) /\ \A id : ~Reporting(id)'
    BY <1>9, <2>1, OnlyReporter DEF ReportFailureFails
  <2>3. \A id : ReportedLate(id)' => ReportedLate(id) \/ id = Current(c).id
    BY <1>9 DEF ReportFailureFails, ReportedLate
  <2>4. \A id : Owed(id)' <= Owed(id)
    BY <2>2, <2>3 DEF Owed
  <2>5. UNCHANGED <<pending, dead, rejected>>
    BY <1>9 DEF ReportFailureFails, storeVars
  <2>6. ASSUME NEW a \in Addresses, Scheduled(a)' PROVE Earned(a)'
    <3>1. Earned(a) /\ Owed(pending[a].id)' <= Owed(pending[a].id) /\ pending[a].id \in Ids
      BY <1>1, <1>2, <2>4, <2>5, <2>6 DEF Scheduled
    <3> QED BY <1>1, <1>4, <2>5, <3>1
  <2> QED BY <1>3, <2>5, <2>6
<1>10. ASSUME NEW c \in Callers, HandlerRejects(c)
       PROVE  /\ \A a \in Addresses : Scheduled(a)' => Earned(a)'
              /\ \A id \in dead' : rejected'[id] = MaxDeliveryAttempts
  <2>1. AtWork(c) /\ pass[c].pc = "handling" /\ Current(c).id \in Ids
    BY <1>10, BatchFields DEF HandlerRejects, Handles, AtWork, Copy
  <2>2. \A id : ~Reporting(id) /\ (Reporting(id)' => id = Current(c).id)
    BY <1>10, <2>1, OnlyReporter
  <2>3. \A id : ReportedLate(id)' <=> ReportedLate(id)
    BY <1>10 DEF HandlerRejects, ReportedLate
  <2>4. pending' = pending /\ dead' = dead
    BY <1>10 DEF HandlerRejects, storeVars
  <2>5. /\ \A id \in Ids : id # Current(c).id => rejected'[id] = rejected[id]
        /\ \/ rejected'[Current(c).id] = MaxDeliveryAttempts
           \/ rejected'[Current(c).id] = rejected[Current(c).id] + 1
        /\ rejected[Current(c).id] = MaxDeliveryAttempts => rejected'[Current(c).id] = MaxDeliveryAttempts
    BY <1>1, <1>10, <2>1 DEF HandlerRejects
  <2>6. \A id : Owed(id)' <= Owed(id) + 1 /\ (id # Current(c).id => Owed(id)' <= Owed(id))
    BY <2>2, <2>3 DEF Owed
  <2>7. ASSUME NEW a \in Addresses, Scheduled(a)' PROVE Earned(a)'
    <3>1. Earned(a) /\ pending[a].id \in Ids
      BY <1>1, <1>2, <2>4, <2>7 DEF Scheduled
    <3> QED BY <1>1, <1>4, <2>4, <2>5, <2>6, <3>1
  <2> QED BY <1>1, <1>3, <2>4, <2>5, <2>7
<1>11. ASSUME \A id : /\ Reporting(id)' => Reporting(id)
                      /\ ReportedLate(id)' => ReportedLate(id),
              rejected' = rejected,
              \A a \in Addresses : \/ pending'[a] \in {None, pending[a]}
                                   \/ pending'[a].id = nextId /\ pending'[a].attempts = 0
       PROVE  \A a \in Addresses : Scheduled(a)' => Earned(a)'
  <2> SUFFICES ASSUME NEW a \in Addresses, Scheduled(a)' PROVE Earned(a)'
    OBVIOUS
  <2>1. CASE pending'[a] = pending[a]
    <3>1. Earned(a) /\ Owed(pending[a].id)' <= Owed(pending[a].id) /\ pending[a].id \in Ids
      BY <1>1, <1>2, <1>5, <1>11, <2>1 DEF Scheduled
    <3> QED BY <1>1, <1>4, <1>11, <2>1, <3>1
  <2>2. CASE pending'[a].id = nextId /\ pending'[a].attempts = 0
    <3>1. \A id : id = nextId => Owed(id)' = 0
      BY <1>11, Reports DEF Owed
    <3>2. pending'[a].id \in Ids /\ Owed(pending[a].id)' = 0
      BY <1>1, <2>2, <3>1
    <3> QED BY <1>1, <1>11, <2>2, <3>2
  <2> QED BY <1>11, <2>1, <2>2 DEF Scheduled
<1>12. ASSUME rejected' = rejected
       PROVE  \/ \A id \in dead' : rejected'[id] = MaxDeliveryAttempts
              \/ \E c \in Callers : ReportFailure(c)
              \/ \E l \in late : LateCall(l) /\ l.op = "failed"
  <2>1. \/ dead' \subseteq dead
        \/ \E c \in Callers : ReportFailure(c)
        \/ \E l \in late : LateCall(l) /\ l.op = "failed"
    BY ZenonT(60) DEF Next, Schedule, Cancel, DrainOnce, Abort, PassStep, PollEnds, Poll,
           PollFails, HandlerSucceeds, HandlerRejects, HandlerTimesOut, StopHandling,
           ReportFailureFails, Acknowledge, AcknowledgeFails, MarkDelivered, LateCall,
           Redeliver, Tick, storeVars, Shapes, LateCalls
  <2> QED BY SMTT(40), <1>3, <1>12, <2>1
<1> HIDE DEF Earned
<1> QED BY <1>7, <1>8, <1>9, <1>10, <1>11, <1>12, OwedCases

-----------------------------------------------------------------------------
(* Nothing is lost, and the limit holds *)

\* What leaves the store was handled, withdrawn or given up.
LEMMA LostStep ==
  ASSUME TypeOK, Shapes, Issued, AcknowledgedHandled, NoDeadlineLost, Next
  PROVE  NoDeadlineLost'
<1>1. /\ UNCHANGED setup /\ handled \subseteq handled' /\ withdrawn \subseteq withdrawn'
      /\ nextId \in Nat
  BY SMTT(40), StoreCases, Options DEF TypeOK, Shapes
<1>2. \A id \in 1..(nextId - 1) : \/ \E a \in Addresses : pending[a].id = id
                                  \/ id \in dead \cup handled \cup withdrawn
  BY DEF NoDeadlineLost
<1> DEFINE Goal == \A id \in 1..(nextId' - 1) : \/ \E a \in Addresses : pending'[a].id = id
                                                \/ id \in dead' \cup handled' \cup withdrawn'
<1>3. ASSUME NEW a \in Addresses, NEW due \in 0..MaxTime, Schedule(a, due) PROVE Goal
  <2>1. /\ pending' = [pending EXCEPT ![a] = [id |-> nextId, due |-> due, attempts |-> 0]]
        /\ nextId' = nextId + 1 /\ dead' = dead
        /\ withdrawn' = withdrawn \cup ({pending[a].id} \ {0})
    BY <1>3 DEF Schedule
  <2>2. pending'[a].id = nextId /\ \A b \in Addresses : b # a => pending'[b] = pending[b]
    BY <2>1 DEF TypeOK
  <2>3. \A id \in 1..(nextId' - 1) : id = nextId \/ id \in 1..(nextId - 1)
    BY <1>1, <2>1
  <2> QED BY <1>1, <1>2, <2>1, <2>2, <2>3
<1>4. ASSUME NEW a \in Addresses, Cancel(a) PROVE Goal
  BY <1>1, <1>2, <1>4 DEF Cancel, TypeOK
<1>5. ASSUME NEW ds \in SUBSET Copy, MarkDelivered(ds), \A d \in ds : d.id \in handled, nextId' = nextId
      PROVE  Goal
  BY <1>1, <1>2, <1>5, DeliveredEffect
<1>6. ASSUME NEW d \in Copy, MarkFailed(d), nextId' = nextId PROVE Goal
  <2>1. \A a \in Addresses : \/ pending'[a].id = pending[a].id /\ dead' \in {dead, dead \cup {d.id}}
                             \/ pending[a].id = d.id /\ dead' = dead \cup {d.id}
    <3> TAKE a \in Addresses
    <3>1. pending[a] \in Deadline
      BY DEF TypeOK, Deadline
    <3>2. [pending[a] EXCEPT !.attempts = @ + 1].id = pending[a].id
      BY <3>1 DEF Deadline
    <3>3. dead' \in {dead, dead \cup {d.id}}
      <4>1. CASE \A b \in Addresses : pending[b].id # d.id
        BY <1>1, <1>6, <4>1, FailedEffect
      <4>2. ASSUME NEW b \in Addresses, pending[b].id = d.id PROVE dead' \in {dead, dead \cup {d.id}}
        BY <1>1, <1>6, <4>2, FailedEffect
      <4> QED BY <4>1, <4>2
    <3> QED BY ZenonT(60), <1>1, <1>6, <3>2, <3>3, FailedEffect
  <2>2. dead \subseteq dead'
    BY <1>1, <1>6, FailedEffect
  <2> QED BY <1>1, <1>2, <1>6, <2>1, <2>2
<1>7. ASSUME NEW id \in Ids, Redeliver(id) PROVE Goal
  BY <1>1, <1>2, <1>7 DEF Redeliver, Ran
<1>8. ASSUME UNCHANGED storeVars PROVE Goal
  BY <1>1, <1>2, <1>8 DEF storeVars
<1> HIDE DEF Goal
<1>9. Goal
  BY <1>3, <1>4, <1>5, <1>6, <1>7, <1>8, StoreCases
<1> QED BY <1>9 DEF Goal, NoDeadlineLost

\* A record is added where there is room for it; a dead letter was pending.
LEMMA RecordsStep ==
  ASSUME TypeOK, Shapes, AcknowledgedHandled, Countable, WithinRecords, Next
  PROVE  Countable' /\ WithinRecords'
<1> DEFINE S == {a \in Addresses : Scheduled(a)}
           T == {a \in Addresses : pending'[a] # None}
<1>1. /\ UNCHANGED setup /\ MaxRecords \in Nat /\ IsFiniteSet(S) /\ IsFiniteSet(dead)
      /\ Cardinality(S) + Cardinality(dead) <= MaxRecords
      /\ Cardinality(S) \in Nat /\ Cardinality(dead) \in Nat
  BY StoreCases, Options, FS_CardinalityType DEF Countable, WithinRecords, RecordCount, Shapes
<1> SUFFICES /\ IsFiniteSet(T) /\ IsFiniteSet(dead')
             /\ Cardinality(T) + Cardinality(dead') <= MaxRecords
  BY <1>1 DEF Countable, WithinRecords, RecordCount, MaxRecords, Scheduled, None
<1> DEFINE Goal == /\ IsFiniteSet(T) /\ IsFiniteSet(dead')
                   /\ Cardinality(T) + Cardinality(dead') <= MaxRecords
<1>2. ASSUME T \subseteq S, dead' \subseteq dead PROVE Goal
  <2>1. /\ IsFiniteSet(T) /\ Cardinality(T) <= Cardinality(S) /\ Cardinality(T) \in Nat
        /\ IsFiniteSet(dead') /\ Cardinality(dead') <= Cardinality(dead) /\ Cardinality(dead') \in Nat
    BY <1>1, <1>2, FS_Subset, FS_CardinalityType
  <2> QED BY <1>1, <2>1
<1>3. ASSUME NEW a \in Addresses, NEW due \in 0..MaxTime, Schedule(a, due) PROVE Goal
  <2>1. dead' = dead /\ T \subseteq S \cup {a}
    BY <1>3 DEF Schedule, Scheduled
  <2>2. CASE Scheduled(a)
    BY <1>2, <2>1, <2>2
  <2>3. CASE ~Scheduled(a)
    <3>1. Cardinality(S) + Cardinality(dead) < MaxRecords
      BY <1>3, <2>3 DEF Schedule, Fits, RecordCount
    <3>2. IsFiniteSet(S \cup {a}) /\ Cardinality(S \cup {a}) = Cardinality(S) + 1
      BY <1>1, <2>3, FS_AddElement
    <3>3. IsFiniteSet(T) /\ Cardinality(T) <= Cardinality(S) + 1 /\ Cardinality(T) \in Nat
      BY <2>1, <3>2, FS_Subset, FS_CardinalityType
    <3> QED BY <1>1, <2>1, <3>1, <3>3
  <2> QED BY <2>2, <2>3
<1>4. ASSUME NEW a \in Addresses, Cancel(a) PROVE Goal
  BY <1>2, <1>4 DEF Cancel, Scheduled, TypeOK
<1>5. ASSUME NEW ds \in SUBSET Copy, MarkDelivered(ds) PROVE Goal
  BY <1>1, <1>2, <1>5, DeliveredEffect DEF Scheduled
<1>6. ASSUME NEW d \in Copy, MarkFailed(d) PROVE Goal
  <2>1. CASE \A a \in Addresses : pending[a].id # d.id
    BY <1>1, <1>2, <1>6, <2>1, FailedEffect DEF Scheduled
  <2>2. ASSUME NEW a \in Addresses, pending[a].id = d.id PROVE Goal
    <3>1. Scheduled(a)
      BY <2>2, Options DEF Scheduled, None, Copy, Ids, Shapes
    <3>2. \A b \in Addresses : b # a => pending'[b] = pending[b]
      BY <1>1, <1>6, <2>2, <3>1, FailedEffect DEF TypeOK
    <3>3. CASE pending'[a] = None /\ dead' = dead \cup {d.id}
      <4>1. T = S \ {a} /\ a \in S
        BY <3>1, <3>2, <3>3 DEF Scheduled
      <4>2. IsFiniteSet(T) /\ Cardinality(T) = Cardinality(S) - 1
        BY <1>1, <4>1, FS_RemoveElement
      <4>3. IsFiniteSet(dead') /\ Cardinality(dead') <= Cardinality(dead) + 1 /\ Cardinality(dead') \in Nat
        <5>1. /\ IsFiniteSet(dead \cup {d.id})
              /\ Cardinality(dead \cup {d.id}) <= Cardinality(dead) + 1
          <6>1. CASE d.id \in dead
            <7>1. dead \cup {d.id} = dead
              BY <6>1
            <7> QED BY <1>1, <7>1
          <6>2. CASE d.id \notin dead
            BY <1>1, <6>2, FS_AddElement
          <6> QED BY <6>1, <6>2
        <5> QED BY <3>3, <5>1, FS_CardinalityType
      <4> QED BY <1>1, <4>2, <4>3
    <3>4. CASE dead' = dead
      BY <1>2, <3>1, <3>2, <3>4 DEF Scheduled
    <3> QED BY <1>1, <1>6, <2>2, <3>3, <3>4, FailedEffect
  <2> QED BY <2>1, <2>2
<1>7. ASSUME NEW id \in Ids, Redeliver(id) PROVE Goal
  BY <1>2, <1>7 DEF Redeliver, Scheduled
<1>8. ASSUME UNCHANGED storeVars PROVE Goal
  BY <1>2, <1>8 DEF storeVars, Scheduled
<1> HIDE DEF Goal
<1>9. Goal
  BY <1>3, <1>4, <1>5, <1>6, <1>7, <1>8, StoreCases
<1> QED BY <1>9 DEF Goal

-----------------------------------------------------------------------------
(* Undisturbed, a deadline is handled once *)

\* The incarnation that the handler has is handled for the first time, and is
\* not in what is left of the batch.
LEMMA FirstTime ==
  ASSUME Shapes, Orderly, ~disturbed, NEW c \in Callers, AtWork(c), pass[c].batch # <<>>
  PROVE  /\ Current(c).id \notin handled \cup dead /\ Current(c).id \in Ids
         /\ \A i \in DOMAIN Tail(pass[c].batch) :
               /\ Tail(pass[c].batch)[i].id # Current(c).id
               /\ Tail(pass[c].batch)[i].id \notin handled \cup dead
         /\ \A i, j \in DOMAIN Tail(pass[c].batch) :
               Tail(pass[c].batch)[i].id = Tail(pass[c].batch)[j].id => i = j
<1>1. /\ \A d \in InBatch(c) : d.id \notin handled \cup dead
      /\ \A i, j \in DOMAIN pass[c].batch : pass[c].batch[i].id = pass[c].batch[j].id => i = j
  BY DEF Orderly
<1>2. /\ Current(c) = pass[c].batch[1] /\ Current(c) \in InBatch(c) /\ Current(c) \in Copy
      /\ DOMAIN Tail(pass[c].batch) = 1..(Len(pass[c].batch) - 1)
      /\ \A i \in DOMAIN Tail(pass[c].batch) : /\ i + 1 \in DOMAIN pass[c].batch
                                               /\ Tail(pass[c].batch)[i] = pass[c].batch[i + 1]
      /\ 1 \in DOMAIN pass[c].batch
  BY BatchFields
<1>3. \A i \in DOMAIN Tail(pass[c].batch) : i \in Nat \ {0} /\ Tail(pass[c].batch)[i] \in InBatch(c)
  BY <1>2 DEF InBatch
<1> QED BY <1>1, <1>2, <1>3 DEF Copy

\* What is handled without disturbance is acknowledged before it is polled again.
LEMMA OrderlyStep ==
  ASSUME TypeOK, Shapes, Countable, OnePass, Issued, AcknowledgedHandled, Orderly, Next
  PROVE  Orderly'
<1> SUFFICES ASSUME ~disturbed' PROVE Orderly'
  BY DEF Orderly
<1> USE DEF storeVars, historyVars
<1> DEFINE Good(c) == /\ Active(c) => ~pass[c].aborted
                      /\ AtWork(c) =>
                           /\ \A d \in InBatch(c) : d.id \notin handled \cup dead
                           /\ \A i, j \in DOMAIN pass[c].batch :
                                 pass[c].batch[i].id = pass[c].batch[j].id => i = j
           Acks(c, id) == AtWork(c) /\ \E d \in pass[c].delivered : d.id = id
           Rest == /\ twice = {} /\ late = {} /\ dead \cap handled = {}
                   /\ \A c \in Callers : Good(c)
                   /\ \A a \in Addresses : pending[a].id \in handled =>
                         \E c \in Callers : Acks(c, pending[a].id)
<1>1. ~disturbed
  BY ZenonT(60) DEF Next, Schedule, Cancel, DrainOnce, Abort, PassStep, PollEnds, Poll,
         PollFails, HandlerSucceeds, HandlerRejects, HandlerTimesOut, StopHandling, Disturb,
         ReportFailure, ReportFailureFails, Acknowledge, AcknowledgeFails, LateCall,
         Redeliver, Tick
<1>2. Rest
  BY <1>1 DEF Orderly
<1>3. ASSUME Rest' PROVE Orderly'
  BY <1>3 DEF Orderly
<1>4. /\ pass \in [Callers -> Passes] /\ UNCHANGED setup /\ 0 \notin handled
      /\ \A c, d \in Callers : Active(c) /\ Active(d) => c = d
      /\ \A c \in Callers : AtWork(c) => Active(c)
      /\ nextId \notin handled
  <2>1. handled \subseteq Nat \ {0} /\ nextId \in Nat
    BY Options DEF Shapes, Ids, TypeOK
  <2>2. nextId \notin handled
    BY <2>1 DEF Issued
  <2>3. \A c, d \in Callers : Active(c) /\ Active(d) => c = d
    BY DEF OnePass
  <2> QED BY <2>1, <2>2, <2>3 DEF Shapes, Next, AtWork, Active
\* The passes as they were.
<1>5. ASSUME NEW c \in Callers, pass'[c] = pass[c],
             \A d \in InBatch(c) : AtWork(c) => d.id \notin handled' \cup dead'
      PROVE  Good(c)'
  BY <1>2, <1>5 DEF Active, AtWork, InBatch
<1>6. ASSUME NEW c \in Callers, pass'[c] = pass[c] \/ (pass[c].delivered \subseteq pass'[c].delivered /\ AtWork(c)'),
             NEW id, Acks(c, id)
      PROVE  Acks(c, id)'
  BY <1>6 DEF AtWork
<1>7. ASSUME NEW a \in Addresses, Cancel(a) \/ \E due \in 0..MaxTime : Schedule(a, due)
      PROVE  Rest'
  <2>1. /\ pass' = pass /\ UNCHANGED <<twice, late, dead, handled>>
        /\ \A b \in Addresses : pending'[b].id \in {pending[b].id, 0, nextId}
    BY <1>7 DEF Cancel, Schedule, TypeOK, None
  <2>2. \A c \in Callers : Good(c)'
    BY <1>2, <1>5, <2>1
  <2>3. ASSUME NEW b \in Addresses, pending'[b].id \in handled'
        PROVE  \E c \in Callers : Acks(c, pending[b].id)'
    <3>1. pending'[b].id = pending[b].id /\ pending[b].id \in handled
      BY <1>4, <2>1, <2>3
    <3> QED BY <1>2, <2>1, <3>1 DEF AtWork
  <2> QED BY <1>2, <2>1, <2>2, <2>3
<1>8. ASSUME NEW c \in Callers, DrainOnce(c) PROVE Rest'
  <2>1. /\ UNCHANGED <<pending, twice, late, dead, handled>>
        /\ \E p \in {[pc |-> "joined"], Begin} : pass' = [pass EXCEPT ![c] = p]
        /\ pass[c] = Idle
    BY <1>8 DEF DrainOnce
  <2>2. \A d \in Callers : Good(d)'
    BY <1>2, <1>4, <1>5, <2>1 DEF Begin, Active, AtWork
  <2>3. ASSUME NEW b \in Addresses, pending'[b].id \in handled'
        PROVE  \E d \in Callers : Acks(d, pending[b].id)'
    <3>1. PICK d \in Callers : Acks(d, pending[b].id)
      BY <1>2, <2>1, <2>3
    <3>2. pass'[d] = pass[d]
      BY <1>4, <2>1, <3>1 DEF AtWork, Idle
    <3> QED BY <2>1, <3>1, <3>2 DEF AtWork
  <2> QED BY <1>2, <2>1, <2>2, <2>3
<1>9. ASSUME NEW c \in Callers, Active(c), NEW p, pass' = [pass EXCEPT ![c] = p],
             p.pc \in {"handling", "marking"}, ~p.aborted,
             \A i \in DOMAIN p.batch : p.batch[i].id \notin handled' \cup dead',
             \A i, j \in DOMAIN p.batch : p.batch[i].id = p.batch[j].id => i = j
      PROVE  \A d \in Callers : Good(d)'
  <2>1. Good(c)'
    BY <1>4, <1>9 DEF AtWork, Active, InBatch
  <2>2. ASSUME NEW d \in Callers, d # c PROVE Good(d)'
    BY <1>4, <1>9, <2>2 DEF Active, AtWork
  <2> QED BY <2>1, <2>2
<1>10. ASSUME NEW c \in Callers, Active(c), EndPass(c) \/ \E p : pass' = [pass EXCEPT ![c] = p] /\ p.pc = "polling" /\ ~p.aborted
       PROVE  \A d \in Callers : Good(d)' /\ (Active(d)' => d = c) /\ ~AtWork(d)'
  BY <1>4, <1>10 DEF EndPass, Idle, Active, AtWork
<1>11. ASSUME NEW c \in Callers, PollEnds(c) PROVE Rest'
  <2>1. Active(c) /\ EndPass(c) /\ UNCHANGED <<pending, twice, late, dead, handled>> /\ ~AtWork(c)
    BY <1>11 DEF PollEnds, Active, AtWork
  <2>2. \A a \in Addresses : pending[a].id \notin handled
    BY <1>2, <1>4, <2>1
  <2> QED BY <1>2, <1>10, <2>1, <2>2
<1>12. ASSUME NEW c \in Callers, Poll(c) PROVE Rest'
  <2>1. /\ Active(c) /\ UNCHANGED <<pending, twice, late, dead, handled>> /\ ~AtWork(c)
        /\ pass[c].aborted = FALSE
    BY <1>12, PassFields DEF Poll, Active, AtWork
  <2>2. \A a \in Addresses : pending[a].id \notin handled
    BY <1>2, <1>4, <2>1
  <2>3. PICK page \in DuePages : pass' = [pass EXCEPT ![c] = Handling(Copies(page), c)]
    BY <1>12 DEF Poll
  <2>4. \A i \in DOMAIN Copies(page) : Copies(page)[i].id \notin handled \cup dead
    BY <2>2, Fresh DEF TypeOK
  <2>5. \A i, j \in DOMAIN Copies(page) : Copies(page)[i].id = Copies(page)[j].id => i = j
    BY Fresh DEF TypeOK
  <2> DEFINE p == Handling(Copies(page), c)
  <2>6. p.pc = "handling" /\ ~p.aborted /\ p.batch = Copies(page)
    BY <2>1 DEF Handling
  <2>8. pass' = [pass EXCEPT ![c] = p]
    BY <2>3
  <2> HIDE DEF p
  <2>9. /\ \A i \in DOMAIN p.batch : p.batch[i].id \notin handled' \cup dead'
        /\ \A i, j \in DOMAIN p.batch : p.batch[i].id = p.batch[j].id => i = j
    BY <2>1, <2>4, <2>5, <2>6
  <2>7. \A d \in Callers : Good(d)'
    BY <1>9, <2>1, <2>6, <2>8, <2>9
  <2> QED BY <1>2, <2>1, <2>2, <2>7
<1>13. ASSUME NEW c \in Callers, HandlerSucceeds(c) PROVE Rest'
  <2> DEFINE p == [pass[c] EXCEPT !.batch = Tail(@), !.delivered = @ \cup {Current(c)}]
  <2>1. AtWork(c) /\ pass[c].batch # <<>> /\ pass[c].pc = "handling" /\ ~pass[c].aborted /\ Active(c)
    BY <1>13 DEF HandlerSucceeds, Handles, AtWork, Active
  <2>2. /\ p.pc = "handling" /\ p.batch = Tail(pass[c].batch) /\ p.aborted = pass[c].aborted
        /\ p.delivered = pass[c].delivered \cup {Current(c)}
    BY <2>1, PassFields
  <2>3. pass' = [pass EXCEPT ![c] = p]
    BY <1>4, <1>13, <2>1, PassFields DEF HandlerSucceeds
  <2>4. /\ UNCHANGED <<pending, late, dead>> /\ handled' = handled \cup {Current(c).id}
        /\ twice' = IF Current(c).id \in handled THEN twice \cup {Current(c).id} ELSE twice
    BY <1>13 DEF HandlerSucceeds, Ran
  <2>5. twice' = {} /\ dead' \cap handled' = {}
    BY <1>1, <1>2, <2>1, <2>4, FirstTime
  <2>6. \A d \in Callers : Good(d)'
    <3>1. \A i \in DOMAIN p.batch : p.batch[i].id \notin handled' \cup dead'
      BY <1>1, <2>1, <2>2, <2>4, FirstTime
    <3>2. \A i, j \in DOMAIN p.batch : p.batch[i].id = p.batch[j].id => i = j
      BY <1>1, <2>1, <2>2, FirstTime
    <3> HIDE DEF p
    <3> QED BY <1>9, <2>1, <2>2, <2>3, <3>1, <3>2
  <2>7. ASSUME NEW a \in Addresses, pending'[a].id \in handled'
        PROVE  \E d \in Callers : Acks(d, pending[a].id)'
    <3>1. pass'[c] = p
      BY <1>4, <2>3
    <3>2. CASE pending[a].id = Current(c).id
      BY <2>2, <2>4, <3>1, <3>2 DEF AtWork
    <3>3. CASE pending[a].id \in handled
      <4>1. PICK d \in Callers : Acks(d, pending[a].id)
        BY <1>2, <3>3
      <4>2. d = c
        BY <1>4, <2>1, <4>1
      <4> HIDE DEF p
      <4> QED BY <2>2, <2>4, <3>1, <4>1, <4>2 DEF AtWork
    <3> QED BY <2>4, <2>7, <3>2, <3>3
  <2> HIDE DEF p
  <2> QED BY <1>2, <2>4, <2>5, <2>6, <2>7
<1>14. ASSUME NEW c \in Callers, HandlerRejects(c) PROVE Rest'
  <2> DEFINE p == [pass[c] EXCEPT !.pc = "marking", !.failed = TRUE]
  <2>1. AtWork(c) /\ ~pass[c].aborted /\ Active(c)
    BY <1>14 DEF HandlerRejects, Handles, AtWork, Active
  <2>2. /\ p.pc = "marking" /\ p.batch = pass[c].batch /\ p.aborted = pass[c].aborted
        /\ p.delivered = pass[c].delivered
    BY <2>1, PassFields
  <2>3. pass' = [pass EXCEPT ![c] = p]
    BY <1>4, <1>14, <2>1, PassFields DEF HandlerRejects
  <2>4. UNCHANGED <<pending, late, dead, handled, twice>>
    BY <1>14 DEF HandlerRejects
  <2> HIDE DEF p
  <2>5. \A d \in Callers : Good(d)'
    <3>1. \A i \in DOMAIN p.batch : p.batch[i].id \notin handled' \cup dead'
      BY <1>2, <2>1, <2>2, <2>4 DEF InBatch
    <3>2. \A i, j \in DOMAIN p.batch : p.batch[i].id = p.batch[j].id => i = j
      BY <1>2, <2>1, <2>2
    <3> QED BY <1>9, <2>1, <2>2, <2>3, <3>1, <3>2
  <2>6. ASSUME NEW a \in Addresses, pending'[a].id \in handled'
        PROVE  \E d \in Callers : Acks(d, pending[a].id)'
    <3>1. pass'[c] = p
      BY <1>4, <2>3
    <3>2. PICK d \in Callers : Acks(d, pending[a].id)
      BY <1>2, <2>4, <2>6
    <3>3. d = c
      BY <1>4, <2>1, <3>2
    <3> QED BY <2>2, <2>4, <3>1, <3>2, <3>3 DEF AtWork
  <2> QED BY <1>2, <2>4, <2>5, <2>6
<1>15. ASSUME NEW c \in Callers, ReportFailure(c) PROVE Rest'
  <2> DEFINE p == [pass[c] EXCEPT !.pc = "handling", !.batch = Tail(@)]
  <2>1. AtWork(c) /\ Active(c) /\ pass[c].batch # <<>>
    BY <1>15 DEF ReportFailure, AtWork, Active, Shapes
  <2>2. /\ p.pc = "handling" /\ p.batch = Tail(pass[c].batch) /\ p.aborted = pass[c].aborted
        /\ p.delivered = pass[c].delivered
    BY <2>1, PassFields
  <2>3. pass' = [pass EXCEPT ![c] = p]
    BY <1>4, <1>15, <2>1, PassFields DEF ReportFailure, Marked
  <2>4. UNCHANGED <<late, handled, twice>> /\ MarkFailed(Current(c)) /\ Current(c) \in Copy
    BY <1>15, <2>1, BatchFields DEF ReportFailure
  <2>5. /\ dead' \subseteq dead \cup {Current(c).id}
        /\ \A a \in Addresses : pending'[a].id \in {pending[a].id, 0}
    <3>1. dead' \subseteq dead \cup {Current(c).id}
      BY <1>4, <2>4, FailedEffect
    <3>2. ASSUME NEW a \in Addresses PROVE pending'[a].id \in {pending[a].id, 0}
      <4>1. pending[a] \in Deadline
        BY DEF TypeOK, Deadline
      <4>2. [pending[a] EXCEPT !.attempts = @ + 1].id = pending[a].id
        BY <4>1 DEF Deadline
      <4>3. \/ pending'[a] = pending[a] \/ pending'[a] = None
            \/ pending'[a] = [pending[a] EXCEPT !.attempts = @ + 1]
        BY <1>4, <2>4, FailedEffect
      <4>4. None.id = 0
        BY DEF None
      <4> QED BY <4>2, <4>3, <4>4
    <3> QED BY <3>1, <3>2
  <2> HIDE DEF p
  <2>6. \A d \in Callers : Good(d)'
    <3>1. \A i \in DOMAIN p.batch : p.batch[i].id \notin handled' \cup dead'
      BY <1>1, <2>1, <2>2, <2>4, <2>5, FirstTime
    <3>2. \A i, j \in DOMAIN p.batch : p.batch[i].id = p.batch[j].id => i = j
      BY <1>1, <2>1, <2>2, FirstTime
    <3> QED BY ZenonT(60), <1>2, <1>9, <2>1, <2>2, <2>3, <3>1, <3>2
  <2>7. ASSUME NEW a \in Addresses, pending'[a].id \in handled'
        PROVE  \E d \in Callers : Acks(d, pending[a].id)'
    <3>1. pass'[c] = p /\ pending'[a].id = pending[a].id /\ pending[a].id \in handled
      BY <1>4, <2>3, <2>4, <2>5, <2>7
    <3>2. PICK d \in Callers : Acks(d, pending[a].id)
      BY <1>2, <3>1
    <3>3. d = c
      BY <1>4, <2>1, <3>2
    <3> QED BY <2>2, <3>1, <3>2, <3>3 DEF AtWork
  <2>8. dead' \cap handled' = {}
    BY <1>1, <1>2, <2>1, <2>4, <2>5, FirstTime
  <2> QED BY <1>2, <2>4, <2>6, <2>7, <2>8
<1>16. ASSUME NEW c \in Callers, Acknowledge(c) PROVE Rest'
  <2>1. AtWork(c) /\ Active(c) /\ pass[c].delivered \in SUBSET Copy
    BY <1>16, PassFields DEF Acknowledge, AtWork, Active
  <2>2. /\ MarkDelivered(pass[c].delivered) /\ UNCHANGED <<late, handled, twice>>
        /\ EndPass(c) \/ \E p : pass' = [pass EXCEPT ![c] = p] /\ p.pc = "polling" /\ ~p.aborted
    <3> DEFINE p == [pc |-> "polling", aborted |-> FALSE]
    <3>1. p.pc = "polling" /\ ~p.aborted
      OBVIOUS
    <3>2. EndPass(c) \/ pass' = [pass EXCEPT ![c] = p]
      BY <1>16 DEF Acknowledge, CycleEnds
    <3> QED BY <1>16, <3>1, <3>2 DEF Acknowledge
  <2>3. \A d \in Callers : Good(d)'
    BY <1>10, <2>1, <2>2
  <2>4. /\ dead' \subseteq dead
        /\ \A a \in Addresses : \/ /\ pending'[a] = pending[a]
                                   /\ \A d \in pass[c].delivered : d.id # pending[a].id
                                \/ pending'[a].id = 0
    BY <1>4, <2>1, <2>2, DeliveredEffect DEF None
  <2>5. ASSUME NEW a \in Addresses PROVE pending'[a].id \notin handled'
    BY <1>2, <1>4, <2>1, <2>2, <2>4
  <2> QED BY <1>2, <2>2, <2>3, <2>4, <2>5
<1>17. ASSUME NEW id \in Ids, Redeliver(id) PROVE Rest'
  <2>1. /\ UNCHANGED <<pass, pending, late>> /\ id \in dead /\ dead' = dead \ {id}
        /\ handled' = handled \cup {id}
        /\ twice' = IF id \in handled THEN twice \cup {id} ELSE twice
    BY <1>17 DEF Redeliver, Ran
  <2>2. twice' = {} /\ dead' \cap handled' = {}
    BY <1>2, <2>1
  <2>3. \A c \in Callers : Good(c)'
    BY <1>2, <1>5, <2>1
  <2>4. ASSUME NEW a \in Addresses, pending'[a].id \in handled'
        PROVE  \E c \in Callers : Acks(c, pending[a].id)'
    <3>1. pending[a].id \in handled
      BY <2>1, <2>4 DEF TypeOK
    <3> QED BY <1>2, <2>1, <3>1 DEF AtWork
  <2> QED BY <2>1, <1>2, <2>2, <2>3, <2>4
<1>18. ASSUME UNCHANGED <<pass, pending, late, dead, handled, twice>> PROVE Rest'
  BY <1>2, <1>18 DEF Active, AtWork, InBatch
<1> HIDE DEF Rest
<1>19. Rest'
  <2>1. \A l \in late : ~LateCall(l)
    BY <1>1 DEF Orderly
  <2>2. \A c \in Callers : /\ ~Abort(c) /\ ~PollFails(c)
                           /\ \A b \in BOOLEAN : /\ ~HandlerTimesOut(c, b) /\ ~StopHandling(c, b)
                                                 /\ ~ReportFailureFails(c, b) /\ ~AcknowledgeFails(c, b)
    BY <1>1 DEF Abort, PollFails, HandlerTimesOut, StopHandling, ReportFailureFails,
                AcknowledgeFails, Disturb, Orderly, Active
  <2>3. CASE Tick
    BY <1>18, <2>3 DEF Tick
  <2> QED BY <1>7, <1>8, <1>11, <1>12, <1>13, <1>14, <1>15, <1>16, <1>17, <2>1, <2>2, <2>3
          DEF Next, PassStep
<1> QED BY <1>3, <1>19

-----------------------------------------------------------------------------
(* The theorems *)

\* Safe holds of a deployment that starts.
LEMMA SafeInit == Init => Safe
<1> SUFFICES ASSUME Init PROVE Safe
  OBVIOUS
<1> USE DEF Init
<1>1. /\ MaxDeliveryAttempts \in Nat \ {0} /\ MaxTime \in Nat /\ MaxSchedules \in Nat
      /\ MaxRecords \in Nat \ {0}
  BY Options
<1>2. \A a \in Addresses : pending[a] = None /\ ~Scheduled(a)
  BY DEF Scheduled
<1>3. \A c \in Callers : pass[c].pc = "idle" /\ ~Active(c) /\ ~AtWork(c)
  BY DEF Idle, Active, AtWork
<1>4. {a \in Addresses : Scheduled(a)} = {}
  BY <1>2
<1>5. TypeOK
  BY <1>1, <1>2, <1>3 DEF TypeOK, None
<1>6. Shapes
  <2>1. pass \in [Callers -> Passes]
    BY PassTypes
  <2>2. rejected \in [Ids -> 0..MaxDeliveryAttempts]
    BY <1>1
  <2>3. \A c \in Callers : pass[c].pc # "marking"
    BY <1>3
  <2> QED BY <1>2, <2>1, <2>2, <2>3 DEF Shapes
<1>7. Carried = {}
  BY <1>3 DEF Carried, Held
<1>8. OnePass /\ Issued /\ CopiesTrue /\ AcknowledgedHandled /\ AttemptsEarned
  BY <1>1, <1>2, <1>3, <1>7
     DEF OnePass, Issued, CopiesTrue, AcknowledgedHandled, AttemptsEarned, None
<1>9. Orderly /\ NoDeadlineLost /\ DeadOnlyIfPoison
  BY <1>3 DEF Orderly, NoDeadlineLost, DeadOnlyIfPoison
<1>10. Countable /\ WithinRecords
  BY <1>1, <1>4, FS_EmptySet DEF Countable, WithinRecords, RecordCount
<1> QED BY <1>5, <1>6, <1>8, <1>9, <1>10 DEF Safe

\* Safe is kept by every step.
LEMMA SafeStep == Safe /\ [Next]_<<vars, setup>> => Safe'
<1> SUFFICES ASSUME Safe, [Next]_<<vars, setup>> PROVE Safe'
  OBVIOUS
<1>1. CASE Next
  BY <1>1, TypeStep, OnePassStep, IssuedStep, CopiesTrueStep, AcknowledgedStep, AttemptsStep,
     OrderlyStep, RecordsStep, LostStep DEF Safe
<1>2. CASE UNCHANGED <<vars, setup>>
  <2> USE <1>2 DEF vars, storeVars, historyVars
  <2>1. TypeOK'
    BY DEF Safe, TypeOK, Scheduled, MaxTime, MaxDeliveryAttempts
  <2>2. Shapes' /\ OnePass'
    BY DEF Safe, Shapes, Passes, LateCalls, MaxDeliveryAttempts, OnePass, Active
  <2>3. Carried' = Carried
    BY DEF Carried, Held, InBatch, AtWork
  <2>4. Issued' /\ CopiesTrue' /\ AcknowledgedHandled'
    BY <2>3 DEF Safe, Issued, CopiesTrue, AcknowledgedHandled, AtWork
  <2>5. AttemptsEarned' /\ DeadOnlyIfPoison'
    BY DEF Safe, AttemptsEarned, DeadOnlyIfPoison, Owed, Reporting, ReportedLate, Current,
           Scheduled, MaxDeliveryAttempts
  <2>6. Orderly' /\ NoDeadlineLost'
    BY DEF Safe, Orderly, NoDeadlineLost, Active, AtWork, InBatch
  <2>7. Countable' /\ WithinRecords'
    BY DEF Safe, Countable, WithinRecords, RecordCount, Scheduled, MaxRecords
  <2> QED BY <2>1, <2>2, <2>4, <2>5, <2>6, <2>7 DEF Safe
<1> QED BY <1>1, <1>2

\* In every state of every deployment: deadlines, passes and late calls are
\* well formed, copies name one incarnation each, and nothing is lost.
THEOREM SafeAlways == Spec => []Safe
  BY SafeInit, SafeStep, PTL DEF Spec

\* Types are kept, and maxRecords bounds what the store holds.
THEOREM StoreBounded == Spec => []WellFormed
<1>1. Safe => WellFormed
  BY DEF Safe, WellFormed
<1> QED BY <1>1, SafeAlways, PTL

\* A deadline that was scheduled is pending, dead-lettered, handled or
\* withdrawn; it is dead-lettered only after maxDeliveryAttempts failures of its
\* own handler; and without timeouts, aborts and failing calls it is handled
\* once, also when drainOnce calls overlap.
THEOREM DeadlinesHandled == Spec => []HandledExactly
<1>1. Safe => HandledExactly
  BY DEF Safe, HandledExactly, Orderly, OnceUndisturbed
<1> QED BY <1>1, SafeAlways, PTL
=============================================================================
