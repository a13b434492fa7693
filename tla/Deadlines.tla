----------------------------- MODULE Deadlines ------------------------------
(***************************************************************************)
(* InMemoryDeadlineStore and the DeadlineProcessor that polls it, with the *)
(* drainOnce shell of PollLoop: a worker loop and cron ticks may overlap.  *)
(*                                                                         *)
(* Processes schedule, reschedule and cancel deadlines while a pass holds  *)
(* copies of them.  A handler or store call that times out may take effect *)
(* later; the store call is then in flight on its own (late).              *)
(***************************************************************************)
EXTENDS Naturals, Sequences, FiniteSets

CONSTANTS Addresses,     \* (scope, key) pairs
          Callers,       \* callers of drainOnce: run() and cron ticks
          Setups,        \* the deployments: see setup
          MaxSchedules   \* bound: schedule() calls

ASSUME DeadlinesAssumption ==
    /\ MaxSchedules \in Nat
    /\ \A s \in Setups :
          /\ s.outcomes \in [Addresses -> SUBSET {"ok", "rejects", "times out"}]
          /\ s.callers \subseteq Callers
          /\ {s.batchSize, s.maxDeliveryAttempts, s.maxRecords} \subseteq Nat \ {0}
          /\ s.maxSchedules \in 0..MaxSchedules /\ {s.maxTime, s.maxFaults} \subseteq Nat

Ids == 1..MaxSchedules   \* delivery ids, which are the sequence numbers

None == [id |-> 0, due |-> 0, attempts |-> 0]
Idle == [pc |-> "idle"]

VARIABLES setup,      \* the deployment, chosen once
          now,        \* the processor's clock
          pending,    \* address -> its pending deadline, or None
          dead,       \* dead letters, by delivery id
          nextId,     \* nextSequence
          pass,       \* caller -> its drainOnce call
          inFlight,   \* PollLoop.inFlightPass: the callers whose pass runs
          late,       \* store calls that outlived their timeout
          faults,     \* faults so far
          handled,    \* history: incarnations whose handler ran to its end
          twice,      \* history: those that ran to their end twice
          rejected,   \* history: id -> counted handler failures
          withdrawn,  \* history: incarnations cancelled or replaced
          disturbed   \* history: a timeout, an abort or a failing call occurred

storeVars == <<pending, dead, nextId>>
historyVars == <<handled, twice, rejected, withdrawn, disturbed>>
vars == <<now, storeVars, pass, inFlight, late, faults, historyVars>>

Outcomes == setup.outcomes                         \* address -> what its handler may do
Running == setup.callers                           \* the callers there are
BatchSize == setup.batchSize                       \* options.batchSize
MaxDeliveryAttempts == setup.maxDeliveryAttempts   \* options.maxDeliveryAttempts
MaxRecords == setup.maxRecords                     \* options.maxRecords
MaxTime == setup.maxTime                           \* bound: the clock
MaxFaults == setup.maxFaults                       \* bound: failing store calls and aborts

-----------------------------------------------------------------------------
(* InMemoryDeadlineStore *)

Scheduled(a) == pending[a] # None
RecordCount == Cardinality({a \in Addresses : Scheduled(a)}) + Cardinality(dead)

\* Mutant: dead letters do not count.
FitsPending(a) == Scheduled(a) \/ Cardinality({b \in Addresses : Scheduled(b)}) < MaxRecords

\* A new address beyond maxRecords is refused (InMemoryCapacityExceededError).
Fits(a) == Scheduled(a) \/ RecordCount < MaxRecords

\* schedule(): replaces what is pending at the address by a fresh incarnation.
Schedule(a, due) ==
    /\ nextId <= setup.maxSchedules /\ Fits(a)
    /\ pending' = [pending EXCEPT ![a] = [id |-> nextId, due |-> due, attempts |-> 0]]
    /\ nextId' = nextId + 1
    /\ withdrawn' = withdrawn \cup ({pending[a].id} \ {0})
    /\ UNCHANGED <<now, dead, pass, inFlight, late, faults, handled, twice, rejected, disturbed>>

Cancel(a) ==
    /\ Scheduled(a)
    /\ pending' = [pending EXCEPT ![a] = None]
    /\ withdrawn' = withdrawn \cup {pending[a].id}
    /\ UNCHANGED <<now, dead, nextId, pass, inFlight, late, faults, handled, twice,
                   rejected, disturbed>>

Earlier(a, b) ==
    \/ pending[a].due < pending[b].due
    \/ pending[a].due = pending[b].due /\ pending[a].id < pending[b].id

DueAddresses == {a \in Addresses : Scheduled(a) /\ pending[a].due <= now}

\* due(now, limit): the earliest deadlines, in order.
DuePages ==
    LET n == Cardinality(DueAddresses)
    IN  {page \in [1..(IF n < BatchSize THEN n ELSE BatchSize) -> DueAddresses] :
            /\ \A i, j \in DOMAIN page : i < j => Earlier(page[i], page[j])
            /\ \A a \in DueAddresses : \/ \E i \in DOMAIN page : page[i] = a
                                       \/ \A i \in DOMAIN page : Earlier(page[i], a)}

\* They are returned as copies.
Copies(page) == [i \in DOMAIN page |-> [addr |-> page[i], id |-> pending[page[i]].id,
                                        due |-> pending[page[i]].due]]

\* Mutant: the acknowledgement goes by the address of the deadline.
DeliveredByAddress(ds) ==
    /\ dead' = dead \ {d.id : d \in ds}
    /\ pending' = [a \in Addresses |-> IF \E d \in ds : d.addr = a THEN None ELSE pending[a]]

\* markDelivered(deliveryIds)
MarkDelivered(ds) ==
    /\ dead' = dead \ {d.id : d \in ds}
    /\ pending' = [a \in Addresses |->
                      IF \E d \in ds : d.id = pending[a].id THEN None ELSE pending[a]]

\* Mutant: the ceiling is one attempt lower.
Exhausted(d) == d.attempts + 1 >= MaxDeliveryAttempts - 1

\* Mutant: one attempt more than the ceiling.
ExhaustsLate(d) == d.attempts + 1 > MaxDeliveryAttempts

\* The attempt that reaches maxDeliveryAttempts dead-letters.
Exhausts(d) == d.attempts + 1 >= MaxDeliveryAttempts

\* Mutant: failures are not recorded.
MarkFailedNever(d) == UNCHANGED <<pending, dead>>

\* markFailed(deliveryId): a no-op unless that incarnation is pending.
MarkFailed(d) ==
    LET hit == {a \in Addresses : Scheduled(a) /\ pending[a].id = d.id}
    IN  /\ pending' = [a \in Addresses |->
               IF a \notin hit THEN pending[a]
               ELSE IF Exhausts(pending[a]) THEN None
               ELSE [pending[a] EXCEPT !.attempts = @ + 1]]
        /\ dead' = dead \cup {pending[a].id : a \in {a \in hit : Exhausts(pending[a])}}

-----------------------------------------------------------------------------
(* PollLoop.drainOnce *)

Fault == faults < MaxFaults /\ faults' = faults + 1
Disturb == disturbed' = TRUE

Begin == [pc |-> "polling", aborted |-> FALSE]

\* Mutant: an overlapping call starts a pass of its own.
DrainCompeting(c) ==
    /\ c \in Running /\ pass[c] = Idle
    /\ pass' = [pass EXCEPT ![c] = Begin]
    /\ inFlight' = inFlight \cup {c}
    /\ UNCHANGED <<now, storeVars, late, faults, historyVars>>

\* A call during a pass joins it.
DrainOnce(c) ==
    /\ c \in Running /\ pass[c] = Idle
    /\ IF inFlight # {} THEN /\ pass' = [pass EXCEPT ![c] = [pc |-> "joined"]]
                             /\ UNCHANGED inFlight
       ELSE /\ pass' = [pass EXCEPT ![c] = Begin]
            /\ inFlight' = {c}
    /\ UNCHANGED <<now, storeVars, late, faults, historyVars>>

\* The signal of a call fires: a joined call returns, a pass winds down.
Abort(c) ==
    /\ pass[c] # Idle /\ (pass[c].pc # "joined" => ~pass[c].aborted)
    /\ Fault /\ Disturb
    /\ pass' = [pass EXCEPT ![c] = IF pass[c].pc = "joined" THEN Idle
                                   ELSE [pass[c] EXCEPT !.aborted = TRUE]]
    /\ UNCHANGED <<now, storeVars, inFlight, late, handled, twice, rejected, withdrawn>>

\* Mutant: only the owner is told.
EndPassAlone(c) == pass' = [pass EXCEPT ![c] = Idle] /\ inFlight' = inFlight \ {c}

\* The pass settles: its owner and every joined call return.
EndPass(c) ==
    /\ pass' = [d \in Callers |-> IF d = c \/ pass[d].pc = "joined" THEN Idle ELSE pass[d]]
    /\ inFlight' = inFlight \ {c}

-----------------------------------------------------------------------------
(* DeadlineProcessor.pass *)

Handling(batch, c) == [pc |-> "handling", aborted |-> pass[c].aborted, batch |-> batch,
                       delivered |-> {}, failed |-> FALSE]

\* Nothing is due, or the signal has fired: the pass is over.
PollEnds(c) ==
    /\ pass[c].pc = "polling"
    /\ pass[c].aborted \/ DueAddresses = {}
    /\ EndPass(c)
    /\ UNCHANGED <<now, storeVars, late, faults, historyVars>>

Poll(c) ==
    /\ pass[c].pc = "polling" /\ ~pass[c].aborted /\ DueAddresses # {}
    /\ \E page \in DuePages : pass' = [pass EXCEPT ![c] = Handling(Copies(page), c)]
    /\ UNCHANGED <<now, storeVars, inFlight, late, faults, historyVars>>

\* The clock or due() throws or times out.
PollFails(c) ==
    /\ pass[c].pc = "polling" /\ ~pass[c].aborted
    /\ Fault /\ Disturb
    /\ EndPass(c)
    /\ UNCHANGED <<now, storeVars, late, handled, twice, rejected, withdrawn>>

Ran(id) == /\ handled' = handled \cup {id}
           /\ twice' = IF id \in handled THEN twice \cup {id} ELSE twice

Current(c) == Head(pass[c].batch)
Handles(c, outcome) == /\ pass[c].pc = "handling" /\ pass[c].batch # <<>> /\ ~pass[c].aborted
                       /\ outcome \in Outcomes[Current(c).addr]

HandlerSucceeds(c) ==
    /\ Handles(c, "ok")
    /\ Ran(Current(c).id)
    /\ pass' = [pass EXCEPT ![c].batch = Tail(@), ![c].delivered = @ \cup {Current(c)}]
    /\ UNCHANGED <<now, storeVars, inFlight, late, faults, rejected, withdrawn, disturbed>>

\* A permanent or unknown failure is reported to the store.
HandlerRejects(c) ==
    /\ Handles(c, "rejects")
    /\ rejected' = [rejected EXCEPT ![Current(c).id] =
                       IF @ < MaxDeliveryAttempts THEN @ + 1 ELSE @]
    /\ pass' = [pass EXCEPT ![c].pc = "marking", ![c].failed = TRUE]
    /\ UNCHANGED <<now, storeVars, inFlight, late, faults, handled, twice, withdrawn, disturbed>>

\* A transient failure is not; the handler may have run to its end after all.
HandlerTimesOut(c, reached) ==
    /\ Handles(c, "times out")
    /\ IF reached THEN Ran(Current(c).id) ELSE UNCHANGED <<handled, twice>>
    /\ Disturb
    /\ pass' = [pass EXCEPT ![c].batch = Tail(@), ![c].failed = TRUE]
    /\ UNCHANGED <<now, storeVars, inFlight, late, faults, rejected, withdrawn>>

\* The signal fired: the rest of the batch is left, a running handler cut off.
StopHandling(c, reached) ==
    /\ pass[c].pc = "handling" /\ pass[c].batch # <<>> /\ pass[c].aborted
    /\ IF reached THEN Ran(Current(c).id) ELSE UNCHANGED <<handled, twice>>
    /\ pass' = [pass EXCEPT ![c].batch = <<>>]
    /\ UNCHANGED <<now, storeVars, inFlight, late, faults, rejected, withdrawn, disturbed>>

Marked(c) == pass' = [pass EXCEPT ![c].pc = "handling", ![c].batch = Tail(@)]

ReportFailure(c) ==
    /\ pass[c].pc = "marking"
    /\ MarkFailed(Current(c))
    /\ Marked(c)
    /\ UNCHANGED <<now, nextId, inFlight, late, faults, historyVars>>

\* markFailed rejects, or times out or is aborted and takes effect later.
ReportFailureFails(c, lands) ==
    /\ pass[c].pc = "marking"
    /\ IF pass[c].aborted THEN UNCHANGED faults ELSE Fault
    /\ Disturb
    /\ late' = IF lands THEN late \cup {[op |-> "failed", ids |-> {Current(c)}]} ELSE late
    /\ Marked(c)
    /\ UNCHANGED <<now, storeVars, inFlight, handled, twice, rejected, withdrawn>>

\* A cycle with a failure or an abort ends the pass, another one polls again.
CycleEnds(c, acked) ==
    IF pass[c].failed \/ ~acked \/ pass[c].aborted THEN EndPass(c)
    ELSE /\ pass' = [pass EXCEPT ![c] = [pc |-> "polling", aborted |-> FALSE]]
         /\ UNCHANGED inFlight

\* One markDelivered per cycle, also when the signal has fired.
Acknowledge(c) ==
    /\ pass[c].pc = "handling" /\ pass[c].batch = <<>>
    /\ MarkDelivered(pass[c].delivered)
    /\ CycleEnds(c, TRUE)
    /\ UNCHANGED <<now, nextId, late, faults, historyVars>>

AcknowledgeFails(c, lands) ==
    /\ pass[c].pc = "handling" /\ pass[c].batch = <<>> /\ pass[c].delivered # {}
    /\ Fault /\ Disturb
    /\ late' = IF lands THEN late \cup {[op |-> "delivered", ids |-> pass[c].delivered]} ELSE late
    /\ CycleEnds(c, FALSE)
    /\ UNCHANGED <<now, storeVars, handled, twice, rejected, withdrawn>>

\* A store call that outlived its timeout takes effect.
LateCall(l) ==
    /\ l \in late
    /\ late' = late \ {l}
    /\ IF l.op = "delivered" THEN MarkDelivered(l.ids)
       ELSE \E d \in l.ids : MarkFailed(d)
    /\ UNCHANGED <<now, nextId, pass, inFlight, faults, historyVars>>

\* An operator delivers a dead letter by hand and acknowledges it.
Redeliver(id) ==
    /\ id \in dead
    /\ Ran(id)
    /\ dead' = dead \ {id}
    /\ UNCHANGED <<now, pending, nextId, pass, inFlight, late, faults, rejected, withdrawn,
                   disturbed>>

Tick == now < MaxTime /\ now' = now + 1
        /\ UNCHANGED <<storeVars, pass, inFlight, late, faults, historyVars>>

-----------------------------------------------------------------------------
Init ==
    /\ setup \in Setups
    /\ now = 0
    /\ pending = [a \in Addresses |-> None] /\ dead = {} /\ nextId = 1
    /\ pass = [c \in Callers |-> Idle] /\ inFlight = {} /\ late = {} /\ faults = 0
    /\ handled = {} /\ twice = {} /\ withdrawn = {} /\ disturbed = FALSE
    /\ rejected = [id \in Ids |-> 0]

PassStep(c) ==
    \/ PollEnds(c) \/ Poll(c) \/ PollFails(c)
    \/ HandlerSucceeds(c) \/ HandlerRejects(c)
    \/ \E reached \in BOOLEAN : HandlerTimesOut(c, reached)
    \/ \E reached \in BOOLEAN : StopHandling(c, reached)
    \/ ReportFailure(c) \/ Acknowledge(c)
    \/ \E lands \in BOOLEAN : ReportFailureFails(c, lands)
    \/ \E lands \in BOOLEAN : AcknowledgeFails(c, lands)

Next ==
    /\ \/ \E a \in Addresses, due \in 0..MaxTime : Schedule(a, due)
       \/ \E a \in Addresses : Cancel(a)
       \/ \E c \in Callers : DrainOnce(c) \/ Abort(c) \/ PassStep(c)
       \/ \E l \in late : LateCall(l)
       \/ \E id \in Ids : Redeliver(id)
       \/ Tick
    /\ UNCHANGED setup

Spec == Init /\ [][Next]_<<vars, setup>>

\* run() calls drainOnce again and again, calls are bounded by their timeouts,
\* and time passes.
Fairness == /\ \A c \in Callers : WF_vars(DrainOnce(c)) /\ WF_vars(PassStep(c))
            /\ WF_vars(Tick)

FairSpec == Spec /\ Fairness

-----------------------------------------------------------------------------
(* Properties *)

\* Store and passes are well formed; incarnations are never shared.
TypeOK ==
    /\ now \in 0..MaxTime /\ nextId \in 1..(MaxSchedules + 1) /\ dead \subseteq Ids
    /\ pending \in [Addresses -> [id : 0..MaxSchedules, due : 0..MaxTime,
                                  attempts : 0..(MaxDeliveryAttempts - 1)]]
    /\ \A a, b \in Addresses : Scheduled(a) /\ pending[a].id = pending[b].id => a = b
    /\ \A a \in Addresses : pending[a].id \notin dead
    /\ \A c \in Callers : pass[c].pc \in {"idle", "joined", "polling", "handling", "marking"}
    /\ inFlight \subseteq Callers

\* An incarnation that was scheduled is pending, is a dead letter, has been
\* handled, or was withdrawn by its process: no acknowledgement of a replaced
\* incarnation, however late, takes its successor with it.
NoDeadlineLost ==
    \A id \in 1..(nextId - 1) :
        \/ \E a \in Addresses : pending[a].id = id
        \/ id \in dead \cup handled \cup withdrawn

\* An incarnation is dead-lettered only after its own handler failed for good
\* maxDeliveryAttempts times: timeouts, failing store calls and the attempts of
\* the incarnation it replaced do not count.
DeadOnlyIfPoison == \A id \in dead : rejected[id] >= MaxDeliveryAttempts

\* maxRecords bounds pending and dead deadlines together.
WithinRecords == RecordCount <= MaxRecords

\* Without timeouts, aborts and failing calls a deadline is handled once, also
\* when a worker loop and cron ticks overlap (they join the pass in flight).
OnceUndisturbed == ~disturbed => twice = {}

\* Every drainOnce call returns, the joined ones with the pass or their signal.
CallsReturn == \A c \in Callers : []<>(pass[c] = Idle)

\* A poison deadline blocks only itself: sooner or later no deadline whose
\* handler works is left undelivered, whatever the others' handlers reject.
NeighboursFlow ==
    []<>(\A a \in Addresses :
             Outcomes[a] = {"ok"} /\ Scheduled(a) => pending[a].id \in handled \cup withdrawn)

\* Types, and the limit on records.
WellFormed == TypeOK /\ WithinRecords

\* An incarnation is handled: at least once, at most once unless disturbed, and
\* given up only for what its own handler did.
HandledExactly == NoDeadlineLost /\ DeadOnlyIfPoison /\ OnceUndisturbed

\* Calls return, and a poison deadline blocks only itself.
Progress == NeighboursFlow /\ CallsReturn
=============================================================================
