--------------------------- MODULE OutboxDelivery ---------------------------
(***************************************************************************)
(* The transactional outbox at work: aggregates record commits, withCommit *)
(* harvests them into InMemoryOutbox.add inside a transaction that may     *)
(* still roll back, one OutboxDispatcher publishes the pending records to  *)
(* a sink, and an operator re-adds or redelivers single records.           *)
(*                                                                         *)
(* The outbox cannot observe a rollback: the records of a rolled-back      *)
(* transaction stay, and the instance that keeps its pending events is     *)
(* harvested again, possibly at a higher version.  The backoff between     *)
(* passes (consecutiveFailures) only sets delays and is left out.          *)
(***************************************************************************)
EXTENDS Outbox

CONSTANTS BatchSize,    \* options.batchSize of the dispatcher
          MaxVersion,   \* bound: aggregate versions
          MaxEvents,    \* bound: events recorded by all sources
          MaxFaults     \* bound: rollbacks, lost answers, timeouts, aborts, re-adds

ASSUME DeliveryAssumption ==
    /\ BatchSize \in Nat \ {0} /\ MaxVersion \in Nat \ {0}
    /\ MaxFaults \in Nat /\ MaxEvents \in Nat

VARIABLES agg,        \* source -> phase and, of the commit in hand, version and size
          log,        \* source -> its committed eventful commits
          client,     \* sources of the transaction whose add() runs
          open,       \* transactions that added their events and have not settled
          dpc,        \* dispatcher: "idle", "publishing", "acking" or "marking"
          batch,      \* the records getPending returned
          sent,       \* length of the delivered prefix
          failure,    \* "none", "transient" or "counted"
          faults,     \* faults so far
          readds,     \* operator re-adds so far
          seen,       \* history: the envelopes that reached the sink
          everDead,   \* history: events that were ever dead-lettered
          rejections, \* history: counted sink failures in the current budget
          moved       \* history: events of commits handed out under a version they left

writeVars == <<agg, log, client, open>>
dispatchVars == <<dpc, batch, sent, failure>>
historyVars == <<seen, everDead, rejections, moved>>
vars == <<outboxVars, writeVars, dispatchVars, faults, readds, historyVars>>

Id(s, k, n) == [src |-> s, commit |-> k, seq |-> n]

Committed(e) == e.commit <= Len(log[e.src]) /\ e.seq < log[e.src][e.commit].size
Published == {r.id : r \in seen}

\* add() runs to completion in one turn of the event loop.
Quiet == addResult = "none"

Fault == faults + readds < MaxFaults /\ faults' = faults + 1
NoFault == UNCHANGED faults

-----------------------------------------------------------------------------
(* The write side: aggregates and withCommit *)

InHand(s) == {Id(s, Len(log[s]) + 1, n) : n \in 0..(agg[s].size - 1)}

Recorded ==
    {e \in EventIds : Committed(e) \/ (agg[e.src].phase # "clean" /\ e \in InHand(e.src))}

\* A domain method records n events and advances the version.
Record(s, n) ==
    /\ Quiet /\ agg[s].phase = "clean"
    /\ Cardinality(Recorded) + n <= MaxEvents
    /\ Len(log[s]) < MaxCommits /\ agg[s].version < MaxVersion
    /\ agg' = [agg EXCEPT ![s] = [phase |-> "dirty", version |-> agg[s].version + 1,
                                  size |-> n]]
    /\ UNCHANGED <<outboxVars, log, client, open, dispatchVars, faults, readds, historyVars>>

\* The record of a commit in hand still has the version of a leaked attempt.
Outdated(r) == ~Committed(r.id) /\ r.version # agg[r.id.src].version

HandOut(envelopes) ==
    moved' = moved \cup UNION {InHand(r.id.src) : r \in {r \in envelopes : Outdated(r)}}

\* A state-only change advances the version of an instance with pending events.
Bump(s) ==
    /\ Quiet /\ agg[s].phase = "dirty" /\ agg[s].version < MaxVersion
    /\ agg' = [agg EXCEPT ![s].version = @ + 1]
    /\ LET handedOut == Published \cup {batch[i].id : i \in DOMAIN batch}
       IN  moved' = IF InHand(s) \cap handedOut = {} THEN moved
                    ELSE moved \cup InHand(s)
    /\ UNCHANGED <<outboxVars, log, client, open, dispatchVars, faults, readds,
                   seen, everDead, rejections>>

\* The candidates of an aggregate, in the order of its pendingEvents.
Candidates(s) ==
    [i \in 1..agg[s].size |-> [id |-> Id(s, Len(log[s]) + 1, i - 1),
                               version |-> agg[s].version, size |-> agg[s].size]]

\* withCommit harvests one aggregate (s = t) or two, in token order.
Harvest(s, t) ==
    /\ Quiet /\ client = {}
    /\ agg[s].phase = "dirty" /\ agg[t].phase = "dirty"
    /\ BeginAdd(Candidates(s) \o (IF s = t THEN <<>> ELSE Candidates(t)))
    /\ client' = {s, t}
    /\ UNCHANGED <<agg, log, open, dispatchVars, faults, readds, historyVars>>

Budgets == rejections' = [e \in EventIds |->
              IF Dead(e) /\ rec'[e].place = "pending" THEN 0 ELSE rejections[e]]

AddStep ==
    /\ AddMessage \/ AddReturns
    /\ Budgets
    /\ UNCHANGED <<writeVars, dispatchVars, faults, readds, seen, everDead, moved>>

\* The caller of add() resumes: the transaction can commit only if it resolved.
AddSettles ==
    /\ addResult \in {"added", "rejected"}
    /\ addResult' = "none" /\ mutated' = FALSE
    /\ client' = {}
    /\ IF client # {} /\ addResult = "added"
       THEN /\ open' = open \cup {client}
            /\ agg' = [s \in Sources |-> IF s \in client
                                         THEN [agg[s] EXCEPT !.phase = "added"] ELSE agg[s]]
       ELSE UNCHANGED <<open, agg>>
    /\ UNCHANGED <<rec, queue, cursors, receipts, adding, log, dispatchVars,
                   faults, readds, historyVars>>

SettleTx(g, phase) ==
    /\ Quiet /\ g \in open
    /\ open' = open \ {g}
    /\ agg' = [s \in Sources |-> IF s \in g THEN [agg[s] EXCEPT !.phase = phase] ELSE agg[s]]
    /\ UNCHANGED <<outboxVars, client, dispatchVars, readds, historyVars>>

\* The transaction commits and withCommit acknowledges every aggregate.
CommitTx(g) ==
    /\ SettleTx(g, "clean")
    /\ log' = [s \in Sources |->
                 IF s \in g THEN Append(log[s], [version |-> agg[s].version,
                                                 size |-> agg[s].size])
                 ELSE log[s]]
    /\ NoFault

\* It rolls back: the aggregates keep their pending events, the outbox the records.
RollbackTx(g) == SettleTx(g, "dirty") /\ Fault /\ UNCHANGED log

-----------------------------------------------------------------------------
(* The operator *)

Exact(e) == [id |-> e, version |-> log[e.src][e.commit].version,
             size |-> log[e.src][e.commit].size]

\* Adds committed events again as they were: a requeue or an exact retry.
Readd(d, e) ==
    /\ Quiet /\ client = {} /\ faults + readds < MaxFaults
    /\ Committed(d) /\ Committed(e)
    /\ BeginAdd(<<Exact(d)>> \o (IF d = e THEN <<>> ELSE <<Exact(e)>>))
    /\ readds' = readds + 1
    /\ UNCHANGED <<writeVars, dispatchVars, faults, historyVars>>

Envelope(e) == [id |-> e, version |-> rec[e].version, previous |-> rec[e].previous]

\* Delivers a dead letter by hand and acknowledges it.
ManualRedeliver(e) ==
    /\ Quiet /\ Dead(e)
    /\ seen' = seen \cup {Envelope(e)}
    /\ HandOut({Envelope(e)})
    /\ rejections' = [rejections EXCEPT ![e] = 0]
    /\ MarkDispatched(<<e>>)
    /\ UNCHANGED <<writeVars, dispatchVars, faults, readds, everDead>>

-----------------------------------------------------------------------------
(* OutboxDispatcher.pass and dispatchBatch *)

\* Mutant: the whole batch is acknowledged.
DeliveredAll == [i \in DOMAIN batch |-> batch[i].id]

Delivered == [i \in 1..sent |-> batch[i].id]

\* Mutant: the loop does not outlive a failed pass.
PassEndsForGood == /\ dpc' = IF failure = "none" THEN "idle" ELSE "stopped"
                   /\ batch' = <<>> /\ sent' = 0 /\ failure' = "none"

\* What follows the acknowledgement of the delivered prefix.
PassEnds == /\ dpc' = "idle" /\ batch' = <<>> /\ sent' = 0 /\ failure' = "none"

\* Mutant: transient failures are reported to the outbox too.
AfterAckReports == IF failure # "none"
                   THEN dpc' = "marking" /\ UNCHANGED <<batch, sent, failure>>
                   ELSE PassEnds

AfterAck == IF failure = "counted"
            THEN dpc' = "marking" /\ UNCHANGED <<batch, sent, failure>>
            ELSE PassEnds

\* pass(): an empty backlog drains, anything else starts a batch.
Poll ==
    /\ Quiet /\ dpc = "idle" /\ queue # <<>>
    /\ dpc' = "publishing" /\ batch' = GetPending(BatchSize) /\ sent' = 0
    /\ failure' = "none"
    /\ HandOut({batch'[i] : i \in DOMAIN batch'})
    /\ UNCHANGED <<outboxVars, writeVars, faults, readds, seen, everDead, rejections>>

PublishSucceeds ==
    /\ Quiet /\ dpc = "publishing"
    /\ seen' = seen \cup {batch[sent + 1]}
    /\ sent' = sent + 1
    /\ dpc' = IF sent + 1 = Len(batch) THEN "acking" ELSE "publishing"
    /\ UNCHANGED <<outboxVars, writeVars, batch, failure, faults, readds,
                   everDead, rejections, moved>>

\* Publishing stops at batch[sent + 1]; the delivered prefix is acknowledged first.
StopPublishing(kind) ==
    /\ Quiet /\ dpc = "publishing"
    /\ IF sent > 0 THEN dpc' = "acking" /\ failure' = kind /\ UNCHANGED <<batch, sent>>
       ELSE IF kind = "counted"
       THEN dpc' = "marking" /\ failure' = kind /\ UNCHANGED <<batch, sent>>
       ELSE PassEnds
    /\ UNCHANGED <<outboxVars, writeVars, readds, everDead, moved>>

\* The sink rejects the record: permanent and unknown failures count.
PublishRejected ==
    /\ StopPublishing("counted")
    /\ rejections' = [rejections EXCEPT ![batch[sent + 1].id] = @ + 1]
    /\ UNCHANGED seen
    /\ NoFault

\* A timeout, a retryable failure or an abort: nothing is reported to the
\* outbox, and the publication may still have reached the sink.
PublishInterrupted(reached) ==
    /\ StopPublishing("transient")
    /\ seen' = IF reached THEN seen \cup {batch[sent + 1]} ELSE seen
    /\ UNCHANGED rejections
    /\ Fault

\* Mutant: only a batch that was delivered completely is acknowledged.
AckWholeBatch ==
    /\ Quiet /\ dpc = "acking"
    /\ IF sent = Len(batch)
       THEN /\ MarkDispatched(Delivered)
            /\ rejections' = [e \in EventIds |-> IF \E i \in 1..sent : batch[i].id = e
                                                 THEN 0 ELSE rejections[e]]
       ELSE UNCHANGED <<outboxVars, rejections>>
    /\ AfterAck /\ NoFault
    /\ UNCHANGED <<writeVars, readds, seen, everDead, moved>>

Ack ==
    /\ Quiet /\ dpc = "acking"
    /\ MarkDispatched(Delivered)
    /\ rejections' = [e \in EventIds |-> IF \E i \in 1..sent : batch[i].id = e
                                         THEN 0 ELSE rejections[e]]
    /\ AfterAck /\ NoFault
    /\ UNCHANGED <<writeVars, readds, seen, everDead, moved>>

\* markDispatched rejects, or its answer is lost after it took effect.  The
\* records were delivered: nothing counts against them.
AckFails(applied) ==
    /\ Quiet /\ dpc = "acking"
    /\ Fault
    /\ IF applied
       THEN /\ MarkDispatched(Delivered)
            /\ rejections' = [e \in EventIds |-> IF \E i \in 1..sent : batch[i].id = e
                                                 THEN 0 ELSE rejections[e]]
       ELSE UNCHANGED <<outboxVars, rejections>>
    /\ AfterAck
    /\ UNCHANGED <<writeVars, readds, seen, everDead, moved>>

FailedId == batch[sent + 1].id

Mark ==
    /\ Quiet /\ dpc = "marking"
    /\ MarkFailed(FailedId)
    /\ everDead' = IF rec'[FailedId].place = "dead" THEN everDead \cup {FailedId} ELSE everDead
    /\ PassEnds /\ NoFault
    /\ UNCHANGED <<writeVars, readds, seen, rejections, moved>>

\* markFailed rejects without having taken effect.
MarkFails ==
    /\ Quiet /\ dpc = "marking"
    /\ Fault
    /\ PassEnds
    /\ UNCHANGED <<outboxVars, writeVars, readds, historyVars>>

-----------------------------------------------------------------------------
Init ==
    /\ OutboxInit
    /\ agg = [s \in Sources |-> [phase |-> "clean", version |-> NoVersion, size |-> 0]]
    /\ log = [s \in Sources |-> <<>>]
    /\ client = {} /\ open = {}
    /\ dpc = "idle" /\ batch = <<>> /\ sent = 0 /\ failure = "none"
    /\ faults = 0 /\ readds = 0
    /\ seen = {} /\ everDead = {} /\ moved = {}
    /\ rejections = [e \in EventIds |-> 0]

DispatcherStep ==
    \/ Poll
    \/ PublishSucceeds
    \/ PublishRejected
    \/ \E reached \in BOOLEAN : PublishInterrupted(reached)
    \/ Ack
    \/ \E applied \in BOOLEAN : AckFails(applied)
    \/ Mark
    \/ MarkFails

Next ==
    \/ \E s \in Sources, n \in 1..MaxSize : Record(s, n)
    \/ \E s \in Sources : Bump(s)
    \/ \E s, t \in Sources : Harvest(s, t)
    \/ AddStep
    \/ AddSettles
    \/ \E g \in open : CommitTx(g)
    \/ \E g \in open : RollbackTx(g)
    \/ \E d, e \in EventIds : Readd(d, e)
    \/ \E e \in EventIds : ManualRedeliver(e)
    \/ DispatcherStep

Spec == Init /\ [][Next]_vars

\* run(signal) polls for ever and an add() that has begun is run to its end.
\* add() takes the event loop for a single turn, so the dispatcher's
\* continuation, disabled meanwhile, is served although adds keep coming.
Fairness == /\ WF_vars(AddStep \/ AddSettles)
            /\ SF_vars(DispatcherStep)

FairSpec == Spec /\ Fairness

-----------------------------------------------------------------------------
(* Properties *)

\* The outbox, the transactions and the dispatcher keep well-formed state, and
\* the queue lists exactly the pending records, each once.
TypeOK ==
    /\ rec \in [EventIds -> [place : {"none", "pending", "dead"}, version : 0..MaxVersion,
                             previous : 0..MaxVersion, size : 0..MaxSize,
                             attempts : 0..MaxDeliveryAttempts]]
    /\ {queue[i] : i \in DOMAIN queue} = {e \in EventIds : Pending(e)}
    /\ \A i, j \in DOMAIN queue : queue[i] = queue[j] => i = j
    /\ cursors \in [Sources -> [version : 0..MaxVersion, previous : 0..MaxVersion,
                                size : 0..MaxSize, owners : SUBSET EventIds]]
    /\ addResult \in {"none", "running", "added", "rejected"} /\ mutated \in BOOLEAN
    /\ agg \in [Sources -> [phase : {"clean", "dirty", "added"}, version : 0..MaxVersion,
                            size : 0..MaxSize]]
    /\ client \subseteq Sources /\ open \subseteq SUBSET Sources
    /\ dpc \in {"idle", "publishing", "acking", "marking"}
    /\ sent \in 0..Len(batch)
    /\ failure \in {"none", "transient", "counted"}
    /\ everDead \subseteq EventIds /\ moved \subseteq EventIds

\* A committed event is still pending, is a dead letter, or reached the sink:
\* no batch boundary, failed publication, lost acknowledgement or eviction
\* loses it (dispatchBatch acknowledges the delivered prefix only).
NoEventLost ==
    \A e \in EventIds : Committed(e) => Pending(e) \/ Dead(e) \/ e \in Published

\* The sink sees a source's events in the order they were produced: when one
\* has arrived, each earlier one has arrived too or was dead-lettered (the
\* escape from head-of-line blocking).
SourceOrder ==
    \A d \in EventIds, e \in Published : Before(d, e) /\ Committed(d)
        => d \in Published \cup everDead

\* The version a record must name as its predecessor.
Predecessor(e) == IF e.commit = 1 THEN NoVersion ELSE log[e.src][e.commit - 1].version

\* Every envelope of a committed event, stored or delivered, carries the
\* version of its commit and of the eventful commit before it, although the
\* outbox linked them before the commit and its leaked attempts may have been
\* refreshed since.  Excluded: commits of which getPending handed out a record
\* under a version that they then left, which no refresh can call back.
PositionsExact ==
    \A r \in seen \cup {Envelope(e) : e \in {e \in EventIds : Pending(e) \/ Dead(e)}} :
        Committed(r.id) /\ r.id \notin moved
        => /\ r.version = log[r.id.src][r.id.commit].version
           /\ r.previous = Predecessor(r.id)

\* A record is dead-lettered only once the sink has rejected it
\* maxDeliveryAttempts times since it was last queued: failed
\* acknowledgements, timeouts and aborts never count.
DeadOnlyIfPoison ==
    \A e \in EventIds : Dead(e) => rejections[e] >= MaxDeliveryAttempts

\* maxRecords and maxSources hold, leaked and requeued records included.
WithinBounds ==
    /\ Cardinality({e \in EventIds : Pending(e) \/ Dead(e)}) <= MaxRecords
    /\ Cardinality({s \in Sources : cursors[s] # NoCursor}) <= MaxSources
    /\ Len(receipts) <= MaxRetained

\* Without a fault and without a re-add the dispatcher delivers an event once.
OnceWithoutFaults ==
    [][\A i \in DOMAIN batch :
          (dpc = "publishing" /\ sent' = i /\ sent = i - 1 /\ batch[i].id \in Published)
          => faults > 0 \/ readds > 0]_vars

\* Once the commits cease, as they do within the bounds, every committed event
\* reaches the sink or the dead letters.
EveryEventSettles ==
    []<>(\A e \in EventIds : Committed(e) => e \in Published \cup everDead)

\* A rejected add() has changed no record and no source head: the batch is
\* proven consistent before the first mutation.
RejectedAddChangesNothing == ~(addResult = "rejected" /\ mutated)

\* Types, and the limits on records and sources.
WellFormed == TypeOK /\ WithinBounds

\* Every committed event is pending, delivered or dead, and dead only if it is
\* poison: dead-lettering is no way to lose an event.
NoneLostOrBuried == NoEventLost /\ DeadOnlyIfPoison

\* Delivered in the order of the source, at the positions it committed.
ChainsSound == SourceOrder /\ PositionsExact
=============================================================================
