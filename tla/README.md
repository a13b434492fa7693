# A TLA+ verification of ddd-kit-ts

ddd-kit-ts is a TypeScript kit for domain-driven design: aggregates, a unit of
work, a transactional outbox with its dispatcher, idempotent command execution,
projections, deadlines, event sourcing. This directory models the parts of it
whose correctness depends on what happens *between* two awaits, checks them with
TLC on small instances and proves the central ones with TLAPS for every instance.
Source paths below are relative to `src/src/`.

## 1. Inventory

| Component | State | Operations | What is hard |
|---|---|---|---|
| Idempotent execution, `app/idempotency.ts` | per call: attempt, claim, heartbeat | claim, reconcile, work, complete, abandon, commit, confirm | two stores without a common transaction; crash or lost answer between them; a slow owner that was taken over |
| Idempotency store, `app/in-memory-idempotency-store.ts` | key -> pending / staged / confirmed record, token generation | `claim`, `complete`, `renew`, `confirm`, `abandon`, `reconcile` | leases that end under a live owner; stale tokens and receipts; `maxEntries` |
| Retrying scope, `repo/retrying-scope.ts` | attempt number | `transactional` | which errors are retried, clean slate per attempt |
| Outbox, `events/outbox.ts` | pending and dead Maps, source cursors, LRU of receipts | `add`, `getPending`, `markDispatched`, `markFailed`, `deadLetters` | rollbacks it cannot see, re-adds, evicted receipts, predecessor links, limits |
| Dispatcher, `events/outbox-dispatcher.ts`, `utils/poll-loop.ts` | batch, delivered prefix, failed record, failure streak | `pass`, `dispatchBatch`, `run`, `drainOnce` | partial batches, lost acknowledgements, timeouts whose publication still arrives, aborts, poison records |
| `withCommit`, `app/handler.ts` | enrolled aggregates, harvested events | harvest, `outbox.add`, commit, acknowledge, publish | what has happened when a step fails |
| Unit of work, identity map, `app/unit-of-work.ts`, `repo/identity-map.ts` | `_active`; per attempt: enrolled and deleted sets, tokens, identity map, closed flag | run, enrollSaved, enrollDeleted, enrollLoaded, close | retried attempts, saves that are not awaited, forgotten saves, error classification |
| Aggregates, `aggregate/*.ts`, `entity/entity.ts` | state, version, persisted version, baseline, pending events | commit, setState, acknowledge, restore, collection helpers | version, baseline, row and events drifting apart |
| Projector, `projections/*.ts` | checkpoint watermark per address, lock queues | project, reset, hasProcessed | redelivery, gaps, contradictions, competing instances |
| Deadlines, `deadlines/*.ts` | pending and dead deadlines, the pass in flight | schedule, cancel, due, markDelivered, markFailed, drainOnce | reschedule racing a delivery, late store calls, overlapping passes |
| Event store, snapshots, `repo/in-memory-*.ts`, event-sourced aggregate | streams, LRU of snapshots, the instance | append, readStream, save, load, apply, replay | optimistic concurrency, paged loads, stale or foreign snapshots |
| Event bus, `events/event-bus.ts` | handler arrays, once() waiters | subscribe, unsubscribe, once, publish | failing, late and re-entrant handlers, aborts |
| Domain state machine, `domain-state-machine/*.ts` | definition, snapshot, evaluating flag | create, restore, can, dispatch, analyze | re-entrant callbacks, definitions edited by the caller |
| Value objects, `value-object/*.ts`, `utils/array/*.ts`, `machine-data.ts` | object graphs | vo, clone, deepFreeze, deepEqual, deepOmit, snapshot check | sharing, cycles, aliases the caller keeps |
| Buses, integration messages, domain events, money, errors, HTTP, contract suites | none over time | | not modelled, see section 7 |

Interaction: `withIdempotentCommit` decorates the transaction scope and calls
`withCommit`, which harvests the aggregates' events into `outbox.add` inside the
transaction and acknowledges the aggregates after it. The dispatcher polls the
outbox on its own schedule and publishes to a sink, for example a projector.
All of it is asynchronous code in one or several processes; a synchronous method
body runs without interruption.

## 2. Modules

| Module | Models |
|---|---|
| `IdempotencyStore` | the store's records and operations (no behaviour of its own) |
| `IdempotentCommit` | concurrent executions of `withIdempotentCommit` over that store and a source database |
| `ExactlyOnce` | the abstract promise: one effect per key, every answer its outcome |
| `Outbox` | `InMemoryOutbox`: `add` with its checks and its loop, and the poll surface |
| `OutboxDelivery` | aggregates and transactions writing, the dispatcher delivering, an operator repairing |
| `OrderedFilter` | `Array.prototype.filter` and deletion from a Map: what is kept keeps its order |
| `Projection` | `Projector` over a durable and over the in-memory checkpoint store |
| `Deadlines` | `InMemoryDeadlineStore`, `DeadlineProcessor` and the joining of `PollLoop.drainOnce` |
| `UnitOfWork` | `UnitOfWork.run` over `withCommit` and the retrying scope |
| `EventSourcing` | event store, snapshot store, event-sourced aggregate, the paged load |
| `AggregateRoot` | state-stored aggregates and what a repository writes of them |
| `EventBus` | `EventBusImpl` |
| `MachineDefinition` | definitions, their validation and the analyzer, as operators |
| `DomainStateMachine` | the class and the pure functions, as a stack of calls |
| `ObjectGraphs` | the walks over object graphs, as operators |
| `ValueObjects` | value objects and machine data beside a caller that goes on writing |
| `IdempotentCommitProofs`, `OutboxProofs`, `ProjectionProofs`, `DeadlinesProofs`, `AggregateRootProofs`, `EventSourcingProofs`, `UnitOfWorkProofs` | the theorems about these modules, section 5 |
| `OrderedFilterProofs` | lemmas about `OrderedFilter`, used by the proofs of outbox, projector, event store and unit of work |
| `MC...` | the instances for TLC |

Definitions called "Mutant" in a comment are plausible bugs of the definition
below them; none of the specifications uses them. `PROJECT.json` names the
property each one breaks.

### IdempotentCommit

A worker is one execution. `pc` is the await it stands at: `claim`, `decide`
(asking `reconcileIdempotency`), `reconcile`, `reclaim`, `work`, `staged` (after
`complete`), `committing`, `confirm`; an error goes through `abandon` (if the
attempt holds a claim) to `rollback`, where the retrying scope starts the next
attempt or rejects. `Crash` kills a worker at any step; a commit already asked for
is decided later by the database (`orphaned`). `Start` also is the redelivery of a
rejected or crashed command.

*Time.* Every method compares the clock with `expiresAtMs` in the same sense, so a
record only carries whether its term is over, and `LeaseExpires` may end it at any
moment, also under an active owner. This covers every lease duration and heartbeat
period and every clock that does not run backwards. The number `lease` gives each
extension an identity, which is all that `reconcile` uses of `expiredAt`.

*Outcomes.* An outcome is named by the token of the execution that produced it, so
the model tells executions apart, where the code stores arbitrary values.

*External.* The source database commits the work's writes together with a marker
(`effects`) and refuses tokens the application has durably fenced (`fenced`).
`Evidence` is the contract of `reconcileIdempotency`: "committed" only for a
marker that is there, "not-committed" only for a fenced attempt. Without that
contract no store could be correct; the proofs show what it buys.

### Outbox and OutboxDelivery

An event id determines its source, commit and index. `add` is one synchronous
call; its loop is one step per message so that its intermediate states can be
looked at, while `addResult = "running"` disables everything else.

`Record` and `Bump` are `AggregateRoot.commit` and `setState`; `Harvest` is the
transactional callback of `withCommit` for one or two aggregates; `CommitTx` and
`RollbackTx` settle the transaction. As the outbox cannot observe a rollback the
records stay, and the instance, which keeps its pending events, is harvested again
at the same or a higher version. An instance that is discarded instead, with new
events minted for the same version, is not modelled: `add` then refuses the
position for ever, which the class documents as a limit of the in-memory adapter.

The dispatcher is `Poll`, then per record `PublishSucceeds`, `PublishRejected`
(permanent or unknown) or `PublishInterrupted` (timeout, retryable failure, abort;
the record may have reached the sink), then `Ack` or `AckFails` for the delivered
prefix, then `Mark` or `MarkFails`. `consecutiveFailures` only sets delays and is
left out, as are observers.

### Situations

Most modules have a variable `setup`: a record chosen in `Init` from the constant
`Setups` and never changed. Each record is one deployment or situation with its own
participants and bounds, so that one run asks the same properties of several. The
accessors (`Durable == setup.durable` ...) keep the actions free of it.

### Projection

`project` is `Project` (validation, outside any transaction), `Lock` per key in
the one global order, `Load` per address, then `Refuse` or `Prove` (collisions,
inversions, gaps), `Apply` per event, `Save` per checkpoint and `Resolve`;
`Rollback` is possible at any await. The database of a durable store is external: locks
are held and writes invisible until the commit. The in-memory store writes at once,
and its properties are the weaker ones that the code promises. Batches are every sequence of
envelopes up to a length, in any order and with any repetition; `Rogue` envelopes
contradict what the source said before. The watermark walk is the fold `Walk`.
`reset` is one action, `Reset`, in a database only. In memory the scope is no
transaction, and it is what the code awaits: `Truncate`, then `ForgetCheckpoints`, with
any call of `hasProcessed` and any step of other projections between them, or
`ResetCut`, where one of the two rejects and the read model stays empty. `rebuild`
remembers how far it came. Its own consumers are stopped while it runs, as the
method demands, and may start again after a cut; a repeated call repairs one.
A projection without `truncate` is not modelled: emptying its read model is then
its caller's business.

### Deadlines

A pass is `Poll`, the handlers one by one, `ReportFailure` per rejection, then
`Acknowledge` for the delivered ones. A store call that times out may take effect at any
time later (`late`, `LateCall`). `schedule` and `cancel` run at any time.
`drainOnce` joins the pass in flight; `loop` and `cron` are two callers of it.

### UnitOfWork

The callback (`Work`) is any sequence of loads, creations, mutations, saves and
deletions through repositories that keep the documented contract, including a save that is
not awaited and one that is forgotten. After it come sealing, harvest, outbox write,
commit, acknowledgement, observers and publication, one step each, with failures, aborts
and the retries of the scope. The database is external: optimistic transactions.
Aggregates and rows carry the log of the events they reflect; the properties
compare that log with the outbox.

### EventSourcing and AggregateRoot

`EventSourcing`: the state of an aggregate is the sequence of events folded into
it, so any lost, repeated or reordered event shows. A load is the documented
loop: snapshot, tail, catch-up pages to a pinned head, refold if the snapshot is unusable;
other writers append between any two pages. Writers belong to one of two
generations, of which the older cannot read what the newer writes.
`AggregateRoot`: every key of a state has a value and a reference; the code's dirty
tracking sees references, the database sees values, and `intents` remembers what
each writer held. Partial writes go through the dirty keys.

### EventBus

Handlers are called in the order of the snapshot taken per event, and settle in
any order or never. The synchronous part of a handler may subscribe, unsubscribe
and publish: anything may happen between two calls. An unsubscribe function keeps the array it
captured, also after the bus has dropped that array.

### MachineDefinition and DomainStateMachine

Calls form a stack. A frame stands before a guard, a reducer or the validators; there the callback may
throw, edit the caller's definition object or call any machine. The `evaluating`
flag belongs to a machine and a frame works on the definition and snapshot it copied. The
analyzer is compared with a reference definition (the least closed set).

### ObjectGraphs and ValueObjects

A heap maps addresses to objects with a kind, a prototype flag, a tag mask and fields. `deepEqual`,
`cloneForVo`, `cloneDomainMachineDataValue`, `deepOmit`, `structuredClone` (external),
`assertSnapshotSafe` and `deepFreeze` are recursive operators over it, threading the same `seen`
structures as the code. `ValueObjects` runs them against a caller that keeps its
references and writes wherever JavaScript lets it; some of its dates and maps it has frozen itself,
so that their mutators cannot be shadowed in place any more.

## 3. Runs

One run per component, and one per finding that is a counterexample. Properties
that belong together are conjunctions of named parts; `PROJECT.json` lists mutants that
break single parts. `WellFormed` joins the type invariant with limits.

| Run | Instance | Shows |
|---|---|---|
| `commit` | 2 workers, 2 keys, 2 contents (those of the first worker fixed, by symmetry), room for 1 record, 2 attempts, 2 faults | `WellFormed`: no heartbeat outlives its attempt, attempts are bounded; `AtMostOneEffect`, `AnswersAreCommitted`, `CommitterOwnsKey`; `RecordsKept`: committed records survive a full store; refinement of `ExactlyOnce`; every call settles |
| `commit_without_claim` | 2 workers, 1 key | **violated**, finding 1 |
| `outbox` | 2 sources, 2 commits of up to 2 events, 3 events in all, 1 receipt, 2 records, 1 fault | `NoneLostOrBuried`: nothing lost, only poison dead; `ChainsSound`: source order, exact positions; limits; once without faults; every event settles |
| `outbox_rejected_add` | 2 sources, single events, one re-add | **violated**, finding 2 |
| `projection` | 2 addresses, 2 instances, batches up to 2, 1 fault; 5 deployments: competing over a database, a contradicting source with one and two instances, two projections on the in-memory store, one with longer batches; rebuilds, cut ones too | `AppliedExactly`: exact prefixes, unbroken chains, exclusive keys; `ReachedMeansApplied`: `hasProcessed` is honest, in memory except around a cut `reset`; `Progress`: calls settle, redelivery catches up |
| `deadlines` | 2 addresses, 3 incarnations; 3 deployments: reschedules and late calls, overlapping callers over a full store, a poison deadline with pages of one | `HandledExactly`: no incarnation lost or handled twice, only poison dead; `Progress`: a poison deadline blocks only itself, calls return |
| `unit_of_work` | 1 aggregate, 2 runs, 2 attempts; 3 situations: a race of two units, two calls of one unit with faults, both | `OutboxExact`: rows and outbox agree, nothing consumed early; `OutcomesTruthful`: errors classified, no change forgotten; deletions final; runs settle. One aggregate id: that instances of other aggregates are acknowledged when one fails is modelled, and asked by no property |
| `event_sourcing` | 2 writers, streams of up to 3 events; 5 deployments: a race, bad rows and crashes (pages of one and two), a rolling deployment, full stores with expiry | `StatesFaithful`: state, snapshots and stream tell one history; `LoadsHonest`: fresh, never from an expired snapshot, failing only for a reason; loads end |
| `aggregate_root` | 2 instances without, 1 instance with child entities, up to 4 versions | `UpdatesKept`: no lost update, partial writes complete; `InStep`: clean means stored, events match the state |
| `event_bus` | 4 subscriptions, 2 publications; 2 situations: two events, nested or overlapping publications | `PublishedAsPromised`: nobody skipped, order, truthful outcome, subscriptions counted; `SettledForGood`; publish settles |
| `state_machine` | 2 machines, definitions of up to 3 states; 4 situations: edited definitions, pure functions, machines calling each other three deep, every graph of three states | `MachinesSound`: sound snapshots, evaluation exclusive and always released, `can` honest; `AnalysisSound`; `FollowsDefinition` |
| `value_objects` | graphs of up to 5 objects, 3 calls; 5 situations: what callers pass, what they keep, shapes to compare, shared parts, snapshot states, instances of subclasses among them | `WellFormed`: no reference in machine data lies beyond the depth limit, however its target was met first; `WalksExact`: equality is bisimilarity, omission path by path, accepted snapshot states keep contents, sharing and kinds, and hold plain objects of no class; `ValuesSound`: immutable, faithful, the caller's objects left alone |

*Bounds.* Two workers are an owner and a successor that takes over (the proofs
cover any number); two faults are an expiry and a crash or a lost answer. In the
outbox two commits are what a predecessor link needs, two events per commit what a
partial batch needs; one retained receipt makes eviction happen at once. Projection: a
chain of three events has a link inside a commit and one over a state-only version; batches of two hold
every pair (gap, inversion, repetition, collision). Three incarnations of a deadline are one in
flight, its replacement, and a neighbour. Two attempts are a retry; two instances per
attempt are a deleted and a recreated one. Streams of three events are three pages of one: a
fold, a catch-up, and an append behind the pinned head. A nesting of three lets a machine be re-entered
through another one. Three objects in every shape, and five in shapes with parts at two
depths, contain the cycles, shared parts and diamonds the walks can get wrong. Counters are capped by the
constants called "bound" where they are declared. Deadlock is not checked: everywhere
the bounds, or the end of all calls, let the actors come to rest.

*Fairness.* It is stated for the code's own steps only, never for the environment.
`IdempotentCommit`: weak fairness of each worker's next step and of redelivery
(an at-least-once broker); leases run out; strong fairness of evidence, as a command redelivered again and
again keeps asking. Faults are bounded, so the properties say what holds once they
cease; a call may also find the store full of other keys' committed records, which are never
evicted, or its key used up by other content. `OutboxDelivery`: `run` polls for ever and an `add` that began
ends; strong fairness of the dispatcher because each `add` occupies the event loop for
a turn and then gives way. `Projection`: each call's next step, and strong fairness of the redelivery of the next
missing event by an at-least-once source, which is enabled whenever the instance is idle.
`Deadlines`: `run` calls `drainOnce` again and again, calls are bounded by their timeouts,
time passes. `UnitOfWork`: every awaited call settles and the callback returns or throws.
`EventSourcing`: a load's store calls settle. `EventBus`: the timer fires and ready
steps run; no handler is assumed to settle. `PublishSettles` therefore rests on the timer to a large
part; what the code adds is that a timeout or an abort ends a publish in the middle of
an event, whatever its handlers do, and not only between two.

## 4. Findings

1. `core/errors.ts:1100` says of `IdempotencyCompletionWithoutClaimError` that
   "`withIdempotentCommit` cannot produce it". It can: the first owner's lease
   expires, a second execution takes the key over, fails and abandons it, and the
   first owner completes. `complete` finds no record (`in-memory-idempotency-store.ts:179`)
   and reports a non-retryable wiring bug instead of a lost claim. No effect is
   duplicated; the execution fails where a retry would have succeeded.
2. The comment at `events/outbox.ts:217` promises that a batch is proven consistent
   before the first mutation. The stale-head check (line 283) runs inside the loop:
   an `add` of two already dispatched events whose receipts were evicted makes the
   first pending again and then rejects the second.

Met while modelling, without a run of their own (no property of a passing run is about
these cases):

3. `app/unit-of-work.ts:661`: the flags of an attempt are reset only when the callback
   runs again. If the scope retries and the abort fires in the backoff, or the next
   transaction cannot open, `run` reports a `RollbackError` although that rollback
   succeeded; the comments at lines 638 and 650 reserve it for rollbacks that failed.
4. `app/unit-of-work.ts:528`: `enrollSaved` does not enter the instance into the identity
   map. An aggregate created, saved and then loaded in one session is a second instance,
   where `docs/guide/unit-of-work.md:148` promises one.
5. `aggregate/base-aggregate.ts:421`: `assertSnapshotSafe` looks at the prototype of plain
   objects only. An instance of a subclass of Array, Map, Set or Date passes, and
   `structuredClone` returns it without its class. It also walks arrays by index only:
   a property of an array under a symbol passes and is lost; one under a string is copied, but not
   checked, so that a function there fails in `structuredClone` with an error of its own.
   `docs/guide/event-sourcing.md:642` lists class instances, functions and symbol-keyed
   state as rejected. The graphs of `value_objects` contain the subclasses;
   `SnapshotRoundTrips` claims kinds, contents and sharing for them, the class for plain
   objects only, and nothing for arrays that own more than their elements.
6. `utils/array/is-built-in.ts:430`: a Map or Date whose `Symbol.toStringTag` is
   overridden is compared by own keys, not by content, contrary to
   `utils/array/deep-equal.ts:19`. Masked maps and dates are left out of the graphs to compare.
7. `deadlines/deadline-processor.ts:256`: transient failures are not counted. A deadline
   whose handler always times out, at the head of pages of one, keeps its neighbours waiting for
   ever; `NeighboursFlow` is about neighbours of deadlines that are rejected.
8. `projections/projector.ts:441`: over the in-memory store, `reset` truncates the read model and
   forgets the checkpoints in two awaits that no transaction spans. Between them, and
   for good if the second rejects, `hasProcessed` answers true for events the read
   model has lost, and after a restart of the consumers they stay lost, as their positions count as
   traversed. The comments at `projector.ts:434` and `projections/ports.ts:187` speak of one
   transaction; the in-memory pair has none to offer. `ReachedMeansApplied` is claimed of
   projections whose last `reset` resolved (`Intact`), so it says that a repetition repairs a cut one.

## 5. Proofs

TLAPS checks the theorems below for any sets of participants, any number of steps and
any value of the bounds, from the named assumptions on the constants alone. Those say
what a deployment is (limits are positive, instances belong to known projections); one says
something about the world: `SourceAssumption`, that a source's own chain is
unbroken, which `projections/ports.ts:5` requires of a source. Envelopes that
contradict it are in `Rogue`, and the theorems cover them. Sets of workers, keys,
sources, callers and instances need not be finite; where a limit counts something, the
invariant contains that it can be counted.

| Theorem | States |
|---|---|
| `IdempotentCommitProofs!CommitWellFormed` | `WellFormed`: types, heartbeats only while an attempt works under its claim, at most `MaxAttempts` attempts |
| `!EffectAtMostOnce`, `!AnswersCorrect`, `!CommitterIsOwner` | `AtMostOneEffect`, `AnswersAreCommitted`, `CommitterOwnsKey` |
| `!RecordsAlwaysKept` | `RecordsKept`: capacity, and the action property that no committed record is released or changed |
| `!Refines` | `ImplementsExactlyOnce`: the refinement of `ExactlyOnce` |
| `OutboxProofs!OutboxWellFormed`, `!NothingLost` | `WellFormed`, `NoneLostOrBuried` |
| `!OrderKept`, `!ChainsAlwaysSound` | `SourceOrder` alone, then all of `ChainsSound` |
| `!DeliveredAtMostOnce` | the action property `OnceWithoutFaults` |
| `ProjectionProofs!ProjectionWellFormed`, `!ProjectedExactly`, `!ReachedIsApplied` | `WellFormed`, `AppliedExactly`, `ReachedMeansApplied` |
| `DeadlinesProofs!StoreBounded`, `!DeadlinesHandled` | `WellFormed`, `HandledExactly` |
| `AggregateRootProofs!TypeCorrect`, `!NoUpdateLost`, `!AlwaysInStep` | `TypeOK`, `UpdatesKept`, `InStep` |
| `UnitOfWorkProofs!UnitOfWorkWellFormed`, `!OutboxIsExact`, `!OutcomesAreTruthful`, `!DeletionIsFinal` | `WellFormed`, `OutboxExact`, `OutcomesTruthful`, the action property `DeletedIsFinal` |
| `EventSourcingProofs!EventSourcingWellFormed`, `!StatesAreFaithful`, `!LoadsAreHonest` | `WellFormed`, `StatesFaithful`, `LoadsHonest` |

Each module also proves its inductive invariant (`SafeAlways`, `Invariant`, and for the unit of work
`ControlAlways` and `HeldAlways`). None of the properties is
inductive by itself; the invariants were checked with TLC on the instances of the runs
before they were proved. A proof has a lemma per action (or per group of actions
with the same effect), frame lemmas for what actions leave alone, and one
lemma that splits `Next`.

*IdempotentCommit.* That the next commit cannot be a second one needs: tokens
are never reused and belong to one worker; a worker past `complete` whose token is
not fenced owns the staged record; the token of a committed effect is the one
recorded under its key, staged or confirmed; a fenced token never commits; a "committed"
decision in a receipt is backed by an effect and a "not-committed" one by a fence; a
confirmed record's outcome is committed. `Safe` is the conjunction. `HeartbeatNext` and
`AttemptsNext` are inductive on their own. `RecordsKept` follows
per step: `RecordSteps` shows that a step changes the record of one key at most, and takes
it over, keeps its owner or releases it; what is taken over or released
carries a token that `Safe` says has not committed. For the refinement, `StepRefines`
shows that every step leaves effects and answers alone, or adds one effect to a key
that had none, or gives one unanswered worker the effect of its key and content.

*Outbox and dispatcher*, in four layers, each proved with the ones before it. `Safe`:
an event that is committed or in a transaction past `add()` is pending, dead or
delivered, inside a running `add()` also still to be added; what the dispatcher will acknowledge
is the delivered prefix of its batch; recorded attempts were rejections; the limits
hold with what the running `add()` may still store, which is why its early check
suffices. `Ordered`: whatever is in the queue, the batch or a running `add()` is preceded by every earlier
event of its source, unless that has been delivered or dead-lettered. A transaction holds
its aggregate until it settles, so an event is only added after its predecessors.
`Chains`: the head of a source stands at the last commit or at a leaked
attempt of the commit in hand, and in both cases the next link can be made from it;
records are exact once their commit is; a running `add()` refreshes them all. Events that are noted in `moved`
(a retry refreshed their version while a copy was out, the hazard at `events/outbox.ts:391`) are
exempt here as in the property. `Once`: while there was no fault (a rollback, a timeout or an abort, a failed acknowledgement or report; rejections by the sink are none) and no re-add, the outbox and
the sink know no event of a commit that is to be harvested, and a record that was delivered stays
only until its batch is acknowledged. So `add()` accepts every harvested event as new: it finds the source head
behind it, or at the same commit and owned by other events of that commit.

*Projection.* `Follows(s, m, a)` says that envelopes `s` continue a chain of address
`a` whose last receipt is `m`. Two chains compose (`FollowsConcat`); a proved batch follows the
checkpoints it was proved against (`WalkFollows`, an induction over the walk); and a chain from the
beginning made of a sound source's envelopes is a prefix of that source (`OneChain`). The
invariant: a lock queue lists an instance once; a call holds the keys it has passed, so that
checkpoints it loaded are still true when it applies; behind every checkpoint is a chain that was applied, and a
database holds nothing else. While a reset in memory is cut, that chain may be gone from the read
model; the second half of a repeated reset drops the checkpoint it was behind (`RebuildSafe`). Exclusion
is why a walk proved at `Prove` may be applied steps later.

*Deadlines.* What an acknowledgement or a failure report removes depends on copies that a pass or
a late call carries. `Safe` says that a copy names one incarnation for ever,
that copies to be acknowledged were handled, that attempts counted or still owed
answer to failures of the incarnation's own handler, and that at most one pass runs. The
handled-once half holds while nothing has disturbed the processor (an abort, a timeout or
a failing call sets `disturbed`), as delivery is at least once by design.

*AggregateRoot.* The properties compare an instance with what the record held at some
version. `Safe` keeps, per instance, that its baseline is the record at its persisted version
(`Stored`), that a key under the baseline's reference has the baseline's value (`Tracks`: dirty
tracking has no false negatives), and that only the cosmetic key differs while the version has not
moved. `MergedIs` then shows that the dirty keys, laid over a record at the version that was
loaded, are the whole state; the version check of the save is what makes it that record. That no two
versions were written over the same one follows from each being written over the one before it.

*EventSourcing.* Streams only grow, so everything the invariant says of a writer is said of a
prefix of its stream, and stays true when others append (`PutSafe`). Per stage of a load: while it
folds pages, the instance is a fold of the first `from` events and, where a head was pinned, `from` has not
passed it; a snapshot in its hands is intact only if it is the fold up to its version; a row that made
it fail is still in the stream. `ReplayOk` and `RestoreOk` take one page, or a snapshot and its tail, from such a prefix to
a longer one, or to a row to blame. That a stored event was decided on what it follows rests on the version
check of the append: pending events are numbered from the persisted version, and the stream must be as
long. `CountGrows` shows that the event counter of the store stays the sum over its streams; the sum is a fold
over a set, whose independence of the order of the elements is the lemmas `CountsExist` to `CountsAgree`.
One assumption says that the marker of rows of other programs is not the name of a writer.

*UnitOfWork*, in two layers. `Control` is about one run: what its control state lets an error be blamed
on, that an instance of `UnitOfWork` is active exactly while one run is on it, and that events
carry the run that recorded them, so that a run which has not committed has none in the outbox (`Fresh`). Types,
exclusion and the classification of errors follow. `Held` is about what a run is going to
write. The log of the first instance enrolled for an aggregate is the row it replaces, followed by its pending
events; a second one can only be a recreation after a deletion and continues the first
(`ChainOk`, `AtMostTwo`). A buffered row is written from the last token of its aggregate, and nothing
follows a deleting token (`WritesOk`), which is why a deletion is final. An instance that was not
enrolled yet reflects a prefix of the row, also if another run has committed since (`OthersKept`), so an accepted
save extends what is there. `HarvestStep` adds one token at a time: what is collected for an aggregate is what
its row gains, at versions above the row's, because the harvest guard refuses events on a version that did not
move; `DatabaseKept` carries that through the commit, whose row check makes the rows the ones the
transaction started from. That `EventsOf` distributes over appending (`EventsConcat`) takes
both. Nothing is consumed early or forgotten because each event an instance
reflects is its own pending one, committed, or pending in an enrolled instance (`ConsumedOk`), through
acknowledgement and publication.

*Lemmas.* `OrderedFilterProofs` says what filtering a sequence keeps, how it distributes
over appending and concatenation and that it agrees on sets that agree; `Only` is a recursive function, so that it can be reasoned
about. Its lemmas and those on the walk of a batch are inductions over positions of
a sequence, by `SetInduction`: a set of numbers that holds zero and successors is all of them.

Only model-checked:

- liveness (`EveryCallSettles`, `EveryEventSettles`, `Progress`, `RunsSettle`,
  `LoadsSettle`, `PublishSettles`): fairness and ENABLED are out of the prover's reach;
- the safety properties of `EventBus` and `DomainStateMachine`, which have no proofs yet;
- `ObjectGraphs`, `ValueObjects`: their walks are recursive operators, which the prover
  does not accept, and what they compute is an induction over graphs.

## 6. Plan

1. `EventBus`: nothing is called after an abort, and the order of the calls.
2. `DomainStateMachine`: `MachinesSound`, by an invariant over the stack of calls.
3. `Projection` as the sink of `OutboxDelivery`.

## 7. Not modelled

Command and query buses (a registry, a lookup and one call), integration messages,
domain events and specifications (construction of immutable data), money (pure
arithmetic on unbounded integers), error presentation and HTTP (formatting), the
contract suites (tests).

Within the modelled parts: exhaustion of the 2^53 token generations and clocks that run
backwards; a restart of the process, which loses the in-memory stores, as documented;
lengths of backoff delays and the failure streaks that set them; observers, except where
their failure could change an outcome; checkpoint rows of earlier releases; forged commit
tokens and arguments that are rejected with a RangeError; a snapshot of an instance with
unsaved changes; mutations of an aggregate after its save in the same unit; the
budget of visits `deepOmit` gives a path predicate; calls of a state machine that throw
before anything changed, which are no steps; `voWithValidation` and `toJSON`.
