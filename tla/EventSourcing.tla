--------------------------- MODULE EventSourcing ---------------------------
(***************************************************************************)
(* Event-sourced aggregates over InMemoryEventStore and                    *)
(* InMemorySnapshotStore: apply, replay, snapshot restore, optimistic      *)
(* append and the paged load with a pinned head.                           *)
(*                                                                         *)
(* Writers are processes of a rolling deployment: one of generation 2      *)
(* writes events and snapshots that one of generation 1 cannot read.  Each *)
(* holds at most one instance.  Its state is the sequence of the events    *)
(* folded into it, so that it can be compared with the stream.             *)
(***************************************************************************)
EXTENDS Naturals, Sequences, SequencesExt, FiniteSets, FiniteSetsExt, OrderedFilter

CONSTANTS Writers,
          Addresses,  \* (aggregateType, aggregateId)
          Setups      \* the deployments: see setup

None == "none"

ASSUME EventSourcingAssumption ==
    /\ None \notin Writers
    /\ \A s \in Setups :
          /\ DOMAIN s.generation \subseteq Writers /\ Range(s.generation) \subseteq 1..2
          /\ s.addresses \subseteq Addresses
          /\ {s.limit, s.maxStreams, s.maxEvents, s.maxEntries, s.ttl} \subseteq Nat \ {0}
          /\ {s.maxPending, s.maxTime, s.maxFaults} \subseteq Nat

Elsewhere == "elsewhere"    \* the address of some other aggregate

VARIABLES setup,     \* the deployment, chosen once
          streams,   \* address -> stored events, for the streams that exist
          total,     \* totalEvents
          snaps,     \* snapshot entries in Map order: least recently used first
          proc,      \* writer -> its load, its instance, its unsaved snapshot
          now, faults

vars == <<streams, total, snaps, proc, now, faults>>

Generation == setup.generation  \* running writer -> 1 or 2: its handlers and snapshotSchemaVersion
Limit == setup.limit            \* page size of a load
MaxStreams == setup.maxStreams  \* capacity of the event store,
MaxEvents == setup.maxEvents
MaxEntries == setup.maxEntries  \* retention of the snapshot store,
Ttl == setup.ttl
MaxPending == setup.maxPending  \* bound: events an instance carries
MaxTime == setup.maxTime        \* bound: the clock
MaxFaults == setup.maxFaults    \* bound: crashes, bad rows, damaged snapshots

Running == DOMAIN Generation

Fault == faults < MaxFaults /\ faults' = faults + 1

Stream(a) == IF a \in DOMAIN streams THEN streams[a] ELSE <<>>

-----------------------------------------------------------------------------
(* InMemoryEventStore *)

\* Mutant: a stale expectedVersion passes.
AheadOnly(a, expected) == expected > Len(Stream(a))

Conflicts(a, expected) == Len(Stream(a)) # expected

\* Mutant: the batch is not counted.
FullBefore(a, n) ==
    \/ a \notin DOMAIN streams /\ Cardinality(DOMAIN streams) >= MaxStreams
    \/ total >= MaxEvents

Full(a, n) ==
    \/ a \notin DOMAIN streams /\ Cardinality(DOMAIN streams) >= MaxStreams
    \/ total + n > MaxEvents

\* Mutant: an empty batch is appended like any other.
AdmittedEmpty(a, events, expected) == ~Conflicts(a, expected) /\ ~Full(a, Len(events))

Admitted(a, events, expected) ==
    events # <<>> /\ ~Conflicts(a, expected) /\ ~Full(a, Len(events))

\* A rejected append leaves no empty stream behind.
AppendEvents(a, events, expected) ==
    IF Admitted(a, events, expected)
    THEN /\ streams' = [b \in DOMAIN streams \cup {a} |->
                           IF b = a THEN Stream(a) \o events ELSE streams[b]]
         /\ total' = total + Len(events)
    ELSE UNCHANGED <<streams, total>>

\* Mutant: the position is taken for an index that the read includes.
PageShifted(a, from, to) == SubSeq(Stream(a), from + 2, Min({to, from + 1 + Limit, Len(Stream(a))}))

\* readStream: (from, to], capped by the limit; beyond the head clamps.
Page(a, from, to) == SubSeq(Stream(a), from + 1, Min({to, from + Limit, Len(Stream(a))}))

-----------------------------------------------------------------------------
(* InMemorySnapshotStore *)

OthersThan(a, live) == Only(live, {e \in Range(live) : e.addr # a})

EntryOf(a) == Only(snaps, {e \in Range(snaps) : e.addr = a})
Without(a) == OthersThan(a, snaps)
Expired(e) == now >= e.expires

\* Mutant: a read extends the life of the entry.
TouchedRenewing(e) == [e EXCEPT !.expires = now + Ttl]

\* A read makes the entry the most recent one and keeps its expiry.
Touched(e) == e

\* load: what it returns, as a set of at most one snapshot, and what it leaves.
SnapshotLoad(a) == IF EntryOf(a) = <<>> \/ Expired(EntryOf(a)[1]) THEN {} ELSE {EntryOf(a)[1]}

AfterLoad(a) ==
    IF SnapshotLoad(a) = {} THEN Without(a) ELSE Append(Without(a), Touched(EntryOf(a)[1]))

\* A replaced entry makes room for itself, a new one evicts the oldest.
Evicted(live, a) ==
    IF \E i \in DOMAIN live : live[i].addr = a THEN OthersThan(a, live)
    ELSE IF Len(live) >= MaxEntries THEN Tail(live) ELSE live

AfterSave(a, snapshot) ==
    Append(Evicted(Only(snaps, {e \in Range(snaps) : ~Expired(e)}), a),
           [addr |-> a, snapshot |-> snapshot, saved |-> now, expires |-> now + Ttl])

-----------------------------------------------------------------------------
(* EventSourcedAggregate *)

\* reconstitute(id), or a factory: nothing persisted yet.
Bare(a) == [addr |-> a, state |-> <<>>, version |-> 0, persisted |-> 0,
            stored |-> FALSE, pending |-> <<>>]

\* markRestored
Restored(agg, state, version) ==
    [agg EXCEPT !.state = state, !.version = version, !.persisted = version, !.stored = TRUE]

\* The internal acknowledgement of a commit.
Acknowledged(agg) ==
    [agg EXCEPT !.persisted = agg.version, !.stored = TRUE, !.pending = <<>>]

\* assertReplayedEventBelongsHere: events without an address pass.
Belongs(agg, e) == e.addr \in {None, agg.addr}

\* dispatch: a generation 1 writer has no handler for a generation 2 event.
HasHandler(w, e) == e.kind # "v2" \/ Generation[w] = 2

\* Replaying one event: "ok", a throw that propagates, or a DomainError.
Outcome(w, agg, e) ==
    IF ~Belongs(agg, e) \/ ~HasHandler(w, e) THEN "throw"
    ELSE IF e.kind = "poison" THEN "err" ELSE "ok"

Handled(w, agg, events) ==
    LET bad == {i \in DOMAIN events : Outcome(w, agg, events[i]) # "ok"}
    IN  IF bad = {} THEN "ok" ELSE Outcome(w, agg, events[Min(bad)])

\* The guards both replays run before anything moves.
Unreplayable(agg) == agg.pending # <<>> \/ (agg.version > 0 /\ ~agg.stored)

\* Mutant: the events before the failing one stay applied.
LoadFromHistoryPartial(w, agg, events) ==
    LET good == SelectInSeq(events, LAMBDA e : Outcome(w, agg, e) # "ok") - 1
    IN  IF Unreplayable(agg) THEN [res |-> "throw", agg |-> agg]
        ELSE IF events = <<>> THEN [res |-> "ok", agg |-> agg]
        ELSE IF Handled(w, agg, events) # "ok"
        THEN [res |-> Handled(w, agg, events),
              agg |-> [agg EXCEPT !.state = @ \o SubSeq(events, 1, good)]]
        ELSE [res |-> "ok", agg |-> Restored(agg, agg.state \o events, agg.version + Len(events))]

LoadFromHistory(w, agg, events) ==
    IF Unreplayable(agg) THEN [res |-> "throw", agg |-> agg]
    ELSE IF events = <<>> THEN [res |-> "ok", agg |-> agg]
    ELSE IF Handled(w, agg, events) # "ok" THEN [res |-> Handled(w, agg, events), agg |-> agg]
    ELSE [res |-> "ok", agg |-> Restored(agg, agg.state \o events, agg.version + Len(events))]

\* A snapshot that is not intact has a state no model could have produced.
\* resolveSnapshotState with the default migrateSnapshotState, then
\* validateRestoredState.
SnapshotOutcome(w, snapshot) ==
    IF snapshot.schema # Generation[w] THEN "mismatch"
    ELSE IF ~snapshot.intact THEN "err" ELSE "ok"

RestoreFromSnapshotWithEvents(w, agg, snapshot, events) ==
    IF agg.pending # <<>> THEN [res |-> "throw", agg |-> agg]
    ELSE IF SnapshotOutcome(w, snapshot) # "ok"
    THEN [res |-> SnapshotOutcome(w, snapshot), agg |-> agg]
    ELSE IF Handled(w, agg, events) # "ok" THEN [res |-> Handled(w, agg, events), agg |-> agg]
    ELSE [res |-> "ok",
          agg |-> Restored(agg, snapshot.state \o events, snapshot.version + Len(events))]

\* Mutant: the snapshot is labelled with the persisted version plus one.
SnapshotOfNext(w, agg) ==
    [state |-> agg.state, version |-> agg.version + 1, schema |-> Generation[w],
     intact |-> TRUE]

CreateSnapshot(w, agg) ==
    [state |-> agg.state, version |-> agg.version, schema |-> Generation[w],
     intact |-> TRUE]

\* Mutant: a foreign address is recorded as it is.
AcceptsAnyAddress(w, agg, input) == input.minted /\ input.valid /\ HasHandler(w, input)

\* assertMintedEvent, the address guard, validateEvent, the handler lookup.
Accepts(w, agg, input) ==
    input.minted /\ input.addr \in {None, agg.addr} /\ input.valid /\ HasHandler(w, input)

\* A missing address is stamped.
Stamped(w, agg, input) ==
    [kind |-> input.kind, by |-> w, base |-> agg.version,
     addr |-> IF input.addr = None THEN agg.addr ELSE input.addr]

\* apply: state, pending event and version move together, or not at all.
Apply(w, agg, input) ==
    LET e == Stamped(w, agg, input)
    IN  IF Accepts(w, agg, input)
        THEN [agg EXCEPT !.state = Append(@, e), !.pending = Append(@, e), !.version = @ + 1]
        ELSE agg

-----------------------------------------------------------------------------
(* Writers: the repository's findById and save *)

Fresh == [pc |-> "none", agg |-> Bare(None), from |-> 0, target |-> 0, pinned |-> FALSE,
          snap |-> {}, discard |-> FALSE, made |-> {}, age |-> 0, start |-> 0, res |-> None]

Loading(w) == proc[w].pc \in {"tail", "catchup", "fold", "discard"}

Set(w, p) == proc' = [proc EXCEPT ![w] = p]

\* The load is over: an instance, none, or an error that propagates.
Ended(p, res) ==
    [p EXCEPT !.pc = IF res = "failed" THEN "none"
                     ELSE IF p.discard THEN "discard"
                     ELSE IF res = "found" THEN "held" ELSE "none",
              !.agg = IF res = "found" THEN p.agg ELSE Bare(p.agg.addr),
              !.res = res, !.from = 0, !.target = 0, !.pinned = FALSE, !.snap = {}]

\* Mutant: the snapshot is tried again.
RetrySnapshot(p) == [p EXCEPT !.pc = "tail", !.agg = Bare(p.agg.addr)]

\* Mutant: without a usable snapshot there is no aggregate.
RefoldGivesUp(p) == Ended(p, "absent")

\* discardSnapshotAndRefold: replay from zero, then delete the snapshot.
Refold(p) == [p EXCEPT !.pc = "fold", !.agg = Bare(p.agg.addr), !.from = 0, !.target = 0,
                       !.pinned = FALSE, !.snap = {}, !.discard = TRUE]

Load(w, a) ==
    /\ proc[w].pc \in {"none", "held"}
    /\ Set(w, [Fresh EXCEPT
               !.pc = IF SnapshotLoad(a) = {} THEN "fold" ELSE "tail",
               !.agg = Bare(a), !.made = proc[w].made, !.start = Len(Stream(a)),
               !.snap = {e.snapshot : e \in SnapshotLoad(a)},
               !.age = IF SnapshotLoad(a) = {} THEN 0 ELSE now - EntryOf(a)[1].saved])
    /\ snaps' = AfterLoad(a)
    /\ UNCHANGED <<streams, total, now, faults>>

\* One page is folded in and the cursor advances past it.
Advanced(p, r, page, target) ==
    [p EXCEPT !.agg = r.agg, !.from = @ + Len(page), !.target = target, !.pinned = TRUE]

\* The first page pins the head.
Head0(p) == IF p.pinned THEN p.target ELSE Len(Stream(p.agg.addr))

FoldPage(w) ==
    LET p == proc[w]
        a == p.agg.addr
        target == Head0(p)
        page == Page(a, p.from, target)
        r == LoadFromHistory(w, p.agg, page)
    IN  /\ p.pc = "fold"
        /\ Set(w, IF a \notin DOMAIN streams THEN Ended(p, "absent")
                  ELSE IF p.from = target THEN Ended(p, "found")
                  ELSE IF page = <<>> \/ r.res # "ok" THEN Ended(p, "failed")
                  ELSE Advanced(p, r, page, target))
        /\ UNCHANGED <<streams, total, snaps, now, faults>>

\* The stream does not reach the snapshot, or the pinned head.
Behind(a, version) == a \notin DOMAIN streams \/ Len(Stream(a)) < version

\* Mutant: one page after the snapshot is taken for the whole tail.
TailOnePage(p, r, page, target) ==
    CASE r.res = "throw" -> Ended(p, "failed")
      [] r.res \in {"err", "mismatch"} -> Refold(p)
      [] OTHER -> Ended(Advanced(p, r, page, target), "found")

TailOutcome(p, r, page, target) ==
    CASE r.res = "throw" -> Ended(p, "failed")
      [] r.res \in {"err", "mismatch"} -> Refold(p)
      [] OTHER -> LET q == Advanced(p, r, page, target)
                  IN  IF q.from < target THEN [q EXCEPT !.pc = "catchup"] ELSE Ended(q, "found")

TailPage(w) ==
    LET p == [proc[w] EXCEPT !.from = (CHOOSE s \in proc[w].snap : TRUE).version]
        snapshot == CHOOSE s \in p.snap : TRUE
        a == p.agg.addr
        page == Page(a, p.from, Len(Stream(a)))
    IN  /\ proc[w].pc = "tail"
        /\ Set(w, IF Behind(a, snapshot.version) THEN Refold(p)
                  ELSE TailOutcome(p, RestoreFromSnapshotWithEvents(w, p.agg, snapshot, page),
                                   page, Len(Stream(a))))
        /\ UNCHANGED <<streams, total, snaps, now, faults>>

CatchUpPage(w) ==
    LET p == proc[w]
        a == p.agg.addr
        page == Page(a, p.from, p.target)
    IN  /\ p.pc = "catchup"
        /\ Set(w, IF Behind(a, p.target) \/ page = <<>> THEN Refold(p)
                  ELSE TailOutcome(p, LoadFromHistory(w, p.agg, page), page, p.target))
        /\ UNCHANGED <<streams, total, snaps, now, faults>>

Discard(w) ==
    /\ proc[w].pc = "discard"
    /\ snaps' = Without(proc[w].agg.addr)
    /\ Set(w, Ended([proc[w] EXCEPT !.discard = FALSE], proc[w].res))
    /\ UNCHANGED <<streams, total, now, faults>>

Create(w, a) ==
    /\ proc[w].pc = "none" /\ a \notin DOMAIN streams
    /\ Set(w, [Fresh EXCEPT !.pc = "held", !.agg = Bare(a), !.made = proc[w].made])
    /\ UNCHANGED <<streams, total, snaps, now, faults>>

Decide(w, input) ==
    /\ proc[w].pc = "held" /\ Len(proc[w].agg.pending) < MaxPending
    /\ Set(w, [proc[w] EXCEPT !.agg = Apply(w, @, input)])
    /\ UNCHANGED <<streams, total, snaps, now, faults>>

\* A held instance catches up on newer events, in place.
CatchUpHeld(w) ==
    LET agg == proc[w].agg
    IN  /\ proc[w].pc = "held"
        /\ Set(w, [proc[w] EXCEPT !.agg =
                      LoadFromHistory(w, agg, Page(agg.addr, agg.persisted, Len(Stream(agg.addr)))).agg])
        /\ UNCHANGED <<streams, total, snaps, now, faults>>

\* save: the append is the commit; a second save finds its own events there.
Save(w) ==
    LET agg == proc[w].agg
    IN  /\ proc[w].pc \in {"held", "appended"}
        /\ AppendEvents(agg.addr, agg.pending, agg.persisted)
        /\ Set(w, IF Admitted(agg.addr, agg.pending, agg.persisted)
                  THEN [proc[w] EXCEPT !.pc = "appended"] ELSE proc[w])
        /\ UNCHANGED <<snaps, now, faults>>

Acknowledge(w) ==
    /\ proc[w].pc = "appended"
    /\ Set(w, [proc[w] EXCEPT !.pc = "held", !.agg = Acknowledged(@)])
    /\ UNCHANGED <<streams, total, snaps, now, faults>>

\* The snapshot is made after the commit and stored some time later.
TakeSnapshot(w) ==
    LET agg == proc[w].agg
    IN  /\ proc[w].pc = "held" /\ agg.stored /\ agg.pending = <<>> /\ proc[w].made = {}
        /\ Set(w, [proc[w] EXCEPT !.made = {[addr |-> agg.addr, snapshot |-> CreateSnapshot(w, agg)]}])
        /\ UNCHANGED <<streams, total, snaps, now, faults>>

SaveSnapshot(w) ==
    /\ \E s \in proc[w].made : snaps' = AfterSave(s.addr, s.snapshot)
    /\ Set(w, [proc[w] EXCEPT !.made = {}])
    /\ UNCHANGED <<streams, total, now, faults>>

-----------------------------------------------------------------------------
(* The environment *)

\* The process of a writer dies.
Crash(w) ==
    /\ Fault /\ proc[w] # Fresh /\ Set(w, Fresh)
    /\ UNCHANGED <<streams, total, snaps, now>>

\* Another program appends: a row that fails to replay, a row of another
\* aggregate, or a row from before events had addresses.
Rogue(a, kind, addr) ==
    /\ Fault
    /\ AppendEvents(a, <<[kind |-> kind, by |-> None, base |-> 0, addr |-> addr]>>, Len(Stream(a)))
    /\ UNCHANGED <<snaps, proc, now>>

DamageSnapshot(i) ==
    /\ Fault
    /\ snaps' = [snaps EXCEPT ![i].snapshot.intact = FALSE]
    /\ UNCHANGED <<streams, total, proc, now>>

Tick ==
    /\ now < MaxTime /\ now' = now + 1
    /\ UNCHANGED <<streams, total, snaps, proc, faults>>

-----------------------------------------------------------------------------

\* Events handed to apply(), each with at most one thing wrong with it.
Inputs == [kind : {"v1", "v2"}, addr : Addresses \cup {None, Elsewhere},
           minted : {TRUE}, valid : {TRUE}]
          \cup {[kind |-> "v1", addr |-> None, minted |-> m, valid |-> ~m] : m \in BOOLEAN}

Init ==
    /\ setup \in Setups
    /\ streams = <<>> /\ total = 0 /\ snaps = <<>>
    /\ proc = [w \in Writers |-> Fresh]
    /\ now = 0 /\ faults = 0

LoadStep(w) == FoldPage(w) \/ TailPage(w) \/ CatchUpPage(w) \/ Discard(w)

Next ==
    /\ \/ \E w \in Running :
             \/ LoadStep(w) \/ CatchUpHeld(w) \/ Save(w) \/ Acknowledge(w)
             \/ TakeSnapshot(w) \/ SaveSnapshot(w) \/ Crash(w)
             \/ \E a \in setup.addresses : Load(w, a) \/ Create(w, a)
             \/ \E input \in Inputs : Decide(w, input)
       \/ \E a \in setup.addresses : \/ Rogue(a, "poison", None) \/ Rogue(a, "v1", Elsewhere)
                                     \/ Rogue(a, "v1", None)
       \/ \E i \in DOMAIN snaps : DamageSnapshot(i)
       \/ Tick
    /\ UNCHANGED setup

Spec == Init /\ [][Next]_<<vars, setup>>

\* A load waits for nothing but its store calls.
FairSpec == Spec /\ \A w \in Writers : WF_vars(LoadStep(w))

-----------------------------------------------------------------------------
(* Properties *)

Events == [kind : {"v1", "v2", "poison"}, by : Writers \cup {None}, base : Nat,
           addr : Addresses \cup {None, Elsewhere}]

Snapshots == [state : Seq(Events), version : Nat, schema : 1..2, intact : BOOLEAN]

Aggregates == [addr : Addresses \cup {None}, state : Seq(Events), version : Nat,
               persisted : Nat, stored : BOOLEAN, pending : Seq(Events)]

\* Type correctness of the stores and of what a writer holds.
TypeOK ==
    /\ DOMAIN streams \subseteq Addresses
    /\ \A a \in DOMAIN streams : streams[a] \in Seq(Events) \ {<<>>}
    /\ total \in Nat /\ now \in 0..MaxTime /\ faults \in 0..MaxFaults
    /\ snaps \in Seq([addr : Addresses, snapshot : Snapshots, saved : Nat, expires : Nat])
    /\ \A w \in Writers :
          /\ proc[w].pc \in {"none", "held", "appended", "tail", "catchup", "fold", "discard"}
          /\ proc[w].agg \in Aggregates
          /\ proc[w].snap \subseteq Snapshots
          /\ (proc[w].pc = "tail") => (proc[w].snap # {})
          /\ \A s \in proc[w].made : s.addr \in Addresses /\ s.snapshot \in Snapshots
          /\ proc[w].res \in {None, "found", "absent", "failed"}

\* What an aggregate holds is the stored prefix it was loaded from followed by
\* its pending events, at the version that counts them: after paged replays,
\* snapshot restores with a tail, failed replays, rejected events, conflicts
\* and acknowledgements, whatever others append meanwhile.
FaithfulState ==
    \A w \in Writers :
       LET agg == proc[w].agg
       IN  /\ agg.persisted <= Len(Stream(agg.addr))
           /\ agg.state = SubSeq(Stream(agg.addr), 1, agg.persisted) \o agg.pending
           /\ agg.version = agg.persisted + Len(agg.pending)

\* Every stored event was decided on exactly the history it follows: of two
\* writers with the same expectedVersion one is refused, and no event is
\* appended twice.
NoStaleDecision ==
    \A a \in DOMAIN streams : \A i \in DOMAIN streams[a] :
       streams[a][i].by \in Writers => streams[a][i].base = i - 1

\* A stored or travelling snapshot that was not damaged is the fold of the
\* stream up to its version, even when saves arrive late or out of order.
SnapshotsDerived ==
    LET True(a, s) == ~s.intact \/ (/\ s.version <= Len(Stream(a))
                                     /\ s.state = SubSeq(Stream(a), 1, s.version))
    IN  /\ \A i \in DOMAIN snaps : True(snaps[i].addr, snaps[i].snapshot)
        /\ \A w \in Writers : \A s \in proc[w].made : True(s.addr, s.snapshot)

\* A load returns nothing only if there was no stream when it began, and an
\* instance at least as new as the head was then: a stale, expired, damaged or
\* incompatible snapshot never hides events.
LoadsFresh ==
    \A w \in Writers :
       /\ (proc[w].pc = "none" /\ proc[w].res = "absent") => proc[w].start = 0
       /\ (proc[w].pc = "held" /\ proc[w].res = "found") => proc[w].agg.persisted >= proc[w].start

\* A load fails only over a row that another program wrote or that the
\* writer's generation does not know: what apply() let through replays.
FailuresExplained ==
    \A w \in Writers :
       proc[w].res = "failed" =>
          \E i \in DOMAIN Stream(proc[w].agg.addr) :
             LET e == Stream(proc[w].agg.addr)[i]
             IN  e.by = None \/ (e.kind = "v2" /\ Generation[w] = 1)

\* The stores stay within their capacity, the event counter agrees with the
\* streams, and a refused append leaves no empty stream.
WithinCapacity ==
    /\ total = FoldSet(LAMBDA a, n : n + Len(streams[a]), 0, DOMAIN streams)
    /\ total <= MaxEvents /\ Cardinality(DOMAIN streams) <= MaxStreams
    /\ Len(snaps) <= MaxEntries
    /\ \A i, j \in DOMAIN snaps : snaps[i].addr = snaps[j].addr => i = j

\* A snapshot is never used at an age of Ttl or more: reading it keeps it from
\* eviction but does not renew it.
NoExpiredSnapshot == \A w \in Writers : proc[w].age < Ttl

\* Every load ends, while others keep appending and saving snapshots.
LoadsSettle == \A w \in Writers : []<>(~Loading(w))

\* Types, and the capacities of both stores.
WellFormed == TypeOK /\ WithinCapacity

\* States in memory, snapshots and streams tell one history, and every event of
\* it was decided on the state before it.
StatesFaithful == FaithfulState /\ NoStaleDecision /\ SnapshotsDerived

\* A load returns what is current, uses no expired snapshot, and fails only for
\* a reason in the stream.
LoadsHonest == LoadsFresh /\ FailuresExplained /\ NoExpiredSnapshot
=============================================================================
