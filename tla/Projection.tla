----------------------------- MODULE Projection -----------------------------
(***************************************************************************)
(* Projector.project, reset and hasProcessed over a checkpoint store.      *)
(*                                                                         *)
(* Several projector instances are handed batches of a source's envelopes: *)
(* with repetitions, gaps, inversions, and envelopes that contradict what  *)
(* the source said before.  A call locks the checkpoint keys of its batch, *)
(* loads the checkpoints, proves the batch, applies it and saves.          *)
(*                                                                         *)
(* Durable: a database holds read model and checkpoints, writes appear     *)
(* when the transaction commits and it keeps the locks until then (the     *)
(* contract of the port).  Otherwise the store is the                      *)
(* InMemoryProjectionCheckpointStore under a passthrough scope: every      *)
(* write is final when made.                                               *)
(***************************************************************************)
EXTENDS Integers, Sequences, FiniteSets, SequencesExt, OrderedFilter

CONSTANTS Names,           \* projections
          Projectors,      \* instances, each a competing consumer
          LockOrder,       \* the addresses, in the order of their encoded keys
          Setups,          \* the deployments: see setup
          MaxCheckpoints,  \* options.maxCheckpoints of the in-memory store
          MaxApplied,      \* bound: applied events, in memory, when a call starts
          MaxFaults        \* bound: failing handlers, rollbacks, resets

VARIABLES setup,        \* the deployment, chosen once
          checkpoints,  \* key -> receipt [id, pos] of the last applied event
          readModel,    \* key -> the envelopes projection.apply took in, in order
          lockTails,    \* key -> instances that hold or wait for it
          call,         \* instance -> its project() call
          rebuild,      \* projection -> how far its last reset() came
          faults        \* faults so far

vars == <<checkpoints, readModel, lockTails, call, rebuild, faults>>

NameOf == setup.nameOf      \* running instance -> its projection
Source == setup.source      \* address -> the envelopes of its commit chain, in order
Rogue == setup.rogue        \* envelopes that break the source's contract
Durable == setup.durable    \* which store
MaxBatch == setup.maxBatch  \* bound: length of a batch
Running == DOMAIN NameOf

Addresses == Range(LockOrder)
Keys == Names \X Addresses

Genesis == -1   \* previousEventfulAggregateVersion: null

\* The envelopes a projector may be handed.  kind is what the handler map says
\* of the event's type: "handled", "ignored" or "missing".
Envelopes == (UNION {Range(Source[a]) : a \in Addresses}) \cup Rogue

Batches == UNION {[1..n -> Envelopes] : n \in 1..MaxBatch}

NoCheckpoint == [id |-> "none"]
Idle == [pc |-> "idle"]

Position == [version : Int, seq : Int, size : Int, previous : Int]

ASSUME ProjectionAssumption ==
    /\ \A s \in Setups :
          /\ DOMAIN s.nameOf \subseteq Projectors /\ Range(s.nameOf) \subseteq Names
          /\ DOMAIN s.source = Addresses
          /\ \A a \in Addresses : s.source[a] \in Seq(Range(s.source[a]))
          /\ \A e \in s.rogue : e.addr \in Addresses /\ e.pos \in Position
          /\ s.durable \in BOOLEAN /\ s.maxBatch \in Nat \ {0}
    /\ LockOrder \in Seq(Range(LockOrder))
    /\ \A i, j \in DOMAIN LockOrder : LockOrder[i] = LockOrder[j] => i = j
    /\ MaxCheckpoints \in Nat \ {0} /\ MaxApplied \in Nat /\ MaxFaults \in Nat

-----------------------------------------------------------------------------
(* Positions *)

IsPositionAfter(p, q) ==
    IF p.version # q.version THEN p.version > q.version ELSE p.seq > q.seq

IsValidPosition(p) ==
    /\ p.version >= 0 /\ p.seq >= 0 /\ p.size > p.seq
    /\ p.previous = Genesis \/ (p.previous >= 0 /\ p.previous < p.version)

IsSameOrderedPosition(p, q) == p.version = q.version /\ p.seq = q.seq

IsSamePositionReceipt(p, q) ==
    IsSameOrderedPosition(p, q) /\ p.size = q.size /\ p.previous = q.previous

\* Mutant: any later commit may follow.
IsLaterPosition(p, mark) ==
    IF mark = NoCheckpoint THEN p.seq = 0
    ELSE p.seq = 0 \/ (p.version = mark.pos.version /\ p.seq = mark.pos.seq + 1)

\* Mutant: the last event of a commit is out of range.
IsContiguousShort(p, mark) ==
    /\ p.seq < p.size - 1
    /\ mark = NoCheckpoint \/ p.seq = mark.pos.seq + 1 \/ p.seq = 0

\* The event that may follow a watermark (isContiguousPosition).
IsContiguousPosition(p, mark) ==
    /\ p.seq < p.size
    /\ IF mark = NoCheckpoint THEN p.seq = 0 /\ p.previous = Genesis
       ELSE \/ /\ p.version = mark.pos.version
               /\ p.previous = mark.pos.previous /\ p.size = mark.pos.size
               /\ p.seq = mark.pos.seq + 1
            \/ /\ p.version # mark.pos.version
               /\ mark.pos.seq = mark.pos.size - 1
               /\ p.seq = 0 /\ p.previous = mark.pos.version

-----------------------------------------------------------------------------
(* The proof of a batch, against the checkpoints loaded at its start *)

Traversed(e, marks) ==
    marks[e.addr] # NoCheckpoint /\ ~IsPositionAfter(e.pos, marks[e.addr].pos)

\* Two envelopes at one position that are not the same receipt.
Contradicts(id, p, e) ==
    IsSameOrderedPosition(p, e.pos) /\ (id # e.id \/ ~IsSamePositionReceipt(p, e.pos))

\* ProjectionIdentityViolationError or ProjectionReceiptViolationError.
Collision(batch, marks) ==
    \E j \in DOMAIN batch :
        \/ LET mark == marks[batch[j].addr]
           IN  mark # NoCheckpoint /\ Contradicts(mark.id, mark.pos, batch[j])
        \/ \E i \in 1..(j - 1) : /\ batch[i].addr = batch[j].addr
                                 /\ Contradicts(batch[i].id, batch[i].pos, batch[j])

\* ProjectionOrderViolationError: a position still unseen comes for the first
\* time after a later unseen one.
Inversion(batch, marks) ==
    \E j \in DOMAIN batch : \E i \in 1..(j - 1) :
        /\ batch[i].addr = batch[j].addr
        /\ ~Traversed(batch[i], marks) /\ ~Traversed(batch[j], marks)
        /\ IsPositionAfter(batch[i].pos, batch[j].pos)
        /\ \A h \in 1..(j - 1) : ~(/\ batch[h].addr = batch[j].addr
                                   /\ IsSameOrderedPosition(batch[h].pos, batch[j].pos))

Receipt(e) == [id |-> e.id, pos |-> e.pos]

\* One envelope: what was traversed is skipped, what does not follow is a gap.
WalkOn(w, e) ==
    IF w.gap \/ Traversed(e, w.marks) THEN w
    ELSE IF ~IsContiguousPosition(e.pos, w.marks[e.addr]) THEN [w EXCEPT !.gap = TRUE]
    ELSE [w EXCEPT !.marks[e.addr] = Receipt(e), !.apply = Append(@, e)]

\* The watermarks after the first n envelopes, what they apply, and whether the
\* chain failed to hold (ProjectionGapError), for each n.
WalkUpTo(batch, marks) ==
    LET W[n \in 0..Len(batch)] == IF n = 0 THEN [marks |-> marks, apply |-> <<>>, gap |-> FALSE]
                                  ELSE WalkOn(W[n - 1], batch[n])
    IN  W

Walk(batch, marks) == WalkUpTo(batch, marks)[Len(batch)]

AddressesOf(s) == {s[i].addr : i \in DOMAIN s}

\* The envelopes of one address, in order.
OfAddress(s, a) == Only(s, {e \in Range(s) : e.addr = a})

\* Where each address of a batch appears first.
FirstIndexes(s) ==
    Only([i \in DOMAIN s |-> i],
         {i \in DOMAIN s : \A j \in 1..(i - 1) : s[j].addr # s[i].addr})

\* The addresses of a batch in the order they first appear in: loads and saves.
FirstSeen(s) == [i \in DOMAIN FirstIndexes(s) |-> s[FirstIndexes(s)[i]].addr]

\* Mutant: the keys are taken in the order of the batch.
LockInBatchOrder(batch) == FirstSeen(batch)

\* The keys a call locks, in the one order all calls use.
LockSequence(batch) == Only(LockOrder, AddressesOf(batch))

-----------------------------------------------------------------------------
(* The feed's contract *)

\* From a genesis event on, each event is the next of its predecessor's commit
\* or the first of the next commit.
Unbroken(s) ==
    \A i \in DOMAIN s :
        IF i = 1 THEN s[1].pos.seq = 0 /\ s[1].pos.previous = Genesis
        ELSE LET x == s[i - 1].pos
                 y == s[i].pos
             IN  IF x.seq + 1 < x.size
                 THEN y = [x EXCEPT !.seq = @ + 1]
                 ELSE y.seq = 0 /\ y.previous = x.version /\ y.version > x.version

\* What an address's commits hand to the feed, one receipt to each position.
ASSUME SourceAssumption ==
    \A s \in Setups : \A a \in Addresses :
        /\ \A i \in DOMAIN s.source[a] :
              LET e == s.source[a][i]
              IN  /\ e.addr = a /\ e.stamp = a /\ e.id # ""
                  /\ e.pos \in Position /\ IsValidPosition(e.pos)
        /\ Unbroken(s.source[a])

-----------------------------------------------------------------------------
(* Checkpoint store *)

CheckpointInit == checkpoints = [k \in Keys |-> NoCheckpoint]

CheckpointCount == Cardinality({k \in Keys : checkpoints[k] # NoCheckpoint})

\* Mutant: the limit is compared after the fact.
SaveFitsLate(k) == Durable \/ checkpoints[k] # NoCheckpoint \/ CheckpointCount <= MaxCheckpoints

\* save rejects a new key beyond maxCheckpoints, before it changes anything.
SaveFits(k) == Durable \/ checkpoints[k] # NoCheckpoint \/ CheckpointCount < MaxCheckpoints

\* hasReached: the stored watermark is at or past a position.
HasReached(k, p) == checkpoints[k] # NoCheckpoint /\ ~IsPositionAfter(p, checkpoints[k].pos)

\* Mutant: a key whose checkpoint does not exist yet is not locked.
HoldsExisting(p, k) == checkpoints[k] = NoCheckpoint \/ Head(lockTails[k]) = p

Holds(p, k) == lockTails[k] # <<>> /\ Head(lockTails[k]) = p

Without(q, p) == Only(q, Projectors \ {p})

\* The finally block of withCheckpointLocks: every key of the call at once.
Release(p) == lockTails' = [k \in Keys |-> Without(lockTails[k], p)]

-----------------------------------------------------------------------------
(* Projector *)

Key(p, a) == <<NameOf[p], a>>

Fault == faults < MaxFaults /\ faults' = faults + 1

\* Mutant: the event's own address is not compared.
ProjectableUnstamped(e) == e.id # "" /\ IsValidPosition(e.pos)

\* A batch with any other envelope is rejected before a transaction opens: it
\* needs an eventId, a valid cursor, and no address that contradicts its source's.
Projectable(e) == e.id # "" /\ IsValidPosition(e.pos) /\ e.stamp = e.addr

\* project(events): the envelopes are validated, then the first key is queued for.
\* Consumers stay stopped while a reset of their projection runs.
Project(p, batch) ==
    /\ call[p] = Idle /\ rebuild[NameOf[p]] # "truncated"
    /\ \A i \in DOMAIN batch : /\ Projectable(batch[i])
                               /\ Durable \/ Len(readModel[Key(p, batch[i].addr)]) < MaxApplied
    /\ LET keys == LockSequence(batch)
       IN  /\ call' = [call EXCEPT ![p] = [pc |-> "locking", batch |-> batch,
                                           keys |-> keys, next |-> 1]]
           /\ lockTails' = [lockTails EXCEPT ![Key(p, keys[1])] = Append(@, p)]
    /\ UNCHANGED <<checkpoints, readModel, rebuild, faults>>

\* A key is granted to the head of its queue; the call queues for the next one.
Lock(p) ==
    /\ call[p].pc = "locking"
    /\ LET c == call[p]
       IN  /\ Holds(p, Key(p, c.keys[c.next]))
           /\ IF c.next < Len(c.keys)
              THEN /\ call' = [call EXCEPT ![p].next = @ + 1]
                   /\ lockTails' = [lockTails EXCEPT ![Key(p, c.keys[c.next + 1])]
                                                        = Append(@, p)]
              ELSE /\ call' = [call EXCEPT ![p] = [pc |-> "loading", batch |-> c.batch,
                                                   todo |-> FirstSeen(c.batch), marks |-> <<>>]]
                   /\ UNCHANGED lockTails
    /\ UNCHANGED <<checkpoints, readModel, rebuild, faults>>

AddMark(marks, a, c) == [b \in DOMAIN marks \cup {a} |-> IF b = a THEN c ELSE marks[b]]

\* One checkpoint is loaded per step.
Load(p) ==
    /\ call[p].pc = "loading" /\ call[p].todo # <<>>
    /\ LET addr == Head(call[p].todo)
       IN  call' = [call EXCEPT ![p].todo = Tail(@),
                                ![p].marks = AddMark(@, addr, checkpoints[Key(p, addr)])]
    /\ UNCHANGED <<checkpoints, readModel, lockTails, rebuild, faults>>

Settle(p) == Release(p) /\ call' = [call EXCEPT ![p] = Idle]

\* The batch cannot be proved: the call rejects before anything is applied.
Refuse(p) ==
    /\ call[p].pc = "loading" /\ call[p].todo = <<>>
    /\ LET c == call[p]
       IN  \/ Collision(c.batch, c.marks)
           \/ Inversion(c.batch, c.marks)
           \/ Walk(c.batch, c.marks).gap
    /\ Settle(p)
    /\ UNCHANGED <<checkpoints, readModel, rebuild, faults>>

Prove(p) ==
    /\ call[p].pc = "loading" /\ call[p].todo = <<>>
    /\ LET c == call[p]
           w == Walk(c.batch, c.marks)
       IN  /\ ~Collision(c.batch, c.marks) /\ ~Inversion(c.batch, c.marks) /\ ~w.gap
           /\ call' = [call EXCEPT ![p] = [pc |-> "applying", apply |-> w.apply, done |-> 0,
                                           save |-> FirstSeen(w.apply)]]
    /\ UNCHANGED <<checkpoints, readModel, lockTails, rebuild, faults>>

\* projection.apply of the next event: in a database the write waits for the commit.
Apply(p) ==
    /\ call[p].pc = "applying" /\ call[p].done < Len(call[p].apply)
    /\ LET e == call[p].apply[call[p].done + 1]
           k == Key(p, e.addr)
       IN  /\ e.kind # "missing"
           /\ readModel' = IF Durable THEN readModel
                           ELSE [readModel EXCEPT ![k] = Append(@, e)]
    /\ call' = [call EXCEPT ![p].done = @ + 1]
    /\ UNCHANGED <<checkpoints, lockTails, rebuild, faults>>

\* The handler throws, always where the handler map has no entry.
ApplyFails(p) ==
    /\ call[p].pc = "applying" /\ call[p].done < Len(call[p].apply)
    /\ IF call[p].apply[call[p].done + 1].kind = "missing" THEN UNCHANGED faults ELSE Fault
    /\ Settle(p)
    /\ UNCHANGED <<checkpoints, readModel, rebuild>>

\* The last envelope of an address is its new watermark.
Watermark(apply, a) == Receipt(Last(OfAddress(apply, a)))

Applied(p) == call[p].pc = "applying" /\ call[p].done = Len(call[p].apply)

\* Mutant: the checkpoint is saved before the event is applied.
SaveFirst(p) ==
    /\ call[p].pc = "applying" /\ call[p].save # <<>>
    /\ LET k == Key(p, Head(call[p].save))
       IN  /\ SaveFits(k)
           /\ checkpoints' = [checkpoints EXCEPT ![k] = Watermark(call[p].apply, k[2])]
    /\ call' = [call EXCEPT ![p].save = Tail(@)]
    /\ UNCHANGED <<readModel, lockTails, rebuild, faults>>

\* One checkpoint is saved per step, after every event was applied.
Save(p) ==
    /\ Applied(p) /\ call[p].save # <<>>
    /\ LET k == Key(p, Head(call[p].save))
       IN  /\ SaveFits(k)
           /\ checkpoints' = IF Durable THEN checkpoints
                             ELSE [checkpoints EXCEPT ![k] = Watermark(call[p].apply, k[2])]
    /\ call' = [call EXCEPT ![p].save = Tail(@)]
    /\ UNCHANGED <<readModel, lockTails, rebuild, faults>>

\* InMemoryCapacityExceededError.
SaveRejected(p) ==
    /\ Applied(p) /\ call[p].save # <<>>
    /\ ~SaveFits(Key(p, Head(call[p].save)))
    /\ Settle(p)
    /\ UNCHANGED <<checkpoints, readModel, rebuild, faults>>

Finished(p) == Applied(p) /\ call[p].save = <<>>

\* Mutant: the read model is committed without the checkpoints.
ResolveWithoutCheckpoints(p) ==
    /\ Finished(p)
    /\ readModel' = [k \in Keys |->
           IF Durable /\ k[1] = NameOf[p]
           THEN readModel[k] \o OfAddress(call[p].apply, k[2])
           ELSE readModel[k]]
    /\ Settle(p)
    /\ UNCHANGED <<checkpoints, rebuild, faults>>

\* The work is done and the transaction commits: update and checkpoint together.
Resolve(p) ==
    /\ Finished(p)
    /\ LET c == call[p]
       IN  /\ readModel' = [k \in Keys |->
                  IF Durable /\ k[1] = NameOf[p]
                  THEN readModel[k] \o OfAddress(c.apply, k[2])
                  ELSE readModel[k]]
           /\ checkpoints' = [k \in Keys |->
                  IF Durable /\ k[1] = NameOf[p] /\ k[2] \in AddressesOf(c.apply)
                  THEN Watermark(c.apply, k[2]) ELSE checkpoints[k]]
    /\ Settle(p)
    /\ UNCHANGED <<rebuild, faults>>

\* A database rolls back (conflict, abort, crash of the instance) at any await.
Rollback(p) ==
    /\ Durable /\ call[p] # Idle
    /\ Fault
    /\ Settle(p)
    /\ UNCHANGED <<checkpoints, readModel, rebuild>>

Stopped(n) == \A q \in Running : NameOf[q] = n => call[q] = Idle

Emptied(n) == [k \in Keys |-> IF k[1] = n THEN <<>> ELSE readModel[k]]

\* Mutant: reset looks for the checkpoints under a key that holds none.
ForgottenNothing(n) == checkpoints

\* checkpoints.reset
Forgotten(n) == [k \in Keys |-> IF k[1] = n THEN NoCheckpoint ELSE checkpoints[k]]

\* reset in a database: truncate and checkpoints.reset commit together.  The
\* consumers are stopped before, as the method demands.
Reset(p) ==
    /\ Durable /\ Fault
    /\ Stopped(NameOf[p])
    /\ readModel' = Emptied(NameOf[p])
    /\ checkpoints' = Forgotten(NameOf[p])
    /\ UNCHANGED <<lockTails, call, rebuild>>

\* reset in memory, first await: projection.truncate has emptied the read model.
\* A call after one that was cut short is the repair of that one.
Truncate(p) ==
    /\ ~Durable /\ Stopped(NameOf[p])
    /\ CASE rebuild[NameOf[p]] = "none" -> Fault
         [] rebuild[NameOf[p]] = "cut" -> UNCHANGED faults
         [] OTHER -> FALSE
    /\ readModel' = Emptied(NameOf[p])
    /\ rebuild' = [rebuild EXCEPT ![NameOf[p]] = "truncated"]
    /\ UNCHANGED <<checkpoints, lockTails, call>>

\* Second await: the checkpoints are forgotten too, and the call resolves.
ForgetCheckpoints(p) ==
    /\ rebuild[NameOf[p]] = "truncated" /\ Stopped(NameOf[p])
    /\ checkpoints' = Forgotten(NameOf[p])
    /\ rebuild' = [rebuild EXCEPT ![NameOf[p]] = "none"]
    /\ UNCHANGED <<readModel, lockTails, call, faults>>

\* Mutant: the rejection is swallowed, and the call resolves.
ResetCutUnnoticed(p) ==
    /\ rebuild[NameOf[p]] = "truncated" /\ Stopped(NameOf[p])
    /\ rebuild' = [rebuild EXCEPT ![NameOf[p]] = "none"]
    /\ UNCHANGED <<checkpoints, readModel, lockTails, call, faults>>

\* truncate rejects after it emptied the read model, or checkpoints.reset does:
\* nothing takes that back, and the consumers may be started again.
ResetCut(p) ==
    /\ rebuild[NameOf[p]] = "truncated" /\ Stopped(NameOf[p])
    /\ rebuild' = [rebuild EXCEPT ![NameOf[p]] = "cut"]
    /\ UNCHANGED <<checkpoints, readModel, lockTails, call, faults>>

-----------------------------------------------------------------------------
Init ==
    /\ setup \in Setups
    /\ CheckpointInit
    /\ readModel = [k \in Keys |-> <<>>]
    /\ lockTails = [k \in Keys |-> <<>>]
    /\ call = [p \in Projectors |-> Idle]
    /\ rebuild = [n \in Names |-> "none"]
    /\ faults = 0

Working(p) ==
    \/ Lock(p)
    \/ Load(p)
    \/ Refuse(p)
    \/ Prove(p)
    \/ Apply(p)
    \/ ApplyFails(p)
    \/ Save(p)
    \/ SaveRejected(p)
    \/ Resolve(p)

Consume(p) ==
    \/ \E batch \in Batches : Project(p, batch)
    \/ Working(p)
    \/ Rollback(p)

Rebuild(p) == Reset(p) \/ Truncate(p) \/ ForgetCheckpoints(p) \/ ResetCut(p)

Next ==
    /\ \E p \in Running : Consume(p) \/ Rebuild(p)
    /\ UNCHANGED setup

Spec == Init /\ [][Next]_<<vars, setup>>

\* The next event of an address, as an at-least-once feed redelivers it.
Redeliver(p, a) ==
    /\ p \in Running
    /\ \E i \in DOMAIN Source[a] :
        /\ Len(readModel[Key(p, a)]) = i - 1
        /\ Project(p, <<Source[a][i]>>)

\* Every call proceeds and the feed redelivers what has not been projected.
Fairness == \A p \in Projectors :
                /\ WF_vars(Working(p))
                /\ \A a \in Addresses : SF_vars(Redeliver(p, a))

FairSpec == Spec /\ Fairness

-----------------------------------------------------------------------------
(* Properties *)

\* Stores, lock queues and calls are well formed.
TypeOK ==
    /\ \A k \in Keys : /\ checkpoints[k] # NoCheckpoint => IsValidPosition(checkpoints[k].pos)
                       /\ \A i \in DOMAIN readModel[k] :
                              /\ readModel[k][i] \in Envelopes
                              /\ readModel[k][i].stamp = k[2] /\ readModel[k][i].addr = k[2]
                       /\ \A i, j \in DOMAIN lockTails[k] :
                              lockTails[k][i] = lockTails[k][j] => i = j
    /\ \A p \in Projectors : call[p].pc \in {"idle", "locking", "loading", "applying"}
    /\ \A n \in Names : rebuild[n] \in (IF Durable THEN {"none"} ELSE {"none", "truncated", "cut"})
    /\ faults \in 0..MaxFaults

\* Whatever is redelivered, lost, reordered or rolled back, and however many
\* instances compete, a projection has applied exactly a prefix of each
\* address's chain, each event once and in order, and its checkpoint is the
\* receipt of the last one (update and checkpoint commit atomically).
ExactPrefix ==
    Durable /\ Rogue = {} => \A k \in Keys :
        /\ IsPrefix(readModel[k], Source[k[2]])
        /\ checkpoints[k] = IF readModel[k] = <<>> THEN NoCheckpoint
                            ELSE Receipt(Last(readModel[k]))

\* Also with a source that changes its mind, two consecutive applied events are
\* consecutive in the chain of the receipts applied, the first is a genesis
\* event, and no position is applied under two identities.
ChainUnbroken ==
    Durable => \A k \in Keys :
        /\ Unbroken(readModel[k])
        /\ \A i, j \in DOMAIN readModel[k] : i # j =>
               ~IsSameOrderedPosition(readModel[k][i].pos, readModel[k][j].pos)

\* The projection's last reset() resolved, or there was none.
Intact(n) == rebuild[n] = "none"

\* hasProcessed answers true only when the read model holds every event of the
\* chain up to that position: a query that waited for its commit sees it.  In a
\* database always.  In memory, whose writes are not undone, except while
\* reset() is between its two awaits, or was cut there and not yet repeated: no
\* transaction spans them.  A repeated reset restores the promise.
ReachedMeansApplied ==
    Rogue = {} => \A k \in Keys : Intact(k[1]) => \A i \in DOMAIN Source[k[2]] :
        HasReached(k, Source[k[2]][i].pos)
        => \A j \in 1..i : Source[k[2]][j] \in Range(readModel[k])

Applies(p, a) == call[p].pc = "applying" /\ a \in AddressesOf(call[p].apply)

\* Competing instances never apply events of one address at the same time.
ExclusiveKeys ==
    \A p, q \in Running : \A a \in Addresses :
        NameOf[p] = NameOf[q] /\ Applies(p, a) /\ Applies(q, a) => p = q

\* maxCheckpoints holds for all projections together.
WithinCheckpoints == Durable \/ CheckpointCount <= MaxCheckpoints

\* Every project() call settles: calls that lock several keys never wait for
\* each other in a circle (the keys are taken in one order).
CallsSettle == \A p \in Projectors : []<>(call[p] = Idle)

\* Once faults cease, redelivery brings every event of a sound source into the
\* read model, and it stays there.
EventuallyProjected ==
    <>[](Durable /\ Rogue = {} =>
             \A k \in Keys : k[1] \in Range(NameOf) => readModel[k] = Source[k[2]])

\* Types, and the limit on checkpoints.
WellFormed == TypeOK /\ WithinCheckpoints

\* What a read model holds is what the source committed: for every source an
\* unbroken chain, for a sound one an exact prefix; one instance at a time.
AppliedExactly == ExactPrefix /\ ChainUnbroken /\ ExclusiveKeys

\* Calls end, and redelivery catches up.
Progress == CallsSettle /\ EventuallyProjected
=============================================================================
