--------------------------- MODULE AggregateRoot ---------------------------
(***************************************************************************)
(* State-stored aggregates: setState, commit, dirty tracking by reference, *)
(* restore, acknowledgement, and the partial write of a repository.        *)
(*                                                                         *)
(* Several instances of one aggregate are loaded from, and saved to, one   *)
(* stored record of a root row and three tables.  Its state has the        *)
(* keys                                                                    *)
(*   status  a root column, changed by commit() with an event,             *)
(*   items   a collection of child entities, changed by setState() through *)
(*           the helpers of entity.ts,                                     *)
(*   note    optional: present or absent, changed by setState(),           *)
(*   cache   cosmetic, set without a version bump.                         *)
(* A state holds each value under some reference: dirty tracking sees the  *)
(* references, storage sees the values.                                    *)
(***************************************************************************)
EXTENDS Naturals, Sequences, SequencesExt, FiniteSets

CONSTANTS Instances,
          Setups        \* the situations: see setup

ASSUME AggregateRootAssumption ==
    \A s \in Setups : /\ s.instances \subseteq Instances
                      /\ s.maxQuantity \in Nat \ {0} /\ s.maxVersion \in Nat \ {0}

Keys == {"status", "items", "note", "cache"}
Fixed == Keys \ {"note"}
DomainKeys == Keys \ {"cache"}
None == "none"

VARIABLES setup,    \* the situation, chosen once
          inst,     \* instance -> aggregate in memory
          row,      \* the stored record; version 0 is no record
          intents,  \* version -> [based, cols]: what the writer of it held
          backup    \* snapshots taken of the record

vars == <<inst, row, intents, backup>>

Ids == setup.ids                  \* ids of child entities
MaxQuantity == setup.maxQuantity  \* bound: quantity of a child entity; above is invalid
MaxVersion == setup.maxVersion    \* bound: versions of the record

-----------------------------------------------------------------------------
(* entity.ts *)

\* A cell is held under the reference of the baseline, or under another one.
Cell(fresh, val) == [fresh |-> fresh, val |-> val]

Entity(id, q) == [id |-> id, q |-> q]

HasEntityId(cell, id) == \E i \in DOMAIN cell.val : cell.val[i].id = id

\* A helper returns the array it was given unless an element was replaced.
Shared(cell, changed, mapped) == IF changed THEN Cell(TRUE, mapped) ELSE cell

\* Mutant: sharing is decided by the number of elements.
UpdateSharingByLength(cell, id, same, q) ==
    Cell(cell.fresh, [i \in DOMAIN cell.val |->
        IF cell.val[i].id = id /\ ~same THEN Entity(id, q) ELSE cell.val[i]])

\* The updater returns the entity itself, or a new object with quantity q.
UpdateEntityById(cell, id, same, q) ==
    Shared(cell, HasEntityId(cell, id) /\ ~same, [i \in DOMAIN cell.val |->
        IF cell.val[i].id = id THEN Entity(id, q) ELSE cell.val[i]])

RemoveEntityById(cell, id) ==
    Shared(cell, HasEntityId(cell, id), SelectSeq(cell.val, LAMBDA e : e.id # id))

AddEntity(cell, id) == Cell(TRUE, Append(cell.val, Entity(id, 1)))

\* The validator of the example: no quantity above the bound.
Valid(state) == \A i \in DOMAIN state["items"].val : state["items"].val[i].q <= MaxQuantity

-----------------------------------------------------------------------------
(* AggregateRoot *)

InitialState ==
    [k \in Fixed |-> Cell(TRUE, IF k = "items" THEN <<>> ELSE 0)]

Absent == [held |-> FALSE, state |-> InitialState, base |-> InitialState, based |-> FALSE,
           version |-> 0, persisted |-> 0, pending |-> 0, saved |-> FALSE]

\* Entity.setState: the validated object is the one that is stored.
EntitySetState(agg, state) == IF Valid(state) THEN [agg EXCEPT !.state = state] ELSE agg

\* Mutant: the validator runs after the assignment.
SetStateValidatingLate(agg, state) == [agg EXCEPT !.state = state, !.version = @ + 1]

\* setState bumps the version, but only if the validator let the state pass.
SetState(agg, state) ==
    IF Valid(state) THEN [EntitySetState(agg, state) EXCEPT !.version = @ + 1] ELSE agg

SetStateWithoutVersionBump(agg, state) == EntitySetState(agg, state)

\* Mutant: the state moves before the event is checked.
CommitMutateFirst(agg, state, minted) ==
    LET next == SetState(agg, state)
    IN  IF minted /\ Valid(state) THEN [next EXCEPT !.pending = @ + 1] ELSE next

\* commit: the event is checked before the state moves.
Commit(agg, state, minted) ==
    IF minted /\ Valid(state)
    THEN [SetState(agg, state) EXCEPT !.pending = @ + 1] ELSE agg

\* The state becomes the baseline: each reference is the one it holds.
AsBaseline(state) == [k \in DOMAIN state |-> Cell(FALSE, state[k].val)]

\* markRestored and acknowledge: both versions and the dirty-tracking baseline.
MarkRestored(agg, version) ==
    [agg EXCEPT !.version = version, !.persisted = version,
                !.state = AsBaseline(@), !.base = AsBaseline(agg.state), !.based = TRUE]

\* Mutant: only keys of the current state are compared.
DirtyIgnoringRemoval(base, state) ==
    {k \in DOMAIN state : k \notin DOMAIN base \/ state[k].fresh}

\* computeChangedKeys: presence or reference differs.
ComputeChangedKeys(base, state) ==
    {k \in DOMAIN state : k \notin DOMAIN base \/ state[k].fresh}
        \cup (DOMAIN base \ DOMAIN state)

ChangedKeys(agg) ==
    IF agg.based THEN ComputeChangedKeys(agg.base, agg.state) ELSE DOMAIN agg.state

\* Mutant: a bump without a changed key is overlooked.
HasChangesByKeys(agg) == ~agg.based \/ agg.pending > 0 \/ ChangedKeys(agg) # {}

HasChanges(agg) ==
    ~agg.based \/ agg.version # agg.persisted \/ agg.pending > 0 \/ ChangedKeys(agg) # {}

\* What storage keeps of a state, and a state read back from it.
Columns(state) == [k \in DOMAIN state |-> state[k].val]

DomainOf(cols) == [k \in DomainKeys \cap DOMAIN cols |-> cols[k]]

Hydrated(cols) == [k \in DOMAIN cols |-> Cell(TRUE, cols[k])]

\* restoreFromSnapshot: no pending events, and the validator runs again.
RestoreFromSnapshot(agg, s) ==
    IF agg.pending > 0 \/ ~Valid(Hydrated(s.cols)) THEN agg
    ELSE MarkRestored(EntitySetState(agg, Hydrated(s.cols)), s.version)

-----------------------------------------------------------------------------
(* Use by an application and its repository *)

Idle(i) == inst[i].held /\ ~inst[i].saved

Put(i, agg) == inst' = [inst EXCEPT ![i] = agg]

Create(i) ==
    /\ ~inst[i].held /\ row.version = 0
    /\ Put(i, Commit([Absent EXCEPT !.held = TRUE], InitialState, TRUE))
    /\ UNCHANGED <<row, intents, backup>>

\* reconstitute
Load(i) ==
    /\ ~inst[i].saved /\ row.version > 0
    /\ Put(i, MarkRestored([Absent EXCEPT !.held = TRUE, !.state = Hydrated(row.cols)], row.version))
    /\ UNCHANGED <<row, intents, backup>>

Advance(i, minted) ==
    /\ Idle(i) /\ inst[i].version < MaxVersion
    /\ Put(i, Commit(inst[i], [inst[i].state EXCEPT !["status"] = Cell(TRUE, @.val + 1)], minted))
    /\ UNCHANGED <<row, intents, backup>>

SetItems(i, cell) ==
    /\ Idle(i) /\ inst[i].version < MaxVersion
    /\ Put(i, SetState(inst[i], [inst[i].state EXCEPT !["items"] = cell]))
    /\ UNCHANGED <<row, intents, backup>>

ChangeItems(i, id) ==
    LET cell == inst[i].state["items"]
    IN  \/ ~HasEntityId(cell, id) /\ SetItems(i, AddEntity(cell, id))
        \/ SetItems(i, RemoveEntityById(cell, id))
        \/ SetItems(i, UpdateEntityById(cell, id, TRUE, 0))
        \/ \E q \in 1..MaxQuantity + 1 : SetItems(i, UpdateEntityById(cell, id, FALSE, q))

\* The optional key is added, or removed when it is there.
ToggleNote(i) ==
    LET s == inst[i].state
        t == IF "note" \in DOMAIN s THEN [k \in Fixed |-> s[k]]
             ELSE [k \in Keys |-> IF k = "note" THEN Cell(TRUE, 1) ELSE s[k]]
    IN  /\ Idle(i) /\ inst[i].version < MaxVersion
        /\ Put(i, SetState(inst[i], t))
        /\ UNCHANGED <<row, intents, backup>>

SetCache(i) ==
    /\ Idle(i)
    /\ Put(i, SetStateWithoutVersionBump(inst[i],
                 [inst[i].state EXCEPT !["cache"] = Cell(TRUE, 1 - @.val)]))
    /\ UNCHANGED <<row, intents, backup>>

\* The tables a save writes: the root row always, the others when dirty.
Written(agg, k) == k = "status" \/ k \in ChangedKeys(agg)

MergedColumns(agg) ==
    [k \in {k \in DOMAIN row.cols : ~Written(agg, k)} \cup {k \in DOMAIN agg.state : Written(agg, k)} |->
        IF Written(agg, k) THEN agg.state[k].val ELSE row.cols[k]]

\* Mutant: the higher version wins.
MayWriteNewer(agg) == IF agg.based THEN agg.version >= row.version ELSE row.version = 0

\* The insert finds no record, the update the version it was loaded at.
MayWrite(agg) == row.version = (IF agg.based THEN agg.persisted ELSE 0)

\* save: nothing to do, a conflict, or a write, in one transaction.  It is
\* enrolled in each case but the conflict, which rolls the transaction back.
Save(i) ==
    LET agg == inst[i]
        version == agg.version
    IN  /\ Idle(i)
        /\ IF ~HasChanges(agg) THEN UNCHANGED <<row, intents>>
           ELSE /\ MayWrite(agg)
                /\ row' = [version |-> version,
                           cols |-> IF agg.based THEN MergedColumns(agg) ELSE Columns(agg.state)]
                /\ intents' = IF version = row.version THEN intents
                              ELSE [v \in DOMAIN intents \cup {version} |->
                                       IF v = version
                                       THEN [based |-> agg.persisted, cols |-> DomainOf(Columns(agg.state))]
                                       ELSE intents[v]]
        /\ inst' = [inst EXCEPT ![i].saved = TRUE]
        /\ UNCHANGED backup

\* The post-commit acknowledgement of an enrolled instance.
Acknowledge(i) ==
    /\ inst[i].saved
    /\ Put(i, [MarkRestored(inst[i], inst[i].version) EXCEPT !.pending = 0, !.saved = FALSE])
    /\ UNCHANGED <<row, intents, backup>>

\* createSnapshot of an instance without unsaved changes.
Backup(i) ==
    /\ Idle(i) /\ ~HasChanges(inst[i]) /\ backup = <<>>
    /\ backup' = <<[version |-> inst[i].version, cols |-> Columns(inst[i].state)]>>
    /\ UNCHANGED <<inst, row, intents>>

Restore(i) ==
    /\ Idle(i) /\ backup # <<>>
    /\ Put(i, RestoreFromSnapshot(inst[i], backup[1]))
    /\ UNCHANGED <<row, intents, backup>>

Forget(i) ==
    /\ Idle(i) /\ Put(i, Absent)
    /\ UNCHANGED <<row, intents, backup>>

-----------------------------------------------------------------------------

Init ==
    /\ setup \in Setups
    /\ inst = [i \in Instances |-> Absent]
    /\ row = [version |-> 0, cols |-> Columns(InitialState)]
    /\ intents = <<>> /\ backup = <<>>

Next ==
    /\ \E i \in setup.instances :
          \/ Create(i) \/ Load(i) \/ ToggleNote(i) \/ SetCache(i) \/ Save(i) \/ Acknowledge(i)
          \/ Backup(i) \/ Restore(i) \/ Forget(i)
          \/ \E minted \in BOOLEAN : Advance(i, minted)
          \/ \E id \in Ids : ChangeItems(i, id)
    /\ UNCHANGED setup

Spec == Init /\ [][Next]_<<vars, setup>>

-----------------------------------------------------------------------------
(* Properties *)

\* Type correctness: a state has its domain keys and nothing invalid.
TypeOK ==
    /\ row.version \in 0..MaxVersion
    /\ \A i \in Instances :
          LET agg == inst[i]
          IN  /\ agg.held \in BOOLEAN /\ agg.based \in BOOLEAN /\ agg.saved \in BOOLEAN
              /\ agg.version \in 0..MaxVersion /\ agg.persisted \in 0..MaxVersion
              /\ agg.pending \in Nat
              /\ DOMAIN agg.state \in {Keys, Fixed} /\ DOMAIN agg.base \in {Keys, Fixed}
              /\ Valid(agg.state)

\* The record at each version is what the writer of that version held in
\* memory, although it wrote only the tables it took for dirty: dirty tracking
\* has no false negatives on domain state, across shared references, removed
\* keys, restores and rejected changes.
PartialWritesComplete ==
    row.version > 0 => DomainOf(row.cols) = intents[row.version].cols

\* An instance that reports no changes holds the domain state of the record at
\* its version, and its version is one the record really had: a save that is
\* skipped loses nothing.
CleanMeansStored ==
    \A i \in Instances :
       (inst[i].held /\ ~HasChanges(inst[i])) =>
          /\ inst[i].version \in DOMAIN intents
          /\ DomainOf(Columns(inst[i].state)) = intents[inst[i].version].cols

\* Every version was written over the version its writer had loaded, so no
\* change of another instance is overwritten unseen.
NoLostUpdate ==
    \A v, u \in DOMAIN intents : intents[v].based = intents[u].based => v = u

\* Pending events and state move together: as many events wait as the status
\* was advanced, and a creation counts for one.
EventsMatchState ==
    \A i \in Instances :
       (inst[i].held /\ ~inst[i].saved) =>
          inst[i].pending = IF inst[i].based
                            THEN inst[i].state["status"].val - inst[i].base["status"].val
                            ELSE inst[i].state["status"].val + 1

\* The row holds all that its writers meant to write, and nothing older.
UpdatesKept == NoLostUpdate /\ PartialWritesComplete

\* State, pending events, baseline and row move in step.
InStep == CleanMeansStored /\ EventsMatchState
=============================================================================
