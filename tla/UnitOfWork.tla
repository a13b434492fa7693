----------------------------- MODULE UnitOfWork -----------------------------
(***************************************************************************)
(* UnitOfWork.run over withCommit and a RetryingTransactionScope: session, *)
(* identity map, commit tokens, harvest, acknowledgement and the           *)
(* classification of errors.                                               *)
(*                                                                         *)
(* The work callback is any sequence of loads, creations, mutations, saves *)
(* and deletions through repositories that follow the documented contract, *)
(* and may leave a save un-awaited that goes on after it has returned.     *)
(* The database is external: a transaction buffers its writes, and commits *)
(* unless a row it wrote was changed by another transaction.               *)
(*                                                                         *)
(* An aggregate carries the log of the events it reflects, so that a row   *)
(* and the outbox can be compared.                                         *)
(***************************************************************************)
EXTENDS Naturals, Sequences, SequencesExt, FiniteSets, OrderedFilter

CONSTANTS Runs,         \* calls of run()
          Units,        \* UnitOfWork instances
          Setups,       \* the situations: see setup
          Ids,          \* aggregates, by type and id
          MaxAttempts   \* RetryPolicy.maxAttempts

ASSUME UnitOfWorkAssumption ==
    /\ MaxAttempts \in Nat \ {0}
    /\ \A s \in Setups : /\ s.unit \in [Runs -> Units]
                         /\ {s.maxObjects, s.maxEvents, s.maxFaults} \subseteq Nat

None == "none"

VARIABLES setup,     \* the situation, chosen once
          rows,      \* id -> [v, log]: the committed row; v = 0 is no row
          outbox,    \* committed outbox entries, in order
          active,    \* unit -> _active
          run,       \* run -> the control state of run()
          session,   \* run -> the session of its current attempt
          objs,      \* run -> the aggregate instances of its current attempt
          tx,        \* run -> the buffered writes of its transaction
          bus,       \* events published in process
          faults     \* faults so far

vars == <<rows, outbox, active, run, session, objs, tx, bus, faults>>

Unit == setup.unit              \* run -> the instance it is called on
MaxObjects == setup.maxObjects  \* bound: instances per attempt
MaxEvents == setup.maxEvents    \* bound: events recorded per attempt
MaxFaults == setup.maxFaults    \* bound: failing calls and aborts

Objects == 1..MaxObjects

Fault == faults < MaxFaults /\ faults' = faults + 1

-----------------------------------------------------------------------------
(* Session and IdentityMap, fresh for every attempt *)

NewSession == [open |-> TRUE,                        \* ~_closed
               tokens |-> <<>>,                      \* _commitTokens, with dispositions
               map |-> [i \in Ids |-> 0],            \* type+id -> registered instance
               tombs |-> {},                         \* identity-map tombstones
               base |-> [o \in Objects |-> 0]]       \* _pendingAtRegistration

\* Mutant: the identity map survives.
ClosedOnly(s) == [s EXCEPT !.open = FALSE]

\* close(): the identity map is emptied with the session.
Closed(s) == [NewSession EXCEPT !.open = FALSE, !.tokens = s.tokens]

Disposition(s, o) == {t \in ToSet(s.tokens) : t.obj = o}
Enrolled(s, o) == Disposition(s, o) # {}
MarkedDeleted(s, o) == [obj |-> o, deleted |-> TRUE] \in ToSet(s.tokens)

\* Mutant: only the tombstone of the instance itself is looked at.
RefusesInstance(r, o) == MarkedDeleted(session[r], o)

\* enrollSaved: the instance or its type+id was deleted in this session.
RefusesDeleted(r, o) == MarkedDeleted(session[r], o) \/ objs[r][o].id \in session[r].tombs

\* Mutant: a save in flight may enroll after the session was sealed.
OpenUntilCommit(r) == run[r].pc \in {"work", "sealed", "harvested"}

\* assertOpen; the token scope closes when the work callback settles.
Open(r) == session[r].open /\ run[r].pc = "work"

\* One token per instance; a deletion overrides an earlier save.
EnrollSaved(r, o) ==
    session' = [session EXCEPT ![r].tokens =
                   IF Enrolled(session[r], o) THEN @ ELSE Append(@, [obj |-> o, deleted |-> FALSE])]

EnrollDeleted(r, o) ==
    LET token == [obj |-> o, deleted |-> TRUE]
        old == session[r].tokens
    IN  session' = [session EXCEPT
            ![r].tokens = IF Enrolled(session[r], o)
                          THEN [i \in DOMAIN old |-> IF old[i].obj = o THEN token ELSE old[i]]
                          ELSE Append(old, token),
            ![r].map[objs[r][o].id] = 0,
            ![r].tombs = @ \cup {objs[r][o].id}]

\* Mutant: no instance is checked.
ForgottenNever(r) == {}

\* assertAllChangesEnrolled: registered instances that recorded events since
\* they were loaded and were never enrolled.
Forgotten(r) ==
    {i \in Ids : LET o == session[r].map[i]
                 IN  /\ o # 0
                     /\ Len(objs[r][o].pending) > session[r].base[o]
                     /\ ~Enrolled(session[r], o)}

-----------------------------------------------------------------------------
(* Aggregates and repositories, as the work callback uses them *)

Object(id, row) == [id |-> id, version |-> row.v, persisted |-> row.v,
                    log |-> row.log, pending |-> <<>>, loaded |-> row.v > 0]

Visible(r, id) == IF id \in DOMAIN tx[r].rows THEN tx[r].rows[id] ELSE rows[id]

Working(r) == run[r].pc = "work" /\ session[r].open

NextEvent(r) == [run |-> r, attempt |-> run[r].attempt, n |-> run[r].events + 1]

\* findById: the registered instance, nothing after a deletion, or a new one.
Load(r, id) ==
    /\ Working(r)
    /\ session[r].map[id] = 0 /\ id \notin session[r].tombs
    /\ Visible(r, id).v > 0
    /\ Len(objs[r]) < MaxObjects
    /\ LET o == Len(objs[r]) + 1
       IN  /\ objs' = [objs EXCEPT ![r] = Append(@, Object(id, Visible(r, id)))]
           /\ session' = [session EXCEPT ![r].map[id] = o, ![r].base[o] = 0]
    /\ UNCHANGED <<rows, outbox, active, run, tx, bus, faults>>

\* A factory creates an instance and records its first event.  Ids are new,
\* or were deleted before in the same unit of work.
Create(r, id) ==
    /\ Working(r)
    /\ \/ Visible(r, id).log = <<>> /\ \A o \in DOMAIN objs[r] : objs[r][o].id # id
       \/ id \in session[r].tombs
    /\ Len(objs[r]) < MaxObjects /\ run[r].events < MaxEvents
    /\ LET e == NextEvent(r)
           new == Object(id, [v |-> 0, log |-> Visible(r, id).log])
       IN  objs' = [objs EXCEPT ![r] = Append(@,
                       [new EXCEPT !.version = 1, !.log = Append(@, e), !.pending = <<e>>])]
    /\ run' = [run EXCEPT ![r].events = @ + 1]
    /\ UNCHANGED <<rows, outbox, active, session, tx, bus, faults>>

\* commit(state, event) bumps the version, addDomainEvent alone does not.
Recorded(a, e, bump) ==
    [a EXCEPT !.version = IF bump THEN @ + 1 ELSE @, !.log = Append(@, e),
              !.pending = Append(@, e)]

\* Mutate first, save last: an enrolled instance is left alone.
Record(r, o, bump) ==
    /\ Working(r) /\ o \in DOMAIN objs[r] /\ ~Enrolled(session[r], o)
    /\ run[r].events < MaxEvents
    /\ objs' = [objs EXCEPT ![r][o] = Recorded(@, NextEvent(r), bump)]
    /\ run' = [run EXCEPT ![r].events = @ + 1]
    /\ UNCHANGED <<rows, outbox, active, session, tx, bus, faults>>

\* The row predicate of an INSERT or UPDATE: WHERE version = persistedVersion.
\* No other transaction's id is taken again, not even a deleted one.
RowMatches(r, o) ==
    LET i == objs[r][o].id
    IN  \/ Visible(r, i).v = objs[r][o].persisted /\ IsPrefix(Visible(r, i).log, objs[r][o].log)
        \/ i \in DOMAIN tx[r].rows /\ tx[r].rows[i].obj = o

Write(r, o, v) ==
    LET i == objs[r][o].id
        base == IF i \in DOMAIN tx[r].rows THEN tx[r].rows[i].base ELSE rows[i]
        row == [v |-> v, log |-> objs[r][o].log, obj |-> o, base |-> base]
    IN  tx' = [tx EXCEPT ![r].rows = [j \in DOMAIN @ \cup {i} |-> IF j = i THEN row ELSE @[j]]]

-----------------------------------------------------------------------------
(* RetryingTransactionScope.transactional, and what run() makes of its error *)

\* Errors a transaction may reject with.
Errors == {"conflict", "domain", "deleted", "unenrolled",  \* thrown by the work callback
           "harvest", "outbox",                            \* by withCommit
           "open", "serialization", "rollback", "aborted"} \* by the scope

Retryable(error) == error \in {"conflict", "serialization", "open"}

\* Mutant: a completed callback is not told from a failed one.
ClassifyAsWork(r, error) == IF run'[r].threw # None THEN run'[r].threw ELSE error

\* classifyRunError
Classify(r, error) ==
    IF run'[r].threw # None THEN IF error = run'[r].threw THEN error ELSE "RollbackError"
    ELSE IF run'[r].completed THEN IF error = "harvest" THEN error ELSE "CommitError"
    ELSE error

\* run()'s finally.
Settle(r, outcome) ==
    /\ run' = [run EXCEPT ![r].pc = "settled", ![r].outcome = outcome]
    /\ session' = [session EXCEPT ![r] = Closed(@)]
    /\ active' = [active EXCEPT ![Unit[r]] = FALSE]

\* The inner scope rejects: the writes are gone, retry or hand out the error.
ScopeRejects(r, error, threw) ==
    /\ tx' = [tx EXCEPT ![r] = [rows |-> <<>>, out |-> <<>>]]
    /\ run' = [run EXCEPT ![r].pc = IF Retryable(error) /\ run[r].attempt < MaxAttempts
                                    THEN "backoff" ELSE "failed",
                          ![r].error = error, ![r].threw = threw]
    /\ UNCHANGED <<rows, outbox, active, session, objs, bus>>

Fail(r, error) == ScopeRejects(r, error, run[r].threw)

\* The work callback throws; a failing rollback hides its error.
Throw(r, error) ==
    \/ ScopeRejects(r, error, error) /\ UNCHANGED faults
    \/ ScopeRejects(r, "rollback", error) /\ Fault

Reject(r) ==
    /\ run[r].pc = "failed"
    /\ \E outcome \in Errors \cup {"CommitError", "RollbackError"} :
         /\ Settle(r, outcome)
         /\ outcome = Classify(r, run[r].error)
    /\ UNCHANGED <<rows, outbox, objs, tx, bus, faults>>

\* Mutant: attempts are not counted.
WakeNever(r) ==
    /\ run[r].pc = "backoff"
    /\ run' = [run EXCEPT ![r].pc = "opening"]
    /\ UNCHANGED <<rows, outbox, active, session, objs, tx, bus, faults>>

\* After the backoff: the next attempt, unless the signal has fired.
Wake(r) ==
    /\ run[r].pc = "backoff"
    /\ run' = IF run[r].aborted
              THEN [run EXCEPT ![r].pc = "failed", ![r].error = "aborted"]
              ELSE [run EXCEPT ![r].pc = "opening", ![r].attempt = @ + 1]
    /\ UNCHANGED <<rows, outbox, active, session, objs, tx, bus, faults>>

-----------------------------------------------------------------------------
(* UnitOfWork.run *)

\* Mutant: a second run() of the instance is let in.
AdmitsAlways(r) == TRUE

Admits(r) == ~active[Unit[r]]

Start(r) ==
    /\ run[r].pc = "idle"
    /\ IF run[r].aborted \/ ~Admits(r)
       THEN /\ run' = [run EXCEPT ![r].pc = "settled",
                          ![r].outcome = IF run[r].aborted THEN "aborted" ELSE "nested"]
            /\ UNCHANGED active
       ELSE /\ run' = [run EXCEPT ![r].pc = "opening", ![r].attempt = 1]
            /\ active' = [active EXCEPT ![Unit[r]] = TRUE]
    /\ UNCHANGED <<rows, outbox, session, objs, tx, bus, faults>>

\* The scope invokes the callback: state of an earlier attempt is dropped.
OpenTransaction(r) ==
    /\ run[r].pc = "opening"
    /\ run' = [run EXCEPT ![r].pc = "work", ![r].completed = FALSE, ![r].threw = None,
                          ![r].events = 0]
    /\ session' = [session EXCEPT ![r] = NewSession]
    /\ objs' = [objs EXCEPT ![r] = <<>>]
    /\ UNCHANGED <<rows, outbox, active, tx, bus, faults>>

OpenFails(r) == run[r].pc = "opening" /\ Fault /\ Fail(r, "open")

\* save(): enroll, then write the row.  Un-awaited, it may come after the seal
\* and is then refused with TransactionClosedError before it writes.
Save(r, o) ==
    /\ run[r].pc \in {"work", "sealed", "harvested"} /\ o \in DOMAIN objs[r]
    /\ Open(r)
    /\ \/ /\ RefusesDeleted(r, o) /\ Throw(r, "deleted")
       \/ /\ ~RefusesDeleted(r, o) /\ ~RowMatches(r, o) /\ Throw(r, "conflict")
       \/ /\ ~RefusesDeleted(r, o) /\ RowMatches(r, o)
          /\ EnrollSaved(r, o) /\ Write(r, o, objs[r][o].version)
          /\ UNCHANGED <<rows, outbox, active, run, objs, bus, faults>>

\* delete(): enroll, then delete the row; once for each aggregate.
Delete(r, o) ==
    /\ Working(r) /\ o \in DOMAIN objs[r] /\ objs[r][o].id \notin session[r].tombs
    /\ IF RowMatches(r, o) /\ Visible(r, objs[r][o].id).v > 0
       THEN /\ EnrollDeleted(r, o) /\ Write(r, o, 0)
            /\ UNCHANGED <<rows, outbox, active, run, objs, bus, faults>>
       ELSE Throw(r, "conflict")

WorkThrows(r) == Working(r) /\ Throw(r, "domain")

\* The callback returns: forgotten saves are caught, the session is sealed.
WorkReturns(r) ==
    /\ Working(r)
    /\ IF Forgotten(r) # {} THEN Throw(r, "unenrolled")
       ELSE /\ run' = [run EXCEPT ![r].pc = "sealed", ![r].completed = TRUE]
            /\ session' = [session EXCEPT ![r] = Closed(@)]
            /\ UNCHANGED <<rows, outbox, active, objs, tx, bus, faults>>

Candidates(r, o) ==
    LET a == objs[r][o]
    IN  [k \in DOMAIN a.pending |-> [id |-> a.id, event |-> a.pending[k],
                                     version |-> a.version, seq |-> k]]

\* Mutant: events on an unmoved version are harvested.
CursorlessNever(r) == {}

\* The harvest guard: events on a persisted version that did not move.
Cursorless(r) ==
    {t \in ToSet(session[r].tokens) :
        LET a == objs[r][t.obj]
        IN  a.pending # <<>> /\ a.persisted > 0 /\ a.version <= a.persisted}

\* withCommit, still inside the transaction.
Harvest(r) ==
    /\ run[r].pc = "sealed"
    /\ IF Cursorless(r) # {} THEN Fail(r, "harvest") /\ UNCHANGED faults
       ELSE /\ tx' = [tx EXCEPT ![r].out =
                   FlattenSeq([i \in DOMAIN session[r].tokens |->
                                  Candidates(r, session[r].tokens[i].obj)])]
            /\ run' = [run EXCEPT ![r].pc = "harvested"]
            /\ UNCHANGED <<rows, outbox, active, session, objs, bus, faults>>

OutboxFails(r) == run[r].pc = "sealed" /\ Fault /\ Fail(r, "outbox")

\* The database commits unless another transaction changed a written row.
Commit(r) ==
    /\ run[r].pc = "harvested"
    /\ IF \A i \in DOMAIN tx[r].rows : tx[r].rows[i].base = rows[i]
       THEN /\ rows' = [i \in Ids |-> IF i \in DOMAIN tx[r].rows
                                      THEN [v |-> tx[r].rows[i].v, log |-> tx[r].rows[i].log]
                                      ELSE rows[i]]
            /\ outbox' = outbox \o tx[r].out
            /\ run' = [run EXCEPT ![r].pc = "committed"]
            /\ UNCHANGED <<active, session, objs, tx, bus, faults>>
       ELSE Fail(r, "serialization") /\ UNCHANGED faults

CommitFails(r) == run[r].pc = "harvested" /\ Fault /\ Fail(r, "serialization")

\* Mutant: acknowledged as soon as the outbox was written.
AcknowledgeEarly(r) == run[r].pc \in {"harvested", "committed"}

Acknowledges(r) == run[r].pc = "committed"

\* After the commit every enrolled instance is acknowledged, a deleted one
\* discards its events; one that cannot be (frozen) is reported and skipped.
Acknowledge(r, frozen) ==
    /\ Acknowledges(r) /\ ~run[r].acked
    /\ IF frozen = {} THEN UNCHANGED faults ELSE Fault
    /\ objs' = [objs EXCEPT ![r] = [o \in DOMAIN @ |->
           IF o \in frozen \/ ~Enrolled(session[r], o) THEN @[o]
           ELSE IF MarkedDeleted(session[r], o) THEN [@[o] EXCEPT !.pending = <<>>]
           ELSE [@[o] EXCEPT !.pending = <<>>, !.persisted = objs[r][o].version]]]
    /\ run' = [run EXCEPT ![r].acked = TRUE]
    /\ UNCHANGED <<rows, outbox, active, session, tx, bus>>

\* Mutant: a failing subscriber rejects run().
PublishRejecting(r) ==
    /\ run[r].pc = "committed" /\ run[r].acked
    /\ \/ /\ bus' = bus \cup {e.event : e \in ToSet(tx[r].out)} /\ UNCHANGED faults
          /\ Settle(r, "resolved")
       \/ UNCHANGED bus /\ Fault /\ Settle(r, "bus")
    /\ UNCHANGED <<rows, outbox, objs, tx>>

\* Observers and the bus come last; their failure is only reported.
Publish(r) ==
    /\ run[r].pc = "committed" /\ run[r].acked
    /\ \/ bus' = bus \cup {e.event : e \in ToSet(tx[r].out)} /\ UNCHANGED faults
       \/ UNCHANGED bus /\ Fault
    /\ Settle(r, "resolved")
    /\ UNCHANGED <<rows, outbox, objs, tx>>

Abort(r) ==
    /\ run[r].pc # "settled" /\ ~run[r].aborted
    /\ Fault
    /\ run' = [run EXCEPT ![r].aborted = TRUE]
    /\ UNCHANGED <<rows, outbox, active, session, objs, tx, bus>>

-----------------------------------------------------------------------------
Init ==
    /\ setup \in Setups
    /\ rows = [i \in Ids |-> [v |-> 0, log |-> <<>>]] /\ outbox = <<>>
    /\ active = [u \in Units |-> FALSE]
    /\ run = [r \in Runs |-> [pc |-> "idle", attempt |-> 0, aborted |-> FALSE, events |-> 0,
                              completed |-> FALSE, threw |-> None, error |-> None,
                              acked |-> FALSE, outcome |-> None]]
    /\ session = [r \in Runs |-> Closed(NewSession)]
    /\ objs = [r \in Runs |-> <<>>]
    /\ tx = [r \in Runs |-> [rows |-> <<>>, out |-> <<>>]]
    /\ bus = {} /\ faults = 0

\* What the work callback may do.
Work(r) ==
    \/ \E id \in Ids : Load(r, id) \/ Create(r, id)
    \/ \E o \in Objects : \/ \E bump \in BOOLEAN : Record(r, o, bump)
                          \/ Save(r, o) \/ Delete(r, o)
    \/ WorkThrows(r)

\* What run() does by itself.
Step(r) ==
    \/ Start(r) \/ OpenTransaction(r) \/ OpenFails(r) \/ WorkReturns(r)
    \/ Harvest(r) \/ OutboxFails(r) \/ Commit(r) \/ CommitFails(r)
    \/ \E frozen \in SUBSET DOMAIN objs[r] : Acknowledge(r, frozen)
    \/ Publish(r) \/ Wake(r) \/ Reject(r)

Next ==
    /\ \E r \in Runs : Work(r) \/ Step(r) \/ Abort(r)
    /\ UNCHANGED setup

Spec == Init /\ [][Next]_<<vars, setup>>

\* Every call a run waits for settles, and its callback returns or throws.
FairSpec == Spec /\ \A r \in Runs : WF_vars(Step(r))

-----------------------------------------------------------------------------
(* Properties *)

\* Control state, sessions and transactions are well formed: a session holds
\* registrations only while it is open, a transaction writes only while it runs.
TypeOK ==
    /\ \A i \in Ids : rows[i].v \in Nat
    /\ \A r \in Runs :
         /\ run[r].attempt \in 0..MaxAttempts /\ Len(objs[r]) <= MaxObjects
         /\ ~session[r].open => session[r].map = [i \in Ids |-> 0] /\ session[r].tombs = {}
         /\ DOMAIN tx[r].rows # {} => run[r].pc \in {"work", "sealed", "harvested", "committed",
                                                     "settled"}
         /\ \A i \in Ids : session[r].map[i] # 0 => objs[r][session[r].map[i]].id = i

EventsOf(id, entries) ==
    LET mine == Only(entries, {e \in ToSet(entries) : e.id = id})
    IN  [k \in DOMAIN mine |-> mine[k].event]

\* State and events agree: the events of an aggregate in the outbox are exactly
\* the ones its row reflects, in order, whatever attempts were retried, rolled
\* back, forgot a save or saved too late.
StateMatchesEvents == \A i \in Ids : rows[i].log = EventsOf(i, outbox)

\* No two eventful commits of an aggregate share a cursor.
CursorsUnique ==
    \A j, k \in DOMAIN outbox :
        j # k => <<outbox[j].id, outbox[j].version, outbox[j].seq>>
                 # <<outbox[k].id, outbox[k].version, outbox[k].seq>>

\* An instance drops its pending events, and the bus sees events, only once they
\* are committed: a rollback consumes nothing.
NothingConsumedEarly ==
    LET committed == {e.event : e \in ToSet(outbox)}
    IN  /\ bus \subseteq committed
        /\ \A r \in Runs : \A o \in DOMAIN objs[r] : \A e \in ToSet(objs[r][o].log) :
              e \in committed \/ \E p \in DOMAIN objs[r] : e \in ToSet(objs[r][p].pending)

\* A resolved run dropped no change: what was recorded on an aggregate it loaded
\* is committed, or run() would have thrown UnenrolledChangesError.
NoChangeForgotten ==
    \A r \in Runs : run[r].outcome = "resolved" =>
        \A o \in DOMAIN objs[r] :
            /\ objs[r][o].loaded
            /\ \A t \in ToSet(session[r].tokens) : t.deleted => objs[r][t.obj].id # objs[r][o].id
            => ToSet(objs[r][o].log) \subseteq {e.event : e \in ToSet(outbox)}

\* run() resolves exactly if its work was committed: a failing observer or bus
\* rejects nothing, and a rejected run left no event behind.
OutcomeTruthful ==
    \A r \in Runs : run[r].pc = "settled" =>
        \/ run[r].outcome = "resolved"
        \/ \A e \in ToSet(outbox) : e.event.run # r

\* Deleted is final: an id deleted in a session is gone once it has committed,
\* also if the callback created it again.
DeletedIsFinal ==
    [][\A r \in Runs : run[r].pc = "harvested" /\ run'[r].pc = "committed" =>
          \A t \in ToSet(session[r].tokens) :
              t.deleted => rows'[objs[r][t.obj].id].v = 0]_vars

\* One run() per instance at a time, and the instance is free again after it.
OneRunPerUnit ==
    \A u \in Units :
        LET running == {r \in Runs : Unit[r] = u /\ run[r].pc \notin {"idle", "settled"}}
        IN  /\ Cardinality(running) <= 1
            /\ active[u] = (running # {})

\* A failure after the callback completed is never blamed on the callback, and
\* an error of the callback is handed out unchanged or as a RollbackError.
ErrorsClassified ==
    \A r \in Runs : run[r].pc = "settled" =>
        /\ run[r].outcome \in {"conflict", "deleted", "unenrolled", "domain"} =>
              run[r].threw = run[r].outcome
        /\ run[r].outcome \in {"CommitError", "harvest"} =>
              run[r].completed /\ run[r].threw = None
        /\ run[r].outcome \notin {"rollback", "serialization", "outbox"}

\* Every run settles, through retries, aborts and failing calls.
RunsSettle == <>(\A r \in Runs : run[r].pc = "settled")

\* Types, and one run at a time on every instance.
WellFormed == TypeOK /\ OneRunPerUnit

\* The outbox holds exactly the events the rows reflect, at cursors of their
\* own, and nobody has consumed an event it does not hold.
OutboxExact == StateMatchesEvents /\ CursorsUnique /\ NothingConsumedEarly

\* What run() says is so: resolved means committed and complete, an error names
\* the step that failed.
OutcomesTruthful == OutcomeTruthful /\ NoChangeForgotten /\ ErrorsClassified
=============================================================================
