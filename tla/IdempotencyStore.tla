-------------------------- MODULE IdempotencyStore --------------------------
(***************************************************************************)
(* The leased, non-transactional idempotency store of the kit              *)
(* (InMemoryIdempotencyStore): one record per idempotency key, claimed     *)
(* under a store-minted token and a lease, staged when the execution       *)
(* completes and confirmed after its transaction committed.                *)
(*                                                                         *)
(* Time is abstracted to the only question the code asks of it.  Every     *)
(* method compares the clock with the record's expiresAtMs in the same     *)
(* sense, "now < expiresAtMs" or its negation, so a record carries the     *)
(* answer (term) and Expire ends the term at any moment: every clock that  *)
(* never runs back, every lease duration and heartbeat period is covered.  *)
(* expiresAtMs itself is needed only for its identity (reconcile compares  *)
(* it with the receipt's expiredAt), so it is a number, lease, that each    *)
(* extension makes new.                                                    *)
(***************************************************************************)
EXTENDS Naturals, FiniteSets

CONSTANTS Keys,           \* idempotency keys
          Fingerprints,   \* fingerprints of command contents
          NoFingerprint,  \* the fingerprint of a missing record
          MaxEntries      \* options.maxEntries

ASSUME StoreAssumption ==
    /\ NoFingerprint \notin Fingerprints
    /\ MaxEntries \in Nat \ {0}

VARIABLES entries,         \* the Map from key to record
          tokenGeneration  \* the counter that makes tokens unique

storeVars == <<entries, tokenGeneration>>

NoToken == 0

\* A record.  The outcome stored by complete() is named by the token of the
\* execution that produced it: what a caller gets back tells executions apart.
Entry == [status      : {"absent", "pending", "staged", "confirmed"},
          fingerprint : Fingerprints \cup {NoFingerprint},
          token       : Nat,
          lease       : Nat,
          term        : {"running", "over"},
          outcome     : Nat]

NoEntry == [status      |-> "absent",
            fingerprint |-> NoFingerprint,
            token       |-> NoToken,
            lease       |-> 0,
            term        |-> "running",
            outcome     |-> NoToken]

\* A record under a new lease (or, confirmed, under none).
Record(status, f, t, lease, outcome) ==
    [status |-> status, fingerprint |-> f, token |-> t,
     lease |-> lease, term |-> "running", outcome |-> outcome]

StoreInit ==
    /\ entries = [k \in Keys |-> NoEntry]
    /\ tokenGeneration = 0

-----------------------------------------------------------------------------
(* claim(key, fingerprint): the conditions of its six answers, which        *)
(* exclude each other, and createPending, the only one that changes state.  *)

HasRoom == Cardinality({k \in Keys : entries[k].status # "absent"}) < MaxEntries

CapacityExceeded(k) == entries[k].status = "absent" /\ ~HasRoom

KeyReuse(k, f) == entries[k].status # "absent" /\ entries[k].fingerprint # f

\* Mutant: a staged outcome is replayed before its transaction committed.
CompletedWhenStaged(k, f) == /\ entries[k].status \in {"staged", "confirmed"}
                             /\ entries[k].fingerprint = f

\* Mutant: a replay does not compare the fingerprints.
CompletedForAnyContent(k, f) == entries[k].status = "confirmed"

Completed(k, f) == entries[k].status = "confirmed" /\ entries[k].fingerprint = f

InFlight(k, f) == /\ entries[k].status \in {"pending", "staged"}
                  /\ entries[k].fingerprint = f
                  /\ entries[k].term = "running"

ReconciliationRequired(k, f) == /\ entries[k].status = "staged"
                                /\ entries[k].fingerprint = f
                                /\ entries[k].term = "over"

\* Mutant: an expired staged record is taken over like a pending one.
ClaimableWhenStaged(k, f) == \/ entries[k].status = "absent" /\ HasRoom
                             \/ /\ entries[k].status \in {"pending", "staged"}
                                /\ entries[k].fingerprint = f
                                /\ entries[k].term = "over"

\* Mutant: a new key is claimed in a full store.
ClaimableWhenFull(k, f) == \/ entries[k].status = "absent"
                           \/ /\ entries[k].status = "pending"
                              /\ entries[k].fingerprint = f
                              /\ entries[k].term = "over"

\* Mutant: the record of a dead owner is never taken over.
ClaimableWhenAbsent(k, f) == entries[k].status = "absent" /\ HasRoom

Claimable(k, f) == \/ entries[k].status = "absent" /\ HasRoom
                   \/ /\ entries[k].status = "pending"
                      /\ entries[k].fingerprint = f
                      /\ entries[k].term = "over"

CreatePending(k, f) ==
    /\ tokenGeneration' = tokenGeneration + 1
    /\ entries' = [entries EXCEPT ![k] =
                      Record("pending", f, tokenGeneration + 1, 0, NoToken)]

-----------------------------------------------------------------------------
(* complete(claim, outcome) *)

CompletionWithoutClaim(k) == entries[k].status = "absent"

\* Mutant: complete() does not compare the token.
CompletableByAnyone(k, t) == entries[k].status = "pending" /\ entries[k].term = "running"

Completable(k, t) == /\ entries[k].status = "pending"
                     /\ entries[k].token = t
                     /\ entries[k].term = "running"

Complete(k, t, outcome) ==
    entries' = [entries EXCEPT ![k] =
                   Record("staged", @.fingerprint, @.token, @.lease + 1, outcome)]

(* renew(claim) *)

Renewable(k, t) == /\ entries[k].status \in {"pending", "staged"}
                   /\ entries[k].token = t
                   /\ entries[k].term = "running"

Renew(k) ==
    entries' = [entries EXCEPT ![k] =
                   Record(@.status, @.fingerprint, @.token, @.lease + 1, @.outcome)]

(* confirm(claim): no expiry test; a missing or stale receipt is a no-op *)

Confirmed(k) ==
    [entries EXCEPT ![k] = Record("confirmed", @.fingerprint, @.token, 0, @.outcome)]

Confirm(k, t) ==
    entries' = IF entries[k].status = "staged" /\ entries[k].token = t
               THEN Confirmed(k)
               ELSE entries

(* abandon(claim): releases the caller's own unconfirmed record *)

\* Mutant: abandon() does not compare the token.
AbandonByAnyone(k, t) ==
    entries' = IF entries[k].status \in {"pending", "staged"}
               THEN [entries EXCEPT ![k] = NoEntry]
               ELSE entries

Abandon(k, t) ==
    entries' = IF entries[k].status \in {"pending", "staged"} /\ entries[k].token = t
               THEN [entries EXCEPT ![k] = NoEntry]
               ELSE entries

(* reconcile(receipt, decision): compare-and-set on the whole receipt *)

Reconcilable(k, f, t, lease) == /\ entries[k].status = "staged"
                                /\ entries[k].token = t
                                /\ entries[k].fingerprint = f
                                /\ entries[k].lease = lease
                                /\ entries[k].term = "over"

\* Mutant: the staged outcome is confirmed whatever was decided.
ReconcileConfirms(k, decision) == entries' = Confirmed(k)

Reconcile(k, decision) ==
    entries' = IF decision = "committed"
               THEN Confirmed(k)
               ELSE [entries EXCEPT ![k] = NoEntry]

(* The lease of a record runs out. *)

Expire(k) ==
    /\ entries[k].status \in {"pending", "staged"}
    /\ entries[k].term = "running"
    /\ entries' = [entries EXCEPT ![k].term = "over"]
    /\ UNCHANGED tokenGeneration
=============================================================================
