-------------------------- MODULE IdempotentCommit --------------------------
(***************************************************************************)
(* withIdempotentCommit over the leased store: concurrent, redelivered and *)
(* crashing executions of commands that share idempotency keys.            *)
(*                                                                         *)
(* A worker is one execution of the call.  An action is one step between   *)
(* two awaits: the store calls, the reconciliation callback, the work, the *)
(* commit of the source transaction.  Of withCommit this module keeps what *)
(* decides the fate of the transaction: the work (with the harvest and the *)
(* outbox write that follow complete()) succeeds or throws, and the scope  *)
(* commits or fails.                                                       *)
(*                                                                         *)
(* The source of truth is external: the effects committed by the source    *)
(* transactions, each with the marker (key and claim token) that the port  *)
(* asks the work to persist, and the tokens the application has durably    *)
(* fenced so that a transaction still in flight cannot commit any more.    *)
(***************************************************************************)
EXTENDS IdempotencyStore

CONSTANTS Workers,
          MaxAttempts,   \* RetryPolicy.maxAttempts of the scope
          MaxRenewals,   \* bound on the lease extensions of one claim
          MaxFaults      \* bound on failures, crashes and premature expiries

ASSUME CommitAssumption ==
    /\ MaxAttempts \in Nat \ {0}
    /\ MaxRenewals \in Nat
    /\ MaxFaults \in Nat

VARIABLES request,    \* worker -> the key and fingerprint of its call
          pc,         \* worker -> the step it is at
          attempt,    \* worker -> the attempt of the retrying scope
          claim,      \* worker -> attempt.claim: the token it claimed under
          receipt,    \* worker -> the reconciliation receipt and its decision
          heartbeat,  \* worker -> attempt.heartbeat
          err,        \* worker -> the error that leaves its attempt
          reply,      \* worker -> the outcome its call returns
          effects,    \* source of truth: the committed effects
          fenced,     \* source of truth: tokens that can no longer commit
          faults      \* number of faults so far

workerVars == <<request, pc, attempt, claim, receipt, heartbeat, err, reply>>
sourceVars == <<effects, fenced>>
vars == <<storeVars, workerVars, sourceVars, faults>>

Requests == [key : Keys, fingerprint : Fingerprints]

Key(w) == request[w].key
Fp(w) == request[w].fingerprint

NoReceipt == [token |-> NoToken, lease |-> 0, decision |-> "none"]

Receipts == [token : Nat, lease : Nat,
             decision : {"none", "committed", "not-committed"}]

Steps == {"idle", "claim", "decide", "reconcile", "reclaim", "work", "staged",
          "committing", "confirm", "abandon", "rollback",
          "done", "failed", "crashed", "orphaned"}

\* The errors the code itself marks retryable, an error of the work or of the
\* commit that the classifier accepts (conflict), and the rest.
RetryableErrors == {"inFlight", "claimLost", "conflict"}
FatalErrors == {"keyReuse", "capacity", "reconciliationRequired",
                "withoutClaim", "failure"}
Errors == RetryableErrors \cup FatalErrors

Committed(t) == \E e \in effects : e.token = t

Init ==
    /\ StoreInit
    /\ request \in [Workers -> Requests]
    /\ pc = [w \in Workers |-> "idle"]
    /\ attempt = [w \in Workers |-> 0]
    /\ claim = [w \in Workers |-> NoToken]
    /\ receipt = [w \in Workers |-> NoReceipt]
    /\ heartbeat = [w \in Workers |-> "off"]
    /\ err = [w \in Workers |-> "none"]
    /\ reply = [w \in Workers |-> NoToken]
    /\ effects = {}
    /\ fenced = {}
    /\ faults = 0

-----------------------------------------------------------------------------
(* Steps of a worker.  Goto, Throw and Fault only abbreviate.               *)

Goto(w, step) == pc' = [pc EXCEPT ![w] = step]

\* Mutant: the heartbeat is stopped on the way to the commit only.
ThrowKeepsHeartbeat(w, e) ==
    /\ err' = [err EXCEPT ![w] = e]
    /\ UNCHANGED heartbeat
    /\ Goto(w, IF claim[w] = NoToken THEN "rollback" ELSE "abandon")

\* An error reaches the catch block of the decorated scope: the heartbeat is
\* stopped and, if the attempt holds a claim, the claim is abandoned before
\* the error leaves the transactional region.
Throw(w, e) ==
    /\ err' = [err EXCEPT ![w] = e]
    /\ heartbeat' = [heartbeat EXCEPT ![w] = "off"]
    /\ Goto(w, IF claim[w] = NoToken THEN "rollback" ELSE "abandon")

Fault == faults < MaxFaults /\ faults' = faults + 1

\* The next attempt of the retrying scope starts from a clean slate.
BeginAttempt(w, n) ==
    /\ Goto(w, "claim")
    /\ attempt' = [attempt EXCEPT ![w] = n]
    /\ claim' = [claim EXCEPT ![w] = NoToken]
    /\ receipt' = [receipt EXCEPT ![w] = NoReceipt]
    /\ err' = [err EXCEPT ![w] = "none"]
    /\ reply' = [reply EXCEPT ![w] = NoToken]

\* A delivery of the command: the first one, or a redelivery after the call
\* was rejected or its process died.
Start(w) ==
    /\ pc[w] \in {"idle", "failed", "crashed"}
    /\ BeginAttempt(w, 1)
    /\ UNCHANGED <<storeVars, request, heartbeat, sourceVars, faults>>

-----------------------------------------------------------------------------
(* store.claim() and its answers; the second claim follows a reconcile()    *)

ClaimStep(w) == pc[w] \in {"claim", "reclaim"}

ClaimFresh(w) ==
    /\ ClaimStep(w)
    /\ Claimable(Key(w), Fp(w))
    /\ CreatePending(Key(w), Fp(w))
    /\ claim' = [claim EXCEPT ![w] = tokenGeneration + 1]
    /\ heartbeat' = [heartbeat EXCEPT ![w] = "running"]
    /\ Goto(w, "work")
    /\ UNCHANGED <<request, attempt, receipt, err, reply, sourceVars, faults>>

\* A stored outcome: the callback returns it and no aggregate commits.
ClaimReplay(w) ==
    /\ ClaimStep(w)
    /\ Completed(Key(w), Fp(w))
    /\ reply' = [reply EXCEPT ![w] = entries[Key(w)].outcome]
    /\ Goto(w, "committing")
    /\ UNCHANGED <<storeVars, request, attempt, claim, receipt, heartbeat, err,
                   sourceVars, faults>>

\* claim() throws, or a second claim still needs reconciliation.
ClaimRejected(w) ==
    /\ ClaimStep(w)
    /\ \/ CapacityExceeded(Key(w)) /\ Throw(w, "capacity")
       \/ KeyReuse(Key(w), Fp(w)) /\ Throw(w, "keyReuse")
       \/ InFlight(Key(w), Fp(w)) /\ Throw(w, "inFlight")
       \/ /\ pc[w] = "reclaim"
          /\ ReconciliationRequired(Key(w), Fp(w))
          /\ Throw(w, "reconciliationRequired")
    /\ UNCHANGED <<storeVars, request, attempt, claim, receipt, reply,
                   sourceVars, faults>>

ClaimNeedsReconciliation(w) ==
    /\ pc[w] = "claim"
    /\ ReconciliationRequired(Key(w), Fp(w))
    /\ receipt' = [receipt EXCEPT ![w] = [token    |-> entries[Key(w)].token,
                                          lease    |-> entries[Key(w)].lease,
                                          decision |-> "none"]]
    /\ Goto(w, "decide")
    /\ UNCHANGED <<storeVars, request, attempt, claim, heartbeat, err, reply,
                   sourceVars, faults>>

-----------------------------------------------------------------------------
(* Reconciliation of an expired staged outcome *)

\* External: the application makes durable that the attempt named by a receipt
\* can no longer commit.  It cannot do so once the attempt has committed.
Fence(t) ==
    /\ \E w \in Workers : pc[w] = "decide" /\ receipt[w].token = t
    /\ ~Committed(t)
    /\ fenced' = fenced \cup {t}
    /\ t \notin fenced
    /\ UNCHANGED <<storeVars, workerVars, effects, faults>>

\* External: what reconcileIdempotency may say, by the rules of the port.
Evidence(t) == (IF Committed(t) THEN {"committed"} ELSE {})
               \cup (IF t \in fenced THEN {"not-committed"} ELSE {})

Decide(w) ==
    /\ pc[w] = "decide"
    /\ \E d \in Evidence(receipt[w].token) :
          receipt' = [receipt EXCEPT ![w].decision = d]
    /\ Goto(w, "reconcile")
    /\ UNCHANGED <<storeVars, request, attempt, claim, heartbeat, err, reply,
                   sourceVars, faults>>

\* No callback is configured, or it answers "unknown".
DecideUnknown(w) ==
    /\ pc[w] = "decide"
    /\ Throw(w, "reconciliationRequired")
    /\ receipt' = [receipt EXCEPT ![w] = NoReceipt]
    /\ UNCHANGED <<storeVars, request, attempt, claim, reply, sourceVars, faults>>

ReconcileStep(w) ==
    /\ pc[w] = "reconcile"
    /\ IF Reconcilable(Key(w), Fp(w), receipt[w].token, receipt[w].lease)
       THEN /\ Reconcile(Key(w), receipt[w].decision)
            /\ Goto(w, "reclaim")
            /\ UNCHANGED <<heartbeat, err>>
       ELSE /\ Throw(w, "claimLost")
            /\ UNCHANGED entries
    /\ receipt' = [receipt EXCEPT ![w] = NoReceipt]
    /\ UNCHANGED <<tokenGeneration, request, attempt, claim, reply,
                   sourceVars, faults>>

-----------------------------------------------------------------------------
(* The lease heartbeat, running beside the work until it is stopped *)

HeartbeatRenews(w) ==
    /\ heartbeat[w] = "running"
    /\ entries[Key(w)].lease < MaxRenewals
    /\ Renewable(Key(w), claim[w])
    /\ Renew(Key(w))
    /\ UNCHANGED <<tokenGeneration, workerVars, sourceVars, faults>>

\* renew() throws IdempotencyClaimLostError: the failure is kept and no
\* further renewal is scheduled.
HeartbeatLosesClaim(w) ==
    /\ heartbeat[w] = "running"
    /\ ~Renewable(Key(w), claim[w])
    /\ heartbeat' = [heartbeat EXCEPT ![w] = "lost"]
    /\ UNCHANGED <<storeVars, request, pc, attempt, claim, receipt, err, reply,
                   sourceVars, faults>>

\* The store cannot be reached, or answers without a valid lease.
HeartbeatFails(w) ==
    /\ heartbeat[w] = "running"
    /\ Fault
    /\ heartbeat' = [heartbeat EXCEPT ![w] = "failed"]
    /\ UNCHANGED <<storeVars, request, pc, attempt, claim, receipt, err, reply,
                   sourceVars>>

-----------------------------------------------------------------------------
(* The transactional callback: work, complete(), harvest and outbox write *)

\* The work, or after complete() the harvest or the outbox write, throws.
WorkFails(w) ==
    /\ pc[w] \in {"work", "staged"}
    /\ Fault
    /\ \E e \in {"conflict", "failure"} : Throw(w, e)
    /\ UNCHANGED <<storeVars, request, attempt, claim, receipt, reply, sourceVars>>

\* The work has returned: store.complete() stages the outcome or throws.
CompleteStep(w) ==
    /\ pc[w] = "work"
    /\ \/ /\ Completable(Key(w), claim[w])
          /\ Complete(Key(w), claim[w], claim[w])
          /\ Goto(w, "staged")
          /\ UNCHANGED <<heartbeat, err>>
       \/ /\ CompletionWithoutClaim(Key(w))
          /\ Throw(w, "withoutClaim")
          /\ UNCHANGED entries
       \/ /\ ~CompletionWithoutClaim(Key(w))
          /\ ~Completable(Key(w), claim[w])
          /\ Throw(w, "claimLost")
          /\ UNCHANGED entries
    /\ UNCHANGED <<tokenGeneration, request, attempt, claim, receipt, reply,
                   sourceVars, faults>>

\* The callback is about to resolve: the heartbeat is stopped, and its failure
\* rejects the attempt before the commit.
StopHeartbeat(w) ==
    /\ pc[w] = "staged"
    /\ IF heartbeat[w] = "running"
       THEN /\ heartbeat' = [heartbeat EXCEPT ![w] = "off"]
            /\ Goto(w, "committing")
            /\ UNCHANGED err
       ELSE Throw(w, IF heartbeat[w] = "lost" THEN "claimLost" ELSE "failure")
    /\ UNCHANGED <<storeVars, request, attempt, claim, receipt, reply,
                   sourceVars, faults>>

\* Best-effort release of the claim on the way out; a failing abandon() is
\* only reported.
AbandonStep(w) ==
    /\ pc[w] = "abandon"
    /\ \/ Abandon(Key(w), claim[w]) /\ UNCHANGED faults
       \/ Fault /\ UNCHANGED entries
    /\ claim' = [claim EXCEPT ![w] = NoToken]
    /\ Goto(w, "rollback")
    /\ UNCHANGED <<tokenGeneration, request, attempt, receipt, heartbeat, err,
                   reply, sourceVars>>

-----------------------------------------------------------------------------
(* The commit of the source transaction, and what follows *)

EffectOf(w) == [key |-> Key(w), fingerprint |-> Fp(w), token |-> claim[w]]

\* External: the database makes the writes and the marker of an attempt
\* durable, unless the token has been fenced.  A replay has nothing to commit.
SourceCommit(w) ==
    IF claim[w] = NoToken
    THEN UNCHANGED effects
    ELSE claim[w] \notin fenced /\ effects' = effects \cup {EffectOf(w)}

Commit(w) ==
    /\ pc[w] = "committing"
    /\ SourceCommit(w)
    /\ Goto(w, IF claim[w] = NoToken THEN "done" ELSE "confirm")
    /\ UNCHANGED <<storeVars, request, attempt, claim, receipt, heartbeat, err,
                   reply, fenced, faults>>

\* The scope rejects although the callback resolved.  This is outside the
\* decorated callback: nothing abandons the staged record.
CommitRejected(w, e) ==
    /\ err' = [err EXCEPT ![w] = e]
    /\ Goto(w, "rollback")
    /\ UNCHANGED <<storeVars, request, attempt, claim, receipt, heartbeat,
                   reply, fenced>>

CommitFails(w) ==
    /\ pc[w] = "committing"
    /\ \/ claim[w] \in fenced /\ UNCHANGED faults
       \/ Fault
    /\ \E e \in {"conflict", "failure"} : CommitRejected(w, e)
    /\ UNCHANGED effects

\* The transaction committed, but the answer was lost.
CommitAnswerLost(w) ==
    /\ pc[w] = "committing"
    /\ claim[w] # NoToken
    /\ Fault
    /\ SourceCommit(w)
    /\ \E e \in {"conflict", "failure"} : CommitRejected(w, e)

\* Mutant: the attempts are counted from zero.
RetryOnceMore(w) ==
    /\ pc[w] = "rollback"
    /\ IF err[w] \in RetryableErrors /\ attempt[w] <= MaxAttempts
       THEN BeginAttempt(w, attempt[w] + 1)
       ELSE /\ Goto(w, "failed")
            /\ UNCHANGED <<attempt, claim, receipt, err, reply>>
    /\ UNCHANGED <<storeVars, request, heartbeat, sourceVars, faults>>

\* RetryingTransactionScope: another attempt, or the error surfaces.
RetryOrReject(w) ==
    /\ pc[w] = "rollback"
    /\ IF err[w] \in RetryableErrors /\ attempt[w] < MaxAttempts
       THEN BeginAttempt(w, attempt[w] + 1)
       ELSE /\ Goto(w, "failed")
            /\ UNCHANGED <<attempt, claim, receipt, err, reply>>
    /\ UNCHANGED <<storeVars, request, heartbeat, sourceVars, faults>>

\* Post-commit confirm; a failing confirm() is only reported.
ConfirmStep(w) ==
    /\ pc[w] = "confirm"
    /\ \/ Confirm(Key(w), claim[w]) /\ UNCHANGED faults
       \/ Fault /\ UNCHANGED entries
    /\ reply' = [reply EXCEPT ![w] = claim[w]]
    /\ Goto(w, "done")
    /\ UNCHANGED <<tokenGeneration, request, attempt, claim, receipt, heartbeat,
                   err, sourceVars>>

-----------------------------------------------------------------------------
(* Crashes and time *)

\* The process of a worker dies.  A commit it has asked for may still happen.
Crash(w) ==
    /\ pc[w] \notin {"idle", "done", "failed", "crashed", "orphaned"}
    /\ Fault
    /\ Goto(w, IF pc[w] = "committing" THEN "orphaned" ELSE "crashed")
    /\ heartbeat' = [heartbeat EXCEPT ![w] = "off"]
    /\ UNCHANGED <<storeVars, request, attempt, claim, receipt, err, reply, sourceVars>>

\* The database decides the transaction of a dead process.
OrphanSettles(w) ==
    /\ pc[w] = "orphaned"
    /\ SourceCommit(w) \/ UNCHANGED effects
    /\ Goto(w, "crashed")
    /\ UNCHANGED <<storeVars, request, attempt, claim, receipt, heartbeat, err,
                   reply, fenced, faults>>

\* Somebody still works under the lease of a record.
OwnerActive(k) ==
    \E w \in Workers : /\ Key(w) = k
                       /\ claim[w] = entries[k].token
                       /\ pc[w] \in {"work", "staged", "committing", "confirm", "abandon"}

\* A lease runs out.  Under an active owner that takes a stall of the owner
\* or of its commit, and counts as a fault.
LeaseExpires(k) ==
    /\ Expire(k)
    /\ IF OwnerActive(k) THEN Fault ELSE UNCHANGED faults
    /\ UNCHANGED <<workerVars, sourceVars>>

-----------------------------------------------------------------------------
CallStep(w) ==
    \/ ClaimFresh(w) \/ ClaimReplay(w) \/ ClaimRejected(w)
    \/ ClaimNeedsReconciliation(w) \/ DecideUnknown(w) \/ ReconcileStep(w)
    \/ WorkFails(w) \/ CompleteStep(w) \/ StopHeartbeat(w) \/ AbandonStep(w)
    \/ Commit(w) \/ CommitFails(w) \/ CommitAnswerLost(w) \/ RetryOrReject(w)
    \/ ConfirmStep(w) \/ OrphanSettles(w)

HeartbeatStep(w) == HeartbeatRenews(w) \/ HeartbeatLosesClaim(w) \/ HeartbeatFails(w)

Next ==
    \/ \E w \in Workers : Start(w) \/ CallStep(w) \/ Decide(w) \/ HeartbeatStep(w)
                          \/ Crash(w)
    \/ \E k \in Keys : LeaseExpires(k)
    \/ \E t \in 1..tokenGeneration : Fence(t)

Spec == Init /\ [][Next]_vars

\* The event loop and the database run every worker's next step; a rejected
\* or crashed delivery is redelivered; leases run out; and a worker that asks
\* for evidence again and again is answered: the application fences the
\* attempt or finds its marker.
Fairness ==
    /\ \A w \in Workers : /\ WF_vars(Start(w))
                          /\ WF_vars(CallStep(w))
                          /\ SF_vars(Decide(w))
    /\ \A k \in Keys : WF_vars(LeaseExpires(k))
    /\ SF_vars(\E t \in 1..tokenGeneration : Fence(t))

FairSpec == Spec /\ Fairness

-----------------------------------------------------------------------------
(* Properties *)

\* Every variable has its type.
TypeOK ==
    /\ entries \in [Keys -> Entry]
    /\ tokenGeneration \in Nat
    /\ request \in [Workers -> Requests]
    /\ pc \in [Workers -> Steps]
    /\ attempt \in [Workers -> Nat]
    /\ claim \in [Workers -> Nat]
    /\ receipt \in [Workers -> Receipts]
    /\ heartbeat \in [Workers -> {"off", "running", "lost", "failed"}]
    /\ err \in [Workers -> Errors \cup {"none"}]
    /\ reply \in [Workers -> Nat]
    /\ effects \subseteq [key : Keys, fingerprint : Fingerprints, token : Nat]
    /\ fenced \subseteq Nat
    /\ faults \in Nat

\* A lease is renewed for a claim whose work is under way, and for no other: the
\* timer outlives no attempt, however it ends, or a dead claim would be kept
\* alive; and no work goes on without it.
HeartbeatScoped ==
    \A w \in Workers :
        /\ heartbeat[w] # "off" <=> pc[w] \in {"work", "staged"}
        /\ heartbeat[w] # "off" => claim[w] # NoToken

\* The retrying scope makes maxAttempts attempts at most.
AttemptsBounded == \A w \in Workers : attempt[w] <= MaxAttempts

\* Types, and what one execution may use: its lease heartbeat only while it
\* works under a claim, and its attempts.
WellFormed == TypeOK /\ HeartbeatScoped /\ AttemptsBounded

\* The command of a key takes effect at most once, whatever overlaps, fails,
\* crashes, is redelivered or is taken over: two committed source transactions
\* of withIdempotentCommit never carry the same key.
AtMostOneEffect == \A d, e \in effects : d.key = e.key => d = e

\* A caller of withIdempotentCommit that gets an answer, fresh or replayed,
\* gets the outcome of a committed execution of its own key and content.
AnswersAreCommitted ==
    \A w \in Workers : pc[w] = "done" =>
        [key |-> Key(w), fingerprint |-> Fp(w), token |-> reply[w]] \in effects

\* "A stale completion must fail before the source transaction can commit":
\* an attempt that has passed complete() and whose transaction is still able
\* to commit is the staged owner of its key, even after its lease expired.
CommitterOwnsKey ==
    \A w \in Workers :
        (pc[w] \in {"staged", "committing", "orphaned"}
            /\ claim[w] # NoToken /\ claim[w] \notin fenced)
        => /\ entries[Key(w)].token = claim[w]
           /\ entries[Key(w)].status = "staged"

\* The store never forgets a committed execution: no takeover, late abandon()
\* or reconcile() of any worker releases or replaces its record, and once
\* confirmed the record is final.
CommittedRecordKept ==
    [][\A k \in Keys :
          /\ Committed(entries[k].token) =>
                /\ entries'[k].token = entries[k].token
                /\ entries'[k].outcome = entries[k].outcome
                /\ entries'[k].fingerprint = entries[k].fingerprint
          /\ entries[k].status = "confirmed" => entries'[k] = entries[k]]_vars

\* At its limit the store refuses new keys; it never holds more than maxEntries.
WithinCapacity == Cardinality({k \in Keys : entries[k].status # "absent"}) <= MaxEntries

\* The content a key took effect for is not the worker's.
Refused(w) == \E e \in effects : e.key = Key(w) /\ e.fingerprint # Fp(w)

\* Committed records, which are never evicted, fill the store without the
\* worker's key.
CrowdedOut(w) == Cardinality({e.key : e \in effects} \ {Key(w)}) >= MaxEntries

\* Once faults cease, every delivered command is answered, or its key has
\* taken effect for other content, or finds the store full: no crash, lost
\* confirm() or lost claim blocks a key for ever as long as the application
\* resolves receipts.
EveryCallSettles ==
    <>(\A w \in Workers : pc[w] = "done" \/ Refused(w) \/ CrowdedOut(w))

\* errors.ts on IdempotencyCompletionWithoutClaimError: "withIdempotentCommit
\* cannot produce it".
CompletionHasClaim == \A w \in Workers : err[w] # "withoutClaim"

\* The promise to the callers: see ExactlyOnce.
Abstract == INSTANCE ExactlyOnce WITH
    Callers  <- Workers,
    Outcomes <- Nat \ {NoToken},
    NoAnswer <- NoToken,
    effect   <- [k \in Keys |-> IF \E e \in effects : e.key = k
                                THEN (CHOOSE e \in effects : e.key = k).token
                                ELSE NoToken],
    bound    <- [k \in Keys |-> {e.fingerprint : e \in {d \in effects : d.key = k}}],
    answer   <- [w \in Workers |-> IF pc[w] = "done" THEN reply[w] ELSE NoToken]

\* withIdempotentCommit over the leased store implements ExactlyOnce.
ImplementsExactlyOnce == Abstract!ExactlyOnceSpec

\* The store stays within maxEntries, and yet never drops the record of a
\* command that took effect: a full store refuses new keys instead.
RecordsKept == []WithinCapacity /\ CommittedRecordKept
=============================================================================
