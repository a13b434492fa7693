----------------------- MODULE IdempotentCommitProofs -----------------------
(***************************************************************************)
(* Proofs, for any number of workers, keys, attempts, renewals and faults, *)
(* that IdempotentCommit is type correct and that a command takes effect   *)
(* at most once.                                                           *)
(*                                                                         *)
(* AtMostOneEffect is not inductive: that two transactions of one key do   *)
(* not both commit depends on who owns the record of the key.  Safe is its *)
(* inductive strengthening.  Its heart is a pair of facts.  RecordKept: the *)
(* record of a key that took effect is staged or confirmed under the token *)
(* that took effect.  CommitterOwnsKey: whoever may still commit is the    *)
(* staged owner of its key.  The rest says why the store's operations keep *)
(* the pair: tokens are issued once, belong to one worker and one key, and *)
(* a receipt is resolved as "not-committed" only when its token is fenced. *)
(*                                                                         *)
(* From Safe follow two facts about steps: no step drops the record of a   *)
(* committed execution, and every step is one of ExactlyOnce or none.      *)
(***************************************************************************)
EXTENDS IdempotentCommit, FiniteSetTheorems, TLAPS

\* Every token in use has been issued; a record carries one unless absent.
TokensIssued ==
    /\ \A k \in Keys : entries[k].token <= tokenGeneration
    /\ \A w \in Workers : claim[w] <= tokenGeneration
    /\ \A e \in effects : e.token # NoToken /\ e.token <= tokenGeneration
    /\ \A k \in Keys : entries[k].token = NoToken <=> entries[k].status = "absent"

\* A token belongs to one worker, to one record and to one request.
TokensUnique ==
    /\ \A v, w \in Workers : claim[v] = claim[w] /\ claim[v] # NoToken => v = w
    /\ \A j, k \in Keys :
          entries[j].token = entries[k].token /\ entries[j].token # NoToken => j = k
    /\ \A w \in Workers, k \in Keys :
          entries[k].token = claim[w] /\ claim[w] # NoToken
          => k = Key(w) /\ entries[k].fingerprint = Fp(w)

\* Which steps hold a claim, and that none of them has committed yet.
ClaimsHeld ==
    \A w \in Workers :
        /\ pc[w] \in {"claim", "decide", "reconcile", "reclaim"} => claim[w] = NoToken
        /\ pc[w] \in {"work", "staged", "abandon", "confirm"} => claim[w] # NoToken
        /\ pc[w] \in {"work", "staged", "abandon", "committing", "orphaned"}
           => ~Committed(claim[w])

\* The outcome of a staged or confirmed record is that of its own execution.
OutcomeOfToken ==
    \A k \in Keys : entries[k].status \in {"staged", "confirmed"}
                    => entries[k].outcome = entries[k].token

\* The record of a key that took effect is that of the execution that did.
RecordKept ==
    \A e \in effects : /\ entries[e.key].token = e.token
                       /\ entries[e.key].fingerprint = e.fingerprint
                       /\ entries[e.key].status \in {"staged", "confirmed"}

FencedNotCommitted == \A t \in fenced : ~Committed(t)

ConfirmedCommitted ==
    \A k \in Keys : entries[k].status = "confirmed" =>
        [key |-> k, fingerprint |-> entries[k].fingerprint,
         token |-> entries[k].token] \in effects

\* A receipt on its way to reconcile() carries a decision that is true.
ReceiptSound ==
    \A w \in Workers : pc[w] = "reconcile" =>
        \/ receipt[w].decision = "committed" /\ Committed(receipt[w].token)
        \/ receipt[w].decision = "not-committed" /\ receipt[w].token \in fenced

\* What a worker is about to answer has been committed.
AnswersPrepared ==
    \A w \in Workers :
        /\ pc[w] = "confirm" => EffectOf(w) \in effects
        /\ (pc[w] = "committing" /\ claim[w] = NoToken) =>
              [key |-> Key(w), fingerprint |-> Fp(w), token |-> reply[w]] \in effects

Safe ==
    /\ TypeOK
    /\ TokensIssued
    /\ TokensUnique
    /\ ClaimsHeld
    /\ OutcomeOfToken
    /\ RecordKept
    /\ FencedNotCommitted
    /\ ConfirmedCommitted
    /\ ReceiptSound
    /\ AnswersPrepared
    /\ CommitterOwnsKey
    /\ AnswersAreCommitted

-----------------------------------------------------------------------------
USE DEF vars, storeVars, workerVars, sourceVars, Steps, Errors, RetryableErrors,
        FatalErrors, NoToken

\* The initial state of the store and of the workers has its type.
LEMMA TypeInit == Init => TypeOK
  BY DEF Init, StoreInit, TypeOK, Entry, NoEntry, NoReceipt, Receipts

\* A worker asks for a key and a fingerprint.
LEMMA RequestType == TypeOK => \A w \in Workers : Key(w) \in Keys /\ Fp(w) \in Fingerprints
  BY DEF TypeOK, Requests, Key, Fp

\* No step changes what a worker asked for.
LEMMA RequestKept ==
  ASSUME UNCHANGED request
  PROVE  \A w \in Workers : Key(w)' = Key(w) /\ Fp(w)' = Fp(w)
  BY DEF Key, Fp

\* A missing record is a record.
LEMMA EntryType == NoEntry \in Entry
  BY DEF Entry, NoEntry

\* The fields of a record have their types.
LEMMA FieldType ==
  ASSUME NEW e \in Entry
  PROVE  /\ e.status \in {"absent", "pending", "staged", "confirmed"}
         /\ e.fingerprint \in Fingerprints \cup {NoFingerprint}
         /\ e.token \in Nat /\ e.lease \in Nat /\ e.outcome \in Nat
  BY DEF Entry

\* The operations of the store keep it a map from keys to records.
LEMMA StoreType ==
  ASSUME entries \in [Keys -> Entry], tokenGeneration \in Nat, NEW k \in Keys
  PROVE  /\ \A f \in Fingerprints : CreatePending(k, f)
               => entries' \in [Keys -> Entry] /\ tokenGeneration' \in Nat
         /\ \A t, o \in Nat : Complete(k, t, o) => entries' \in [Keys -> Entry]
         /\ \A t \in Nat : Renewable(k, t) /\ Renew(k) => entries' \in [Keys -> Entry]
         /\ \A t \in Nat : Confirm(k, t) => entries' \in [Keys -> Entry]
         /\ \A t \in Nat : Abandon(k, t) => entries' \in [Keys -> Entry]
         /\ \A d : Reconcile(k, d) => entries' \in [Keys -> Entry]
         /\ Expire(k) => entries' \in [Keys -> Entry] /\ tokenGeneration' \in Nat
<1> DEFINE e == entries[k]
<1>1. e \in Entry /\ NoEntry \in Entry
  BY EntryType
<1>2. /\ e.fingerprint \in Fingerprints \cup {NoFingerprint} /\ e.token \in Nat
      /\ e.lease + 1 \in Nat /\ e.outcome \in Nat
  BY <1>1, FieldType
<1>3. [e EXCEPT !.term = "over"] \in Entry
  BY <1>1 DEF Entry
<1> HIDE DEF e
<1>4. /\ \A f \in Fingerprints : Record("pending", f, tokenGeneration + 1, 0, 0) \in Entry
      /\ \A o \in Nat : Record("staged", e.fingerprint, e.token, e.lease + 1, o) \in Entry
      /\ e.status \in {"pending", "staged"}
         => Record(e.status, e.fingerprint, e.token, e.lease + 1, e.outcome) \in Entry
      /\ Record("confirmed", e.fingerprint, e.token, 0, e.outcome) \in Entry
  <2>1. tokenGeneration + 1 \in Nat
    OBVIOUS
  <2>2. QED
    BY <1>2, <2>1 DEF Record, Entry
<1>5. ASSUME NEW r \in Entry PROVE [entries EXCEPT ![k] = r] \in [Keys -> Entry]
  OBVIOUS
<1>6. \A f \in Fingerprints : CreatePending(k, f)
         => entries' \in [Keys -> Entry] /\ tokenGeneration' \in Nat
  <2> SUFFICES ASSUME NEW f \in Fingerprints, CreatePending(k, f)
               PROVE  entries' \in [Keys -> Entry] /\ tokenGeneration' \in Nat
    OBVIOUS
  <2>1. QED
    BY <1>4, <1>5 DEF CreatePending
<1>7. \A t, o \in Nat : Complete(k, t, o) => entries' \in [Keys -> Entry]
  BY <1>4, <1>5 DEF e, Complete
<1>8. \A t \in Nat : Renewable(k, t) /\ Renew(k) => entries' \in [Keys -> Entry]
  BY <1>4, <1>5 DEF e, Renew, Renewable
<1>9. Confirmed(k) \in [Keys -> Entry]
  BY <1>4, <1>5 DEF e, Confirmed
<1>10. [entries EXCEPT ![k] = NoEntry] \in [Keys -> Entry]
  BY <1>1, <1>5
<1>11. Expire(k) => entries' \in [Keys -> Entry] /\ tokenGeneration' \in Nat
  BY <1>3, <1>5 DEF e, Expire
<1>12. QED
  BY <1>6, <1>7, <1>8, <1>9, <1>10, <1>11 DEF Confirm, Abandon, Reconcile

\* Every step of the protocol keeps every variable within its type.
LEMMA TypeNext == TypeOK /\ [Next]_vars => TypeOK'
<1> SUFFICES ASSUME TypeOK, [Next]_vars PROVE TypeOK'
  OBVIOUS
<1> USE DEF TypeOK
<1>1. ASSUME NEW w \in Workers, Start(w) PROVE TypeOK'
  BY <1>1 DEF Start, BeginAttempt, Goto, NoReceipt, Receipts
<1>2. ASSUME NEW w \in Workers, ClaimFresh(w) PROVE TypeOK'
  BY <1>2, RequestType, StoreType DEF ClaimFresh, Goto
<1>3. ASSUME NEW w \in Workers, ClaimReplay(w) PROVE TypeOK'
  BY <1>3 DEF ClaimReplay, Goto, Key, Entry, Requests
<1>4. ASSUME NEW w \in Workers, ClaimRejected(w) PROVE TypeOK'
  BY <1>4 DEF ClaimRejected, Throw, Goto
<1>5. ASSUME NEW w \in Workers, ClaimNeedsReconciliation(w) PROVE TypeOK'
  BY <1>5 DEF ClaimNeedsReconciliation, Goto, Receipts, Entry, Key, Requests
<1>6. ASSUME NEW w \in Workers, Decide(w) PROVE TypeOK'
  BY SMTT(40), <1>6 DEF Decide, Goto, Receipts, Evidence
<1>7. ASSUME NEW w \in Workers, DecideUnknown(w) PROVE TypeOK'
  BY <1>7 DEF DecideUnknown, Throw, Goto, Receipts, NoReceipt
<1>8. ASSUME NEW w \in Workers, ReconcileStep(w) PROVE TypeOK'
  BY ZenonT(60), <1>8, RequestType, StoreType DEF ReconcileStep, Throw, Goto, Receipts, NoReceipt
<1>9. ASSUME NEW w \in Workers, HeartbeatRenews(w) PROVE TypeOK'
  BY <1>9, RequestType, StoreType DEF HeartbeatRenews
<1>10. ASSUME NEW w \in Workers, HeartbeatLosesClaim(w) PROVE TypeOK'
  BY <1>10 DEF HeartbeatLosesClaim
<1>11. ASSUME NEW w \in Workers, HeartbeatFails(w) PROVE TypeOK'
  BY <1>11 DEF HeartbeatFails, Fault
<1>12. ASSUME NEW w \in Workers, WorkFails(w) PROVE TypeOK'
  BY <1>12 DEF WorkFails, Throw, Goto, Fault
<1>13. ASSUME NEW w \in Workers, CompleteStep(w) PROVE TypeOK'
  BY <1>13, RequestType, StoreType DEF CompleteStep, Throw, Goto
<1>14. ASSUME NEW w \in Workers, StopHeartbeat(w) PROVE TypeOK'
  BY <1>14 DEF StopHeartbeat, Throw, Goto
<1>15. ASSUME NEW w \in Workers, AbandonStep(w) PROVE TypeOK'
  BY <1>15, RequestType, StoreType DEF AbandonStep, Goto, Fault
<1>16. ASSUME NEW w \in Workers, Commit(w) PROVE TypeOK'
  BY <1>16 DEF Commit, SourceCommit, EffectOf, Goto, Key, Fp, Requests
<1>17. ASSUME NEW w \in Workers, CommitFails(w) PROVE TypeOK'
  BY <1>17 DEF CommitFails, CommitRejected, Goto, Fault
<1>18. ASSUME NEW w \in Workers, CommitAnswerLost(w) PROVE TypeOK'
  BY <1>18 DEF CommitAnswerLost, CommitRejected, SourceCommit, EffectOf, Goto, Fault, Key, Fp, Requests
<1>19. ASSUME NEW w \in Workers, RetryOrReject(w) PROVE TypeOK'
  <2>1. CASE err[w] \in RetryableErrors /\ attempt[w] < MaxAttempts
    <3>1. BeginAttempt(w, attempt[w] + 1) /\ attempt[w] + 1 \in Nat
      BY <1>19, <2>1 DEF RetryOrReject
    <3>2. UNCHANGED <<storeVars, request, heartbeat, sourceVars, faults>>
      BY <1>19 DEF RetryOrReject
    <3>3. QED
      BY <3>1, <3>2 DEF BeginAttempt, Goto, NoReceipt, Receipts
  <2>2. CASE ~(err[w] \in RetryableErrors /\ attempt[w] < MaxAttempts)
    BY <1>19, <2>2 DEF RetryOrReject, Goto
  <2>3. QED
    BY <2>1, <2>2
<1>20. ASSUME NEW w \in Workers, ConfirmStep(w) PROVE TypeOK'
  BY <1>20, RequestType, StoreType DEF ConfirmStep, Goto, Fault
<1>21. ASSUME NEW w \in Workers, Crash(w) PROVE TypeOK'
  BY <1>21 DEF Crash, Goto, Fault
<1>22. ASSUME NEW w \in Workers, OrphanSettles(w) PROVE TypeOK'
  BY <1>22 DEF OrphanSettles, SourceCommit, EffectOf, Goto, Key, Fp, Requests
<1>23. ASSUME NEW k \in Keys, LeaseExpires(k) PROVE TypeOK'
  BY <1>23, RequestType, StoreType DEF LeaseExpires, Fault
<1>24. ASSUME NEW t \in 1..tokenGeneration, Fence(t) PROVE TypeOK'
  BY <1>24 DEF Fence
<1>25. CASE UNCHANGED vars
  BY <1>25
<1>26. QED
  BY <1>1, <1>2, <1>3, <1>4, <1>5, <1>6, <1>7, <1>8, <1>9, <1>10, <1>11, <1>12, <1>13, <1>14, <1>15, <1>16, <1>17, <1>18, <1>19, <1>20, <1>21, <1>22, <1>23, <1>24, <1>25 DEF Next, CallStep, HeartbeatStep

\* A lease heartbeat starts with a claim and is stopped wherever its work ends.
LEMMA HeartbeatNext ==
  ASSUME TypeOK, HeartbeatScoped, [Next]_vars
  PROVE  HeartbeatScoped'
<1> SUFFICES ASSUME NEW v \in Workers
             PROVE  /\ heartbeat'[v] # "off" <=> pc'[v] \in {"work", "staged"}
                    /\ heartbeat'[v] # "off" => claim'[v] # NoToken
  BY DEF HeartbeatScoped
<1> USE DEF Goto
<1>1. /\ heartbeat[v] # "off" <=> pc[v] \in {"work", "staged"}
      /\ heartbeat[v] # "off" => claim[v] # NoToken
      /\ pc \in [Workers -> Steps] /\ claim \in [Workers -> Nat] /\ tokenGeneration \in Nat
      /\ heartbeat \in [Workers -> {"off", "running", "lost", "failed"}]
  BY DEF HeartbeatScoped, TypeOK
<1>2. CASE UNCHANGED <<pc, claim, heartbeat>>
  BY <1>1, <1>2
<1>3. ASSUME NEW w \in Workers, NEW e, Throw(w, e), UNCHANGED claim
      PROVE  /\ heartbeat'[v] # "off" <=> pc'[v] \in {"work", "staged"}
             /\ heartbeat'[v] # "off" => claim'[v] # NoToken
  BY <1>1, <1>3 DEF Throw
<1>4. ASSUME NEW w \in Workers, NEW s, Goto(w, s), pc[w] \notin {"work", "staged"},
             s \notin {"work", "staged"}, UNCHANGED heartbeat
      PROVE  /\ heartbeat'[v] # "off" <=> pc'[v] \in {"work", "staged"}
             /\ heartbeat'[v] # "off" /\ (v # w => claim'[v] = claim[v]) => claim'[v] # NoToken
  BY <1>1, <1>4
<1>5. ASSUME NEW w \in Workers, ClaimFresh(w)
      PROVE  /\ heartbeat'[v] # "off" <=> pc'[v] \in {"work", "staged"}
             /\ heartbeat'[v] # "off" => claim'[v] # NoToken
  BY <1>1, <1>5 DEF ClaimFresh, NoToken
<1>6. ASSUME NEW w \in Workers, Start(w) \/ RetryOrReject(w)
      PROVE  /\ heartbeat'[v] # "off" <=> pc'[v] \in {"work", "staged"}
             /\ heartbeat'[v] # "off" => claim'[v] # NoToken
  BY <1>1, <1>6 DEF Start, RetryOrReject, BeginAttempt
<1>7. ASSUME NEW w \in Workers, ClaimReplay(w) \/ ClaimNeedsReconciliation(w) \/ Decide(w)
                                \/ Commit(w) \/ ConfirmStep(w) \/ OrphanSettles(w)
      PROVE  /\ heartbeat'[v] # "off" <=> pc'[v] \in {"work", "staged"}
             /\ heartbeat'[v] # "off" => claim'[v] # NoToken
  BY <1>1, <1>7 DEF ClaimReplay, ClaimNeedsReconciliation, Decide, Commit, ConfirmStep, OrphanSettles, ClaimStep
<1>8. ASSUME NEW w \in Workers, CommitFails(w) \/ CommitAnswerLost(w)
      PROVE  /\ heartbeat'[v] # "off" <=> pc'[v] \in {"work", "staged"}
             /\ heartbeat'[v] # "off" => claim'[v] # NoToken
  BY <1>1, <1>8 DEF CommitFails, CommitAnswerLost, CommitRejected
<1>9. ASSUME NEW w \in Workers, AbandonStep(w)
      PROVE  /\ heartbeat'[v] # "off" <=> pc'[v] \in {"work", "staged"}
             /\ heartbeat'[v] # "off" => claim'[v] # NoToken
  BY <1>1, <1>9 DEF AbandonStep
<1>10. ASSUME NEW w \in Workers, HeartbeatLosesClaim(w) \/ HeartbeatFails(w)
       PROVE  /\ heartbeat'[v] # "off" <=> pc'[v] \in {"work", "staged"}
              /\ heartbeat'[v] # "off" => claim'[v] # NoToken
  BY <1>1, <1>10 DEF HeartbeatLosesClaim, HeartbeatFails
<1>11. ASSUME NEW w \in Workers, CompleteStep(w) \/ StopHeartbeat(w)
       PROVE  /\ heartbeat'[v] # "off" <=> pc'[v] \in {"work", "staged"}
              /\ heartbeat'[v] # "off" => claim'[v] # NoToken
  BY <1>1, <1>11 DEF CompleteStep, StopHeartbeat, Throw
<1>12. ASSUME NEW w \in Workers, ClaimRejected(w) \/ DecideUnknown(w) \/ WorkFails(w)
       PROVE  /\ heartbeat'[v] # "off" <=> pc'[v] \in {"work", "staged"}
              /\ heartbeat'[v] # "off" => claim'[v] # NoToken
  BY <1>1, <1>12 DEF ClaimRejected, DecideUnknown, WorkFails, Throw
<1>13. ASSUME NEW w \in Workers, ReconcileStep(w)
       PROVE  /\ heartbeat'[v] # "off" <=> pc'[v] \in {"work", "staged"}
              /\ heartbeat'[v] # "off" => claim'[v] # NoToken
  BY <1>1, <1>13 DEF ReconcileStep, Throw
<1>14. ASSUME NEW w \in Workers, Crash(w)
       PROVE  /\ heartbeat'[v] # "off" <=> pc'[v] \in {"work", "staged"}
              /\ heartbeat'[v] # "off" => claim'[v] # NoToken
  BY <1>1, <1>14 DEF Crash
<1>15. ASSUME (\E w \in Workers : HeartbeatRenews(w)) \/ (\E k \in Keys : LeaseExpires(k))
              \/ (\E t \in 1..tokenGeneration : Fence(t)) \/ UNCHANGED vars
       PROVE  UNCHANGED <<pc, claim, heartbeat>>
  BY <1>15 DEF HeartbeatRenews, LeaseExpires, Fence, vars, workerVars
<1> QED
  BY <1>2, <1>5, <1>6, <1>7, <1>8, <1>9, <1>10, <1>11, <1>12, <1>13, <1>14, <1>15
     DEF Next, CallStep, HeartbeatStep

\* Only an attempt below the limit is followed by another one.
LEMMA AttemptsNext ==
  ASSUME TypeOK, AttemptsBounded, [Next]_vars
  PROVE  AttemptsBounded'
<1>1. MaxAttempts \in Nat \ {0} /\ attempt \in [Workers -> Nat]
      /\ \A w \in Workers : attempt[w] <= MaxAttempts
  BY CommitAssumption DEF TypeOK, AttemptsBounded
<1>2. CASE UNCHANGED attempt
  BY <1>1, <1>2 DEF AttemptsBounded
<1>3. ASSUME NEW w \in Workers, Start(w) \/ RetryOrReject(w) PROVE AttemptsBounded'
  <2>1. \/ UNCHANGED attempt
        \/ attempt' = [attempt EXCEPT ![w] = 1]
        \/ attempt[w] < MaxAttempts /\ attempt' = [attempt EXCEPT ![w] = attempt[w] + 1]
    BY <1>3 DEF Start, RetryOrReject, BeginAttempt
  <2> QED BY <1>1, <2>1 DEF AttemptsBounded
<1>4. ASSUME NEW w \in Workers, CallStep(w) \/ Decide(w) \/ HeartbeatStep(w) \/ Crash(w),
             ~RetryOrReject(w)
      PROVE  UNCHANGED attempt
  BY <1>4 DEF CallStep, HeartbeatStep, ClaimFresh, ClaimReplay, ClaimRejected,
     ClaimNeedsReconciliation, DecideUnknown, ReconcileStep, WorkFails, CompleteStep,
     StopHeartbeat, AbandonStep, Commit, CommitFails, CommitAnswerLost, CommitRejected,
     ConfirmStep, OrphanSettles, Decide, HeartbeatRenews, HeartbeatLosesClaim,
     HeartbeatFails, Crash, workerVars
<1>5. ASSUME (\E k \in Keys : LeaseExpires(k)) \/ (\E t \in 1..tokenGeneration : Fence(t))
             \/ UNCHANGED vars
      PROVE  UNCHANGED attempt
  BY <1>5 DEF LeaseExpires, Fence, vars, workerVars
<1> QED BY <1>2, <1>3, <1>4, <1>5 DEF Next, CallStep

\* withIdempotentCommit is well formed: its types, a lease heartbeat exactly while
\* work is under way under a claim, no attempt beyond the policy's limit.
THEOREM CommitWellFormed == Spec => []WellFormed
<1>1. Init => WellFormed
  <2> SUFFICES ASSUME Init PROVE HeartbeatScoped /\ AttemptsBounded
    BY TypeInit DEF WellFormed
  <2> QED BY CommitAssumption DEF Init, HeartbeatScoped, AttemptsBounded
<1>2. WellFormed /\ [Next]_vars => WellFormed'
  BY TypeNext, HeartbeatNext, AttemptsNext DEF WellFormed
<1> QED BY <1>1, <1>2, PTL DEF Spec

-----------------------------------------------------------------------------
\* The initial state is safe: nothing is claimed, staged or committed.
LEMMA SafeInit == Init => Safe
<1> SUFFICES ASSUME Init PROVE Safe
  OBVIOUS
<1>1. TypeOK
  BY TypeInit
<1>2. QED
  BY <1>1 DEF Init, StoreInit, NoEntry, Safe, TokensIssued, TokensUnique, ClaimsHeld,
     OutcomeOfToken, RecordKept, FencedNotCommitted, ConfirmedCommitted, ReceiptSound,
     AnswersPrepared, CommitterOwnsKey, AnswersAreCommitted, Committed

\* What the operations of the store change, record by record.
LEMMA StoreEffect ==
  ASSUME entries \in [Keys -> Entry], NEW k \in Keys
  PROVE  /\ \A f : CreatePending(k, f) =>
               /\ \A j \in Keys \ {k} : entries'[j] = entries[j]
               /\ entries'[k].status = "pending" /\ entries'[k].fingerprint = f
               /\ entries'[k].token = tokenGeneration + 1
               /\ tokenGeneration' = tokenGeneration + 1
         /\ \A t, o : Complete(k, t, o) =>
               /\ \A j \in Keys \ {k} : entries'[j] = entries[j]
               /\ entries'[k].status = "staged" /\ entries'[k].outcome = o
               /\ entries'[k].token = entries[k].token
               /\ entries'[k].fingerprint = entries[k].fingerprint
         /\ Renew(k) =>
               /\ \A j \in Keys \ {k} : entries'[j] = entries[j]
               /\ entries'[k].status = entries[k].status
               /\ entries'[k].token = entries[k].token
               /\ entries'[k].fingerprint = entries[k].fingerprint
               /\ entries'[k].outcome = entries[k].outcome
         /\ entries' = Confirmed(k) =>
               /\ \A j \in Keys \ {k} : entries'[j] = entries[j]
               /\ entries'[k].status = "confirmed"
               /\ entries'[k].token = entries[k].token
               /\ entries'[k].fingerprint = entries[k].fingerprint
               /\ entries'[k].outcome = entries[k].outcome
         /\ entries' = [entries EXCEPT ![k] = NoEntry] =>
               /\ \A j \in Keys \ {k} : entries'[j] = entries[j]
               /\ entries'[k].status = "absent" /\ entries'[k].token = NoToken
<1>1. ASSUME NEW r, entries' = [entries EXCEPT ![k] = r]
      PROVE  entries'[k] = r /\ \A j \in Keys \ {k} : entries'[j] = entries[j]
  BY <1>1
<1>2. ASSUME NEW f, CreatePending(k, f)
      PROVE  /\ entries'[k] = Record("pending", f, tokenGeneration + 1, 0, NoToken)
             /\ \A j \in Keys \ {k} : entries'[j] = entries[j]
             /\ tokenGeneration' = tokenGeneration + 1
  BY <1>1, <1>2 DEF CreatePending
<1>3. ASSUME NEW t, NEW o, Complete(k, t, o)
      PROVE  /\ entries'[k] = Record("staged", entries[k].fingerprint, entries[k].token,
                                     entries[k].lease + 1, o)
             /\ \A j \in Keys \ {k} : entries'[j] = entries[j]
  BY <1>1, <1>3 DEF Complete
<1>4. ASSUME Renew(k)
      PROVE  /\ entries'[k] = Record(entries[k].status, entries[k].fingerprint,
                                     entries[k].token, entries[k].lease + 1, entries[k].outcome)
             /\ \A j \in Keys \ {k} : entries'[j] = entries[j]
  BY <1>1, <1>4 DEF Renew
<1>5. ASSUME entries' = Confirmed(k)
      PROVE  /\ entries'[k] = Record("confirmed", entries[k].fingerprint, entries[k].token,
                                     0, entries[k].outcome)
             /\ \A j \in Keys \ {k} : entries'[j] = entries[j]
  BY <1>1, <1>5 DEF Confirmed
<1>6. ASSUME NEW st, NEW f, NEW t, NEW n, NEW o
      PROVE  /\ Record(st, f, t, n, o).status = st /\ Record(st, f, t, n, o).token = t
             /\ Record(st, f, t, n, o).fingerprint = f /\ Record(st, f, t, n, o).outcome = o
  BY DEF Record
<1>7. NoEntry.status = "absent" /\ NoEntry.token = NoToken
  BY DEF NoEntry
<1>8. \A f : CreatePending(k, f) =>
         /\ \A j \in Keys \ {k} : entries'[j] = entries[j]
         /\ entries'[k].status = "pending" /\ entries'[k].fingerprint = f
         /\ entries'[k].token = tokenGeneration + 1
         /\ tokenGeneration' = tokenGeneration + 1
  BY <1>2, <1>6
<1>9. \A t, o : Complete(k, t, o) =>
         /\ \A j \in Keys \ {k} : entries'[j] = entries[j]
         /\ entries'[k].status = "staged" /\ entries'[k].outcome = o
         /\ entries'[k].token = entries[k].token
         /\ entries'[k].fingerprint = entries[k].fingerprint
  BY <1>3, <1>6
<1>10. QED
  BY <1>1, <1>4, <1>5, <1>6, <1>7, <1>8, <1>9

\* A fresh claim: the new token is nobody's, and the record it replaces is
\* missing or pending, so it belongs to no execution that could commit.
LEMMA SafeClaimFresh ==
  ASSUME Safe, TypeOK', NEW w \in Workers, ClaimFresh(w)
  PROVE  Safe'
<1> DEFINE k == Key(w)
           n == tokenGeneration + 1
<1>1. k \in Keys /\ Fp(w) \in Fingerprints
  BY RequestType DEF Safe
<1>2. /\ \A j \in Keys \ {k} : entries'[j] = entries[j]
      /\ entries'[k].status = "pending" /\ entries'[k].fingerprint = Fp(w)
      /\ entries'[k].token = n
      /\ tokenGeneration' = n
  BY <1>1, StoreEffect DEF ClaimFresh, Safe, TypeOK
<1>3. entries[k].status \in {"absent", "pending"}
  BY DEF ClaimFresh, Claimable
<1>4. /\ claim' = [claim EXCEPT ![w] = n] /\ pc' = [pc EXCEPT ![w] = "work"]
      /\ UNCHANGED <<request, receipt, reply, effects, fenced>>
  BY DEF ClaimFresh, Goto
<1>5. n \in Nat /\ n # NoToken /\ n > tokenGeneration
  BY DEF Safe, TypeOK
<1>6. \A j \in Keys : entries[j].token \in Nat
  BY FieldType DEF Safe, TypeOK
<1> HIDE DEF k, n
<1>7. TokensIssued'
  BY <1>1, <1>2, <1>4, <1>5, <1>6 DEF Safe, TypeOK, TokensIssued
<1>8. TokensUnique'
  BY SMTT(40), <1>1, <1>2, <1>4, <1>5, <1>6 DEF Safe, TypeOK, TokensIssued, TokensUnique, Key, Fp, k
<1>9. ClaimsHeld'
  BY <1>4, <1>5 DEF Safe, TypeOK, TokensIssued, ClaimsHeld, Committed
<1>10. OutcomeOfToken' /\ ConfirmedCommitted'
  BY <1>1, <1>2, <1>4 DEF Safe, OutcomeOfToken, ConfirmedCommitted
<1>11. RecordKept' /\ FencedNotCommitted'
  BY <1>2, <1>3, <1>4 DEF Safe, TypeOK, RecordKept, FencedNotCommitted, Committed
<1>12. ReceiptSound' /\ AnswersPrepared' /\ AnswersAreCommitted'
  BY <1>4, <1>5 DEF Safe, TypeOK, ReceiptSound, AnswersPrepared, AnswersAreCommitted,
     Committed, EffectOf, Key, Fp
<1>13. CommitterOwnsKey'
  BY <1>1, <1>2, <1>3, <1>4, <1>5 DEF Safe, TypeOK, CommitterOwnsKey, Key, k, Requests
<1>14. QED
  BY <1>7, <1>8, <1>9, <1>10, <1>11, <1>12, <1>13 DEF Safe

\* Renewing a lease, or letting it run out, changes nothing Safe speaks of.
LEMMA SafeRenew ==
  ASSUME Safe, TypeOK', NEW w \in Workers, HeartbeatRenews(w)
  PROVE  Safe'
<1>1. Key(w) \in Keys
  BY RequestType DEF Safe
<1>2. Renew(Key(w)) /\ UNCHANGED <<tokenGeneration, request, pc, claim, receipt, reply,
                                  effects, fenced>>
  BY DEF HeartbeatRenews
<1>3. \A j \in Keys : /\ entries'[j].status = entries[j].status
                      /\ entries'[j].token = entries[j].token
                      /\ entries'[j].fingerprint = entries[j].fingerprint
                      /\ entries'[j].outcome = entries[j].outcome
  BY <1>1, <1>2, StoreEffect DEF Safe, TypeOK
<1>4. \A v \in Workers : Key(v) \in Keys /\ Key(v)' = Key(v) /\ Fp(v)' = Fp(v)
  BY <1>2, RequestType, RequestKept DEF Safe
<1>5. TokensIssued' /\ TokensUnique' /\ OutcomeOfToken'
  BY <1>2, <1>3, <1>4 DEF Safe, TokensIssued, TokensUnique, OutcomeOfToken
<1>6. RecordKept' /\ ConfirmedCommitted'
  BY <1>2, <1>3 DEF Safe, TypeOK, RecordKept, ConfirmedCommitted
<1>7. CommitterOwnsKey'
  BY <1>2, <1>3, <1>4 DEF Safe, CommitterOwnsKey
<1>8. ClaimsHeld' /\ FencedNotCommitted' /\ ReceiptSound' /\ AnswersPrepared'
      /\ AnswersAreCommitted'
  BY <1>2 DEF Safe, ClaimsHeld, FencedNotCommitted, ReceiptSound, AnswersPrepared,
     AnswersAreCommitted, Committed, EffectOf, Key, Fp
<1>9. QED
  BY <1>5, <1>6, <1>7, <1>8 DEF Safe

\* A replay: the confirmed record it answers from is that of an effect.
LEMMA SafeClaimReplay ==
  ASSUME Safe, TypeOK', NEW w \in Workers, ClaimReplay(w)
  PROVE  Safe'
<1>1. Key(w) \in Keys
  BY RequestType DEF Safe
<1>2. /\ pc' = [pc EXCEPT ![w] = "committing"]
      /\ reply' = [reply EXCEPT ![w] = entries[Key(w)].outcome]
      /\ UNCHANGED <<entries, tokenGeneration, request, claim, receipt, effects, fenced>>
  BY DEF ClaimReplay, Goto
<1>3. claim[w] = NoToken
  BY DEF ClaimReplay, ClaimStep, Safe, ClaimsHeld
<1>4. [key |-> Key(w), fingerprint |-> Fp(w), token |-> reply'[w]] \in effects
  <2>1. entries[Key(w)].status = "confirmed" /\ entries[Key(w)].fingerprint = Fp(w)
    BY DEF ClaimReplay, Completed
  <2>2. reply'[w] = entries[Key(w)].token
    BY <1>1, <1>2, <2>1 DEF Safe, TypeOK, OutcomeOfToken
  <2>3. QED
    BY <1>1, <2>1, <2>2 DEF Safe, ConfirmedCommitted
<1>5. ~Committed(claim[w])
  BY <1>3 DEF Safe, TokensIssued, Committed
<1>6. TokensIssued' /\ TokensUnique' /\ OutcomeOfToken' /\ RecordKept'
      /\ FencedNotCommitted' /\ ConfirmedCommitted'
  BY <1>2 DEF Safe, TokensIssued, TokensUnique, OutcomeOfToken, RecordKept,
     FencedNotCommitted, ConfirmedCommitted, Committed, Key, Fp
<1>7. ClaimsHeld' /\ ReceiptSound' /\ CommitterOwnsKey'
  BY <1>2, <1>3, <1>5 DEF Safe, TypeOK, ClaimsHeld, ReceiptSound, CommitterOwnsKey,
     Committed, Key
<1>8. AnswersPrepared' /\ AnswersAreCommitted'
  BY <1>2, <1>4 DEF Safe, TypeOK, AnswersPrepared, AnswersAreCommitted, EffectOf, Key, Fp
<1>9. QED
  BY <1>6, <1>7, <1>8 DEF Safe

\* reconcile() settles the record of its receipt: as confirmed when the
\* execution took effect, and by releasing it when it is fenced, so that
\* neither an effect nor a possible committer loses its record.
LEMMA SafeReconcile ==
  ASSUME Safe, TypeOK', NEW w \in Workers, ReconcileStep(w),
         Reconcilable(Key(w), Fp(w), receipt[w].token, receipt[w].lease)
  PROVE  Safe'
<1> DEFINE k == Key(w)
           t == receipt[w].token
<1>1. k \in Keys
  BY RequestType DEF Safe
<1>2. entries[k].status = "staged" /\ entries[k].token = t /\ entries[k].fingerprint = Fp(w)
  BY DEF Reconcilable
<1>3. /\ Reconcile(k, receipt[w].decision)
      /\ pc' = [pc EXCEPT ![w] = "reclaim"]
      /\ UNCHANGED <<tokenGeneration, request, claim, reply, effects, fenced>>
      /\ pc[w] = "reconcile"
      /\ receipt' = [receipt EXCEPT ![w] = NoReceipt]
  BY DEF ReconcileStep, Goto
<1>4. claim[w] = NoToken
  BY <1>3 DEF Safe, ClaimsHeld
<1>5. ClaimsHeld' /\ ReceiptSound' /\ AnswersPrepared' /\ AnswersAreCommitted'
      /\ FencedNotCommitted'
  BY <1>3, <1>4 DEF Safe, TypeOK, ClaimsHeld, ReceiptSound, AnswersPrepared,
     AnswersAreCommitted, FencedNotCommitted, Committed, EffectOf, Key, Fp
<1>6. \A e \in effects : e.token = t => e.key = k /\ e.fingerprint = Fp(w)
  BY <1>1, <1>2 DEF Safe, TypeOK, RecordKept, TokensIssued, TokensUnique
<1>7. CASE receipt[w].decision = "committed"
  <2>1. entries' = Confirmed(k)
    BY <1>3, <1>7 DEF Reconcile
  <2>2. /\ \A j \in Keys \ {k} : entries'[j] = entries[j]
        /\ entries'[k].status = "confirmed"
        /\ entries'[k].token = entries[k].token
        /\ entries'[k].fingerprint = entries[k].fingerprint
        /\ entries'[k].outcome = entries[k].outcome
    BY <1>1, <2>1, StoreEffect DEF Safe, TypeOK
  <2>3. [key |-> k, fingerprint |-> Fp(w), token |-> t] \in effects
    <3>1. PICK e \in effects : e.token = t
      BY <1>3, <1>7 DEF Safe, ReceiptSound, Committed
    <3>2. e = [key |-> k, fingerprint |-> Fp(w), token |-> t]
      BY <1>6, <3>1 DEF Safe, TypeOK
    <3>3. QED
      BY <3>2
  <2> HIDE DEF k, t
  <2>4. TokensIssued' /\ TokensUnique' /\ OutcomeOfToken'
    BY <1>1, <1>2, <1>3, <2>2 DEF Safe, TokensIssued, TokensUnique, OutcomeOfToken, Key, Fp
  <2>5. RecordKept'
    BY <1>1, <1>3, <2>2 DEF Safe, TypeOK, RecordKept
  <2>6. ConfirmedCommitted'
    BY <1>1, <1>2, <1>3, <2>2, <2>3 DEF Safe, ConfirmedCommitted
  <2>7. CommitterOwnsKey'
    <3>1. ASSUME NEW v \in Workers, claim[v] # NoToken, claim[v] = t
          PROVE  pc[v] \notin {"staged", "committing", "orphaned"}
      BY <2>3, <3>1 DEF Safe, ClaimsHeld, Committed
    <3>2. QED
      BY <1>1, <1>2, <1>3, <2>2, <3>1 DEF Safe, TypeOK, CommitterOwnsKey, Key, Requests
  <2>8. QED
    BY <1>5, <2>4, <2>5, <2>6, <2>7 DEF Safe
<1>8. CASE receipt[w].decision # "committed"
  <2>1. t \in fenced
    BY <1>3, <1>8 DEF Safe, ReceiptSound
  <2>2. /\ \A j \in Keys \ {k} : entries'[j] = entries[j]
        /\ entries'[k].status = "absent" /\ entries'[k].token = NoToken
    BY <1>1, <1>3, <1>8, StoreEffect DEF Safe, TypeOK, Reconcile
  <2>r. \A v \in Workers : Key(v) \in Keys /\ Key(v)' = Key(v) /\ Fp(v)' = Fp(v)
    BY <1>3, RequestType, RequestKept DEF Safe
  <2> HIDE DEF k, t
  <2>3. /\ TokensIssued' /\ TokensUnique' /\ OutcomeOfToken' /\ ConfirmedCommitted'
    <3>1. TokensIssued'
      BY <1>1, <1>3, <2>2 DEF Safe, TypeOK, TokensIssued
    <3>2. TokensUnique'
      BY <1>1, <1>3, <2>2, <2>r DEF Safe, TokensUnique
    <3>3. OutcomeOfToken' /\ ConfirmedCommitted'
      BY <1>1, <1>3, <2>2 DEF Safe, OutcomeOfToken, ConfirmedCommitted
    <3>4. QED
      BY <3>1, <3>2, <3>3
  <2>4. RecordKept'
    BY <1>1, <1>2, <1>3, <2>1, <2>2 DEF Safe, TypeOK, RecordKept, FencedNotCommitted, Committed
  <2>5. CommitterOwnsKey'
    <3>1. ASSUME NEW v \in Workers, pc'[v] \in {"staged", "committing", "orphaned"},
                 claim[v] # NoToken, claim[v] \notin fenced
          PROVE  /\ entries[Key(v)].token = claim[v] /\ entries[Key(v)].status = "staged"
                 /\ Key(v) # k
      <4>1. v # w
        BY <1>3, <3>1 DEF Safe, TypeOK
      <4>2. pc[v] = pc'[v]
        BY <1>3, <4>1 DEF Safe, TypeOK
      <4>3. entries[Key(v)].token = claim[v] /\ entries[Key(v)].status = "staged"
        BY <3>1, <4>2 DEF Safe, CommitterOwnsKey
      <4>4. QED
        BY <1>2, <2>1, <3>1, <4>3
    <3>2. QED
      BY <1>3, <2>2, <2>r, <3>1 DEF CommitterOwnsKey
  <2>6. QED
    BY <1>5, <2>3, <2>4, <2>5 DEF Safe
<1>9. QED
  BY <1>7, <1>8

\* complete() stages the outcome under the caller's own token: the caller
\* becomes the one committer of its key.
LEMMA SafeComplete ==
  ASSUME Safe, TypeOK', NEW w \in Workers, CompleteStep(w), Completable(Key(w), claim[w])
  PROVE  Safe'
<1> DEFINE k == Key(w)
<1>1. \A v \in Workers : Key(v) \in Keys
  BY RequestType DEF Safe
<1>2. entries[k].status = "pending" /\ entries[k].token = claim[w]
  BY DEF Completable
<1>3. /\ Complete(k, claim[w], claim[w])
      /\ pc[w] = "work" /\ pc' = [pc EXCEPT ![w] = "staged"]
      /\ UNCHANGED <<tokenGeneration, request, claim, receipt, reply, effects, fenced>>
  BY <1>2 DEF CompleteStep, Completable, CompletionWithoutClaim, Goto
<1>4. /\ \A j \in Keys \ {k} : entries'[j] = entries[j]
      /\ entries'[k].status = "staged" /\ entries'[k].outcome = claim[w]
      /\ entries'[k].token = entries[k].token
      /\ entries'[k].fingerprint = entries[k].fingerprint
  BY <1>1, <1>3, StoreEffect DEF Safe, TypeOK
<1>5. \A v \in Workers : Key(v)' = Key(v) /\ Fp(v)' = Fp(v)
  BY <1>3, RequestKept
<1>6. k \in Keys
  BY <1>1
<1> HIDE DEF k
<1>7. TokensIssued' /\ OutcomeOfToken' /\ ConfirmedCommitted'
  BY <1>2, <1>3, <1>4, <1>6 DEF Safe, TokensIssued, OutcomeOfToken, ConfirmedCommitted
<1>8. TokensUnique'
  BY <1>3, <1>4, <1>5, <1>6 DEF Safe, TokensUnique
<1>9. RecordKept' /\ FencedNotCommitted'
  BY <1>2, <1>3, <1>4 DEF Safe, TypeOK, RecordKept, FencedNotCommitted, Committed
<1>10. ClaimsHeld' /\ ReceiptSound' /\ AnswersPrepared' /\ AnswersAreCommitted'
  BY <1>3 DEF Safe, TypeOK, ClaimsHeld, ReceiptSound, AnswersPrepared, AnswersAreCommitted,
     Committed, EffectOf, Key, Fp
<1>11. CommitterOwnsKey'
  BY <1>1, <1>2, <1>3, <1>4, <1>5, <1>6 DEF Safe, TypeOK, CommitterOwnsKey, k
<1>12. QED
  BY <1>7, <1>8, <1>9, <1>10, <1>11 DEF Safe

\* abandon() releases a record only to the worker that holds its token, and
\* that worker has not committed and will not.
LEMMA SafeAbandon ==
  ASSUME Safe, TypeOK', NEW w \in Workers, AbandonStep(w)
  PROVE  Safe'
<1> DEFINE k == Key(w)
<1>1. \A v \in Workers : Key(v) \in Keys
  BY RequestType DEF Safe
<1>2. /\ pc[w] = "abandon" /\ pc' = [pc EXCEPT ![w] = "rollback"]
      /\ claim' = [claim EXCEPT ![w] = NoToken]
      /\ UNCHANGED <<tokenGeneration, request, receipt, reply, effects, fenced>>
  BY DEF AbandonStep, Goto
<1>3. claim[w] # NoToken /\ ~Committed(claim[w])
  BY <1>2 DEF Safe, ClaimsHeld
<1>4. \A v \in Workers : Key(v)' = Key(v) /\ Fp(v)' = Fp(v)
  BY <1>2, RequestKept
<1>5. ClaimsHeld' /\ ReceiptSound' /\ FencedNotCommitted'
  BY <1>2 DEF Safe, TypeOK, ClaimsHeld, ReceiptSound, FencedNotCommitted, Committed
<1>6. AnswersPrepared' /\ AnswersAreCommitted'
  BY <1>2 DEF Safe, TypeOK, AnswersPrepared, AnswersAreCommitted, EffectOf, Key, Fp
<1>7. CASE UNCHANGED entries
  BY <1>2, <1>4, <1>5, <1>6, <1>7 DEF Safe, TypeOK, TokensIssued, TokensUnique,
     OutcomeOfToken, RecordKept, ConfirmedCommitted, CommitterOwnsKey
<1>8. CASE entries' # entries
  <2>1. entries[k].token = claim[w] /\ entries' = [entries EXCEPT ![k] = NoEntry]
    BY <1>8 DEF AbandonStep, Abandon
  <2>2. /\ \A j \in Keys \ {k} : entries'[j] = entries[j]
        /\ entries'[k].status = "absent" /\ entries'[k].token = NoToken
    BY <1>1, <2>1, StoreEffect DEF Safe, TypeOK
  <2>3. k \in Keys
    BY <1>1
  <2> HIDE DEF k
  <2>4. TokensIssued'
    BY <1>2, <2>2, <2>3 DEF Safe, TypeOK, TokensIssued
  <2>5. TokensUnique'
    BY SMTT(40), <1>2, <1>4, <2>2, <2>3 DEF Safe, TypeOK, TokensUnique
  <2>6. OutcomeOfToken' /\ ConfirmedCommitted'
    BY <1>2, <2>2, <2>3 DEF Safe, OutcomeOfToken, ConfirmedCommitted
  <2>7. RecordKept'
    BY <1>2, <1>3, <2>1, <2>2, <2>3 DEF Safe, TypeOK, RecordKept, Committed
  <2>8. CommitterOwnsKey'
    <3>1. \A v \in Workers : v # w /\ claim[v] # NoToken => claim[v] # claim[w]
      BY DEF Safe, TokensUnique
    <3>2. QED
      BY <1>1, <1>2, <1>4, <2>1, <2>2, <3>1 DEF Safe, TypeOK, CommitterOwnsKey
  <2>9. QED
    BY <1>5, <1>6, <2>4, <2>5, <2>6, <2>7, <2>8 DEF Safe
<1>9. QED
  BY <1>7, <1>8

\* confirm() makes final the record of an execution that took effect.
LEMMA SafeConfirm ==
  ASSUME Safe, TypeOK', NEW w \in Workers, ConfirmStep(w)
  PROVE  Safe'
<1> DEFINE k == Key(w)
<1>1. \A v \in Workers : Key(v) \in Keys
  BY RequestType DEF Safe
<1>2. /\ pc[w] = "confirm" /\ pc' = [pc EXCEPT ![w] = "done"]
      /\ reply' = [reply EXCEPT ![w] = claim[w]]
      /\ UNCHANGED <<tokenGeneration, request, claim, receipt, effects, fenced>>
  BY DEF ConfirmStep, Goto
<1>3. [key |-> k, fingerprint |-> Fp(w), token |-> claim[w]] \in effects
  BY <1>2 DEF Safe, AnswersPrepared, EffectOf
<1>4. \A v \in Workers : Key(v)' = Key(v) /\ Fp(v)' = Fp(v)
  BY <1>2, RequestKept
<1>5. ClaimsHeld' /\ ReceiptSound' /\ FencedNotCommitted'
  BY <1>2 DEF Safe, TypeOK, ClaimsHeld, ReceiptSound, FencedNotCommitted, Committed
<1>6. AnswersPrepared' /\ AnswersAreCommitted'
  BY <1>2, <1>3, <1>4 DEF Safe, TypeOK, AnswersPrepared, AnswersAreCommitted, EffectOf
<1>7. CASE UNCHANGED entries
  BY <1>2, <1>4, <1>5, <1>6, <1>7 DEF Safe, TypeOK, TokensIssued, TokensUnique,
     OutcomeOfToken, RecordKept, ConfirmedCommitted, CommitterOwnsKey
<1>8. CASE entries' # entries
  <2>1. /\ entries[k].token = claim[w] /\ entries[k].status = "staged"
        /\ entries' = Confirmed(k)
    BY <1>8 DEF ConfirmStep, Confirm
  <2>2. /\ \A j \in Keys \ {k} : entries'[j] = entries[j]
        /\ entries'[k].status = "confirmed"
        /\ entries'[k].token = entries[k].token
        /\ entries'[k].fingerprint = entries[k].fingerprint
        /\ entries'[k].outcome = entries[k].outcome
    BY <1>1, <2>1, StoreEffect DEF Safe, TypeOK
  <2>3. k \in Keys
    BY <1>1
  <2>4. entries[k].fingerprint = Fp(w)
    BY <1>2, <2>1, <2>3 DEF Safe, TokensUnique, ClaimsHeld
  <2>5. \A v \in Workers : pc[v] \in {"staged", "committing", "orphaned"}
                           => claim[v] # claim[w]
    BY <1>3 DEF Safe, ClaimsHeld, Committed
  <2> HIDE DEF k
  <2>6. TokensIssued' /\ OutcomeOfToken'
    BY <1>2, <2>1, <2>2, <2>3 DEF Safe, TokensIssued, OutcomeOfToken
  <2>7. TokensUnique'
    BY <1>2, <1>4, <2>2, <2>3 DEF Safe, TokensUnique
  <2>8. RecordKept'
    BY <1>2, <2>2, <2>3 DEF Safe, TypeOK, RecordKept
  <2>9. ConfirmedCommitted'
    BY <1>2, <1>3, <2>1, <2>2, <2>3, <2>4 DEF Safe, ConfirmedCommitted
  <2>10. CommitterOwnsKey'
    BY <1>1, <1>2, <1>4, <2>1, <2>2, <2>5 DEF Safe, TypeOK, CommitterOwnsKey
  <2>11. QED
    BY <1>5, <1>6, <2>6, <2>7, <2>8, <2>9, <2>10 DEF Safe
<1>9. QED
  BY <1>7, <1>8

\* The commit: the committer is the staged owner of its key, so the effect
\* finds its record in place, and no other worker shares its token.
LEMMA SafeCommit ==
  ASSUME Safe, TypeOK', NEW w \in Workers, Commit(w)
  PROVE  Safe'
<1>1. \A v \in Workers : Key(v) \in Keys
  BY RequestType DEF Safe
<1>2. /\ pc[w] = "committing"
      /\ UNCHANGED <<entries, tokenGeneration, request, claim, receipt, reply, fenced>>
  BY DEF Commit
<1>3. \A v \in Workers : Key(v)' = Key(v) /\ Fp(v)' = Fp(v)
  BY <1>2, RequestKept
<1>4. CASE claim[w] = NoToken
  <2>1. UNCHANGED effects /\ pc' = [pc EXCEPT ![w] = "done"]
    BY <1>4 DEF Commit, SourceCommit, Goto
  <2>2. TokensIssued' /\ TokensUnique' /\ OutcomeOfToken' /\ RecordKept'
        /\ FencedNotCommitted' /\ ConfirmedCommitted'
    BY <1>2, <1>3, <2>1 DEF Safe, TokensIssued, TokensUnique, OutcomeOfToken, RecordKept,
       FencedNotCommitted, ConfirmedCommitted, Committed
  <2>3. ClaimsHeld' /\ ReceiptSound' /\ CommitterOwnsKey'
    BY <1>2, <1>3, <2>1 DEF Safe, TypeOK, ClaimsHeld, ReceiptSound, CommitterOwnsKey, Committed
  <2>4. AnswersPrepared' /\ AnswersAreCommitted'
    BY ZenonT(60), <1>2, <1>3, <1>4, <2>1 DEF Safe, TypeOK, AnswersPrepared, AnswersAreCommitted, EffectOf
  <2>5. QED
    BY <2>2, <2>3, <2>4 DEF Safe
<1>5. CASE claim[w] # NoToken
  <2>1. /\ claim[w] \notin fenced /\ effects' = effects \cup {EffectOf(w)}
        /\ pc' = [pc EXCEPT ![w] = "confirm"]
    BY <1>5 DEF Commit, SourceCommit, Goto
  <2>2. /\ entries[Key(w)].token = claim[w] /\ entries[Key(w)].status = "staged"
        /\ entries[Key(w)].fingerprint = Fp(w)
    BY <1>1, <1>2, <1>5, <2>1 DEF Safe, CommitterOwnsKey, TokensUnique
  <2>3. /\ EffectOf(w).key = Key(w) /\ EffectOf(w).fingerprint = Fp(w)
        /\ EffectOf(w).token = claim[w]
    BY DEF EffectOf
  <2>4. \A v \in Workers : v # w => claim[v] # claim[w]
    BY <1>5 DEF Safe, TokensUnique
  <2>5. TokensIssued' /\ TokensUnique' /\ OutcomeOfToken' /\ ConfirmedCommitted'
    BY <1>2, <1>3, <1>5, <2>1, <2>3 DEF Safe, TokensIssued, TokensUnique, OutcomeOfToken,
       ConfirmedCommitted
  <2>6. ClaimsHeld'
    BY <1>2, <1>5, <2>1, <2>3, <2>4 DEF Safe, TypeOK, ClaimsHeld, Committed
  <2>7. RecordKept' /\ FencedNotCommitted'
    BY <1>2, <2>1, <2>2, <2>3 DEF Safe, RecordKept, FencedNotCommitted, Committed
  <2>8. ReceiptSound' /\ CommitterOwnsKey'
    BY <1>2, <1>3, <2>1 DEF Safe, TypeOK, ReceiptSound, CommitterOwnsKey, Committed
  <2>9. AnswersPrepared' /\ AnswersAreCommitted'
    BY SMTT(40), <1>2, <1>3, <1>5, <2>1 DEF Safe, TypeOK, AnswersPrepared, AnswersAreCommitted, EffectOf
  <2>10. QED
    BY <2>5, <2>6, <2>7, <2>8, <2>9 DEF Safe
<1>6. QED
  BY <1>4, <1>5

\* Every step of the protocol keeps Safe.
LEMMA SafeNext == Safe /\ [Next]_vars => Safe'
<1> SUFFICES ASSUME Safe, [Next]_vars PROVE Safe'
  OBVIOUS
<1>0. TypeOK /\ TypeOK'
  BY TypeNext DEF Safe
<1> USE DEF Safe, TypeOK, TokensIssued, TokensUnique, ClaimsHeld, OutcomeOfToken,
     RecordKept, FencedNotCommitted, ConfirmedCommitted, ReceiptSound,
     AnswersPrepared, CommitterOwnsKey, AnswersAreCommitted, Committed,
     Key, Fp, EffectOf
<1>1. ASSUME NEW w \in Workers, Start(w) PROVE Safe'
  BY <1>0, <1>1 DEF Start, BeginAttempt, Goto
<1>2. ASSUME NEW w \in Workers, ClaimFresh(w) PROVE Safe'
  BY <1>0, <1>2, SafeClaimFresh
<1>3. ASSUME NEW w \in Workers, ClaimReplay(w) PROVE Safe'
  BY <1>0, <1>3, SafeClaimReplay
<1>4. ASSUME NEW w \in Workers, ClaimRejected(w) PROVE Safe'
  BY SMTT(40), <1>0, <1>4 DEF ClaimRejected, Throw, Goto, ClaimStep
<1>5. ASSUME NEW w \in Workers, ClaimNeedsReconciliation(w) PROVE Safe'
  BY <1>0, <1>5 DEF ClaimNeedsReconciliation, Goto
<1>6. ASSUME NEW w \in Workers, Decide(w) PROVE Safe'
  BY <1>0, <1>6 DEF Decide, Evidence, Goto
<1>7. ASSUME NEW w \in Workers, DecideUnknown(w) PROVE Safe'
  BY <1>0, <1>7 DEF DecideUnknown, Throw, Goto
<1>8. ASSUME NEW w \in Workers, ReconcileStep(w) PROVE Safe'
  <2>1. CASE Reconcilable(Key(w), Fp(w), receipt[w].token, receipt[w].lease)
    BY <1>0, <1>8, <2>1, SafeReconcile
  <2>2. CASE ~Reconcilable(Key(w), Fp(w), receipt[w].token, receipt[w].lease)
    <3>1. /\ Throw(w, "claimLost") /\ pc[w] = "reconcile"
          /\ receipt' = [receipt EXCEPT ![w] = NoReceipt]
          /\ UNCHANGED <<entries, tokenGeneration, request, claim, reply, effects, fenced>>
      BY <1>8, <2>2 DEF ReconcileStep
    <3>2. pc' = [pc EXCEPT ![w] = "rollback"]
      BY <3>1 DEF Throw, Goto
    <3>3. QED
      BY <1>0, <3>1, <3>2
  <2>3. QED
    BY <2>1, <2>2
<1>9. ASSUME NEW w \in Workers, HeartbeatRenews(w) PROVE Safe'
  BY <1>0, <1>9, SafeRenew
<1>10. ASSUME NEW w \in Workers, HeartbeatLosesClaim(w) PROVE Safe'
  BY <1>0, <1>10 DEF HeartbeatLosesClaim
<1>11. ASSUME NEW w \in Workers, HeartbeatFails(w) PROVE Safe'
  BY <1>0, <1>11 DEF HeartbeatFails
<1>12. ASSUME NEW w \in Workers, WorkFails(w) PROVE Safe'
  BY <1>0, <1>12 DEF WorkFails, Throw, Goto
<1>13. ASSUME NEW w \in Workers, CompleteStep(w) PROVE Safe'
  <2>1. CASE Completable(Key(w), claim[w])
    BY <1>0, <1>13, <2>1, SafeComplete
  <2>2. CASE ~Completable(Key(w), claim[w])
    BY <1>0, <1>13, <2>2 DEF CompleteStep, Throw, Goto
  <2>3. QED
    BY <2>1, <2>2
<1>14. ASSUME NEW w \in Workers, StopHeartbeat(w) PROVE Safe'
  BY <1>0, <1>14 DEF StopHeartbeat, Throw, Goto
<1>15. ASSUME NEW w \in Workers, AbandonStep(w) PROVE Safe'
  BY <1>0, <1>15, SafeAbandon
<1>16. ASSUME NEW w \in Workers, Commit(w) PROVE Safe'
  BY <1>0, <1>16, SafeCommit
<1>17. ASSUME NEW w \in Workers, CommitFails(w) PROVE Safe'
  BY <1>0, <1>17 DEF CommitFails, CommitRejected, Goto
<1>18. ASSUME NEW w \in Workers, CommitAnswerLost(w) PROVE Safe'
  BY <1>0, <1>18 DEF CommitAnswerLost, CommitRejected, SourceCommit, Goto
<1>19. ASSUME NEW w \in Workers, RetryOrReject(w) PROVE Safe'
  <2>1. CASE err[w] \in RetryableErrors /\ attempt[w] < MaxAttempts
    <3>1. /\ BeginAttempt(w, attempt[w] + 1)
          /\ UNCHANGED <<entries, tokenGeneration, request, effects, fenced>>
      BY <1>19, <2>1 DEF RetryOrReject
    <3>2. QED
      BY <1>0, <3>1 DEF BeginAttempt, Goto
  <2>2. CASE ~(err[w] \in RetryableErrors /\ attempt[w] < MaxAttempts)
    BY <1>0, <1>19, <2>2 DEF RetryOrReject, Goto
  <2>3. QED
    BY <2>1, <2>2
<1>20. ASSUME NEW w \in Workers, ConfirmStep(w) PROVE Safe'
  BY <1>0, <1>20, SafeConfirm
<1>21. ASSUME NEW w \in Workers, Crash(w) PROVE Safe'
  BY <1>0, <1>21 DEF Crash, Goto
<1>22. ASSUME NEW w \in Workers, OrphanSettles(w) PROVE Safe'
  BY SMTT(40), <1>0, <1>22 DEF OrphanSettles, SourceCommit, Goto
<1>23. ASSUME NEW k \in Keys, LeaseExpires(k) PROVE Safe'
  BY <1>0, <1>23 DEF LeaseExpires, Expire
<1>24. ASSUME NEW t \in 1..tokenGeneration, Fence(t) PROVE Safe'
  BY <1>0, <1>24 DEF Fence
<1>25. CASE UNCHANGED vars
  BY <1>0, <1>25
<1>26. QED
  BY ZenonT(60), <1>1, <1>2, <1>3, <1>4, <1>5, <1>6, <1>7, <1>8, <1>9, <1>10, <1>11, <1>12, <1>13, <1>14, <1>15, <1>16, <1>17, <1>18, <1>19, <1>20, <1>21, <1>22, <1>23, <1>24, <1>25 DEF Next, CallStep, HeartbeatStep

-----------------------------------------------------------------------------
\* The inductive invariant holds in every reachable state.
THEOREM SafeAlways == Spec => []Safe
<1>1. QED
  BY SafeInit, SafeNext, PTL DEF Spec

\* Whatever overlaps, expires, fails, crashes or is redelivered, the command of
\* an idempotency key takes effect at most once.
THEOREM EffectAtMostOnce == Spec => []AtMostOneEffect
<1>1. Safe => AtMostOneEffect
  BY DEF Safe, TypeOK, RecordKept, AtMostOneEffect
<1>2. QED
  BY <1>1, SafeAlways, PTL

\* Every answer of withIdempotentCommit, fresh or replayed, is the outcome of
\* a committed execution of the same key and content.
THEOREM AnswersCorrect == Spec => []AnswersAreCommitted
<1>1. Safe => AnswersAreCommitted
  BY DEF Safe
<1>2. QED
  BY <1>1, SafeAlways, PTL

\* An attempt that may still commit is the staged owner of its key.
THEOREM CommitterIsOwner == Spec => []CommitterOwnsKey
<1>1. Safe => CommitterOwnsKey
  BY DEF Safe
<1>2. QED
  BY <1>1, SafeAlways, PTL

-----------------------------------------------------------------------------
(* The records of the store *)

\* Who takes a key over, keeps its record or releases it.
TakesOver(k) == /\ \/ entries[k].status = "absent" /\ HasRoom
                   \/ entries[k].status = "pending"
                /\ entries'[k].status = "pending"

Keeps(k) == /\ entries[k].status \in {"pending", "staged"}
            /\ entries'[k].status # "absent"
            /\ entries'[k].token = entries[k].token
            /\ entries'[k].fingerprint = entries[k].fingerprint
            /\ entries[k].status = "staged" => entries'[k].outcome = entries[k].outcome

Releases(k) == /\ entries[k].status \in {"pending", "staged"} /\ ~Committed(entries[k].token)
               /\ entries'[k].status = "absent"

\* A step changes one record, and releases none that was committed.
LEMMA RecordSteps ==
  ASSUME Safe, [Next]_vars, entries' # entries
  PROVE  \E k \in Keys : /\ \A j \in Keys \ {k} : entries'[j] = entries[j]
                         /\ TakesOver(k) \/ Keeps(k) \/ Releases(k)
<1>1. TypeOK /\ \A v \in Workers : Key(v) \in Keys /\ Fp(v) \in Fingerprints
  BY RequestType DEF Safe
<1>2. entries \in [Keys -> Entry]
  BY <1>1 DEF TypeOK
<1>3. CASE \E w \in Workers : ClaimFresh(w)
  <2>1. PICK w \in Workers : Claimable(Key(w), Fp(w)) /\ CreatePending(Key(w), Fp(w))
    BY <1>3 DEF ClaimFresh
  <2>2. /\ \A j \in Keys \ {Key(w)} : entries'[j] = entries[j]
        /\ entries'[Key(w)].status = "pending"
    BY <1>1, <1>2, <2>1, StoreEffect
  <2>3. TakesOver(Key(w))
    BY <2>1, <2>2 DEF TakesOver, Claimable
  <2> QED BY <1>1, <2>2, <2>3
<1>4. CASE \E w \in Workers : HeartbeatRenews(w)
  <2>1. PICK w \in Workers : Renewable(Key(w), claim[w]) /\ Renew(Key(w))
    BY <1>4 DEF HeartbeatRenews
  <2>2. /\ \A j \in Keys \ {Key(w)} : entries'[j] = entries[j]
        /\ entries'[Key(w)].status = entries[Key(w)].status
        /\ entries'[Key(w)].token = entries[Key(w)].token
        /\ entries'[Key(w)].fingerprint = entries[Key(w)].fingerprint
        /\ entries'[Key(w)].outcome = entries[Key(w)].outcome
    BY <1>1, <1>2, <2>1, StoreEffect
  <2>3. Keeps(Key(w))
    BY <2>1, <2>2 DEF Keeps, Renewable
  <2> QED BY <1>1, <2>2, <2>3
<1>5. CASE \E w \in Workers : CompleteStep(w)
  <2>1. PICK w \in Workers : Completable(Key(w), claim[w]) /\ Complete(Key(w), claim[w], claim[w])
    BY <1>5 DEF CompleteStep
  <2>2. /\ \A j \in Keys \ {Key(w)} : entries'[j] = entries[j]
        /\ entries'[Key(w)].status = "staged"
        /\ entries'[Key(w)].token = entries[Key(w)].token
        /\ entries'[Key(w)].fingerprint = entries[Key(w)].fingerprint
    BY <1>1, <1>2, <2>1, StoreEffect
  <2>3. Keeps(Key(w))
    BY <2>1, <2>2 DEF Keeps, Completable
  <2> QED BY <1>1, <2>2, <2>3
<1>6. CASE \E w \in Workers : AbandonStep(w)
  <2>1. PICK w \in Workers : /\ pc[w] = "abandon"
                             /\ entries[Key(w)].status \in {"pending", "staged"}
                             /\ entries[Key(w)].token = claim[w]
                             /\ entries' = [entries EXCEPT ![Key(w)] = NoEntry]
    BY <1>6 DEF AbandonStep, Abandon
  <2>2. ~Committed(entries[Key(w)].token)
    BY <2>1 DEF Safe, ClaimsHeld
  <2>3. /\ \A j \in Keys \ {Key(w)} : entries'[j] = entries[j]
        /\ entries'[Key(w)].status = "absent"
    BY <1>1, <1>2, <2>1, StoreEffect
  <2>4. Releases(Key(w))
    BY <2>1, <2>2, <2>3 DEF Releases
  <2> QED BY <1>1, <2>3, <2>4
<1>7. CASE \E w \in Workers : ConfirmStep(w)
  <2>1. PICK w \in Workers : entries[Key(w)].status = "staged" /\ entries' = Confirmed(Key(w))
    BY <1>7 DEF ConfirmStep, Confirm
  <2>2. /\ \A j \in Keys \ {Key(w)} : entries'[j] = entries[j]
        /\ entries'[Key(w)].status = "confirmed"
        /\ entries'[Key(w)].token = entries[Key(w)].token
        /\ entries'[Key(w)].fingerprint = entries[Key(w)].fingerprint
        /\ entries'[Key(w)].outcome = entries[Key(w)].outcome
    BY <1>1, <1>2, <2>1, StoreEffect
  <2>3. Keeps(Key(w))
    BY <2>1, <2>2 DEF Keeps
  <2> QED BY <1>1, <2>2, <2>3
<1>8. CASE \E w \in Workers : ReconcileStep(w)
  <2>1. PICK w \in Workers : ReconcileStep(w)
    BY <1>8
  <2> DEFINE k == Key(w)
  <2>2. /\ pc[w] = "reconcile" /\ Reconcile(k, receipt[w].decision)
        /\ entries[k].status = "staged" /\ entries[k].token = receipt[w].token
    BY <2>1 DEF ReconcileStep, Reconcilable
  <2>3. CASE receipt[w].decision = "committed"
    <3>1. entries' = Confirmed(k)
      BY <2>2, <2>3 DEF Reconcile
    <3>2. /\ \A j \in Keys \ {k} : entries'[j] = entries[j]
          /\ entries'[k].status = "confirmed" /\ entries'[k].token = entries[k].token
          /\ entries'[k].fingerprint = entries[k].fingerprint
          /\ entries'[k].outcome = entries[k].outcome
      BY <1>1, <1>2, <3>1, StoreEffect
    <3>3. Keeps(k)
      BY <2>2, <3>2 DEF Keeps
    <3> QED BY <1>1, <3>2, <3>3
  <2>4. CASE receipt[w].decision # "committed"
    <3>1. receipt[w].token \in fenced /\ entries' = [entries EXCEPT ![k] = NoEntry]
      BY <2>2, <2>4 DEF Reconcile, Safe, ReceiptSound
    <3>2. ~Committed(entries[k].token)
      BY <2>2, <3>1 DEF Safe, FencedNotCommitted
    <3>3. /\ \A j \in Keys \ {k} : entries'[j] = entries[j]
          /\ entries'[k].status = "absent"
      BY <1>1, <1>2, <3>1, StoreEffect
    <3>4. Releases(k)
      BY <2>2, <3>2, <3>3 DEF Releases
    <3> QED BY <1>1, <3>3, <3>4
  <2> QED BY <2>3, <2>4
<1>9. CASE \E k \in Keys : LeaseExpires(k)
  <2>1. PICK k \in Keys : Expire(k)
    BY <1>9 DEF LeaseExpires
  <2>2. /\ entries[k].status \in {"pending", "staged"}
        /\ entries' = [entries EXCEPT ![k] = [entries[k] EXCEPT !.term = "over"]]
    BY <1>2, <2>1 DEF Expire
  <2>3. \A j \in Keys \ {k} : entries'[j] = entries[j]
    BY <1>2, <2>2
  <2>4. /\ entries'[k].status = entries[k].status /\ entries'[k].token = entries[k].token
        /\ entries'[k].fingerprint = entries[k].fingerprint
        /\ entries'[k].outcome = entries[k].outcome
    BY <1>2, <2>2 DEF Entry
  <2>5. Keeps(k)
    BY <2>2, <2>4 DEF Keeps
  <2> QED BY <2>3, <2>5
<1>10. \/ \E w \in Workers : \/ ClaimFresh(w) \/ HeartbeatRenews(w) \/ CompleteStep(w)
                             \/ AbandonStep(w) \/ ConfirmStep(w) \/ ReconcileStep(w)
       \/ \E k \in Keys : LeaseExpires(k)
  <2> SUFFICES ASSUME NEW w \in Workers,
                      \/ Start(w) \/ ClaimReplay(w) \/ ClaimRejected(w)
                      \/ ClaimNeedsReconciliation(w) \/ Decide(w) \/ DecideUnknown(w)
                      \/ HeartbeatLosesClaim(w) \/ HeartbeatFails(w) \/ WorkFails(w)
                      \/ StopHeartbeat(w) \/ Commit(w) \/ CommitFails(w) \/ CommitAnswerLost(w)
                      \/ RetryOrReject(w) \/ Crash(w) \/ OrphanSettles(w)
                      \/ \E t \in 1..tokenGeneration : Fence(t)
               PROVE  FALSE
    <3>1. ~UNCHANGED vars
      OBVIOUS
    <3>2. ~\E t \in 1..tokenGeneration : Fence(t)
      BY DEF Fence
    <3> QED BY <3>1, <3>2 DEF Next, CallStep, HeartbeatStep
  <2>1. UNCHANGED entries
    BY DEF Start, ClaimReplay, ClaimRejected, ClaimNeedsReconciliation, Decide, DecideUnknown,
           HeartbeatLosesClaim, HeartbeatFails, WorkFails, StopHeartbeat, Commit, CommitFails,
           CommitAnswerLost, CommitRejected, RetryOrReject, Crash, OrphanSettles, Fence
  <2> QED BY <2>1
<1> QED BY <1>3, <1>4, <1>5, <1>6, <1>7, <1>8, <1>9, <1>10

Stored == {k \in Keys : entries[k].status # "absent"}

Room == IsFiniteSet(Stored) /\ Cardinality(Stored) <= MaxEntries

\* No step stores more records than there is room for.
LEMMA RoomNext ==
  ASSUME Safe, Room, [Next]_vars
  PROVE  Room'
<1>1. /\ IsFiniteSet(Stored) /\ Cardinality(Stored) <= MaxEntries /\ MaxEntries \in Nat
      /\ Cardinality(Stored) \in Nat
  BY FS_CardinalityType, StoreAssumption DEF Room
<1>2. CASE entries' = entries
  <2>1. Stored' = Stored
    BY <1>2 DEF Stored
  <2> QED BY <1>1, <2>1 DEF Room
<1>3. CASE entries' # entries
  <2>1. PICK k \in Keys : /\ \A j \in Keys \ {k} : entries'[j] = entries[j]
                          /\ TakesOver(k) \/ Keeps(k) \/ Releases(k)
    BY <1>3, RecordSteps
  <2>2. CASE entries[k].status = "absent"
    <3>1. HasRoom /\ entries'[k].status = "pending"
      BY <2>1, <2>2 DEF TakesOver, Keeps, Releases
    <3>2. Stored' = Stored \cup {k} /\ k \notin Stored /\ Cardinality(Stored) < MaxEntries
      BY <2>1, <2>2, <3>1 DEF Stored, HasRoom
    <3>3. IsFiniteSet(Stored \cup {k}) /\ Cardinality(Stored \cup {k}) = Cardinality(Stored) + 1
      BY <1>1, <3>2, FS_AddElement
    <3> QED BY <1>1, <3>2, <3>3 DEF Room
  <2>3. CASE entries[k].status # "absent"
    <3>1. Stored' \subseteq Stored
      BY <2>1, <2>3 DEF Stored
    <3>2. IsFiniteSet(Stored') /\ Cardinality(Stored') <= Cardinality(Stored)
      BY <1>1, <3>1, FS_Subset
    <3>3. Cardinality(Stored') \in Nat
      BY <3>2, FS_CardinalityType
    <3> QED BY <1>1, <3>2, <3>3 DEF Room
  <2> QED BY <2>2, <2>3
<1> QED BY <1>2, <1>3

\* No step loses the record of a committed execution, or changes a final one.
LEMMA CommittedKept ==
  ASSUME Safe, [Next]_vars, NEW k \in Keys
  PROVE  /\ Committed(entries[k].token) =>
               /\ entries'[k].token = entries[k].token
               /\ entries'[k].outcome = entries[k].outcome
               /\ entries'[k].fingerprint = entries[k].fingerprint
         /\ entries[k].status = "confirmed" => entries'[k] = entries[k]
<1>1. CASE entries' = entries
  BY <1>1
<1>2. CASE entries' # entries
  <2>1. PICK j \in Keys : /\ \A i \in Keys \ {j} : entries'[i] = entries[i]
                          /\ TakesOver(j) \/ Keeps(j) \/ Releases(j)
    BY <1>2, RecordSteps
  <2>2. CASE k # j
    BY <2>1, <2>2
  <2>3. CASE k = j
    <3>1. TakesOver(k) \/ Keeps(k) \/ Releases(k)
      BY <2>1, <2>3
    <3>2. entries[k].status # "confirmed"
      BY <3>1 DEF TakesOver, Keeps, Releases
    <3>3. ASSUME Committed(entries[k].token) PROVE entries[k].status = "staged"
      <4>1. PICK e \in effects : e.token = entries[k].token
        BY <3>3 DEF Committed
      <4>2. /\ e.token # NoToken /\ e.key \in Keys
            /\ entries[e.key].token = e.token /\ entries[e.key].status \in {"staged", "confirmed"}
        BY DEF Safe, TypeOK, TokensIssued, RecordKept
      <4>3. e.key = k
        BY <4>1, <4>2 DEF Safe, TokensUnique
      <4> QED BY <3>2, <4>2, <4>3
    <3>4. ASSUME Committed(entries[k].token) PROVE Keeps(k)
      BY <3>1, <3>3, <3>4 DEF TakesOver, Releases
    <3> QED BY <3>2, <3>3, <3>4 DEF Keeps
  <2> QED BY <2>2, <2>3
<1> QED BY <1>1, <1>2

\* The store keeps within maxEntries, and yet never forgets a command that took
\* effect (claim, abandon and reconcile of the store).
THEOREM RecordsAlwaysKept == Spec => RecordsKept
<1>1. Init => Room
  <2> SUFFICES ASSUME Init PROVE Room
    OBVIOUS
  <2>1. Stored = {}
    BY DEF Init, StoreInit, NoEntry, Stored
  <2>2. IsFiniteSet(Stored) /\ Cardinality(Stored) = 0
    BY <2>1, FS_EmptySet
  <2> QED BY <2>2, StoreAssumption DEF Room
<1>2. Safe /\ Room /\ [Next]_vars => Room'
  BY RoomNext
<1>3. Room => WithinCapacity
  BY DEF Room, Stored, WithinCapacity
<1>4. Safe /\ [Next]_vars =>
      [\A k \in Keys :
          /\ Committed(entries[k].token) =>
                /\ entries'[k].token = entries[k].token
                /\ entries'[k].outcome = entries[k].outcome
                /\ entries'[k].fingerprint = entries[k].fingerprint
          /\ entries[k].status = "confirmed" => entries'[k] = entries[k]]_vars
  BY CommittedKept
<1> QED BY <1>1, <1>2, <1>3, <1>4, SafeAlways, PTL DEF Spec, RecordsKept, CommittedRecordKept

-----------------------------------------------------------------------------
(* The refinement of ExactlyOnce *)

\* What the source of truth and the callers' answers are to ExactlyOnce.
EffectIn(E) == [k \in Keys |-> IF \E e \in E : e.key = k
                               THEN (CHOOSE e \in E : e.key = k).token
                               ELSE NoToken]

BoundIn(E) == [k \in Keys |-> {e.fingerprint : e \in {d \in E : d.key = k}}]

Given == [w \in Workers |-> IF pc[w] = "done" THEN reply[w] ELSE NoToken]

\* An effect determines what its key is bound to.
LEMMA EffectOfKey ==
  ASSUME NEW E, \A d, e \in E : d.key = e.key => d = e, NEW x \in E, x.key \in Keys
  PROVE  EffectIn(E)[x.key] = x.token /\ BoundIn(E)[x.key] = {x.fingerprint}
<1>1. (CHOOSE d \in E : d.key = x.key) = x
  OBVIOUS
<1>2. {d \in E : d.key = x.key} = {x}
  OBVIOUS
<1> QED BY <1>1, <1>2 DEF EffectIn, BoundIn

\* A key without an effect is bound to nothing.
LEMMA NoEffectOfKey ==
  ASSUME NEW E, NEW k \in Keys, \A e \in E : e.key # k
  PROVE  EffectIn(E)[k] = NoToken /\ BoundIn(E)[k] = {}
BY DEF EffectIn, BoundIn

\* An answer is not taken back, and only a commit of a replay, or the end of the
\* confirmation of a commit, gives one.
LEMMA GivenOnce ==
  ASSUME Safe, [Next]_vars
  PROVE  \/ /\ Given' = Given
            /\ effects' = effects \/ \E w \in Workers : effects' = effects \cup {EffectOf(w)}
                                                        /\ EffectOf(w) \notin effects
                                                        /\ claim[w] # NoToken
         \/ /\ effects' = effects
            /\ \E w \in Workers : /\ Given[w] = NoToken
                                  /\ \E e \in effects : /\ e.key = Key(w) /\ e.fingerprint = Fp(w)
                                                        /\ Given' = [Given EXCEPT ![w] = e.token]
<1>1. TypeOK
  BY DEF Safe
<1> DEFINE Quiet == \A v \in Workers : /\ pc'[v] = "done" <=> pc[v] = "done"
                                       /\ pc[v] = "done" => reply'[v] = reply[v]
<1>2. ASSUME Quiet PROVE Given' = Given
  BY <1>2 DEF Given
<1>3. CASE \E w \in Workers : Commit(w)
  <2>1. PICK w \in Workers : Commit(w)
    BY <1>3
  <2>2. /\ pc[w] = "committing" /\ reply' = reply
        /\ pc' = [pc EXCEPT ![w] = IF claim[w] = NoToken THEN "done" ELSE "confirm"]
    BY <2>1 DEF Commit, Goto
  <2>3. CASE claim[w] = NoToken
    <3>1. effects' = effects /\ pc' = [pc EXCEPT ![w] = "done"]
      BY <2>1, <2>2, <2>3 DEF Commit, SourceCommit
    <3>2. [key |-> Key(w), fingerprint |-> Fp(w), token |-> reply[w]] \in effects
      BY <2>2, <2>3 DEF Safe, AnswersPrepared
    <3>3. Given[w] = NoToken /\ Given' = [Given EXCEPT ![w] = reply[w]]
      <4>1. /\ pc[w] = "committing" /\ reply' = reply /\ pc' = [pc EXCEPT ![w] = "done"]
            /\ pc \in [Workers -> Steps]
        BY <1>1, <2>2, <3>1 DEF TypeOK
      <4> QED BY <4>1 DEF Given
    <3> QED BY <3>1, <3>2, <3>3
  <2>4. CASE claim[w] # NoToken
    <3>1. effects' = effects \cup {EffectOf(w)}
      BY <2>1, <2>4 DEF Commit, SourceCommit
    <3>2. EffectOf(w) \notin effects
      BY <2>2 DEF Safe, ClaimsHeld, Committed, EffectOf
    <3>3. Quiet
      BY <1>1, <2>2, <2>4 DEF TypeOK
    <3> QED BY <1>2, <2>4, <3>1, <3>2, <3>3
  <2> QED BY <2>3, <2>4
<1>4. CASE \E w \in Workers : ConfirmStep(w)
  <2>1. PICK w \in Workers : ConfirmStep(w)
    BY <1>4
  <2>2. /\ pc[w] = "confirm" /\ pc' = [pc EXCEPT ![w] = "done"] /\ effects' = effects
        /\ reply' = [reply EXCEPT ![w] = claim[w]]
    BY <2>1 DEF ConfirmStep, Goto
  <2>3. EffectOf(w) \in effects
    BY <2>2 DEF Safe, AnswersPrepared
  <2>4. /\ EffectOf(w).key = Key(w) /\ EffectOf(w).fingerprint = Fp(w)
        /\ EffectOf(w).token = claim[w]
    BY DEF EffectOf
  <2>5. Given[w] = NoToken /\ Given' = [Given EXCEPT ![w] = claim[w]]
    BY <1>1, <2>2 DEF Given, TypeOK
  <2> QED BY <2>2, <2>3, <2>4, <2>5
<1>5. CASE \E w \in Workers : CommitAnswerLost(w) \/ OrphanSettles(w)
  <2>1. PICK w \in Workers : CommitAnswerLost(w) \/ OrphanSettles(w)
    BY <1>5
  <2>2. /\ pc[w] \in {"committing", "orphaned"} /\ reply' = reply
        /\ pc' = [pc EXCEPT ![w] = "rollback"] \/ pc' = [pc EXCEPT ![w] = "crashed"]
        /\ SourceCommit(w) \/ UNCHANGED effects
    BY <2>1 DEF CommitAnswerLost, CommitRejected, OrphanSettles, Goto
  <2>3. Quiet
    BY <1>1, <2>2 DEF TypeOK
  <2>4. EffectOf(w) \notin effects
    BY <2>2 DEF Safe, ClaimsHeld, Committed, EffectOf
  <2> HIDE DEF Quiet
  <2> QED BY <1>2, <2>2, <2>3, <2>4 DEF SourceCommit
<1>6. CASE \E w \in Workers : ClaimFresh(w) \/ ClaimReplay(w) \/ RetryOrReject(w) \/ Start(w)
  <2>1. PICK w \in Workers : ClaimFresh(w) \/ ClaimReplay(w) \/ RetryOrReject(w) \/ Start(w)
    BY <1>6
  <2>2. /\ effects' = effects /\ pc[w] # "done"
        /\ \E s \in Steps \ {"done"} : pc' = [pc EXCEPT ![w] = s]
        /\ \A v \in Workers \ {w} : reply'[v] = reply[v]
    BY <1>1, <2>1 DEF ClaimFresh, ClaimReplay, ClaimStep, RetryOrReject, Start, BeginAttempt, Goto, TypeOK
  <2>3. Quiet
    BY <1>1, <2>2 DEF TypeOK
  <2> HIDE DEF Quiet
  <2> QED BY <1>2, <2>2, <2>3
<1>7. CASE \E w \in Workers :
              \/ ClaimRejected(w) \/ ClaimNeedsReconciliation(w) \/ Decide(w) \/ DecideUnknown(w)
              \/ ReconcileStep(w) \/ WorkFails(w) \/ CompleteStep(w) \/ StopHeartbeat(w)
              \/ AbandonStep(w) \/ CommitFails(w) \/ Crash(w)
  <2>1. PICK w \in Workers :
              \/ ClaimRejected(w) \/ ClaimNeedsReconciliation(w) \/ Decide(w) \/ DecideUnknown(w)
              \/ ReconcileStep(w) \/ WorkFails(w) \/ CompleteStep(w) \/ StopHeartbeat(w)
              \/ AbandonStep(w) \/ CommitFails(w) \/ Crash(w)
    BY <1>7
  <2>2. /\ effects' = effects /\ reply' = reply /\ pc[w] # "done"
        /\ \E s \in Steps \ {"done"} : pc' = [pc EXCEPT ![w] = s]
    BY <1>1, <2>1 DEF ClaimRejected, ClaimNeedsReconciliation, Decide, DecideUnknown, ReconcileStep,
       WorkFails, CompleteStep, StopHeartbeat, AbandonStep, CommitFails, CommitRejected, Crash,
       ClaimStep, Throw, Goto
  <2>3. Quiet
    BY <1>1, <2>2 DEF TypeOK
  <2> HIDE DEF Quiet
  <2> QED BY <1>2, <2>2, <2>3
<1>8. CASE \/ UNCHANGED vars \/ (\E w \in Workers : HeartbeatStep(w))
           \/ (\E k \in Keys : LeaseExpires(k)) \/ (\E t \in 1..tokenGeneration : Fence(t))
  <2>1. UNCHANGED <<pc, reply, effects>>
    BY <1>8 DEF HeartbeatStep, HeartbeatRenews, HeartbeatLosesClaim, HeartbeatFails,
       LeaseExpires, Fence
  <2> QED BY <2>1 DEF Given
<1> QED BY <1>3, <1>4, <1>5, <1>6, <1>7, <1>8 DEF Next, CallStep

\* Every step is one of ExactlyOnce, or none to its callers.
LEMMA StepRefines ==
  ASSUME Safe, Safe', [Next]_vars
  PROVE  [Abstract!AbstractNext]_(Abstract!abstractVars)
<1>1. /\ \A d, e \in effects : d.key = e.key => d = e
      /\ \A d, e \in effects' : d.key = e.key => d = e
      /\ \A e \in effects : e.key \in Keys
      /\ \A w \in Workers : Key(w) \in Keys /\ Fp(w) \in Fingerprints /\ claim[w] \in Nat
  BY RequestType DEF Safe, TypeOK, RecordKept
<1>2. CASE /\ Given' = Given
           /\ effects' = effects
  <2> QED BY <1>2 DEF Abstract!abstractVars, Given
<1>3. CASE /\ Given' = Given
           /\ \E w \in Workers : effects' = effects \cup {EffectOf(w)}
                                 /\ EffectOf(w) \notin effects /\ claim[w] # NoToken
  <2>1. PICK w \in Workers : /\ effects' = effects \cup {EffectOf(w)}
                             /\ EffectOf(w) \notin effects /\ claim[w] # NoToken
    BY <1>3
  <2>0. PICK k \in Keys, f \in Fingerprints : k = Key(w) /\ f = Fp(w)
    BY <1>1
  <2> DEFINE x == EffectOf(w)
  <2>2. k \in Keys /\ f \in Fingerprints /\ x.key = k /\ x.fingerprint = f /\ x.token = claim[w]
    BY <1>1, <2>0 DEF EffectOf
  <2>3. claim[w] \in Nat \ {NoToken} /\ x \in effects'
    BY <1>1, <2>1
  <2> HIDE DEF x
  <2>4. \A e \in effects : e.key # k
    BY <1>1, <2>1, <2>2, <2>3 DEF x
  <2>5. /\ EffectIn(effects)[k] = NoToken /\ EffectIn(effects')[k] = claim[w]
        /\ BoundIn(effects')[k] = {f}
    <3>1. EffectIn(effects)[k] = NoToken
      BY <2>2, <2>4, NoEffectOfKey
    <3>2. EffectIn(effects')[x.key] = x.token /\ BoundIn(effects')[x.key] = {x.fingerprint}
      BY <1>1, <2>2, <2>3, EffectOfKey
    <3> QED BY <2>2, <3>1, <3>2
  <2>6. ASSUME NEW j \in Keys, j # k
        PROVE  EffectIn(effects')[j] = EffectIn(effects)[j] /\ BoundIn(effects')[j] = BoundIn(effects)[j]
    <3>1. CASE \E e \in effects : e.key = j
      <4>1. PICK e \in effects : e.key = j
        BY <3>1
      <4>2. e \in effects'
        BY <2>1
      <4>3. EffectIn(effects)[j] = e.token /\ BoundIn(effects)[j] = {e.fingerprint}
        BY <1>1, <4>1, EffectOfKey
      <4>4. EffectIn(effects')[j] = e.token /\ BoundIn(effects')[j] = {e.fingerprint}
        BY <1>1, <4>1, <4>2, EffectOfKey
      <4> QED BY <4>3, <4>4
    <3>2. CASE \A e \in effects : e.key # j
      <4>1. \A e \in effects' : e.key # j
        BY <2>1, <2>2, <2>6, <3>2 DEF x
      <4>2. EffectIn(effects)[j] = NoToken /\ BoundIn(effects)[j] = {}
        BY <3>2, NoEffectOfKey
      <4>3. EffectIn(effects')[j] = NoToken /\ BoundIn(effects')[j] = {}
        BY <4>1, NoEffectOfKey
      <4> QED BY <4>2, <4>3
    <3> QED BY <3>1, <3>2
  <2>7. /\ EffectIn(effects') = [EffectIn(effects) EXCEPT ![k] = EffectIn(effects')[k]]
        /\ BoundIn(effects') = [BoundIn(effects) EXCEPT ![k] = {f}]
    <3>1. /\ EffectIn(effects) = [j \in Keys |-> EffectIn(effects)[j]]
          /\ EffectIn(effects') = [j \in Keys |-> EffectIn(effects')[j]]
          /\ BoundIn(effects) = [j \in Keys |-> BoundIn(effects)[j]]
          /\ BoundIn(effects') = [j \in Keys |-> BoundIn(effects')[j]]
      BY DEF EffectIn, BoundIn
    <3> QED BY <2>2, <2>5, <2>6, <3>1
  <2>8. Abstract!TakeEffect(k, f)
    BY <1>3, <2>2, <2>3, <2>5, <2>7 DEF Abstract!TakeEffect, EffectIn, BoundIn, Given
  <2>9. Abstract!AbstractNext
    BY <2>2, <2>8 DEF Abstract!AbstractNext
  <2> QED BY <2>9
<1>4. CASE /\ effects' = effects
           /\ \E w \in Workers : /\ Given[w] = NoToken
                                 /\ \E e \in effects : /\ e.key = Key(w) /\ e.fingerprint = Fp(w)
                                                       /\ Given' = [Given EXCEPT ![w] = e.token]
  <2>1. PICK w \in Workers, e \in effects :
            /\ Given[w] = NoToken /\ e.key = Key(w) /\ e.fingerprint = Fp(w)
            /\ Given' = [Given EXCEPT ![w] = e.token]
    BY <1>4
  <2>2. EffectIn(effects)[Key(w)] = e.token /\ BoundIn(effects)[Key(w)] = {Fp(w)}
    BY <1>1, <2>1, EffectOfKey
  <2>0. PICK k \in Keys, f \in Fingerprints : k = Key(w) /\ f = Fp(w)
    BY <1>1
  <2>3. Abstract!Answer(w, k, f)
    <3>1. /\ Given' = [Given EXCEPT ![w] = EffectIn(effects)[k]]
          /\ f \in BoundIn(effects)[k]
      BY <2>0, <2>1, <2>2
    <3> QED BY <1>4, <2>1, <3>1 DEF Abstract!Answer, EffectIn, BoundIn, Given
  <2>4. Abstract!AbstractNext
    BY <1>1, <2>3 DEF Abstract!AbstractNext
  <2> QED BY <2>4
<1> QED BY <1>2, <1>3, <1>4, GivenOnce

\* withIdempotentCommit over the leased store implements ExactlyOnce: to its
\* callers a key takes effect in one step, for one content, and every answer is
\* that effect's, whatever claims, leases, takeovers and crashes lie beneath.
THEOREM Refines == Spec => ImplementsExactlyOnce
<1>1. Init => Abstract!AbstractInit
  BY DEF Init, Abstract!AbstractInit
<1>2. Safe /\ Safe' /\ [Next]_vars => [Abstract!AbstractNext]_(Abstract!abstractVars)
  BY StepRefines
<1> QED BY <1>1, <1>2, SafeAlways, PTL DEF Spec, ImplementsExactlyOnce, Abstract!ExactlyOnceSpec
=============================================================================
