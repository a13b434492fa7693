----------------------------- MODULE ExactlyOnce -----------------------------
(***************************************************************************)
(* What withIdempotentCommit promises its callers, without tokens, leases, *)
(* records or transactions: the command named by an idempotency key takes  *)
(* effect at most once, for one fingerprint, and every caller that gets an *)
(* answer gets the outcome of that one execution, whether it ran the       *)
(* command itself or not.                                                  *)
(***************************************************************************)
CONSTANTS Keys, Fingerprints, Outcomes, Callers,
          NoAnswer   \* no effect yet, or no answer yet; not an outcome

VARIABLES effect,  \* key -> the outcome of the execution that took effect
          bound,   \* key -> the fingerprints it took effect for (at most one)
          answer   \* caller -> the outcome it was given

abstractVars == <<effect, bound, answer>>

AbstractInit ==
    /\ effect = [k \in Keys |-> NoAnswer]
    /\ bound = [k \in Keys |-> {}]
    /\ answer = [c \in Callers |-> NoAnswer]

\* The command takes effect: once per key.
TakeEffect(k, f) ==
    /\ effect[k] = NoAnswer
    /\ effect'[k] \in Outcomes
    /\ effect' = [effect EXCEPT ![k] = effect'[k]]
    /\ bound' = [bound EXCEPT ![k] = {f}]
    /\ UNCHANGED answer

\* A caller is answered with the outcome of the execution that took effect,
\* for the content it asked for.
Answer(c, k, f) ==
    /\ f \in bound[k]
    /\ answer[c] = NoAnswer
    /\ answer' = [answer EXCEPT ![c] = effect[k]]
    /\ UNCHANGED <<effect, bound>>

AbstractNext ==
    \/ \E k \in Keys, f \in Fingerprints : TakeEffect(k, f)
    \/ \E c \in Callers, k \in Keys, f \in Fingerprints : Answer(c, k, f)

ExactlyOnceSpec == AbstractInit /\ [][AbstractNext]_abstractVars
=============================================================================
