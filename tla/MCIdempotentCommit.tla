------------------------- MODULE MCIdempotentCommit -------------------------
(* Small instances of IdempotentCommit for TLC. *)
EXTENDS IdempotentCommit, TLC

CONSTANTS w1, k1, f1

\* The workers are interchangeable; used by the run without liveness.
WorkerSymmetry == Permutations(Workers)

\* Keys and contents are interchangeable: the first worker's are given.
MCInit == Init /\ Key(w1) = k1 /\ Fp(w1) = f1

MCFairSpec == MCInit /\ [][Next]_vars /\ Fairness
=============================================================================
