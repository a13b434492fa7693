-------------------------- MODULE MCOutboxDelivery --------------------------
(* Small instances of OutboxDelivery for TLC. *)
EXTENDS OutboxDelivery, TLC

\* The sources are interchangeable; used by the run without liveness.
SourceSymmetry == Permutations(Sources)
=============================================================================
