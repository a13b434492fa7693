-------------------------- MODULE MCEventSourcing --------------------------
(* Small instances of EventSourcing for TLC. *)
EXTENDS EventSourcing, TLC

CONSTANTS w1, w2, a1, a2

Rolling == (w1 :> 1) @@ (w2 :> 2)
Same == (w1 :> 1) @@ (w2 :> 1)
Newer == w2 :> 2

Deployment(generation, limit, events, pending, errors) ==
    [generation |-> generation, addresses |-> {a1}, limit |-> limit,
     maxStreams |-> 1, maxEvents |-> events, maxEntries |-> 1, ttl |-> 1,
     maxPending |-> pending, maxTime |-> 0, maxFaults |-> errors]

\* Two writers race on a stream; one writer among rows that cannot be replayed,
\* damaged snapshots and crashes; a rolling deployment; full stores and
\* expiring snapshots.
MCSetups == {Deployment(Same, 1, 2, 2, 0),
             Deployment(Newer, 1, 3, 1, 2), Deployment(Newer, 2, 3, 2, 1),
             Deployment(Rolling, 1, 2, 1, 0),
             [Deployment(Newer, 1, 2, 2, 0) EXCEPT !.addresses = {a1, a2}, !.ttl = 2, !.maxTime = 3]}
=============================================================================
