---------------------------- MODULE MCUnitOfWork ----------------------------
(* Small instances of UnitOfWork for TLC. *)
EXTENDS UnitOfWork, TLC

CONSTANTS r1, r2, u1, u2, x

OwnUnits == (r1 :> u1) @@ (r2 :> u2)
SharedUnit == (r1 :> u1) @@ (r2 :> u1)

Situation(unit, objects, events, errors) ==
    [unit |-> unit, maxObjects |-> objects, maxEvents |-> events, maxFaults |-> errors]

\* Two units of work race on an aggregate; two calls of one instance, with
\* failing calls and aborts; both.
MCSetups == {Situation(OwnUnits, 2, 2, 0), Situation(SharedUnit, 2, 1, 1),
             Situation(OwnUnits, 1, 1, 1)}
=============================================================================
