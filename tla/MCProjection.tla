---------------------------- MODULE MCProjection ----------------------------
(* Small instances of Projection for TLC: the chains of two aggregates. *)
EXTENDS Projection, TLC

CONSTANTS a, b, n, m, p, q

At(addr, version, seq, size, previous) ==
    [addr |-> addr, stamp |-> addr, kind |-> "handled",
     id |-> <<addr, version, seq>>,
     pos |-> [version |-> version, seq |-> seq, size |-> size, previous |-> previous]]

MCLockOrder == <<a, b>>

\* a: a commit of two events, a state-only version, a commit of one.
MCSource == (a :> <<At(a, 0, 0, 2, Genesis), At(a, 0, 1, 2, Genesis), At(a, 2, 0, 1, 0)>>)
         @@ (b :> <<At(b, 1, 0, 1, Genesis)>>)

Ignored == [At(b, 1, 0, 1, Genesis) EXCEPT !.kind = "ignored"]

\* b's event is of a type the projection ignores.
MCShortSource == (a :> <<At(a, 0, 0, 2, Genesis), At(a, 0, 1, 2, Genesis)>>) @@ (b :> <<Ignored>>)

\* Another event at a known position, a changed commit size, an unregistered
\* type, an impossible cursor, and an event of another aggregate.
MCRogue == {[At(a, 0, 1, 2, Genesis) EXCEPT !.id = <<b, 0, 1>>],
            At(a, 0, 0, 1, Genesis),
            [At(b, 2, 0, 1, 1) EXCEPT !.kind = "missing"],
            At(b, 3, 1, 1, 1),
            [At(a, 3, 0, 1, 2) EXCEPT !.stamp = b]}

Deployment(names, source, rogue, durable, batch) ==
    [nameOf |-> names, source |-> source, rogue |-> rogue, durable |-> durable, maxBatch |-> batch]

\* Competing instances over a database; one instance whose source contradicts
\* itself; competing instances of that; two projections share the in-memory store.
MCSetups == {Deployment((p :> n) @@ (q :> n), MCSource, {}, TRUE, 2),
             Deployment(p :> n, MCSource, MCRogue, TRUE, 2),
             Deployment((p :> n) @@ (q :> n), MCShortSource, MCRogue, TRUE, 1),
             Deployment((p :> n) @@ (q :> m), MCShortSource, {}, FALSE, 1),
             Deployment(p :> n, MCShortSource, {}, FALSE, 2)}
=============================================================================
