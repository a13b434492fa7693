-------------------------- MODULE MCAggregateRoot --------------------------
(* Small instances of AggregateRoot for TLC. *)
EXTENDS AggregateRoot, TLC

CONSTANTS i1, i2, p

Situation(instances, ids, quantity, version) ==
    [instances |-> instances, ids |-> ids, maxQuantity |-> quantity, maxVersion |-> version]

\* Two instances race without child entities; one with changing child entities.
MCSetups == {Situation({i1, i2}, {}, 1, 3), Situation({i1}, {p}, 2, 4)}
=============================================================================
