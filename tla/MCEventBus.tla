----------------------------- MODULE MCEventBus -----------------------------
(* Small instances of EventBus for TLC. *)
EXTENDS EventBus, TLC

CONSTANTS t, s1, s2, s3, o1, p1, p2, shared, other

\* Two subscriptions of one handler, a catch-all and a once() call.
MCTopic == (s1 :> t) @@ (s2 :> t) @@ (s3 :> All) @@ (o1 :> t)
MCHandler == (s1 :> shared) @@ (s2 :> shared) @@ (s3 :> other) @@ (o1 :> o1)

\* One publication of two events while handlers come, go and fail; one
\* publication inside or beside another.
MCSetups == {[slots |-> {s1, s2, s3, o1}, events |-> (p1 :> <<t, t>>) @@ (p2 :> <<>>)],
             [slots |-> {s1, o1}, events |-> (p1 :> <<t>>) @@ (p2 :> <<t>>)]}
=============================================================================
