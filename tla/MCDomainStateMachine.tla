------------------------ MODULE MCDomainStateMachine ------------------------
(* Small instances of DomainStateMachine for TLC. *)
EXTENDS DomainStateMachine, TLC

CONSTANTS m1, m2, a, b, c, go, back

To(t, g, r) == [target |-> t, guard |-> g, reduce |-> r]
Node(terminal, valid, on) == [terminal |-> terminal, valid |-> valid, on |-> on]
Def(states) == [plain |-> TRUE, initial |-> a, initialContext |-> 0, states |-> states]
Nowhere == <<>>

\* Two versions of one machine (the second dropped state c) and a broken edit.
First == Def((a :> Node(FALSE, {0, 1}, (go :> To(b, "none", "flip")) @@ (back :> To(c, "error", "none"))))
          @@ (b :> Node(FALSE, {1}, (go :> To(c, "one", "outputs")) @@ (back :> To(a, "one", "flip"))))
          @@ (c :> Node(TRUE, {0, 1}, Nowhere)))
Second == Def((a :> Node(FALSE, {0}, (go :> To(b, "none", "none")) @@ (back :> To(a, "junk", "none"))))
           @@ (b :> Node(FALSE, {0, 1}, (go :> To(a, "none", "flip")) @@ (back :> To(b, "none", "badOutputs")))))
Broken == Def(a :> Node(FALSE, {0, 1}, go :> To(b, "none", "none")))
Failing == Def((a :> Node(FALSE, {0, 1}, (go :> To(b, "none", "badShape")) @@ (back :> To(b, "none", "badContext"))))
            @@ (b :> Node(TRUE, {0}, Nowhere)))
Versions == {First, Second, Broken}
Single == {First, Failing}

Elsewhere == {Snapshot(b, 0), Snapshot(c, Bad)}
Reached == {Snapshot(b, 0)}
Sent == {[type |-> go, clonable |-> TRUE], [type |-> back, clonable |-> TRUE],
         [type |-> go, clonable |-> FALSE], [type |-> None, clonable |-> TRUE]}
Plain == {[type |-> go, clonable |-> TRUE], [type |-> back, clonable |-> TRUE]}

\* Every graph of three states, two of them with two inputs, valid or not.
Arrows == {<<a, go>>, <<a, back>>, <<b, go>>, <<b, back>>, <<c, go>>}
Graphs3 == {Def([s \in {a, b, c} |-> Node(s \in T, {0, 1},
                  [i \in {j \in {go, back} : <<s, j>> \in Arrows /\ f[<<s, j>>] # None}
                      |-> To(f[<<s, i>>], "none", "none")])])
              : f \in [Arrows -> {a, b, c, None}], T \in {{}, {b}, {c}}}

Situation(machines, definitions, foreign, inputs, styles, depth, changes) ==
    [machines |-> machines, definitions |-> definitions, foreign |-> foreign,
     inputs |-> inputs, styles |-> styles, maxDepth |-> depth, maxEdits |-> changes]

\* A machine, and a machine beside the pure functions, while the definition
\* object is edited; callbacks of two machines that call each other; a machine
\* on every graph.
MCSetups ==
    [versions |-> Situation({m1}, Versions, Elsewhere, Plain, {"persist", "prepare"}, 2, 1),
     pure |-> Situation({m1}, Versions, Elsewhere, Sent, {"persist", "pure"}, 1, 1),
     nested |-> Situation({m1, m2}, Single, {}, Sent, {}, 3, 0),
     graphs |-> Situation({m1}, Graphs3, Reached, Plain, {}, 1, 0)]
=============================================================================
