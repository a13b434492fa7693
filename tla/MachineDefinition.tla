------------------------- MODULE MachineDefinition -------------------------
(***************************************************************************)
(* Definitions of domain state machines: validateDomainMachineDefinition,  *)
(* getTransition and analyzeDomainMachineDefinition, as operators.         *)
(*                                                                         *)
(* A definition is a record                                                *)
(*   [plain:  it and its parts are plain data with known keys and types,   *)
(*    initial, initialContext,                                             *)
(*    states: name -> [terminal, valid: the contexts its invariants accept,*)
(*                     on: input type -> [target, guard, reduce]]]         *)
(***************************************************************************)
EXTENDS Naturals, Sequences, SequencesExt, FiniteSets

Transitions(d, s) == d.states[s].on

\* Data properties with known keys and string names, throughout.
WellFormed(d) == d.plain

Valid(d) ==
    /\ WellFormed(d)
    /\ d.initial \in DOMAIN d.states
    /\ \A s \in DOMAIN d.states :
          /\ d.states[s].terminal => DOMAIN Transitions(d, s) = {}
          /\ \A i \in DOMAIN Transitions(d, s) : Transitions(d, s)[i].target \in DOMAIN d.states

IsTerminal(d, s) == d.states[s].terminal

HasTransition(d, s, i) == ~IsTerminal(d, s) /\ i \in DOMAIN Transitions(d, s)

-----------------------------------------------------------------------------
(* The analyzer *)

\* Arrays of names; they are sorted in the code, in some order here.
States(d) == SetToSeq(DOMAIN d.states)
InputTypes(d, s) == SetToSeq(DOMAIN Transitions(d, s))

\* outgoing and incoming, with an entry for every transition.
Targets(d, s) ==
    LET types == InputTypes(d, s)
    IN  [n \in DOMAIN types |-> Transitions(d, s)[types[n]].target]

\* Mutant: the entry is set, not extended.
SourcesSet(d, s) ==
    LET sources == {t \in DOMAIN d.states : s \in Range(Targets(d, t))}
    IN  IF sources = {} THEN <<>> ELSE <<CHOOSE t \in sources : TRUE>>

Sources(d, s) ==
    LET states == States(d)
        from(t) == LET hits == SelectSeq(Targets(d, t), LAMBDA u : u = s)
                   IN  [n \in DOMAIN hits |-> t]
    IN  FlattenSeq([n \in DOMAIN states |-> from(states[n])])

\* One round of the loop of visitGraph: pop, mark, push the unmarked ones.
Visit(visit, next) ==
    LET s == Last(visit.pending)
        marked == visit.visited \cup {s}
        new == SelectSeq(next[s], LAMBDA t : t \notin marked)
    IN  IF s \in visit.visited THEN [visit EXCEPT !.pending = Front(@)]
        ELSE [visited |-> marked, pending |-> Front(visit.pending) \o new]

\* Every edge pushes its end at most once, so the loop ends within "rounds".
VisitGraph(starts, next, rounds) ==
    LET loop[n \in 0 .. rounds] ==
          IF n = 0 THEN [visited |-> {}, pending |-> starts]
          ELSE LET before == loop[n - 1]
               IN  IF before.pending = <<>> THEN before ELSE Visit(before, next)
    IN  loop[rounds]

Rounds(d) ==
    Cardinality(DOMAIN d.states)
        + Cardinality(UNION {{s} \X DOMAIN Transitions(d, s) : s \in DOMAIN d.states})

ReachedFrom(d, s) == VisitGraph(<<s>>, [t \in DOMAIN d.states |-> Targets(d, t)], Rounds(d))

ReachingTerminal(d) ==
    VisitGraph(SelectSeq(States(d), LAMBDA s : IsTerminal(d, s)),
               [t \in DOMAIN d.states |-> Sources(d, t)], Rounds(d))

DeadEnds(d) == {s \in DOMAIN d.states : ~IsTerminal(d, s) /\ DOMAIN Transitions(d, s) = {}}

Analysis(d) ==
    LET reachable == ReachedFrom(d, d.initial).visited
        ending == ReachingTerminal(d).visited
    IN  [structurallyReachableStates |-> reachable,
         statesWithTerminalPath |-> ending,
         diagnostics |-> [unreachableState |-> DOMAIN d.states \ reachable,
                          structuralDeadEnd |-> DeadEnds(d),
                          noTerminalPath |-> DOMAIN d.states \ ending]]
=============================================================================
