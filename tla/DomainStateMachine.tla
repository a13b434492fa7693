------------------------- MODULE DomainStateMachine -------------------------
(***************************************************************************)
(* DomainStateMachine and the pure functions under it.                     *)
(*                                                                         *)
(* Everything is synchronous: calls form a stack.  What interleaves are    *)
(* the callbacks of a definition (guard, reduce, the validators), which    *)
(* may throw, change the caller's definition object, or call machines and  *)
(* pure functions again.                                                   *)
(***************************************************************************)
EXTENDS MachineDefinition

CONSTANTS Machines,     \* instances of the class
          Pure,         \* stands for a call of a pure function
          Setups,       \* name -> situation: see setup
          Contexts,     \* contexts that can be cloned
          None,
          Bad           \* data that cannot be cloned and frozen

Guards == {"none", "one", "error", "junk"}
Reducers == {"none", "flip", "outputs", "badContext", "badOutputs", "badShape"}

ASSUME MachineAssumption ==
    /\ Pure \notin Machines /\ None \notin Machines /\ Bad \notin Contexts
    /\ Contexts = {0, 1}
    /\ \A setting \in Range(Setups) :
          /\ setting.machines \subseteq Machines
          /\ setting.maxDepth \in Nat \ {0} /\ setting.maxEdits \in Nat
          /\ \A d \in setting.definitions : \A s \in DOMAIN d.states : \A i \in DOMAIN Transitions(d, s) :
                /\ Transitions(d, s)[i].guard \in Guards
                /\ Transitions(d, s)[i].reduce \in Reducers

VARIABLES setup,     \* the name of the situation, chosen once
          raw,       \* the caller's definition object
          edits,     \* how often it was edited
          prepared,  \* what prepareDomainMachineDefinition returned
          machine,   \* machine -> None or [def, snap, evaluating, birth]
          saved,     \* the snapshot the caller keeps
          stack,     \* calls in progress
          said       \* machine -> inputs can() said TRUE to in this snapshot

vars == <<raw, edits, prepared, machine, saved, stack, said>>

Definitions == Setups[setup].definitions  \* what the caller's definition object may hold
Foreign == Setups[setup].foreign          \* snapshots that come from elsewhere
Inputs == Setups[setup].inputs            \* records [type, clonable]; type None: not an input
Styles == Setups[setup].styles            \* what callers use: "persist", "prepare", "pure"
MaxDepth == Setups[setup].maxDepth        \* bound: nesting of calls
MaxEdits == Setups[setup].maxEdits        \* bound: edits of the definition object

Snapshot(s, c) == [state |-> s, context |-> c]

-----------------------------------------------------------------------------
(* Snapshots *)

\* prepareDomainMachineSnapshot: known state, clonable context, invariants.
SnapshotValid(d, snap) ==
    /\ snap.state \in DOMAIN d.states
    /\ snap.context \in Contexts
    /\ snap.context \in d.states[snap.state].valid

\* ensureStableDomainMachineDefinition.  What is prepared was validated, and is
\* frozen.
Stable == [raw |-> IF Valid(raw) THEN raw ELSE None, prepared |-> prepared]

Edit(d) ==
    /\ d # raw
    /\ raw' = d /\ edits' = edits + 1
    /\ UNCHANGED <<prepared, machine, saved, stack, said>>

Prepare ==
    /\ Stable.raw # None
    /\ prepared' = Stable.raw
    /\ UNCHANGED <<raw, edits, machine, saved, stack, said>>

InUse(m) == machine[m] # None /\ machine[m].evaluating

\* The constructor, with a snapshot or without.  It throws, and there is no
\* machine, when the definition or the snapshot is not valid.  (A throw before
\* anything changed is no step here.)
Construct(m, from, snap) ==
    LET d == Stable[from]
        start == IF snap # None THEN snap ELSE Snapshot(d.initial, d.initialContext)
    IN  /\ ~InUse(m)
        /\ d # None
        /\ SnapshotValid(d, start)
        /\ machine' = [machine EXCEPT ![m] =
              [def |-> d, snap |-> start, evaluating |-> FALSE, birth |-> start.state]]
        /\ said' = [said EXCEPT ![m] = {}]
        /\ UNCHANGED <<raw, edits, prepared, saved, stack>>

\* The getter: a frozen copy, which the caller persists.
Persist(m) ==
    /\ machine[m] # None
    /\ saved' = machine[m].snap
    /\ UNCHANGED <<raw, edits, prepared, machine, stack, said>>

-----------------------------------------------------------------------------
(* Transitions *)

Top == stack[Len(stack)]

Frame(on, op, input, d, snap) ==
    [on |-> on, op |-> op, input |-> input, def |-> d, snap |-> snap,
     pc |-> "start", next |-> snap, outcome |-> None]

\* A call is made where no callback runs, or inside one.
MayCall ==
    /\ Len(stack) < MaxDepth
    /\ stack # <<>> => Top.pc \in {"guard", "reduce", "validate"}

\* evaluate(): a second evaluation of a machine throws at once.
Evaluate(m, op, input) ==
    IF machine[m].evaluating
    THEN UNCHANGED <<stack, machine>>
    ELSE /\ stack' = Append(stack, Frame(m, op, input, machine[m].def, machine[m].snap))
         /\ machine' = [machine EXCEPT ![m].evaluating = TRUE]

\* machine.can(input), machine.dispatch(input)
CallMachine(m, op, input) ==
    /\ MayCall /\ machine[m] # None
    /\ Evaluate(m, op, input)
    /\ UNCHANGED <<raw, edits, prepared, saved, said>>

\* canTransitionDomainState, transitionDomainState: they copy the definition
\* and the snapshot, or throw.
CallPure(op, from, input) ==
    /\ MayCall /\ saved # None
    /\ Stable[from] # None /\ SnapshotValid(Stable[from], saved)
    /\ stack' = Append(stack, Frame(Pure, op, input, Stable[from], saved))
    /\ UNCHANGED <<raw, edits, prepared, machine, saved, said>>

Ends(f, outcome) == [f EXCEPT !.pc = "return", !.outcome = outcome]

\* Mutant: the transitions of the initial state are consulted.
TransitionOfInitial(f) ==
    LET d == f.def
        s == IF f.input.type \in DOMAIN Transitions(d, d.initial) THEN d.initial ELSE f.snap.state
    IN  Transitions(d, s)[f.input.type]

Transition(f) == Transitions(f.def, f.snap.state)[f.input.type]

\* can() says false where dispatch() throws.
Refuses(f, error) == Ends(f, IF f.op = "can" THEN "no" ELSE error)

\* Mutant: can() does not look at what the guard says.
CanUnguarded(f) == f.op = "can"

\* can() is done once nothing refuses.
CanDone(f) == f.op = "can" /\ (f.pc = "guard" \/ Transition(f).guard = "none")

\* From the input to the guard.
Started(f) ==
    IF f.input.type = None THEN Refuses(f, "invalidInput")
    ELSE IF ~HasTransition(f.def, f.snap.state, f.input.type)
    THEN Refuses(f, "invalidTransition")
    ELSE IF ~f.input.clonable THEN Ends(f, "invalidInput")
    ELSE IF CanDone(f) THEN Ends(f, "yes")
    ELSE [f EXCEPT !.pc = IF Transition(f).guard = "none" THEN "reduce" ELSE "guard"]

\* Mutant: a DomainError is truthy.
GuardedLoosely(f) ==
    IF Transition(f).guard = "one" /\ f.snap.context # 1 THEN Refuses(f, "rejected")
    ELSE IF CanDone(f) THEN Ends(f, "yes") ELSE [f EXCEPT !.pc = "reduce"]

\* What the guard returned: a boolean, a DomainError, or something else.
Guarded(f) ==
    LET guard == Transition(f).guard IN
    CASE guard = "junk" -> Ends(f, "invalidGuardResult")
      [] guard = "error" -> Refuses(f, "domainError")
      [] guard = "one" /\ f.snap.context # 1 -> Refuses(f, "rejected")
      [] OTHER -> IF CanDone(f) THEN Ends(f, "yes") ELSE [f EXCEPT !.pc = "reduce"]

\* The context the reducer replaces; without one the context stays.
NextContext(f) ==
    CASE Transition(f).reduce = "flip" -> 1 - f.snap.context
      [] Transition(f).reduce = "badContext" -> Bad
      [] OTHER -> f.snap.context

\* Mutant: the new context is not copied.
ReducedUncopied(f) ==
    IF Transition(f).reduce = "badShape" THEN Ends(f, "invalidResult")
    ELSE [f EXCEPT !.pc = "validate", !.next = Snapshot(Transition(f).target, NextContext(f))]

\* The reducer returned: the shape of its result, then a copy of the context.
Reduced(f) ==
    CASE Transition(f).reduce = "badShape" -> Ends(f, "invalidResult")
      [] NextContext(f) = Bad -> Ends(f, "invalidContext")
      [] OTHER -> [f EXCEPT !.pc = "validate",
                            !.next = Snapshot(Transition(f).target, NextContext(f))]

\* Mutant: the invariants of the state left are asked, not of the one entered.
InvariantOfSource(f) == f.next.context \in f.def.states[f.snap.state].valid

\* validateDomainMachineSnapshotInvariant
InvariantHolds(f) == f.next.context \in f.def.states[f.next.state].valid

\* The validators returned; the outputs are copied last.
Validated(f) ==
    CASE ~InvariantHolds(f) -> Ends(f, "invalidSnapshot")
      [] Transition(f).reduce = "badOutputs" -> Ends(f, "invalidResult")
      [] OTHER -> Ends(f, "moved")

Step ==
    /\ stack # <<>>
    /\ \/ Top.pc = "start" /\ stack' = [stack EXCEPT ![Len(stack)] = Started(@)]
       \/ Top.pc = "guard" /\ stack' = [stack EXCEPT ![Len(stack)] = Guarded(@)]
       \/ Top.pc = "reduce" /\ stack' = [stack EXCEPT ![Len(stack)] = Reduced(@)]
       \/ Top.pc = "validate" /\ stack' = [stack EXCEPT ![Len(stack)] = Validated(@)]
    /\ UNCHANGED <<raw, edits, prepared, machine, saved, said>>

\* A callback throws, or lets the error of a nested call pass.
CallbackThrows ==
    /\ stack # <<>> /\ Top.pc \in {"guard", "reduce", "validate"}
    /\ stack' = [stack EXCEPT ![Len(stack)] = Ends(@, "threw")]
    /\ UNCHANGED <<raw, edits, prepared, machine, saved, said>>

\* Mutant: the flag is reset on success only.
FinallyOnSuccess(m, f) ==
    [machine EXCEPT ![m].evaluating = f.outcome \notin {"yes", "no", "moved"},
                    ![m].snap = IF f.outcome = "moved" THEN f.next ELSE @]

\* dispatch() keeps the new snapshot; evaluate() resets its flag, always.
Finally(m, f) ==
    [machine EXCEPT ![m].evaluating = FALSE,
                    ![m].snap = IF f.outcome = "moved" THEN f.next ELSE @]

\* The call returns or throws.  The caller of a pure function keeps its result.
Return ==
    LET f == Top IN
    /\ stack # <<>> /\ Top.pc = "return"
    /\ stack' = Front(stack)
    /\ IF f.on = Pure
       THEN /\ saved' = IF f.outcome = "moved" THEN f.next ELSE saved
            /\ UNCHANGED <<machine, said>>
       ELSE /\ machine' = Finally(f.on, f)
            /\ said' = [said EXCEPT ![f.on] =
                  CASE f.outcome = "moved" -> {} [] f.outcome = "yes" -> @ \cup {f.input}
                    [] OTHER -> @]
            /\ UNCHANGED saved
    /\ UNCHANGED <<raw, edits, prepared>>

-----------------------------------------------------------------------------
Init ==
    /\ setup \in DOMAIN Setups
    /\ raw \in Definitions /\ edits = 0
    /\ prepared = None
    /\ machine = [m \in Machines |-> None]
    /\ saved \in Foreign \cup {None}
    /\ stack = <<>>
    /\ said = [m \in Machines |-> {}]

\* Outside a call, or in a callback of one.
Edits == MayCall /\ edits < MaxEdits /\ \E d \in Definitions : Edit(d)

Next ==
    /\ \/ Edits
       \/ MayCall /\ "prepare" \in Styles /\ Prepare
       \/ \E m \in Setups[setup].machines :
             \/ MayCall /\ "persist" \in Styles /\ Persist(m)
             \/ \E from \in {"raw", "prepared"}, snap \in {None, saved} :
                   MayCall /\ Construct(m, from, snap)
             \/ \E op \in {"can", "dispatch"}, i \in Inputs : CallMachine(m, op, i)
       \/ \E op \in {"can", "dispatch"}, from \in {"raw", "prepared"}, i \in Inputs :
             "pure" \in Styles /\ CallPure(op, from, i)
       \/ Step \/ CallbackThrows \/ Return
    /\ UNCHANGED setup

Spec == Init /\ [][Next]_<<vars, setup>>

-----------------------------------------------------------------------------
(* Properties *)

Live == {m \in Machines : machine[m] # None}

\* Types: machines run on valid definitions, and frames hold what was copied.
TypeOK ==
    /\ raw \in Definitions /\ prepared \in Definitions \cup {None}
    /\ \A m \in Live : machine[m].def \in Definitions /\ machine[m].evaluating \in BOOLEAN
    /\ \A m \in Live : said[m] \subseteq Inputs
    /\ Len(stack) \in 0 .. MaxDepth
    /\ \A n \in 1 .. Len(stack) : stack[n].next.context \in Contexts

\* Whatever the caller does to the definition object, and whatever it restores
\* after an edit, a machine is in a state its own definition knows, with a
\* context its invariants accept.
SnapshotsSound == \A m \in Live : SnapshotValid(machine[m].def, machine[m].snap)

\* A machine is evaluating exactly while a call on it is open, and one call
\* only: no failure leaves it stuck, and no callback re-enters it.
EvaluatingExactly ==
    \A m \in Live :
        Cardinality({n \in 1 .. Len(stack) : stack[n].on = m})
            = (IF machine[m].evaluating THEN 1 ELSE 0)

\* A machine follows its own definition: from the snapshot it is in, along a
\* transition whose guard allows that snapshot.
Lawful ==
    \A m \in Live :
        machine[m].snap # machine'[m].snap /\ machine[m].evaluating =>
            LET d == machine[m].def
                from == machine[m].snap
            IN  \E i \in DOMAIN Transitions(d, from.state) :
                   LET t == Transitions(d, from.state)[i] IN
                   /\ ~IsTerminal(d, from.state)
                   /\ t.guard = "none" \/ (t.guard = "one" /\ from.context = 1)
                   /\ machine'[m].snap \in {Snapshot(t.target, c) : c \in {from.context, 1 - from.context}}

FollowsDefinition == [][Lawful]_vars

\* What can() answered stays true until the machine moves: dispatch() of that
\* input is not refused for its transition or its guard.
CanIsHonest ==
    stack # <<>> /\ Top.on \in Live /\ Top.op = "dispatch" /\ Top.input \in said[Top.on] =>
        Top.outcome \notin {"invalidInput", "invalidTransition", "rejected", "domainError",
                            "invalidGuardResult"}

\* A machine stays within what the analyzer calls reachable from where it
\* began, and ends only where the analyzer saw a terminal path.
StaysWithinAnalysis ==
    \A m \in Live :
        LET d == machine[m].def IN
        /\ machine[m].snap.state \in ReachedFrom(d, machine[m].birth).visited
        /\ IsTerminal(d, machine[m].snap.state) =>
              machine[m].birth \in Analysis(d).statesWithTerminalPath

\* Reference: the least set with the start states that is closed under edges.
Least(d, starts, S, step(_, _)) ==
    LET closed(T) == starts \subseteq T /\ \A s \in T, t \in DOMAIN d.states : step(s, t) => t \in T
    IN  closed(S) /\ \A T \in SUBSET DOMAIN d.states : closed(T) => S \subseteq T

EdgeTo(d, s, t) == \E i \in DOMAIN Transitions(d, s) : Transitions(d, s)[i].target = t

\* visitGraph finds exactly what a path can reach, forwards from the initial
\* state and backwards from the terminal ones; the diagnostics name a state as
\* stuck only if it is not terminal and cannot move.  (An analysis looks at the
\* definition alone: it is judged where no machine runs yet.)
AnalysisExact ==
    Live = {} /\ stack = <<>> /\ Valid(raw) =>
        LET analysis == Analysis(raw)
            ends == {s \in DOMAIN raw.states : IsTerminal(raw, s)}
        IN  /\ Least(raw, {raw.initial}, analysis.structurallyReachableStates, LAMBDA s, t : EdgeTo(raw, s, t))
            /\ Least(raw, ends, analysis.statesWithTerminalPath, LAMBDA s, t : EdgeTo(raw, t, s))
            /\ ReachedFrom(raw, raw.initial).pending = <<>> /\ ReachingTerminal(raw).pending = <<>>
            /\ analysis.diagnostics.structuralDeadEnd \subseteq analysis.diagnostics.noTerminalPath
            /\ \A s \in analysis.diagnostics.noTerminalPath : ~IsTerminal(raw, s)

\* Well formed machines, in states of their definition, evaluating exactly while
\* a call is open, and honest about what they would do.
MachinesSound == TypeOK /\ SnapshotsSound /\ EvaluatingExactly /\ CanIsHonest

\* The analysis is exact, and running machines stay within it.
AnalysisSound == AnalysisExact /\ StaysWithinAnalysis
=============================================================================
