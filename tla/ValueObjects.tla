---------------------------- MODULE ValueObjects ----------------------------
(***************************************************************************)
(* vo(), ValueObject and the copies of the state machine at work: values   *)
(* made of the caller's objects, which the caller goes on writing to.      *)
(***************************************************************************)
EXTENDS ObjectGraphs

CONSTANTS Heaps,   \* name -> [heaps: what the caller may hold, maxOps: see Calls]
          Ignored  \* keys to omit

ASSUME ValueObjectsAssumption ==
    /\ \A s \in DOMAIN Heaps : Heaps[s].maxOps \in Nat
    /\ MaxDataDepth \in Nat \ {0}
    /\ Ignored \subseteq Range(Keys)

VARIABLES setup,   \* the name of what the caller holds
          heap,    \* address -> object
          copies,  \* [root, of, by]: a frozen value, what it was made of, by whom
          ops

vars == <<heap, copies, ops>>

\* Bound: calls and writes.
Calls == ops < Heaps[setup].maxOps /\ ops' = ops + 1

\* vo(), and the constructor of ValueObject; nothing happens when they throw.
Vo(n) ==
    LET c == Copy(VoPolicy, heap, Ref(n)) IN
    /\ Calls
    /\ c.ok
    /\ heap' = DeepFreeze(c.heap, c.val)
    /\ copies' = copies \cup {[root |-> c.val[2], of |-> n, by |-> "vo"]}

\* Mutant: the merged properties are frozen as they are.
MergedInPlace(n, m) ==
    /\ heap' = DeepFreeze(((Cardinality(DOMAIN heap) + 1) :>
                              [heap[n] EXCEPT !.fields = ("a" :> Ref(m)) @@ @, !.frozen = FALSE]) @@ heap,
                          Ref(Cardinality(DOMAIN heap) + 1))
    /\ copies' = copies \cup {[root |-> Cardinality(DOMAIN heap) + 1,
                               of |-> Cardinality(DOMAIN heap) + 1, by |-> "vo"]}

\* clone(): the old properties, shared, under one new one; then the constructor.
Merged(n, m) ==
    LET id == Cardinality(DOMAIN heap) + 1
        merged == (id :> [heap[n] EXCEPT !.fields = ("a" :> Ref(m)) @@ @, !.frozen = FALSE]) @@ heap
        c == Copy(VoPolicy, merged, Ref(id))
    IN  /\ c.ok
        /\ heap' = DeepFreeze(c.heap, c.val)
        /\ copies' = copies \cup {[root |-> c.val[2], of |-> id, by |-> "vo"]}

Clone(n, m) ==
    /\ Calls
    /\ \E c \in copies : c.by = "vo" /\ c.root = n
    /\ heap[n].kind = "plain"
    /\ Merged(n, m)

\* copyDomainMachineContext, copyDomainMachineInput, copyDomainMachineOutputs
MachineCopy(n) ==
    LET c == Copy(MachinePolicy, heap, Ref(n)) IN
    /\ Calls
    /\ c.ok
    /\ heap' = DeepFreeze(c.heap, c.val)
    /\ copies' = copies \cup {[root |-> c.val[2], of |-> n, by |-> "machine"]}

\* The exported deepFreeze, in place.
Freeze(n) ==
    /\ Calls
    /\ heap' = DeepFreeze(heap, Ref(n))
    /\ UNCHANGED copies

\* What JavaScript lets a holder of the reference change.
Writable(x) ==
    CASE x.kind = "view" -> TRUE
      [] x.kind \in {"date", "map", "set"} -> ~x.shadow
      [] OTHER -> ~x.frozen

Written(x) ==
    IF x.kind \in {"date", "view"} THEN [x EXCEPT !.slot = 1 - @]
    ELSE [x EXCEPT !.fields = ("a" :> Prim(9)) @@ @]

Write(n) ==
    /\ Calls
    /\ Writable(heap[n])
    /\ heap' = [heap EXCEPT ![n] = Written(@)]
    /\ UNCHANGED copies

Init ==
    /\ setup \in DOMAIN Heaps
    /\ heap \in Heaps[setup].heaps /\ copies = {} /\ ops = 0

Next ==
    /\ \E n \in DOMAIN heap :
          \/ Vo(n) \/ MachineCopy(n) \/ Freeze(n) \/ Write(n)
          \/ \E m \in DOMAIN heap : Clone(n, m)
    /\ UNCHANGED setup

Spec == Init /\ [][Next]_<<vars, setup>>

-----------------------------------------------------------------------------
(* References *)

Children(h, n) == {m \in DOMAIN h : \E k \in DOMAIN h[n].fields : h[n].fields[k] = Ref(m)}

ReachWithin(h, n, steps) ==
    LET grow[i \in 0 .. steps] ==
          IF i = 0 THEN {n}
          ELSE UNION {{m} \cup Children(h, m) : m \in grow[i - 1]}
    IN  grow[steps]

Reach(h, n) == ReachWithin(h, n, Cardinality(DOMAIN h))

\* Two objects look alike from outside their references.
Alike(x, y) ==
    /\ x.kind = y.kind /\ x.mask = y.mask
    /\ CASE x.kind \in {"date", "view"} -> x.slot = y.slot
         [] x.kind \in {"error", "opaque"} -> FALSE
         [] x.kind = "set" -> Range(x.fields) = Range(y.fields)
         [] OTHER -> DOMAIN x.fields = DOMAIN y.fields

\* The largest bisimulation, an equivalence: every round splits a class.
Bisimilar(h) ==
    LET D == DOMAIN h
        related(R, v, w) == v = w \/ (IsRef(v) /\ IsRef(w) /\ <<v[2], w[2]>> \in R)
        refine[i \in 0 .. Cardinality(D)] ==
            IF i = 0 THEN {p \in D \X D : p[1] = p[2] \/ Alike(h[p[1]], h[p[2]])}
            ELSE UNION {{p \in R : p[1] = p[2] \/ h[p[1]].kind \in {"set", "date", "view"}
                            \/ \A k \in DOMAIN h[p[1]].fields :
                                   related(R, h[p[1]].fields[k], h[p[2]].fields[k])}
                           : R \in {refine[i - 1]}}
    IN  refine[Cardinality(D)]

\* The pairs of objects met when both are walked along the same keys.
MetTogether(h, m, n) ==
    LET next(p) == LET x == h[p[1]].fields
                       y == h[p[2]].fields
                   IN  {<<x[k][2], y[k][2]>> : k \in {k \in DOMAIN x \cap DOMAIN y : IsRef(x[k]) /\ IsRef(y[k])}}
        grow[i \in 0 .. Cardinality(DOMAIN h)] ==
            IF i = 0 THEN {<<m, n>>} ELSE UNION {{p} \cup next(p) : p \in grow[i - 1]}
    IN  grow[Cardinality(DOMAIN h)]

\* An isomorphism of what is reached from m with what is reached from n.
SameShape(h, m, n) ==
    \E pairs \in {MetTogether(h, m, n)} :
        /\ \A p, q \in pairs : p[1] = q[1] <=> p[2] = q[2]
        /\ \A p \in pairs :
              LET x == h[p[1]]
                  y == h[p[2]]
              IN  /\ Alike(x, y)
                  /\ \A k \in DOMAIN x.fields :
                        x.fields[k] = y.fields[k] \/ (IsRef(x.fields[k]) /\ IsRef(y.fields[k]))

\* The tree an acyclic value unfolds to, without what is ignored at its depth.
\* Entries of maps and sets are not filtered; references that count stay.
RECURSIVE Tree(_, _, _, _)
Tree(h, v, p, depth) ==
    IF ~IsRef(v) THEN [value |-> v]
    ELSE LET x == h[v[2]] IN
         IF x.kind \in {"error", "opaque"} THEN [value |-> v]
         ELSE IF x.kind = "set" THEN [kind |-> "set", members |-> Range(x.fields)]
         ELSE [kind |-> x.kind, mask |-> x.mask, slot |-> IF x.kind \in {"date", "view"} THEN x.slot ELSE 0,
               fields |-> [k \in {k \in DOMAIN x.fields :
                                     ~(/\ k \in p.ignore /\ depth >= p.from
                                       /\ ~(x.kind = "array" /\ k \in Indices)
                                       /\ x.kind # "map")}
                             |-> Tree(h, x.fields[k],
                                      IF x.kind = "map" THEN [p EXCEPT !.ignore = {}] ELSE p, depth + 1)]]

Acyclic(h, n) == \A m \in Reach(h, n) : \A c \in Children(h, m) : m \notin Reach(h, c)

-----------------------------------------------------------------------------
(* Properties.  Those about a walk that changes nothing are judged on what the *)
(* caller holds at first.                                                      *)

\* Types.
TypeOK ==
    /\ \A c \in copies : c.root \in DOMAIN heap /\ c.of \in DOMAIN heap
    /\ \A n \in DOMAIN heap : \A k \in DOMAIN heap[n].fields :
          IsRef(heap[n].fields[k]) => heap[n].fields[k][2] \in DOMAIN heap
    /\ \A n \in DOMAIN heap : heap[n].shadow => BuiltInTag(heap[n]) # None

Content(x) == <<x.kind, x.slot, x.fields>>

\* No write, through any reference the program has, changes a value object or
\* a context once it was made.
ValuesImmutable ==
    [][\A c \in copies : \A n \in Reach(heap, c.root) : Content(heap'[n]) = Content(heap[n])]_vars

\* Making a value freezes nothing of the caller's.
CallerKeepsItsObjects ==
    [][copies' # copies => \A n \in DOMAIN heap : heap'[n] = heap[n]]_vars

\* A value is a faithful image of what it was made of: walked together, the two
\* show the same contents, sharing and cycles; vo() leaves hidden properties out.
FaithfulCopies ==
    [][\A c \in copies' \ copies :
          (c.by = "vo" => \A n \in Reach(heap', c.of) : "hidden" \notin Own(heap'[n]))
             => SameShape(heap', c.of, c.root)]_vars

\* The parts of a machine copy are no more than the limit of nodes, and every
\* reference in it, also one to a part met before, is held within the depth
\* limit: what refers to anything lies at least one step above the limit.
WithinDataLimits ==
    \A c \in copies : c.by = "machine" =>
        /\ Cardinality(Reach(heap, c.root)) <= MaxDataNodes
        /\ \A n \in Reach(heap, c.root) :
              Children(heap, n) # {} => n \in ReachWithin(heap, c.root, MaxDataDepth - 1)

\* deepEqual decides bisimilarity: equal contents under any sharing and
\* through any cycle, whichever side is left.
EqualExact ==
    ops = 0 =>
    LET R == Bisimilar(heap) IN
    \A m, n \in DOMAIN heap : DeepEqual(heap, Ref(m), Ref(n)) <=> <<m, n>> \in R

\* deepEqualExcept compares what is left of two values, path by path; and a
\* value, cyclic or not, equals itself.
ExceptExact ==
    ops = 0 =>
    \A from \in {0, 2} : \A m, n \in DOMAIN heap :
        LET p == OmitPolicy(Ignored, from) IN
        /\ DeepEqualExcept(heap, Ref(m), Ref(m), p)
        /\ Acyclic(heap, m) /\ Acyclic(heap, n) =>
              (DeepEqualExcept(heap, Ref(m), Ref(n), p)
                  <=> Tree(heap, Ref(m), p, 0) = Tree(heap, Ref(n), p, 0))

\* Arrays of elements: nothing beside them that structuredClone would read.
ElementsOnly(n) ==
    \A m \in Reach(heap, n) :
        heap[m].kind = "array" => Own(heap[m]) \subseteq Indices \cup {"hidden"}

\* What createSnapshot accepts comes back from structuredClone with the same
\* kinds, slots, contents and sharing, and every plain object in it is one
\* without a class.  No more is true: assertSnapshotSafe looks at the prototype
\* of plain objects only, so an instance of a subclass of Array, Map, Set, Date
\* is accepted and comes back without its class, and it walks arrays by index
\* only, so what they own beside their elements is left out here.
SnapshotRoundTrips ==
    ops = 0 =>
    \A n \in DOMAIN heap : SnapshotSafe(heap, Ref(n)) /\ ElementsOnly(n) =>
        LET c == Copy(StructuredPolicy, heap, Ref(n))
            image(v) == IF IsRef(v) THEN c.seen[v[2]] ELSE v
        IN  /\ c.ok
            /\ \A m \in DOMAIN c.seen :
                  LET x == heap[m]
                      y == c.heap[c.seen[m][2]]
                  IN  /\ y.kind = x.kind /\ y.slot = x.slot
                      /\ x.kind = "plain" => y.native = x.native
                      /\ y.fields = [k \in DOMAIN x.fields \ {"hidden"} |-> image(x.fields[k])]

\* Types, and the limits on machine data.
WellFormed == TypeOK /\ WithinDataLimits

\* The walks compute what they promise, on graphs of every shape.
WalksExact == EqualExact /\ ExceptExact /\ SnapshotRoundTrips

\* A value is a faithful copy, immutable, and leaves the caller's objects alone.
ValuesSound == ValuesImmutable /\ CallerKeepsItsObjects /\ FaithfulCopies
=============================================================================
