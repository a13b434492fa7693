--------------------------- MODULE MCValueObjects ---------------------------
(* Small object graphs for TLC. *)
EXTENDS ValueObjects

Object(kind, native, mask, slot, fields) ==
    [kind |-> kind, native |-> native, mask |-> mask, slot |-> slot, fields |-> fields,
     frozen |-> FALSE, shadow |-> FALSE]
Plain(kind, fields) == Object(kind, TRUE, None, 0, fields)

\* Fields: every choice of present keys and their values.
FieldSets(f) == UNION {{[k \in S |-> g[k]] : g \in {e \in [S -> UNION {f[k] : k \in S}] :
                         \A k \in S : e[k] \in f[k]}} : S \in SUBSET DOMAIN f}

\* An object and a part of it, which may point back.
Parts == {Plain("plain", f) : f \in FieldSets([a |-> {Prim(0), Ref(1)}])}
    \cup {Plain("map", [a |-> Ref(1)]), Plain("set", [a |-> Prim(0)]), Plain("set", [a |-> Ref(1)]),
          Plain("date", << >>), Plain("error", << >>), Plain("view", << >>), Plain("opaque", << >>),
          Object("plain", FALSE, None, 0, [a |-> Prim(0)])}
Wholes == {Plain(kind, f) : kind \in {"plain", "array"},
              f \in FieldSets([a |-> {Ref(2)}, b |-> {Prim(0), Ref(2), Fn}, hidden |-> {Prim(0)}])}
     \cup {Plain("plain", [a |-> Ref(1), get |-> Prim(0)]), Plain("map", [a |-> Ref(2), b |-> Ref(1)]),
           Object("array", FALSE, None, 0, [a |-> Prim(0)])}
Owned == {<<x, y>> : x \in Wholes, y \in Parts}
\* A caller that keeps a date, a map and a chain, or froze a date or a map itself.
FrozenBefore(x) == [x EXCEPT !.frozen = TRUE]
Few == {<<Plain("plain", [a |-> Ref(2), b |-> Ref(3)]), x, y>> :
           x \in {Plain("map", [a |-> Ref(3)]), Plain("plain", [a |-> Ref(3), symbol |-> Ref(1)]),
                  Plain("array", [a |-> Ref(2)])},
           y \in {Plain("date", << >>), FrozenBefore(Plain("date", << >>)),
                  FrozenBefore(Plain("map", [a |-> Prim(0)])), Plain("plain", [a |-> Prim(0)])}}

\* Three objects of the kinds deepEqual walks, in every shape.
Kinds3 == {Plain(kind, f) : kind \in {"plain", "map"}, f \in FieldSets([a |-> {Prim(0), Ref(1), Ref(2), Ref(3)}])}
    \cup {Plain("plain", f) : f \in FieldSets([a |-> {Ref(1), Ref(2)}, b |-> {Ref(2), Ref(3)}])}
    \cup {Plain("set", [a |-> Ref(1)]), Plain("set", [b |-> Ref(1)]), Object("date", TRUE, None, 1, << >>),
          Plain("date", << >>), Plain("error", << >>), Plain("opaque", << >>), Plain("view", << >>),
          Plain("array", [a |-> Ref(1)]), Object("plain", TRUE, "map", 0, [a |-> Ref(1)])}
Thirds == {x \in Kinds3 : x.kind \in {"plain", "set"} /\ Cardinality(DOMAIN x.fields) < 2}
Shapes == {<<x, y, z>> : x, y \in Kinds3, z \in Thirds}
\* Two roots over parts that are met at depth 1 and at depth 2.
Shared == {<<r, s, x, y, z>> :
              r \in {Plain(k, [a |-> Ref(3), b |-> Ref(4)]) : k \in {"plain", "array"}}
                    \cup {Plain("plain", [b |-> Ref(4)])},
              s \in {Plain(k, [a |-> Ref(3), b |-> Ref(5)]) : k \in {"plain", "array"}}
                    \cup {Plain("plain", [a |-> Ref(4), b |-> Ref(5)])},
              x \in {Plain(k, [a |-> Ref(4)]) : k \in {"plain", "map"}}
                    \cup {Plain("plain", [a |-> Ref(5), b |-> Prim(0)]), Plain("plain", [b |-> Ref(5)])},
              y \in {Plain("plain", f) : f \in FieldSets([a |-> {Prim(0), Ref(3)}, b |-> {Prim(0)}])},
              z \in {Plain("plain", f) : f \in FieldSets([a |-> {Prim(0)}, b |-> {Prim(0)}])}
                    \cup {Plain("error", << >>), Plain("date", << >>), Plain("opaque", << >>),
                          Plain("set", [a |-> Ref(1)]), Plain("view", << >>)}}

\* Snapshot states, whose arrays hold elements only; instances of subclasses of
\* Map, Set, Date and Array among them.
Subclassed == {Object("map", FALSE, None, 0, [a |-> Ref(1)]), Object("set", FALSE, None, 0, [a |-> Prim(0)]),
               Object("date", FALSE, None, 1, << >>), Object("array", FALSE, None, 0, [a |-> Ref(2)])}
Stored == {<<x, y>> :
              x \in {Plain(k, f) : k \in {"plain", "map"},
                        f \in FieldSets([a |-> {Prim(0), Ref(1), Ref(2)}, b |-> {Ref(2), Fn}])}
                  \cup {Plain("plain", f) : f \in FieldSets([a |-> {Ref(2)}, hidden |-> {Fn}, symbol |-> {Prim(0)}])}
                  \cup {Plain("array", [a |-> Ref(2)])},
              y \in Parts \cup Subclassed \cup {Object("map", FALSE, "registry", 0, [a |-> Prim(0)])}}

Situation(heaps, bound) == [heaps |-> heaps, maxOps |-> bound]
MCHeaps == [owned |-> Situation(Owned, 2), few |-> Situation(Few, 3),
            shapes |-> Situation(Shapes, 0), shared |-> Situation(Shared, 0),
            stored |-> Situation(Stored, 0)]
=============================================================================
