---------------------------- MODULE ObjectGraphs ----------------------------
(***************************************************************************)
(* The walks over JavaScript object graphs that value objects, aggregates  *)
(* and state machines rest on: deepEqual, deepOmit, cloneForVo,            *)
(* cloneDomainMachineDataValue, assertSnapshotSafe and deepFreeze.         *)
(*                                                                         *)
(* A heap maps addresses to objects                                        *)
(*   [kind:   plain, array, map, set, date (any atomic value), error (any  *)
(*            reference type), opaque, view,                               *)
(*    native: its prototype chain is the intrinsic one of its kind,        *)
(*    mask:   the kind Symbol.toStringTag claims instead, or None,         *)
(*    slot:   the value inside a date or view,                             *)
(*    fields: key -> value; of maps and sets, the entries,                 *)
(*    frozen, shadow: Object.freeze was called, mutators are shadowed]     *)
(* and a value is a primitive, a function or a reference.                  *)
(***************************************************************************)
EXTENDS Naturals, Sequences, SequencesExt, FiniteSets, TLC

CONSTANTS None,
          MaxDataDepth, MaxDataNodes, MaxDataProperties  \* limits of the state machine

Prim(k) == <<"primitive", k>>
Fn == <<"function", 0>>
Ref(n) == <<"object", n>>
IsRef(v) == v[1] = "object"

\* Own keys in the order they are walked.  On arrays a and b are indices; of
\* maps and sets they name the entries; reading "get" runs an accessor.
Keys == <<"a", "b", "get", "hidden", "symbol">>
Indices == {"a", "b"}
Walked(S) == SelectSeq(Keys, LAMBDA k : k \in S)

\* Mutant: a set has nothing to walk.
ContentsOfMaps(x) == IF x.kind = "map" THEN DOMAIN x.fields ELSE {}

Contents(x) == IF x.kind \in {"map", "set"} THEN DOMAIN x.fields ELSE {}
Own(x) == IF x.kind \in {"map", "set"} THEN {} ELSE DOMAIN x.fields

-----------------------------------------------------------------------------
(* is-built-in.ts *)

BuiltInKinds == {"map", "set", "date", "error"}

\* Object.prototype.toString
Tag(x) == IF x.mask = None THEN x.kind ELSE x.mask

\* The tag, verified by an internal slot.
IsBuiltInObject(x) == x.kind = "view" \/ (Tag(x) \in BuiltInKinds /\ Tag(x) = x.kind)

\* builtInTagWithoutInvokingAccessors falls back to the slots behind a mask.
BuiltInTag(x) == IF x.kind \in BuiltInKinds THEN x.kind ELSE None

-----------------------------------------------------------------------------
(* deepEqual *)

\* Mutant: one partner is remembered for every left-hand object.
PairedOnce(seen, a, b) == \E p \in seen : p[1] = a

\* The pair was met before: assume it equal.
Paired(seen, a, b) == <<a, b>> \in seen

ViewsEqual(x, y) == x.kind = y.kind /\ x.slot = y.slot

\* Built-ins without children: sets by their members, atomic values by the
\* slot, reference types never (a = b was looked at first).
AtomsEqual(x, y) ==
    CASE x.kind = "set" -> Range(x.fields) = Range(y.fields)
      [] x.kind = "date" -> x.slot = y.slot
      [] OTHER -> FALSE

\* comparePlainObjects: hidden and symbol keys count.
SameOwnKeys(x, y) == Own(x) = Own(y)

\* The walk of one pair: [eq, seen].
RECURSIVE EqualInner(_, _, _, _)
EqualInner(h, a, b, seen) ==
    LET x == h[a[2]]
        y == h[b[2]]
        answer(eq) == [eq |-> eq, seen |-> seen \cup {<<a, b>>}]
        both(S) ==
            FoldLeft(LAMBDA sofar, k :
                         IF sofar.eq THEN EqualInner(h, x.fields[k], y.fields[k], sofar.seen)
                         ELSE sofar,
                     answer(TRUE), Walked(S))
        sameKeys == IF SameOwnKeys(x, y) THEN both(Own(x)) ELSE answer(FALSE)
    IN  CASE a = b -> [eq |-> TRUE, seen |-> seen]
          [] a # b /\ ~(IsRef(a) /\ IsRef(b)) -> [eq |-> FALSE, seen |-> seen]
          [] OTHER ->
             IF Paired(seen, a, b) THEN [eq |-> TRUE, seen |-> seen]
             ELSE IF x.kind = "view" \/ y.kind = "view" THEN answer(ViewsEqual(x, y))
             ELSE IF x.kind = "array" \/ y.kind = "array"
             THEN IF x.kind = y.kind THEN sameKeys ELSE answer(FALSE)
             ELSE IF Tag(x) # Tag(y) \/ IsBuiltInObject(x) # IsBuiltInObject(y) THEN answer(FALSE)
             ELSE IF ~IsBuiltInObject(x)
             THEN IF Tag(x) = "opaque" THEN answer(FALSE) ELSE sameKeys
             ELSE IF x.kind = "map"
             THEN IF Contents(x) = Contents(y) THEN both(Contents(x)) ELSE answer(FALSE)
             ELSE answer(AtomsEqual(x, y))

DeepEqual(h, a, b) == EqualInner(h, a, b, {}).eq

-----------------------------------------------------------------------------
(* Copying walks.  They share one shape: an object met before gives its copy, *)
(* a new one is checked, entered before its children, and walked.  The four   *)
(* policies differ in what they refuse, alias and leave out:                  *)
(*   vo          cloneForVo                                                   *)
(*   machine     cloneDomainMachineDataValue                                  *)
(*   structured  structuredClone, of the platform                             *)
(*   omit        deepOmit, with the keys ignored at a depth (a predicate      *)
(*               decides by path, ignoreKeys everywhere)                      *)

RefusesVo(x) ==
    \/ x.kind = "view" \/ x.kind = "error" \/ x.kind = "opaque"
    \/ ~x.native
    \/ x.kind = "set" /\ \E k \in DOMAIN x.fields : IsRef(x.fields[k]) \/ x.fields[k] = Fn
    \/ "get" \in Own(x)

RefusesMachine(x) == x.kind \notin {"plain", "array"} \/ ~x.native \/ "get" \in Own(x)

Refuses(p, x) ==
    CASE p.name = "vo" -> RefusesVo(x)
      [] p.name = "machine" -> RefusesMachine(x)
      [] p.name = "structured" -> x.kind = "opaque"
      [] OTHER -> FALSE

\* Mutant: vo() shares what is frozen already.
AliasesFrozen(p, x) ==
    \/ p.name = "vo" /\ x.frozen
    \/ /\ p.name = "omit"
       /\ (IsBuiltInObject(x) /\ x.kind = "error") \/ (~IsBuiltInObject(x) /\ Tag(x) = "opaque")

\* cloneBuiltIn and isOpaqueExoticTag: what deepEqual compares by reference.
Aliases(p, x) ==
    /\ p.name = "omit"
    /\ (IsBuiltInObject(x) /\ x.kind = "error") \/ (~IsBuiltInObject(x) /\ Tag(x) = "opaque")

\* new Map(m) and new Set(s) keep their entries.
Shallow(p, x) == p.name = "omit" /\ IsBuiltInObject(x) /\ x.kind \in {"map", "set"}

Ignores(p, x, k, depth) ==
    k \in p.ignore /\ depth >= p.from /\ ~(x.kind = "array" /\ k \in Indices)

\* Mutant: Object.keys instead of Reflect.ownKeys.
KeptEnumerable(p, x, depth) == DOMAIN x.fields \ {"hidden"}

Kept(p, x, depth) ==
    CASE p.name = "omit" ->
           {k \in (IF x.kind \in {"map", "set"} /\ ~IsBuiltInObject(x) THEN {} ELSE DOMAIN x.fields) :
               x.kind \notin {"plain", "array"} \/ ~Ignores(p, x, k, depth)}
      [] p.name = "machine" -> DOMAIN x.fields
      [] p.name = "structured" -> DOMAIN x.fields \ {"hidden", "symbol"}
      [] OTHER -> DOMAIN x.fields \ {"hidden"}

Shell(p, x) ==
    [x EXCEPT !.frozen = FALSE, !.shadow = FALSE, !.fields = << >>,
              !.native = IF p.name = "omit" THEN @ ELSE TRUE,
              !.mask = IF p.name = "omit" \/ (p.name # "structured" /\ x.kind \in {"plain", "array"})
                       THEN @ ELSE None,
              !.kind = IF p.name = "omit" /\ x.kind \in BuiltInKinds /\ ~IsBuiltInObject(x)
                       THEN "plain" ELSE @]

\* Mutant: results are kept although a path decides.
KeepsSeen(p, x, seen, n) == seen

\* With a predicate only ancestors and built-ins are remembered.
SeenAfter(p, x, seen, n) ==
    IF p.name = "omit" /\ p.from > 0 /\ ~IsBuiltInObject(x)
    THEN [m \in DOMAIN seen \ {n} |-> seen[m]] ELSE seen

\* Mutant: the depth of the object is not looked at.
TooDeepNever(p, n, seen, depth) == FALSE

\* Mutant: what was met before is looked up before the depth is checked.
TooDeepUnlessSeen(p, n, seen, depth) ==
    p.name = "machine" /\ depth > MaxDataDepth /\ n \notin DOMAIN seen

\* The object n, met before or not, is referred to from too deep.
TooDeep(p, n, seen, depth) == p.name = "machine" /\ depth > MaxDataDepth

TooLarge(p, st) ==
    p.name = "machine" /\ (st.nodes > MaxDataNodes \/ st.properties > MaxDataProperties)

Fails(st) == [st EXCEPT !.ok = FALSE]

RECURSIVE CopyInner(_, _, _, _)
CopyInner(p, v, st, depth) ==
    IF ~st.ok THEN st
    ELSE IF ~IsRef(v)
    THEN IF v = Fn /\ p.name # "omit" THEN Fails(st) ELSE [st EXCEPT !.val = v]
    ELSE LET n == v[2]
             x == st.heap[n]
             id == Cardinality(DOMAIN st.heap) + 1
             kept == Kept(p, x, depth)
             entered == [st EXCEPT
                 !.heap = (id :> Shell(p, x)) @@ @, !.seen = (n :> Ref(id)) @@ @,
                 !.nodes = @ + 1,
                 !.properties = @ + Cardinality(kept) + (IF x.kind = "array" THEN 1 ELSE 0)]
             child(sofar, k) ==
                 LET c == IF Shallow(p, x) THEN [sofar EXCEPT !.val = x.fields[k]]
                          ELSE CopyInner(p, x.fields[k], sofar, depth + 1)
                 IN  [c EXCEPT !.heap[id].fields = (k :> c.val) @@ @]
             walked == FoldLeft(child, entered, Walked(kept))
         IN  IF TooDeep(p, n, st.seen, depth) THEN Fails(st)
             ELSE IF n \in DOMAIN st.seen THEN [st EXCEPT !.val = st.seen[n]]
             ELSE IF Refuses(p, x) \/ TooLarge(p, entered) THEN Fails(st)
             ELSE IF Aliases(p, x) THEN [st EXCEPT !.val = v]
             ELSE [walked EXCEPT !.val = Ref(id), !.seen = SeenAfter(p, x, @, n)]

Copy(p, h, v) ==
    CopyInner(p, v, [ok |-> TRUE, heap |-> h, seen |-> << >>, nodes |-> 0, properties |-> 0, val |-> v], 0)

VoPolicy == [name |-> "vo"]
MachinePolicy == [name |-> "machine"]
StructuredPolicy == [name |-> "structured"]
OmitPolicy(keys, from) == [name |-> "omit", ignore |-> keys, from |-> from]

\* deepEqualExcept
DeepEqualExcept(h, a, b, p) ==
    LET first == Copy(p, h, a)
        second == Copy(p, first.heap, b)
    IN  DeepEqual(second.heap, first.val, second.val)

-----------------------------------------------------------------------------
(* assertSnapshotSafe: [ok, seen] *)

RECURSIVE SafeInner(_, _, _)
SafeInner(h, v, st) ==
    LET x == h[v[2]]
        stop(ok) == [ok |-> ok, seen |-> st.seen \cup {v}]
        walk(S) == FoldLeft(LAMBDA sofar, k : IF sofar.ok THEN SafeInner(h, x.fields[k], sofar) ELSE sofar,
                            stop(TRUE), Walked(S))
    IN  IF ~IsRef(v) THEN [st EXCEPT !.ok = v # Fn]
        ELSE IF v \in st.seen THEN st
        ELSE IF x.kind = "array" THEN walk(DOMAIN x.fields \cap Indices)
        ELSE IF IsBuiltInObject(x)
        THEN IF x.kind \in {"map", "set"} THEN walk(Contents(x)) ELSE stop(x.kind # "error")
        ELSE IF x.kind # "plain" \/ ~x.native \/ x.mask # None \/ "symbol" \in Own(x)
        THEN stop(FALSE)
        ELSE walk(DOMAIN x.fields \ {"hidden"})

SnapshotSafe(h, v) == SafeInner(h, v, [ok |-> TRUE, seen |-> {}]).ok

-----------------------------------------------------------------------------
(* deepFreeze: [heap, visited] *)

\* Mutant: the contents of maps and sets are not own keys, and not walked.
FrozenChildrenOwn(x) == Own(x)

FrozenChildren(x) == Own(x) \cup Contents(x)

\* Mutant: every object is shadowed.
FrozenShadowed(x) == [x EXCEPT !.frozen = TRUE, !.shadow = TRUE]

\* Mutators cannot be shadowed on what is locked already.
Frozen(x) ==
    [x EXCEPT !.frozen = TRUE,
              !.shadow = IF BuiltInTag(x) \in {"date", "map", "set"} /\ ~x.frozen THEN TRUE ELSE @]

RECURSIVE FreezeInner(_, _)
FreezeInner(v, st) ==
    IF ~IsRef(v) THEN st
    ELSE LET n == v[2]
             x == st.heap[n]
             walked == FoldLeft(LAMBDA sofar, k : FreezeInner(x.fields[k], sofar),
                                [st EXCEPT !.visited = @ \cup {n}], Walked(FrozenChildren(x)))
         IN  IF x.kind = "view" \/ n \in st.visited THEN st
             ELSE [walked EXCEPT !.heap[n] = Frozen(@)]

DeepFreeze(h, v) == FreezeInner(v, [heap |-> h, visited |-> {}]).heap
=============================================================================
