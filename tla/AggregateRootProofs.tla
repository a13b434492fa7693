------------------------- MODULE AggregateRootProofs ------------------------
(***************************************************************************)
(* For any instances and bounds, no update of a state-stored aggregate is  *)
(* lost, and state, events, baseline and row move in step.                 *)
(*                                                                         *)
(* The properties compare what instances hold with what the record held at *)
(* some version, so the invariant keeps, for every instance, that its      *)
(* baseline is the record at the version it counts as persisted, that a    *)
(* key whose reference is the baseline's has the baseline's value, and     *)
(* that nothing but the cosmetic key differs before the version moves.     *)
(***************************************************************************)
EXTENDS AggregateRoot, TLAPS

Fields == {"held", "state", "base", "based", "version", "persisted", "pending", "saved"}

\* A state or its columns: every fixed key, and the status counts commits.
StateOk(s) == DOMAIN s \in {Keys, Fixed} /\ s["status"].val \in Nat

ColumnsOk(cols) == DOMAIN cols \in {Keys, Fixed} /\ cols["status"] \in Nat

\* A key that keeps the baseline's reference keeps its value.
Tracks(state, base) ==
    \A k \in DOMAIN state \cap DOMAIN base : ~state[k].fresh => state[k].val = base[k].val

SameDomain(state, base) == DomainOf(Columns(state)) = DomainOf(Columns(base))

\* As many events wait as the status was advanced.
InEvents(agg) ==
    (agg.held /\ ~agg.saved) =>
        agg.pending = IF agg.based THEN agg.state["status"].val - agg.base["status"].val
                      ELSE agg.state["status"].val + 1

\* What is true of an instance by itself.
AggregateOk(agg) ==
    /\ DOMAIN agg = Fields
    /\ agg.held \in BOOLEAN /\ agg.based \in BOOLEAN /\ agg.saved \in BOOLEAN
    /\ agg.version \in 0..MaxVersion /\ agg.persisted \in 0..MaxVersion /\ agg.pending \in Nat
    /\ StateOk(agg.state) /\ StateOk(agg.base) /\ Valid(agg.state)
    /\ ~agg.held => ~agg.saved
    /\ agg.held => agg.version > 0 /\ agg.persisted <= agg.version
    /\ ~agg.based => agg.persisted = 0
    /\ agg.based => /\ Tracks(agg.state, agg.base)
                    /\ agg.version = agg.persisted => SameDomain(agg.state, agg.base)
    /\ InEvents(agg)

\* n is what the writers of the record held, by version; the record had the
\* version, and then the domain state of cols.
Had(n, version, cols) == version \in DOMAIN n /\ DomainOf(cols) = n[version].cols

\* An instance's baseline, and its state once saved, were the record's.
Stored(agg, n) ==
    /\ agg.held /\ agg.based => Had(n, agg.persisted, Columns(agg.base))
    /\ agg.saved => Had(n, agg.version, Columns(agg.state))

\* Each version of the record was written over the one before it.
Recorded(r, n) ==
    /\ DOMAIN r = {"version", "cols"}
    /\ r.version \in 0..MaxVersion /\ ColumnsOk(r.cols) /\ Valid(Hydrated(r.cols))
    /\ DOMAIN n \subseteq 1..r.version
    /\ r.version > 0 => Had(n, r.version, r.cols)
    /\ \A v \in DOMAIN n : n[v].based \in Nat /\ n[v].based < v
    /\ \A u, v \in DOMAIN n : u < v => u <= n[v].based

Kept == backup # <<>> => /\ ColumnsOk(backup[1].cols)
                         /\ backup[1].version \in 1..MaxVersion
                         /\ Had(intents, backup[1].version, backup[1].cols)

Safe ==
    /\ setup \in Setups /\ DOMAIN inst = Instances
    /\ \A i \in Instances : AggregateOk(inst[i]) /\ Stored(inst[i], intents)
    /\ Recorded(row, intents) /\ Kept

-----------------------------------------------------------------------------
(* States and columns *)

\* The limits of a deployment.
LEMMA Deployed ==
  ASSUME setup \in Setups
  PROVE  MaxVersion \in Nat \ {0} /\ MaxQuantity \in Nat \ {0} /\ setup.instances \subseteq Instances
BY AggregateRootAssumption DEF MaxVersion, MaxQuantity

\* The domain state is read off the columns, key by key.
LEMMA DomainEqual ==
  ASSUME NEW c, NEW d,
         DomainKeys \cap DOMAIN c = DomainKeys \cap DOMAIN d,
         \A k \in DomainKeys \cap DOMAIN c : c[k] = d[k]
  PROVE  DomainOf(c) = DomainOf(d)
BY DEF DomainOf

\* Equal domain states have the same keys and values.
LEMMA DomainEquals ==
  ASSUME NEW c, NEW d, DomainOf(c) = DomainOf(d)
  PROVE  /\ DomainKeys \cap DOMAIN c = DomainKeys \cap DOMAIN d
         /\ \A k \in DomainKeys \cap DOMAIN c : c[k] = d[k]
<1>1. /\ DOMAIN DomainOf(c) = DomainKeys \cap DOMAIN c
      /\ DOMAIN DomainOf(d) = DomainKeys \cap DOMAIN d
      /\ \A k \in DomainKeys \cap DOMAIN c : DomainOf(c)[k] = c[k]
      /\ \A k \in DomainKeys \cap DOMAIN d : DomainOf(d)[k] = d[k]
  BY DEF DomainOf
<1> QED BY <1>1

\* The columns of a state, and the states of columns.
LEMMA ColumnsOf ==
  ASSUME NEW s
  PROVE  /\ DOMAIN Columns(s) = DOMAIN s /\ \A k \in DOMAIN s : Columns(s)[k] = s[k].val
         /\ DOMAIN Hydrated(s) = DOMAIN s /\ \A k \in DOMAIN s : Hydrated(s)[k].fresh /\ Hydrated(s)[k].val = s[k]
         /\ DOMAIN AsBaseline(s) = DOMAIN s
         /\ \A k \in DOMAIN s : ~AsBaseline(s)[k].fresh /\ AsBaseline(s)[k].val = s[k].val
BY DEF Columns, Hydrated, AsBaseline, Cell

\* A baseline has the values of its state.
LEMMA BaselineOf ==
  ASSUME NEW s, StateOk(s)
  PROVE  /\ StateOk(AsBaseline(s)) /\ Columns(AsBaseline(s)) = Columns(s)
         /\ AsBaseline(s)["status"].val = s["status"].val
         /\ Valid(s) => Valid(AsBaseline(s))
<1>1. "status" \in DOMAIN s /\ "items" \in DOMAIN s
  BY DEF StateOk, Keys, Fixed
<1>2. \A k \in DOMAIN s : AsBaseline(s)[k].val = s[k].val
  BY ColumnsOf
<1>3. StateOk(AsBaseline(s)) /\ AsBaseline(s)["status"].val = s["status"].val
  BY <1>1, <1>2, ColumnsOf DEF StateOk
<1>4. Columns(AsBaseline(s)) = Columns(s)
  BY <1>2, ColumnsOf DEF Columns
<1> QED BY <1>1, <1>2, <1>3, <1>4 DEF Valid

\* A state read back has the domain state it was stored as.
LEMMA HydratedIs ==
  ASSUME NEW cols, ColumnsOk(cols)
  PROVE  StateOk(Hydrated(cols)) /\ DomainOf(Columns(Hydrated(cols))) = DomainOf(cols)
<1>1. "status" \in DOMAIN cols
  BY DEF ColumnsOk, Keys, Fixed
<1>2. \A k \in DOMAIN cols : Hydrated(cols)[k].val = cols[k]
  BY ColumnsOf
<1>3. StateOk(Hydrated(cols))
  BY <1>1, <1>2, ColumnsOf DEF StateOk, ColumnsOk
<1>4. /\ DOMAIN Columns(Hydrated(cols)) = DOMAIN cols
      /\ \A k \in DOMAIN cols : Columns(Hydrated(cols))[k] = cols[k]
  BY <1>2, ColumnsOf
<1>5. DomainOf(Columns(Hydrated(cols))) = DomainOf(cols)
  BY <1>4, DomainEqual
<1> QED BY <1>3, <1>5

-----------------------------------------------------------------------------
(* Instances *)

\* An aggregate that has moved: its state, at most one version and one event.
Moved(agg, new, bump, events) ==
    /\ DOMAIN new = Fields
    /\ new.held = agg.held /\ new.base = agg.base /\ new.based = agg.based
    /\ new.persisted = agg.persisted /\ new.saved = agg.saved
    /\ new.version = agg.version + bump /\ new.pending = agg.pending + events
    /\ StateOk(new.state) /\ Valid(new.state)
    /\ new.state["status"].val = agg.state["status"].val + events
    /\ agg.based => Tracks(new.state, agg.base)
    /\ bump = 0 => SameDomain(new.state, agg.state)

\* A move keeps what is true of an aggregate that is not saved yet.
LEMMA MovedOk ==
  ASSUME setup \in Setups, NEW agg, AggregateOk(agg), agg.held, ~agg.saved,
         NEW new, NEW bump \in {0, 1}, NEW events \in {0, 1}, Moved(agg, new, bump, events),
         agg.version + bump <= MaxVersion, NEW n, Stored(agg, n)
  PROVE  AggregateOk(new) /\ Stored(new, n)
<1>1. MaxVersion \in Nat /\ agg.version \in Nat /\ agg.persisted \in Nat /\ agg.pending \in Nat
  BY Deployed DEF AggregateOk
<1>2. new.version \in 0..MaxVersion /\ new.pending \in Nat /\ new.version > 0
      /\ new.persisted <= new.version
  BY <1>1 DEF Moved, AggregateOk
<1>3. new.version = new.persisted => bump = 0 /\ agg.version = agg.persisted
  BY <1>1 DEF Moved, AggregateOk
<1>4. new.based => /\ Tracks(new.state, new.base)
                   /\ new.version = new.persisted => SameDomain(new.state, new.base)
  BY <1>3 DEF Moved, AggregateOk, SameDomain
<1>5. InEvents(new)
  <2>1. /\ agg.state["status"].val \in Nat /\ agg.base["status"].val \in Nat
        /\ new.state["status"].val \in Nat
    BY DEF AggregateOk, StateOk, Moved
  <2> QED BY <1>1, <2>1 DEF Moved, AggregateOk, InEvents
<1>6. AggregateOk(new)
  BY <1>1, <1>2, <1>4, <1>5 DEF Moved, AggregateOk
<1> QED BY <1>6 DEF Moved, Stored

\* setState moves an aggregate, or refuses an invalid state.
LEMMA SetStateMoves ==
  ASSUME NEW agg, DOMAIN agg = Fields, NEW state, StateOk(state), Valid(state),
         state["status"].val = agg.state["status"].val, agg.pending \in Nat,
         agg.based => Tracks(state, agg.base)
  PROVE  Moved(agg, SetState(agg, state), 1, 0)
<1> DEFINE one == [agg EXCEPT !.state = state]
           new == [one EXCEPT !.version = @ + 1]
<1>1. /\ DOMAIN one = Fields /\ one.state = state /\ one.version = agg.version
      /\ one.held = agg.held /\ one.base = agg.base /\ one.based = agg.based
      /\ one.persisted = agg.persisted /\ one.saved = agg.saved /\ one.pending = agg.pending
  BY DEF Fields
<1> HIDE DEF one
<1>2. /\ DOMAIN new = Fields /\ new.state = state /\ new.version = agg.version + 1
      /\ new.held = agg.held /\ new.base = agg.base /\ new.based = agg.based
      /\ new.persisted = agg.persisted /\ new.saved = agg.saved /\ new.pending = agg.pending
  BY <1>1 DEF Fields
<1>3. SetState(agg, state) = new
  BY DEF SetState, EntitySetState, one
<1> HIDE DEF new
<1>4. new.pending = agg.pending + 0 /\ state["status"].val + 0 = state["status"].val
  BY <1>2 DEF StateOk
<1>5. agg.state["status"].val + 0 = agg.state["status"].val
  BY <1>4
<1> QED BY <1>2, <1>3, <1>4, <1>5 DEF Moved

\* A key replaced under a new reference.
LEMMA CellTracks ==
  ASSUME NEW s, NEW base, StateOk(s), NEW k \in DOMAIN s, NEW c,
         k # "status" \/ c.val \in Nat,
         c.fresh \/ c = s[k]
  PROVE  LET t == [s EXCEPT ![k] = c]
         IN  /\ StateOk(t) /\ DOMAIN t = DOMAIN s /\ t[k] = c
             /\ \A j \in DOMAIN s \ {k} : t[j] = s[j]
             /\ Tracks(s, base) => Tracks(t, base)
<1> DEFINE t == [s EXCEPT ![k] = c]
<1>1. DOMAIN t = DOMAIN s /\ t[k] = c /\ \A j \in DOMAIN s \ {k} : t[j] = s[j]
  OBVIOUS
<1> HIDE DEF t
<1>2. StateOk(t)
  <2>1. "status" \in DOMAIN s
    BY DEF StateOk, Keys, Fixed
  <2> QED BY <1>1, <2>1 DEF StateOk
<1>3. ASSUME Tracks(s, base) PROVE Tracks(t, base)
  BY <1>1, <1>3 DEF Tracks
<1> QED BY <1>1, <1>2, <1>3 DEF t

\* An aggregate whose state became its baseline, at a version the record had.
LEMMA RestoredOk ==
  ASSUME setup \in Setups, NEW s, StateOk(s), Valid(s), NEW v \in 1..MaxVersion,
         NEW n, Had(n, v, Columns(s)), NEW new, DOMAIN new = Fields,
         new.held = TRUE, new.based = TRUE, new.saved = FALSE, new.pending = 0,
         new.version = v, new.persisted = v, new.state = AsBaseline(s), new.base = AsBaseline(s)
  PROVE  AggregateOk(new) /\ Stored(new, n)
<1>1. MaxVersion \in Nat /\ v \in Nat /\ v > 0
  BY Deployed
<1>2. /\ StateOk(AsBaseline(s)) /\ Columns(AsBaseline(s)) = Columns(s) /\ Valid(AsBaseline(s))
      /\ AsBaseline(s)["status"].val \in Nat
  BY BaselineOf DEF StateOk
<1>3. Tracks(new.state, new.base) /\ SameDomain(new.state, new.base)
  BY DEF Tracks, SameDomain
<1>4. InEvents(new)
  BY <1>2 DEF InEvents
<1>5. AggregateOk(new)
  <2>1. StateOk(new.state) /\ StateOk(new.base) /\ Valid(new.state)
    BY <1>2
  <2>2. /\ new.version \in 0..MaxVersion /\ new.persisted \in 0..MaxVersion /\ new.pending \in Nat
        /\ new.version > 0 /\ new.persisted <= new.version
    BY <1>1
  <2>3. /\ new.held \in BOOLEAN /\ new.based \in BOOLEAN /\ new.saved \in BOOLEAN
        /\ new.held /\ new.based /\ ~new.saved
    OBVIOUS
  <2> QED BY <1>3, <1>4, <2>1, <2>2, <2>3 DEF AggregateOk
<1>6. Stored(new, n)
  BY <1>2 DEF Stored
<1> QED BY <1>5, <1>6

\* markRestored sets both versions and makes the state the baseline.
LEMMA MarkRestoredIs ==
  ASSUME NEW agg, DOMAIN agg = Fields, NEW v
  PROVE  LET new == MarkRestored(agg, v)
         IN  /\ DOMAIN new = Fields /\ new.held = agg.held /\ new.saved = agg.saved
             /\ new.pending = agg.pending /\ new.based = TRUE
             /\ new.version = v /\ new.persisted = v
             /\ new.state = AsBaseline(agg.state) /\ new.base = AsBaseline(agg.state)
BY DEF MarkRestored, Fields

\* No instance, and a state that has just been constructed.
LEMMA AbsentOk ==
  ASSUME setup \in Setups, NEW n
  PROVE  /\ StateOk(InitialState) /\ Valid(InitialState)
         /\ InitialState["status"].val = 0
         /\ DOMAIN Absent = Fields /\ Absent.state = InitialState
         /\ AggregateOk(Absent) /\ Stored(Absent, n)
<1>1. /\ DOMAIN InitialState = Fixed
      /\ InitialState["status"] = Cell(TRUE, 0) /\ InitialState["items"] = Cell(TRUE, <<>>)
  BY DEF InitialState, Fixed, Keys
<1>2. StateOk(InitialState) /\ InitialState["status"].val = 0
  BY <1>1 DEF StateOk, Cell
<1>3. Valid(InitialState)
  BY <1>1 DEF Valid, Cell
<1>4. /\ DOMAIN Absent = Fields /\ Absent.state = InitialState /\ Absent.base = InitialState
      /\ Absent.held = FALSE /\ Absent.based = FALSE /\ Absent.saved = FALSE
      /\ Absent.version = 0 /\ Absent.persisted = 0 /\ Absent.pending = 0
  BY DEF Absent, Fields
<1>5. MaxVersion \in Nat
  BY Deployed
<1>6. AggregateOk(Absent)
  <2>1. StateOk(Absent.state) /\ StateOk(Absent.base) /\ Valid(Absent.state)
    BY <1>2, <1>3, <1>4
  <2>2. /\ Absent.version \in 0..MaxVersion /\ Absent.persisted \in 0..MaxVersion
        /\ Absent.pending \in Nat
    BY <1>4, <1>5
  <2>3. /\ Absent.held \in BOOLEAN /\ Absent.based \in BOOLEAN /\ Absent.saved \in BOOLEAN
        /\ ~Absent.held /\ ~Absent.based /\ ~Absent.saved
    BY <1>4
  <2> QED BY <1>4, <2>1, <2>2, <2>3 DEF AggregateOk, InEvents
<1>7. Stored(Absent, n)
  BY <1>4 DEF Stored
<1> QED BY <1>2, <1>3, <1>4, <1>6, <1>7

-----------------------------------------------------------------------------
(* Steps *)

\* A step that changes one instance alone.
LEMMA PutSafe ==
  ASSUME Safe, NEW i \in Instances, NEW agg, Put(i, agg),
         AggregateOk(agg), Stored(agg, intents), UNCHANGED <<row, intents, backup, setup>>
  PROVE  Safe'
<1>1. /\ DOMAIN inst' = Instances /\ inst'[i] = agg
      /\ \A j \in Instances \ {i} : inst'[j] = inst[j]
  BY DEF Put, Safe
<1>2. ASSUME NEW j \in Instances PROVE AggregateOk(inst'[j]) /\ Stored(inst'[j], intents)
  BY <1>1 DEF Safe
<1>3. \A j \in Instances : (AggregateOk(inst[j]))' /\ (Stored(inst[j], intents))'
  BY <1>2 DEF AggregateOk, Stored, Valid, MaxVersion, MaxQuantity, InEvents
<1>4. (Recorded(row, intents))' /\ Kept'
  BY DEF Safe, Recorded, Kept, Valid, MaxVersion, MaxQuantity
<1> QED BY <1>1, <1>3, <1>4 DEF Safe

\* setState of the instance i, whatever it is given.
LEMMA SetStateSafe ==
  ASSUME Safe, NEW i \in Instances, Idle(i), inst[i].version < MaxVersion, NEW state,
         StateOk(state), state["status"].val = inst[i].state["status"].val,
         Tracks(inst[i].state, inst[i].base) => Tracks(state, inst[i].base),
         Put(i, SetState(inst[i], state)), UNCHANGED <<row, intents, backup, setup>>
  PROVE  Safe'
<1> DEFINE agg == inst[i]
<1>1. /\ setup \in Setups /\ AggregateOk(agg) /\ Stored(agg, intents)
      /\ agg.held /\ ~agg.saved
  BY DEF Safe, Idle
<1>2. /\ DOMAIN agg = Fields /\ agg.pending \in Nat
      /\ agg.version \in Nat /\ MaxVersion \in Nat
      /\ agg.based => Tracks(agg.state, agg.base)
  BY <1>1, Deployed DEF AggregateOk
<1>3. CASE Valid(state)
  <2>1. Moved(agg, SetState(agg, state), 1, 0)
    BY <1>2, <1>3, SetStateMoves
  <2>2. agg.version + 1 <= MaxVersion
    BY <1>2
  <2>3. AggregateOk(SetState(agg, state)) /\ Stored(SetState(agg, state), intents)
    BY <1>1, <2>1, <2>2, MovedOk
  <2> QED BY <2>3, PutSafe
<1>4. CASE ~Valid(state)
  <2>1. SetState(agg, state) = agg
    BY <1>4 DEF SetState
  <2> QED BY <1>1, <2>1, PutSafe
<1> QED BY <1>3, <1>4

\* A new aggregate: its creation event waits, and it has no baseline.
LEMMA SafeCreate ==
  ASSUME Safe, NEW i \in Instances, Create(i), UNCHANGED setup
  PROVE  Safe'
<1> DEFINE a == [Absent EXCEPT !.held = TRUE]
           b == [a EXCEPT !.state = InitialState]
           c == [b EXCEPT !.version = @ + 1]
           new == [c EXCEPT !.pending = @ + 1]
<1>1. /\ DOMAIN new = Fields /\ new.held = TRUE /\ new.state = InitialState /\ new.based = FALSE
      /\ new.base = InitialState /\ new.saved = FALSE /\ new.persisted = 0
      /\ new.version = 1 /\ new.pending = 1
  <2>1. /\ DOMAIN b = Fields /\ b.held = TRUE /\ b.state = InitialState /\ b.based = FALSE
        /\ b.base = InitialState /\ b.saved = FALSE /\ b.persisted = 0
        /\ b.version = 0 /\ b.pending = 0
    BY DEF Absent, Fields
  <2> HIDE DEF b
  <2> QED BY <2>1 DEF Fields
<1>2. setup \in Setups /\ MaxVersion \in Nat \ {0}
  BY Deployed DEF Safe
<1>3. StateOk(InitialState) /\ Valid(InitialState) /\ InitialState["status"].val = 0
  BY <1>2, AbsentOk
<1>4. Commit(a, InitialState, TRUE) = new
  BY <1>3 DEF Commit, SetState, EntitySetState
<1> HIDE DEF new
<1>5. AggregateOk(new)
  <2>1. InEvents(new)
    BY <1>1, <1>3 DEF InEvents
  <2>2. StateOk(new.state) /\ StateOk(new.base) /\ Valid(new.state)
    BY <1>1, <1>3
  <2>3. /\ new.version \in 0..MaxVersion /\ new.persisted \in 0..MaxVersion /\ new.pending \in Nat
        /\ new.version > 0 /\ new.persisted <= new.version
    BY <1>1, <1>2
  <2>4. /\ new.held \in BOOLEAN /\ new.based \in BOOLEAN /\ new.saved \in BOOLEAN
        /\ new.held /\ ~new.based /\ ~new.saved
    BY <1>1
  <2> QED BY <1>1, <2>1, <2>2, <2>3, <2>4 DEF AggregateOk
<1>6. Stored(new, intents)
  BY <1>1 DEF Stored
<1> QED BY <1>4, <1>5, <1>6, PutSafe DEF Create

\* An instance read from the record.
LEMMA SafeLoad ==
  ASSUME Safe, NEW i \in Instances, Load(i), UNCHANGED setup
  PROVE  Safe'
<1> DEFINE s == Hydrated(row.cols)
           a == [Absent EXCEPT !.held = TRUE, !.state = s]
           new == MarkRestored(a, row.version)
<1>1. /\ setup \in Setups /\ row.version \in 1..MaxVersion /\ ColumnsOk(row.cols) /\ Valid(s)
      /\ Had(intents, row.version, row.cols)
  BY Deployed DEF Safe, Load, Recorded
<1>2. StateOk(s) /\ Had(intents, row.version, Columns(s))
  BY <1>1, HydratedIs DEF Had
<1> HIDE DEF s
<1>3. DOMAIN a = Fields /\ a.held = TRUE /\ a.saved = FALSE /\ a.pending = 0 /\ a.state = s
  BY DEF Absent, Fields
<1> HIDE DEF a
<1>4. AggregateOk(new) /\ Stored(new, intents)
  <2>1. /\ DOMAIN new = Fields /\ new.held = TRUE /\ new.based = TRUE /\ new.saved = FALSE
        /\ new.pending = 0 /\ new.version = row.version /\ new.persisted = row.version
        /\ new.state = AsBaseline(s) /\ new.base = AsBaseline(s)
    BY ZenonT(60), <1>3, MarkRestoredIs
  <2> HIDE DEF new
  <2> QED BY <1>1, <1>2, <2>1, RestoredOk
<1> QED BY <1>4, PutSafe DEF Load, s, a

\* commit(): state, version and event move together, or not at all.
LEMMA SafeAdvance ==
  ASSUME Safe, NEW i \in Instances, NEW minted \in BOOLEAN, Advance(i, minted), UNCHANGED setup
  PROVE  Safe'
<1> DEFINE agg == inst[i]
           c == Cell(TRUE, agg.state["status"].val + 1)
           t == [agg.state EXCEPT !["status"] = c]
           next == SetState(agg, t)
           new == [next EXCEPT !.pending = @ + 1]
<1>1. /\ setup \in Setups /\ AggregateOk(agg) /\ Stored(agg, intents)
      /\ agg.held /\ ~agg.saved /\ agg.version < MaxVersion
  BY DEF Safe, Advance, Idle
<1>2. /\ DOMAIN agg = Fields /\ StateOk(agg.state) /\ Valid(agg.state)
      /\ agg.version \in Nat /\ agg.pending \in Nat /\ MaxVersion \in Nat
      /\ agg.based => Tracks(agg.state, agg.base)
  BY <1>1, Deployed DEF AggregateOk
<1>3. Put(i, Commit(agg, t, minted)) /\ UNCHANGED <<row, intents, backup>>
  BY DEF Advance, c
<1>4. CASE ~minted
  <2>1. Commit(agg, t, minted) = agg
    BY <1>4 DEF Commit
  <2> QED BY <1>1, <1>3, <2>1, PutSafe
<1>5. CASE minted
  <2>1. "status" \in DOMAIN agg.state /\ "items" \in DOMAIN agg.state \ {"status"}
    BY <1>2 DEF StateOk, Keys, Fixed
  <2>2. c.fresh /\ c.val = agg.state["status"].val + 1 /\ c.val \in Nat
    BY <1>2 DEF Cell, StateOk
  <2> HIDE DEF c
  <2>3. /\ StateOk(t) /\ t["status"] = c /\ t["items"] = agg.state["items"]
        /\ agg.based => Tracks(t, agg.base)
    BY <1>2, <2>1, <2>2, CellTracks
  <2> HIDE DEF t
  <2>4. Valid(t)
    BY <1>2, <2>3 DEF Valid
  <2>5. /\ DOMAIN next = Fields /\ next.state = t /\ next.version = agg.version + 1
        /\ next.held = agg.held /\ next.base = agg.base /\ next.based = agg.based
        /\ next.persisted = agg.persisted /\ next.saved = agg.saved /\ next.pending = agg.pending
    <3> DEFINE one == [agg EXCEPT !.state = t]
    <3>1. /\ DOMAIN one = Fields /\ one.state = t /\ one.version = agg.version
          /\ one.held = agg.held /\ one.base = agg.base /\ one.based = agg.based
          /\ one.persisted = agg.persisted /\ one.saved = agg.saved /\ one.pending = agg.pending
      BY <1>2 DEF Fields
    <3>2. next = [one EXCEPT !.version = @ + 1]
      BY <2>4 DEF SetState, EntitySetState
    <3> HIDE DEF one, next
    <3> QED BY <3>1, <3>2 DEF Fields
  <2>6. Commit(agg, t, minted) = new
    BY <1>5, <2>4 DEF Commit
  <2> HIDE DEF next
  <2>7. Moved(agg, new, 1, 1)
    <3>1. /\ DOMAIN new = Fields /\ new.state = t /\ new.version = agg.version + 1
          /\ new.held = agg.held /\ new.base = agg.base /\ new.based = agg.based
          /\ new.persisted = agg.persisted /\ new.saved = agg.saved
          /\ new.pending = agg.pending + 1
      BY <2>5 DEF Fields
    <3> HIDE DEF new
    <3>2. new.state["status"].val = agg.state["status"].val + 1
      BY <2>2, <2>3, <3>1
    <3> QED BY <2>3, <2>4, <3>1, <3>2 DEF Moved
  <2> HIDE DEF new
  <2>8. agg.version + 1 <= MaxVersion
    BY <1>1, <1>2
  <2>9. AggregateOk(new) /\ Stored(new, intents)
    BY <1>1, <2>7, <2>8, MovedOk
  <2> QED BY <1>3, <2>6, <2>9, PutSafe
<1> QED BY <1>4, <1>5

\* The helpers of entity.ts return the array they were given or a new one.
LEMMA SafeSetItems ==
  ASSUME Safe, NEW i \in Instances, NEW cell, SetItems(i, cell),
         cell.fresh \/ cell = inst[i].state["items"], UNCHANGED setup
  PROVE  Safe'
<1> DEFINE s == inst[i].state
           t == [s EXCEPT !["items"] = cell]
<1>1. StateOk(s)
  BY DEF Safe, AggregateOk
<1>2. "items" \in DOMAIN s /\ "status" \in DOMAIN s \ {"items"}
  BY <1>1 DEF StateOk, Keys, Fixed
<1>3. /\ StateOk(t) /\ \A j \in DOMAIN s \ {"items"} : t[j] = s[j]
      /\ Tracks(s, inst[i].base) => Tracks(t, inst[i].base)
  BY <1>1, <1>2, CellTracks
<1>4. t["status"].val = s["status"].val
  BY <1>2, <1>3
<1>5. /\ Idle(i) /\ inst[i].version < MaxVersion
      /\ Put(i, SetState(inst[i], t)) /\ UNCHANGED <<row, intents, backup>>
  BY DEF SetItems
<1> HIDE DEF t
<1> QED BY <1>3, <1>4, <1>5, SetStateSafe

\* A change of the child entities.
LEMMA SafeChangeItems ==
  ASSUME Safe, NEW i \in Instances, NEW id \in Ids, ChangeItems(i, id), UNCHANGED setup
  PROVE  Safe'
<1> DEFINE cell == inst[i].state["items"]
<1>1. PICK c : SetItems(i, c) /\ \/ c = AddEntity(cell, id)
                                 \/ c = RemoveEntityById(cell, id)
                                 \/ c = UpdateEntityById(cell, id, TRUE, 0)
                                 \/ \E q \in 1..MaxQuantity + 1 :
                                       c = UpdateEntityById(cell, id, FALSE, q)
  BY DEF ChangeItems
<1>2. c.fresh \/ c = cell
  BY <1>1 DEF AddEntity, RemoveEntityById, UpdateEntityById, Shared, Cell
<1> QED BY <1>1, <1>2, SafeSetItems

\* The optional key appears or disappears.
LEMMA SafeToggleNote ==
  ASSUME Safe, NEW i \in Instances, ToggleNote(i), UNCHANGED setup
  PROVE  Safe'
<1> DEFINE s == inst[i].state
           without == [k \in Fixed |-> s[k]]
           with == [k \in Keys |-> IF k = "note" THEN Cell(TRUE, 1) ELSE s[k]]
           t == IF "note" \in DOMAIN s THEN without ELSE with
<1>1. StateOk(s)
  BY DEF Safe, AggregateOk
<1>2. "status" \in DOMAIN s /\ "status" \in Fixed /\ "status" \in Keys /\ Fixed \subseteq DOMAIN s
  BY <1>1 DEF StateOk, Keys, Fixed
<1>3. StateOk(t) /\ t["status"] = s["status"]
  BY <1>1, <1>2 DEF StateOk
<1>4. ASSUME Tracks(s, inst[i].base) PROVE Tracks(t, inst[i].base)
  <2>1. \A k \in DOMAIN t : (k \in DOMAIN s /\ t[k] = s[k]) \/ t[k].fresh
    BY <1>1 DEF StateOk, Keys, Fixed, Cell
  <2> HIDE DEF t
  <2> QED BY <1>4, <2>1 DEF Tracks
<1>5. /\ Idle(i) /\ inst[i].version < MaxVersion
      /\ Put(i, SetState(inst[i], t)) /\ UNCHANGED <<row, intents, backup>>
  BY DEF ToggleNote
<1> HIDE DEF t
<1>6. t["status"].val = s["status"].val
  BY <1>3
<1> QED BY <1>3, <1>4, <1>5, <1>6, SetStateSafe

\* The cosmetic key: no version, and no domain state.
LEMMA SafeSetCache ==
  ASSUME Safe, NEW i \in Instances, SetCache(i), UNCHANGED setup
  PROVE  Safe'
<1> DEFINE agg == inst[i]
           s == agg.state
           c == Cell(TRUE, 1 - s["cache"].val)
           t == [s EXCEPT !["cache"] = c]
           new == [agg EXCEPT !.state = t]
<1>1. /\ setup \in Setups /\ AggregateOk(agg) /\ Stored(agg, intents) /\ agg.held /\ ~agg.saved
  BY DEF Safe, SetCache, Idle
<1>2. /\ DOMAIN agg = Fields /\ StateOk(s) /\ Valid(s)
      /\ agg.version \in 0..MaxVersion /\ agg.pending \in Nat /\ MaxVersion \in Nat
      /\ agg.based => Tracks(s, agg.base)
  BY <1>1, Deployed DEF AggregateOk
<1>3. /\ "cache" \in DOMAIN s /\ "status" \in DOMAIN s \ {"cache"}
      /\ "items" \in DOMAIN s \ {"cache"} /\ c.fresh
  BY <1>2 DEF StateOk, Keys, Fixed, Cell
<1>4. Put(i, SetStateWithoutVersionBump(agg, t)) /\ UNCHANGED <<row, intents, backup>>
  BY DEF SetCache
<1> HIDE DEF c
<1>5. /\ StateOk(t) /\ DOMAIN t = DOMAIN s /\ \A j \in DOMAIN s \ {"cache"} : t[j] = s[j]
      /\ agg.based => Tracks(t, agg.base)
  BY <1>2, <1>3, CellTracks
<1> HIDE DEF t
<1>6. Valid(t)
  BY <1>2, <1>3, <1>5 DEF Valid
<1>7. SameDomain(t, s)
  <2>1. /\ DOMAIN Columns(t) = DOMAIN Columns(s)
        /\ \A k \in DomainKeys \cap DOMAIN Columns(t) : Columns(t)[k] = Columns(s)[k]
    BY <1>5, ColumnsOf DEF DomainKeys
  <2> QED BY <2>1, DomainEqual DEF SameDomain
<1>8. SetStateWithoutVersionBump(agg, t) = new
  BY <1>6 DEF SetStateWithoutVersionBump, EntitySetState
<1>9. Moved(agg, new, 0, 0)
  <2>1. /\ DOMAIN new = Fields /\ new.state = t /\ new.version = agg.version
        /\ new.held = agg.held /\ new.base = agg.base /\ new.based = agg.based
        /\ new.persisted = agg.persisted /\ new.saved = agg.saved /\ new.pending = agg.pending
    BY <1>2 DEF Fields
  <2> HIDE DEF new
  <2>2. /\ new.version = agg.version + 0 /\ new.pending = agg.pending + 0
        /\ s["status"].val + 0 = s["status"].val
    BY <1>2, <2>1 DEF StateOk
  <2>3. new.state["status"].val = s["status"].val + 0
    BY <1>3, <1>5, <2>1, <2>2
  <2> QED BY <1>5, <1>6, <1>7, <2>1, <2>2, <2>3 DEF Moved
<1> HIDE DEF new
<1>10. agg.version + 0 <= MaxVersion
  BY <1>2
<1>11. AggregateOk(new) /\ Stored(new, intents)
  BY <1>1, <1>9, <1>10, MovedOk
<1> QED BY <1>4, <1>8, <1>11, PutSafe

\* An instance without changes holds the record of its version.
LEMMA CleanIsStored ==
  ASSUME NEW agg, AggregateOk(agg), NEW n, Stored(agg, n), agg.held, ~HasChanges(agg)
  PROVE  agg.based /\ agg.version = agg.persisted /\ Had(n, agg.version, Columns(agg.state))
<1>1. agg.based /\ agg.version = agg.persisted
  BY DEF HasChanges
<1>2. SameDomain(agg.state, agg.base) /\ Had(n, agg.persisted, Columns(agg.base))
  BY <1>1 DEF AggregateOk, Stored
<1> QED BY <1>1, <1>2 DEF SameDomain, Had

\* The acknowledgement: what was saved becomes the baseline.
LEMMA SafeAcknowledge ==
  ASSUME Safe, NEW i \in Instances, Acknowledge(i), UNCHANGED setup
  PROVE  Safe'
<1> DEFINE agg == inst[i]
           m == MarkRestored(agg, agg.version)
           new == [m EXCEPT !.pending = 0, !.saved = FALSE]
<1>1. setup \in Setups /\ AggregateOk(agg) /\ Stored(agg, intents) /\ agg.saved
  BY DEF Safe, Acknowledge
<1>2. /\ DOMAIN agg = Fields /\ StateOk(agg.state) /\ Valid(agg.state) /\ agg.held = TRUE
      /\ agg.version \in 1..MaxVersion /\ Had(intents, agg.version, Columns(agg.state))
  BY <1>1, Deployed DEF AggregateOk, Stored
<1>3. /\ DOMAIN m = Fields /\ m.held = TRUE /\ m.based = TRUE
      /\ m.version = agg.version /\ m.persisted = agg.version
      /\ m.state = AsBaseline(agg.state) /\ m.base = AsBaseline(agg.state)
  BY ZenonT(60), <1>2, MarkRestoredIs
<1> HIDE DEF m
<1>4. /\ DOMAIN new = Fields /\ new.held = TRUE /\ new.based = TRUE
      /\ new.saved = FALSE /\ new.pending = 0
      /\ new.version = agg.version /\ new.persisted = agg.version
      /\ new.state = AsBaseline(agg.state) /\ new.base = AsBaseline(agg.state)
  BY <1>3 DEF Fields
<1>5. Put(i, new) /\ UNCHANGED <<row, intents, backup>>
  BY DEF Acknowledge, m
<1> HIDE DEF new
<1>6. AggregateOk(new) /\ Stored(new, intents)
  BY <1>1, <1>2, <1>4, RestoredOk
<1> QED BY <1>5, <1>6, PutSafe

\* restoreFromSnapshot: refused, or the instance is what the record was.
LEMMA SafeRestore ==
  ASSUME Safe, NEW i \in Instances, Restore(i), UNCHANGED setup
  PROVE  Safe'
<1> DEFINE agg == inst[i]
           s == Hydrated(backup[1].cols)
           v == backup[1].version
           a == [agg EXCEPT !.state = s]
           new == MarkRestored(a, v)
<1>1. /\ setup \in Setups /\ AggregateOk(agg) /\ Stored(agg, intents) /\ agg.held /\ ~agg.saved
      /\ ColumnsOk(backup[1].cols) /\ v \in 1..MaxVersion /\ Had(intents, v, backup[1].cols)
  BY DEF Safe, Restore, Idle, Kept
<1>2. Put(i, RestoreFromSnapshot(agg, backup[1])) /\ UNCHANGED <<row, intents, backup>>
  BY DEF Restore
<1>3. CASE agg.pending > 0 \/ ~Valid(s)
  <2>1. RestoreFromSnapshot(agg, backup[1]) = agg
    BY <1>3 DEF RestoreFromSnapshot
  <2> QED BY <1>1, <1>2, <2>1, PutSafe
<1>4. CASE ~(agg.pending > 0) /\ Valid(s)
  <2>1. RestoreFromSnapshot(agg, backup[1]) = new
    BY <1>4 DEF RestoreFromSnapshot, EntitySetState
  <2>2. StateOk(s) /\ Had(intents, v, Columns(s))
    BY <1>1, HydratedIs DEF Had
  <2> HIDE DEF s, v
  <2>3. /\ DOMAIN a = Fields /\ a.held = TRUE /\ a.saved = FALSE /\ a.pending = 0 /\ a.state = s
    BY <1>1, <1>4 DEF AggregateOk, Fields
  <2> HIDE DEF a
  <2>4. /\ DOMAIN new = Fields /\ new.held = TRUE /\ new.based = TRUE /\ new.saved = FALSE
        /\ new.pending = 0 /\ new.version = v /\ new.persisted = v
        /\ new.state = AsBaseline(s) /\ new.base = AsBaseline(s)
    BY ZenonT(60), <2>3, MarkRestoredIs
  <2> HIDE DEF new
  <2>5. AggregateOk(new) /\ Stored(new, intents)
    BY <1>1, <1>4, <2>2, <2>4, RestoredOk
  <2> QED BY <1>2, <2>1, <2>5, PutSafe
<1> QED BY <1>3, <1>4

\* createSnapshot: of an instance that is as the record was.
LEMMA SafeBackup ==
  ASSUME Safe, NEW i \in Instances, Backup(i), UNCHANGED setup
  PROVE  Safe'
<1>1. /\ setup \in Setups /\ AggregateOk(inst[i]) /\ Stored(inst[i], intents)
      /\ inst[i].held /\ ~HasChanges(inst[i])
  BY DEF Safe, Backup, Idle
<1>2. /\ Had(intents, inst[i].version, Columns(inst[i].state))
      /\ inst[i].version \in 1..MaxVersion /\ StateOk(inst[i].state)
  <2>1. Had(intents, inst[i].version, Columns(inst[i].state))
    BY <1>1, CleanIsStored
  <2>2. inst[i].version \in 1..MaxVersion /\ StateOk(inst[i].state)
    BY <1>1, Deployed DEF AggregateOk
  <2> QED BY <2>1, <2>2
<1>3. ColumnsOk(Columns(inst[i].state))
  <2>1. "status" \in DOMAIN inst[i].state
    BY <1>2 DEF StateOk, Keys, Fixed
  <2> QED BY <1>2, <2>1, ColumnsOf DEF ColumnsOk, StateOk
<1>4. backup' = <<[version |-> inst[i].version, cols |-> Columns(inst[i].state)]>>
      /\ UNCHANGED <<inst, row, intents>>
  BY DEF Backup
<1>5. /\ backup'[1].version = inst[i].version
      /\ backup'[1].cols = Columns(inst[i].state)
  BY <1>4
<1>6. Kept'
  BY <1>2, <1>3, <1>4, <1>5 DEF Kept, MaxVersion
<1>7. (Recorded(row, intents))' /\ \A j \in Instances : (AggregateOk(inst[j]))' /\ (Stored(inst[j], intents))'
  BY <1>4 DEF Safe, Recorded, AggregateOk, Stored, InEvents, Valid, MaxVersion, MaxQuantity
<1> QED BY <1>4, <1>6, <1>7 DEF Safe

\* An instance is dropped.
LEMMA SafeForget ==
  ASSUME Safe, NEW i \in Instances, Forget(i), UNCHANGED setup
  PROVE  Safe'
<1>1. AggregateOk(Absent) /\ Stored(Absent, intents)
  BY AbsentOk DEF Safe
<1> QED BY <1>1, PutSafe DEF Forget

-----------------------------------------------------------------------------
(* The save *)

\* The dirty keys of the instance over the columns of the record it was loaded
\* at are what the instance holds: the partial write is complete.
LEMMA MergedIs ==
  ASSUME NEW agg, AggregateOk(agg), agg.based,
         ColumnsOk(row.cols), Valid(Hydrated(row.cols)),
         DomainOf(row.cols) = DomainOf(Columns(agg.base))
  PROVE  LET m == MergedColumns(agg)
         IN  ColumnsOk(m) /\ Valid(Hydrated(m)) /\ DomainOf(m) = DomainOf(Columns(agg.state))
<1> DEFINE s == agg.state
           b == agg.base
           m == MergedColumns(agg)
           c == row.cols
<1>1. /\ StateOk(s) /\ StateOk(b) /\ Valid(s) /\ Tracks(s, b)
  BY DEF AggregateOk
<1>2. /\ DOMAIN s \in {Keys, Fixed} /\ DOMAIN b \in {Keys, Fixed} /\ DOMAIN c \in {Keys, Fixed}
      /\ s["status"].val \in Nat /\ c["status"] \in Nat
  BY <1>1 DEF StateOk, ColumnsOk
<1>3. /\ DOMAIN m = {k \in DOMAIN c : ~Written(agg, k)} \cup {k \in DOMAIN s : Written(agg, k)}
      /\ \A k \in DOMAIN m : m[k] = IF Written(agg, k) THEN s[k].val ELSE c[k]
  BY DEF MergedColumns
<1> HIDE DEF m
<1>4. \A k : ~Written(agg, k) => /\ k \in DOMAIN s => k \in DOMAIN b /\ ~s[k].fresh
                                 /\ k \in DOMAIN b => k \in DOMAIN s
  BY DEF Written, ChangedKeys, ComputeChangedKeys
<1>5. /\ DomainKeys \cap DOMAIN c = DomainKeys \cap DOMAIN b
      /\ \A k \in DomainKeys \cap DOMAIN c : c[k] = b[k].val
  <2>1. /\ DOMAIN Columns(b) = DOMAIN b /\ \A k \in DOMAIN b : Columns(b)[k] = b[k].val
    BY ColumnsOf
  <2>2. /\ DomainKeys \cap DOMAIN c = DomainKeys \cap DOMAIN Columns(b)
        /\ \A k \in DomainKeys \cap DOMAIN c : c[k] = Columns(b)[k]
    BY DomainEquals
  <2> QED BY <2>1, <2>2
<1>6. \A k \in DomainKeys : k \in DOMAIN m <=> k \in DOMAIN s
  BY <1>3, <1>4, <1>5
<1>7. \A k \in DomainKeys \cap DOMAIN m : m[k] = s[k].val
  <2> TAKE k \in DomainKeys \cap DOMAIN m
  <2>1. CASE Written(agg, k)
    BY <1>3, <2>1
  <2>2. CASE ~Written(agg, k)
    <3>1. k \in DOMAIN s \cap DOMAIN b /\ ~s[k].fresh /\ m[k] = c[k] /\ k \in DOMAIN c
      BY <1>3, <1>4, <1>6, <2>2
    <3>2. s[k].val = b[k].val
      BY <1>1, <3>1 DEF Tracks
    <3> QED BY <1>5, <3>1, <3>2
  <2> QED BY <2>1, <2>2
<1>8. DomainOf(m) = DomainOf(Columns(s))
  <2>1. DOMAIN Columns(s) = DOMAIN s /\ \A k \in DOMAIN s : Columns(s)[k] = s[k].val
    BY ColumnsOf
  <2>2. DomainKeys \cap DOMAIN m = DomainKeys \cap DOMAIN Columns(s)
    BY <1>6, <2>1
  <2>3. \A k \in DomainKeys \cap DOMAIN m : m[k] = Columns(s)[k]
    BY <1>6, <1>7, <2>1
  <2> HIDE DEF s
  <2> QED BY <2>2, <2>3, DomainEqual
<1>9. "status" \in DomainKeys \cap DOMAIN m /\ "items" \in DomainKeys \cap DOMAIN m
  BY <1>2, <1>6 DEF DomainKeys, Keys, Fixed
<1>10. DOMAIN m \in {Keys, Fixed}
  <2>1. Fixed \subseteq DOMAIN m /\ DOMAIN m \subseteq Keys
    BY <1>2, <1>3 DEF Keys, Fixed
  <2> QED BY <2>1 DEF Keys, Fixed
<1>11. ColumnsOk(m)
  BY <1>2, <1>7, <1>9, <1>10 DEF ColumnsOk
<1>12. Valid(Hydrated(m))
  <2>1. Hydrated(m)["items"].val = s["items"].val
    BY <1>7, <1>9, ColumnsOf
  <2> QED BY <1>1, <2>1 DEF Valid
<1> QED BY <1>8, <1>11, <1>12 DEF m

\* What a save writes, and that it may write it.
LEMMA WritesWhole ==
  ASSUME Safe, NEW agg, AggregateOk(agg), Stored(agg, intents), agg.held, MayWrite(agg)
  PROVE  LET cols == IF agg.based THEN MergedColumns(agg) ELSE Columns(agg.state)
         IN  /\ ColumnsOk(cols) /\ Valid(Hydrated(cols))
             /\ DomainOf(cols) = DomainOf(Columns(agg.state))
             /\ agg.persisted = row.version /\ agg.version >= row.version
             /\ agg.version = row.version => Had(intents, row.version, Columns(agg.state))
<1>1. /\ agg.persisted = row.version /\ agg.version >= row.version /\ agg.version > 0
  BY DEF MayWrite, AggregateOk
<1>2. CASE agg.based
  <2>1. Had(intents, row.version, Columns(agg.base))
    BY <1>1, <1>2 DEF Stored
  <2>2. row.version > 0
    BY <2>1 DEF Had, Safe, Recorded
  <2>3. DomainOf(row.cols) = DomainOf(Columns(agg.base))
    BY <2>1, <2>2 DEF Had, Safe, Recorded
  <2>4. /\ ColumnsOk(MergedColumns(agg)) /\ Valid(Hydrated(MergedColumns(agg)))
        /\ DomainOf(MergedColumns(agg)) = DomainOf(Columns(agg.state))
    BY <1>2, <2>3, MergedIs DEF Safe, Recorded
  <2>5. agg.version = row.version => Had(intents, row.version, Columns(agg.state))
    BY <1>1, <1>2, <2>1 DEF AggregateOk, SameDomain, Had
  <2> QED BY <1>1, <1>2, <2>4, <2>5
<1>3. CASE ~agg.based
  <2>1. agg.version # row.version
    BY <1>1, <1>3 DEF MayWrite
  <2>2. StateOk(agg.state) /\ Valid(agg.state)
    BY DEF AggregateOk
  <2>3. "status" \in DOMAIN agg.state /\ "items" \in DOMAIN agg.state
    BY <2>2 DEF StateOk, Keys, Fixed
  <2>4. /\ DOMAIN Columns(agg.state) = DOMAIN agg.state
        /\ Columns(agg.state)["status"] = agg.state["status"].val
        /\ Columns(agg.state)["items"] = agg.state["items"].val
    BY <2>3, ColumnsOf
  <2>5. ColumnsOk(Columns(agg.state))
    BY <2>2, <2>4 DEF ColumnsOk, StateOk
  <2>6. Hydrated(Columns(agg.state))["items"].val = agg.state["items"].val
    BY <2>3, <2>4, ColumnsOf
  <2>7. Valid(Hydrated(Columns(agg.state)))
    BY <2>2, <2>6 DEF Valid
  <2> QED BY <1>1, <1>3, <2>1, <2>5, <2>7
<1> QED BY <1>2, <1>3

\* An instance as its repository leaves it.
LEMMA SavedOk ==
  ASSUME NEW agg, AggregateOk(agg), NEW n, Stored(agg, n), agg.held,
         NEW m, Had(m, agg.version, Columns(agg.state)),
         \A v \in DOMAIN n : v \in DOMAIN m /\ m[v] = n[v]
  PROVE  LET new == [agg EXCEPT !.saved = TRUE]
         IN  AggregateOk(new) /\ Stored(new, m)
<1> DEFINE new == [agg EXCEPT !.saved = TRUE]
<1>1. /\ DOMAIN new = Fields /\ new.held = agg.held /\ new.state = agg.state
      /\ new.base = agg.base /\ new.based = agg.based /\ new.version = agg.version
      /\ new.persisted = agg.persisted /\ new.pending = agg.pending /\ new.saved = TRUE
  BY DEF AggregateOk, Fields
<1> HIDE DEF new
<1>2. AggregateOk(new)
  BY <1>1 DEF AggregateOk, InEvents
<1>3. Stored(new, m)
  BY <1>1 DEF Stored, Had
<1> QED BY <1>2, <1>3 DEF new

\* save: skipped, or written over the version the instance was loaded at.
LEMMA SafeSave ==
  ASSUME Safe, NEW i \in Instances, Save(i), UNCHANGED setup
  PROVE  Safe'
<1> DEFINE agg == inst[i]
           new == [agg EXCEPT !.saved = TRUE]
           cols == IF agg.based THEN MergedColumns(agg) ELSE Columns(agg.state)
<1>1. /\ setup \in Setups /\ AggregateOk(agg) /\ Stored(agg, intents) /\ agg.held
      /\ inst' = [inst EXCEPT ![i] = new] /\ UNCHANGED backup
  BY DEF Safe, Save, Idle
<1>2. CASE ~HasChanges(agg)
  <2>1. Had(intents, agg.version, Columns(agg.state))
    BY <1>1, <1>2, CleanIsStored
  <2>2. AggregateOk(new) /\ Stored(new, intents)
    BY <1>1, <2>1, SavedOk
  <2>3. Put(i, new) /\ UNCHANGED <<row, intents, backup>>
    BY <1>1, <1>2 DEF Put, Save
  <2> HIDE DEF new
  <2> QED BY <2>2, <2>3, PutSafe
<1>3. CASE HasChanges(agg)
  <2>1. /\ MayWrite(agg) /\ row' = [version |-> agg.version, cols |-> cols]
        /\ intents' = IF agg.version = row.version THEN intents
                      ELSE [v \in DOMAIN intents \cup {agg.version} |->
                               IF v = agg.version
                               THEN [based |-> agg.persisted, cols |-> DomainOf(Columns(agg.state))]
                               ELSE intents[v]]
    BY <1>3 DEF Save
  <2>2. /\ ColumnsOk(cols) /\ Valid(Hydrated(cols)) /\ DomainOf(cols) = DomainOf(Columns(agg.state))
        /\ agg.persisted = row.version /\ agg.version >= row.version
        /\ agg.version = row.version => Had(intents, row.version, Columns(agg.state))
    BY <1>1, <2>1, WritesWhole
  <2> HIDE DEF cols
  <2>3. row'.version = agg.version /\ row'.cols = cols /\ DOMAIN row' = {"version", "cols"}
    BY <2>1
  <2>4. /\ agg.version \in 0..MaxVersion /\ row.version \in 0..MaxVersion /\ MaxVersion \in Nat
        /\ agg.version \in 1..MaxVersion /\ DOMAIN intents \subseteq 1..row.version
    BY <1>1, Deployed DEF AggregateOk, Safe, Recorded
  <2>5. /\ \A v \in DOMAIN intents : v \in DOMAIN intents' /\ intents'[v] = intents[v]
        /\ Had(intents', agg.version, Columns(agg.state))
        /\ agg.version # row.version =>
              /\ DOMAIN intents' = DOMAIN intents \cup {agg.version}
              /\ intents'[agg.version].based = row.version
              /\ row.version < agg.version
    <3>1. CASE agg.version = row.version
      BY <2>1, <2>2, <3>1
    <3>2. CASE agg.version # row.version
      <4>1. row.version < agg.version /\ agg.version \notin DOMAIN intents
        BY <2>2, <2>4, <3>2
      <4>2. /\ DOMAIN intents' = DOMAIN intents \cup {agg.version}
            /\ \A v \in DOMAIN intents : v # agg.version /\ intents'[v] = intents[v]
            /\ intents'[agg.version] = [based |-> agg.persisted,
                                        cols |-> DomainOf(Columns(agg.state))]
        BY <2>1, <3>2, <4>1
      <4> QED BY <2>2, <4>1, <4>2 DEF Had
    <3> QED BY <3>1, <3>2
  <2>6. \A j \in Instances : AggregateOk(inst'[j]) /\ Stored(inst'[j], intents')
    <3>1. AggregateOk(new) /\ Stored(new, intents')
      BY <1>1, <2>5, SavedOk
    <3> HIDE DEF new
    <3>2. DOMAIN inst = Instances /\ inst'[i] = new /\ \A j \in Instances \ {i} : inst'[j] = inst[j]
      BY <1>1 DEF Safe
    <3>3. \A j \in Instances : AggregateOk(inst[j]) /\ Stored(inst[j], intents')
      BY <2>5 DEF Safe, Stored, Had
    <3> QED BY <3>1, <3>2, <3>3
  <2>7. Recorded(row', intents')
    <3>1. Recorded(row, intents)
      BY DEF Safe
    <3>2. Had(intents', row'.version, row'.cols)
      BY <2>2, <2>3, <2>5 DEF Had
    <3>3. CASE agg.version = row.version
      <4>1. intents' = intents
        BY <2>1, <3>3
      <4> QED BY <2>2, <2>3, <2>4, <3>1, <3>2, <3>3, <4>1 DEF Recorded
    <3>4. CASE agg.version # row.version
      <4>1. DOMAIN intents' \subseteq 1..row'.version
        BY <2>3, <2>4, <2>5, <3>4
      <4>2. \A v \in DOMAIN intents' : intents'[v].based \in Nat /\ intents'[v].based < v
        BY <2>4, <2>5, <3>1, <3>4 DEF Recorded
      <4>3. \A u, v \in DOMAIN intents' : u < v => u <= intents'[v].based
        <5> SUFFICES ASSUME NEW u \in DOMAIN intents', NEW v \in DOMAIN intents', u < v
                     PROVE  u <= intents'[v].based
          OBVIOUS
        <5>1. \A x \in DOMAIN intents' : x = agg.version \/ (x \in DOMAIN intents /\ x \in 1..row.version)
          BY <2>4, <2>5, <3>4
        <5>2. CASE v = agg.version
          <6>1. u \in 1..row.version
            BY <2>4, <5>1, <5>2
          <6> QED BY <2>5, <3>4, <5>2, <6>1
        <5>3. CASE v # agg.version
          <6>1. v \in DOMAIN intents /\ u \in DOMAIN intents
            BY <2>4, <2>5, <3>4, <5>1, <5>3
          <6> QED BY <2>5, <3>1, <6>1 DEF Recorded
        <5> QED BY <5>2, <5>3
      <4> QED BY <2>2, <2>3, <2>4, <3>2, <4>1, <4>2, <4>3 DEF Recorded
    <3> QED BY <3>3, <3>4
  <2>8. Kept'
    BY <1>1, <2>5 DEF Safe, Kept, Had, MaxVersion
  <2>9. /\ (Recorded(row, intents))'
        /\ \A j \in Instances : (AggregateOk(inst[j]))' /\ (Stored(inst[j], intents))'
    BY <2>6, <2>7 DEF Recorded, AggregateOk, Stored, InEvents, Valid, MaxVersion, MaxQuantity
  <2>10. setup' \in Setups /\ DOMAIN inst' = Instances
    BY <1>1 DEF Safe
  <2> QED BY <2>8, <2>9, <2>10 DEF Safe
<1> QED BY <1>2, <1>3

-----------------------------------------------------------------------------
(* The theorems *)

\* Nothing is stored, and no instance is held.
LEMMA SafeInit == Init => Safe
<1> SUFFICES ASSUME Init PROVE Safe
  OBVIOUS
<1>1. setup \in Setups /\ DOMAIN inst = Instances /\ \A i \in Instances : inst[i] = Absent
  BY DEF Init
<1>2. \A i \in Instances : AggregateOk(inst[i]) /\ Stored(inst[i], intents)
  BY <1>1, AbsentOk
<1>3. Recorded(row, intents)
  <2>1. StateOk(InitialState) /\ Valid(InitialState) /\ MaxVersion \in Nat
    BY <1>1, AbsentOk, Deployed
  <2>2. "status" \in DOMAIN InitialState /\ "items" \in DOMAIN InitialState
    BY <2>1 DEF StateOk, Keys, Fixed
  <2>3. /\ row.version = 0 /\ row.cols = Columns(InitialState)
        /\ DOMAIN row = {"version", "cols"} /\ DOMAIN intents = {}
    BY DEF Init
  <2>4. /\ DOMAIN Columns(InitialState) = DOMAIN InitialState
        /\ Columns(InitialState)["status"] = InitialState["status"].val
        /\ Columns(InitialState)["items"] = InitialState["items"].val
    BY <2>2, ColumnsOf
  <2>5. ColumnsOk(row.cols)
    BY <2>1, <2>3, <2>4 DEF ColumnsOk, StateOk
  <2>6. Hydrated(row.cols)["items"].val = InitialState["items"].val
    BY <2>2, <2>3, <2>4, ColumnsOf
  <2>7. Valid(Hydrated(row.cols))
    BY <2>1, <2>6 DEF Valid
  <2> QED BY <2>1, <2>3, <2>5, <2>7 DEF Recorded
<1>4. Kept
  BY DEF Init, Kept
<1> QED BY <1>1, <1>2, <1>3, <1>4 DEF Safe

\* Every step keeps the invariant.
LEMMA SafeStep == Safe /\ [Next]_<<vars, setup>> => Safe'
<1> SUFFICES ASSUME Safe, [Next]_<<vars, setup>> PROVE Safe'
  OBVIOUS
<1>1. CASE UNCHANGED <<vars, setup>>
  BY <1>1 DEF vars, Safe, Recorded, Kept, AggregateOk, Stored, InEvents, Valid, MaxVersion, MaxQuantity
<1>2. CASE Next
  <2>1. UNCHANGED setup
    BY <1>2 DEF Next
  <2>2. PICK i \in setup.instances :
            \/ Create(i) \/ Load(i) \/ ToggleNote(i) \/ SetCache(i) \/ Save(i) \/ Acknowledge(i)
            \/ Backup(i) \/ Restore(i) \/ Forget(i)
            \/ \E minted \in BOOLEAN : Advance(i, minted)
            \/ \E id \in Ids : ChangeItems(i, id)
    BY <1>2 DEF Next
  <2>3. i \in Instances
    BY Deployed DEF Safe
  <2>4. CASE \E minted \in BOOLEAN : Advance(i, minted)
    BY <2>1, <2>3, <2>4, SafeAdvance
  <2>5. CASE \E id \in Ids : ChangeItems(i, id)
    BY <2>1, <2>3, <2>5, SafeChangeItems
  <2>6. CASE Create(i) \/ Load(i) \/ ToggleNote(i) \/ SetCache(i) \/ Save(i)
    BY <2>1, <2>3, <2>6, SafeCreate, SafeLoad, SafeToggleNote, SafeSetCache, SafeSave
  <2>7. CASE Acknowledge(i) \/ Backup(i) \/ Restore(i) \/ Forget(i)
    BY <2>1, <2>3, <2>7, SafeAcknowledge, SafeBackup, SafeRestore, SafeForget
  <2> QED BY <2>2, <2>4, <2>5, <2>6, <2>7
<1> QED BY <1>1, <1>2

\* The inductive invariant of the aggregates, the record and its snapshots.
THEOREM SafeAlways == Spec => []Safe
<1> QED BY SafeInit, SafeStep, PTL DEF Spec

\* Every reachable state is well typed: no version beyond the bound, no state
\* that the validator would reject (Entity.setState, restoreFromSnapshot).
THEOREM TypeCorrect == Spec => []TypeOK
<1>1. Safe => TypeOK
  BY DEF Safe, Recorded, AggregateOk, StateOk, TypeOK
<1> QED BY <1>1, SafeAlways, PTL

\* No save overwrites a version its writer had not loaded, and a save that
\* writes only the dirty keys leaves the record as the instance was
\* (computeChangedKeys, the version check of the repository).
THEOREM NoUpdateLost == Spec => []UpdatesKept
<1>1. ASSUME Safe PROVE NoLostUpdate
  <2> SUFFICES ASSUME NEW u \in DOMAIN intents, NEW v \in DOMAIN intents,
                      intents[u].based = intents[v].based, u < v
               PROVE  FALSE
    <3>1. \A v \in DOMAIN intents : v \in Nat
      BY <1>1, Deployed DEF Safe, Recorded
    <3> QED BY <3>1 DEF NoLostUpdate
  <2>1. /\ u \in Nat /\ intents[u].based \in Nat /\ intents[u].based < u
        /\ u <= intents[v].based
    BY <1>1, Deployed DEF Safe, Recorded
  <2> QED BY <2>1
<1>2. Safe => PartialWritesComplete
  BY DEF Safe, Recorded, Had, PartialWritesComplete
<1>3. Safe => UpdatesKept
  BY <1>1, <1>2 DEF UpdatesKept
<1> QED BY <1>3, SafeAlways, PTL

\* An instance that reports no changes is what the record was at its version,
\* and as many events wait as the state has advanced (hasChanges, commit).
THEOREM AlwaysInStep == Spec => []InStep
<1>1. ASSUME Safe PROVE CleanMeansStored
  <2> SUFFICES ASSUME NEW i \in Instances, inst[i].held, ~HasChanges(inst[i])
               PROVE  Had(intents, inst[i].version, Columns(inst[i].state))
    BY DEF CleanMeansStored, Had
  <2> QED BY <1>1, CleanIsStored DEF Safe
<1>2. Safe => EventsMatchState
  BY DEF Safe, AggregateOk, InEvents, EventsMatchState
<1>3. Safe => InStep
  BY <1>1, <1>2 DEF InStep
<1> QED BY <1>3, SafeAlways, PTL
=============================================================================
