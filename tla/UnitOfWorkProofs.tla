-------------------------- MODULE UnitOfWorkProofs --------------------------
(***************************************************************************)
(* For any number of units of work on any number of aggregates: the outbox *)
(* holds exactly the events that the committed rows reflect, what run()    *)
(* says is so, and a deletion is final.                                    *)
(*                                                                         *)
(* Two layers.  Control is about one run: its control state, what its      *)
(* error may be blamed on, who owns the events in its hands.  Held is      *)
(* about what it is going to write: the log of an enrolled instance is the *)
(* row it replaces followed by the events the harvest will collect.        *)
(***************************************************************************)
EXTENDS UnitOfWork, OrderedFilterProofs, FiniteSetTheorems, TLAPS

-----------------------------------------------------------------------------
(* Control *)

Steps == {"idle", "opening", "work", "sealed", "harvested", "committed",
          "backoff", "failed", "settled"}
WorkErrors == {"conflict", "domain", "deleted", "unenrolled"}
Outcomes == Errors \cup {None, "CommitError", "RollbackError", "nested", "resolved"}

Controls == [pc : Steps, attempt : 0..MaxAttempts, aborted : BOOLEAN, events : Nat,
             completed : BOOLEAN, threw : WorkErrors \cup {None}, error : Errors \cup {None},
             acked : BOOLEAN, outcome : Outcomes]

\* Events of a run, and what carries them.
Own(r) == [run : {r}, attempt : Nat, n : Nat]
AnyEvent == [run : Runs, attempt : Nat, n : Nat]
Rows == [v : Nat, log : Seq(AnyEvent)]
Instances(r) == [id : Ids, version : Nat, persisted : Nat, log : Seq(AnyEvent),
                 pending : Seq(Own(r)), loaded : BOOLEAN]
Tokens == [obj : Nat, deleted : BOOLEAN]
Writes == [v : Nat, log : Seq(AnyEvent), obj : Nat, base : Rows]
Deliveries(r) == [id : Ids, event : Own(r), version : Nat, seq : Nat]
AnyDelivery == [id : Ids, event : AnyEvent, version : Nat, seq : Nat]
Sessions(d) == [open : BOOLEAN, tokens : Seq(Tokens), map : [Ids -> Nat], tombs : SUBSET Ids,
                base : [1..d.maxObjects -> Nat]]

\* What a failure can still be blamed on.
BlameOk(c) ==
    /\ c.pc = "work" => c.threw = None /\ ~c.completed
    /\ c.pc \in {"sealed", "harvested", "committed"} => c.threw = None /\ c.completed
    /\ c.pc \in {"failed", "backoff"} =>
          c.error # None /\ (c.threw = None /\ ~c.completed => c.error \in {"open", "aborted"})
    /\ c.pc = "backoff" => c.attempt < MaxAttempts
    /\ c.pc # "settled" => c.outcome = None
    /\ c.outcome \in WorkErrors => c.threw = c.outcome
    /\ c.outcome \in {"CommitError", "harvest"} => c.completed /\ c.threw = None
    /\ c.outcome \notin {"rollback", "serialization", "outbox"}

SessionOk(d, s, O) ==
    /\ s \in Sessions(d)
    /\ ~s.open => s.map = [i \in Ids |-> 0] /\ s.tombs = {}
    /\ \A i \in Ids : s.map[i] # 0 => s.map[i] \in 1..Len(O) /\ O[s.map[i]].id = i
    /\ \A k \in 1..Len(s.tokens) : s.tokens[k].obj \in 1..Len(O)

TxOk(r, c, x) ==
    /\ x = [rows |-> x.rows, out |-> x.out] /\ x.out \in Seq(Deliveries(r))
    /\ x.rows = [i \in DOMAIN x.rows |-> x.rows[i]]
    /\ DOMAIN x.rows \subseteq Ids
    /\ \A i \in DOMAIN x.rows : x.rows[i] \in Writes
    /\ DOMAIN x.rows # {} => c.pc \in {"work", "sealed", "harvested", "committed", "settled"}

RunOk(d, r, c, s, O, x) ==
    /\ c \in Controls /\ BlameOk(c)
    /\ O \in Seq(Instances(r)) /\ Len(O) <= d.maxObjects
    /\ SessionOk(d, s, O) /\ TxOk(r, c, x)

\* Events of a run are in the outbox only once it has committed.
Committing(c) == c.pc = "committed" \/ (c.pc = "settled" /\ c.outcome = "resolved")
Fresh(c, r, ob) == Committing(c) \/ \A k \in 1..Len(ob) : ob[k].event.run # r

Busy(c) == c.pc \notin {"idle", "settled"}

\* An instance of UnitOfWork is active exactly while one run is on it.
Exclusive(unit, act, cs) ==
    /\ \A r \in Runs : Busy(cs[r]) => act[unit[r]]
    /\ \A q, r \in Runs : Busy(cs[q]) /\ Busy(cs[r]) /\ unit[q] = unit[r] => q = r
    /\ \A u \in Units : act[u] => \E r \in Runs : unit[r] = u /\ Busy(cs[r])

Control ==
    /\ setup \in Setups
    /\ rows \in [Ids -> Rows] /\ outbox \in Seq(AnyDelivery)
    /\ active \in [Units -> BOOLEAN]
    /\ run = [r \in Runs |-> run[r]] /\ session = [r \in Runs |-> session[r]]
    /\ objs = [r \in Runs |-> objs[r]] /\ tx = [r \in Runs |-> tx[r]]
    /\ Exclusive(setup.unit, active, run)
    /\ \A r \in Runs : /\ RunOk(setup, r, run[r], session[r], objs[r], tx[r])
                       /\ Fresh(run[r], r, outbox)


-----------------------------------------------------------------------------
(* Control *)

\* What the assumption says of the situation that was chosen.
LEMMA SetupTypes ==
  ASSUME setup \in Setups
  PROVE  /\ Unit \in [Runs -> Units] /\ setup.unit = Unit
         /\ MaxObjects \in Nat /\ MaxEvents \in Nat /\ MaxFaults \in Nat
         /\ setup.maxObjects = MaxObjects /\ MaxAttempts \in Nat \ {0}
  BY UnitOfWorkAssumption DEF Unit, MaxObjects, MaxEvents, MaxFaults

\* A function on the runs, changed or not, is changed at r.
LEMMA Untouched ==
  ASSUME NEW f, f = [q \in Runs |-> f[q]], NEW r \in Runs
  PROVE  f = [f EXCEPT ![r] = f[r]]
  OBVIOUS

\* A step of r that leaves the others alone.
Moves(r, c, s, O, x) ==
    /\ setup' = setup
    /\ run' = [run EXCEPT ![r] = c] /\ session' = [session EXCEPT ![r] = s]
    /\ objs' = [objs EXCEPT ![r] = O] /\ tx' = [tx EXCEPT ![r] = x]

\* It keeps the invariant if it does for r.
LEMMA MoveKeeps ==
  ASSUME Control, NEW r \in Runs, NEW c, NEW s, NEW O, NEW x, Moves(r, c, s, O, x),
         rows' \in [Ids -> Rows], outbox' \in Seq(AnyDelivery), active' \in [Units -> BOOLEAN],
         RunOk(setup, r, c, s, O, x), Exclusive(setup.unit, active', run'),
         \A q \in Runs : Fresh(run'[q], q, outbox')
  PROVE  Control'
<1>1. /\ run'[r] = c /\ session'[r] = s /\ objs'[r] = O /\ tx'[r] = x
      /\ \A q \in Runs \ {r} : /\ run'[q] = run[q] /\ session'[q] = session[q]
                               /\ objs'[q] = objs[q] /\ tx'[q] = tx[q]
  BY DEF Control, Moves
<1>2. /\ run' = [q \in Runs |-> run'[q]] /\ session' = [q \in Runs |-> session'[q]]
      /\ objs' = [q \in Runs |-> objs'[q]] /\ tx' = [q \in Runs |-> tx'[q]]
  BY DEF Control, Moves
<1>3. \A q \in Runs : RunOk(setup, q, run'[q], session'[q], objs'[q], tx'[q])
  <2> TAKE q \in Runs
  <2>1. CASE q = r
    BY <1>1, <2>1
  <2>2. CASE q # r
    BY <1>1, <2>2 DEF Control
  <2> QED BY <2>1, <2>2
<1>4. setup' \in Setups
  BY DEF Control, Moves
<1>5. setup' = setup
  BY DEF Moves
<1> HIDE DEF Control
<1> QED BY <1>2, <1>3, <1>4, <1>5 DEF Control

\* A step that neither starts nor ends a run.
LEMMA QuietKeeps ==
  ASSUME Control, NEW r \in Runs, NEW c, NEW s, NEW O, NEW x, Moves(r, c, s, O, x),
         UNCHANGED <<rows, outbox, active>>,
         RunOk(setup, r, c, s, O, x), Busy(c) <=> Busy(run[r]),
         Committing(run[r]) => Committing(c)
  PROVE  Control'
<1>1. /\ run'[r] = c /\ \A q \in Runs \ {r} : run'[q] = run[q]
  BY DEF Control, Moves
<1>2. Exclusive(setup.unit, active', run')
  <2>1. Exclusive(setup.unit, active, run) /\ \A q \in Runs : Busy(run'[q]) <=> Busy(run[q])
    BY <1>1 DEF Control
  <2> QED BY <2>1 DEF Exclusive
<1>3. ASSUME NEW q \in Runs PROVE Fresh(run'[q], q, outbox')
  <2>1. Fresh(run[q], q, outbox)
    BY DEF Control
  <2>2. CASE q = r
    BY <1>1, <2>1, <2>2 DEF Fresh
  <2>3. CASE q # r
    BY <1>1, <2>1, <2>3
  <2> QED BY <2>2, <2>3
<1>4. rows' \in [Ids -> Rows] /\ outbox' \in Seq(AnyDelivery) /\ active' \in [Units -> BOOLEAN]
  BY DEF Control
<1> QED BY <1>2, <1>3, <1>4, MoveKeeps

\* Control only looks at these variables.
LEMMA ControlUnchanged ==
  ASSUME Control, UNCHANGED <<rows, outbox, active, run, session, objs, tx, setup>>
  PROVE  Control'
  BY DEF Control

\* What the invariant says of one run.
LEMMA Parts ==
  ASSUME Control, NEW r \in Runs
  PROVE  /\ RunOk(setup, r, run[r], session[r], objs[r], tx[r])
         /\ run[r] \in Controls /\ BlameOk(run[r]) /\ Fresh(run[r], r, outbox)
         /\ run[r] = [run[r] EXCEPT !.pc = run[r].pc]
         /\ objs[r] \in Seq(Instances(r)) /\ Len(objs[r]) <= setup.maxObjects
         /\ SessionOk(setup, session[r], objs[r]) /\ TxOk(r, run[r], tx[r])
         /\ run = [run EXCEPT ![r] = run[r]] /\ session = [session EXCEPT ![r] = session[r]]
         /\ objs = [objs EXCEPT ![r] = objs[r]] /\ tx = [tx EXCEPT ![r] = tx[r]]
<1>1. /\ RunOk(setup, r, run[r], session[r], objs[r], tx[r]) /\ Fresh(run[r], r, outbox)
      /\ run = [q \in Runs |-> run[q]] /\ session = [q \in Runs |-> session[q]]
      /\ objs = [q \in Runs |-> objs[q]] /\ tx = [q \in Runs |-> tx[q]]
  BY DEF Control
<1>2. run[r] \in Controls
  BY <1>1 DEF RunOk
<1>3. run[r] = [run[r] EXCEPT !.pc = run[r].pc]
  BY <1>2 DEF Controls
<1> QED BY <1>1, <1>2, <1>3, Untouched DEF RunOk

\* An empty transaction is well formed at every step.
LEMMA EmptyTx ==
  ASSUME NEW r, NEW c
  PROVE  TxOk(r, c, [rows |-> <<>>, out |-> <<>>])
  BY EmptySeq DEF TxOk

\* The initial states satisfy it.
LEMMA InitControl == Init => Control
<1> SUFFICES ASSUME Init PROVE Control
  OBVIOUS
<1> USE DEF Init
<1>1. setup \in Setups /\ Unit \in [Runs -> Units] /\ MaxObjects \in Nat /\ MaxAttempts \in Nat
  BY SetupTypes
<1>2. rows \in [Ids -> Rows] /\ outbox \in Seq(AnyDelivery) /\ active \in [Units -> BOOLEAN]
  BY EmptySeq DEF Rows
<1>3. /\ run = [r \in Runs |-> run[r]] /\ session = [r \in Runs |-> session[r]]
      /\ objs = [r \in Runs |-> objs[r]] /\ tx = [r \in Runs |-> tx[r]]
  OBVIOUS
<1>4. Exclusive(setup.unit, active, run)
  BY <1>1 DEF Exclusive, Busy, Unit
<1>5. ASSUME NEW r \in Runs
      PROVE  RunOk(setup, r, run[r], session[r], objs[r], tx[r]) /\ Fresh(run[r], r, outbox)
  <2>1. run[r] \in Controls /\ BlameOk(run[r])
    BY <1>1 DEF Controls, BlameOk, Steps, Outcomes, WorkErrors, Errors, None
  <2>2. objs[r] \in Seq(Instances(r)) /\ Len(objs[r]) <= setup.maxObjects
    BY <1>1, EmptySeq DEF MaxObjects
  <2>3. SessionOk(setup, session[r], objs[r])
    <3>1. /\ session[r].tokens = <<>> /\ session[r].map = [i \in Ids |-> 0]
          /\ session[r].tombs = {} /\ session[r].open = FALSE
      BY DEF Closed, NewSession
    <3>2. session[r] \in Sessions(setup)
      BY <1>1, EmptySeq DEF Sessions, Closed, NewSession, Objects, MaxObjects
    <3>3. Len(session[r].tokens) = 0
      BY <3>1, EmptySeq
    <3> QED BY <3>1, <3>2, <3>3 DEF SessionOk
  <2>4. TxOk(r, run[r], tx[r])
    BY EmptyTx
  <2>5. Fresh(run[r], r, outbox)
    BY EmptySeq DEF Fresh
  <2> QED BY <2>1, <2>2, <2>3, <2>4, <2>5 DEF RunOk
<1> QED BY <1>1, <1>2, <1>3, <1>4, <1>5 DEF Control

-----------------------------------------------------------------------------
(* Flattening and filtering sequences *)

\* FlattenSeq is a recursive function: f[i] joins the first i sequences.
Joins(f, seqs, n) == f = [i \in 1..n |-> IF i = 1 THEN seqs[i] ELSE f[i - 1] \o seqs[i]]

Joined(seqs) ==
    LET flatten[i \in 1..Len(seqs)] == IF i = 1 THEN seqs[i] ELSE flatten[i - 1] \o seqs[i]
    IN  flatten

\* The function exists, for any number of sequences.
LEMMA JoinsExist ==
  ASSUME NEW seqs, NEW m \in Nat
  PROVE  \E f : Joins(f, seqs, m)
<1> DEFINE D == {n \in Nat : \E f : Joins(f, seqs, n)}
<1>1. 0 \in D
  <2> DEFINE f == [i \in 1..0 |-> <<>>]
  <2>1. Joins(f, seqs, 0)
    BY DEF Joins
  <2> QED BY <2>1
<1>2. ASSUME NEW n \in D PROVE n + 1 \in D
  <2>1. PICK f : Joins(f, seqs, n)
    OBVIOUS
  <2> DEFINE last == IF n = 0 THEN seqs[1] ELSE f[n] \o seqs[n + 1]
             g == [i \in 1..(n + 1) |-> IF i = n + 1 THEN last ELSE f[i]]
  <2>2. \A i \in 1..n : f[i] = IF i = 1 THEN seqs[i] ELSE f[i - 1] \o seqs[i]
    BY <2>1 DEF Joins
  <2>3. \A i \in 1..(n + 1) : g[i] = IF i = 1 THEN seqs[i] ELSE g[i - 1] \o seqs[i]
    <3> TAKE i \in 1..(n + 1)
    <3> HIDE DEF last
    <3>1. CASE i = n + 1
      <4>1. CASE n = 0
        BY <3>1, <4>1 DEF last
      <4>2. CASE n # 0
        <5>1. g[i - 1] = f[n] /\ g[i] = last /\ i # 1
          BY <3>1, <4>2
        <5> QED BY <3>1, <4>2, <5>1 DEF last
      <4> QED BY <4>1, <4>2
    <3>2. CASE i \in 1..n
      <4>1. g[i] = f[i] /\ (i # 1 => g[i - 1] = f[i - 1])
        BY <3>2
      <4> QED BY <2>2, <3>2, <4>1
    <3> QED BY <3>1, <3>2
  <2> HIDE DEF last
  <2>4. g = [i \in 1..(n + 1) |-> IF i = 1 THEN seqs[i] ELSE g[i - 1] \o seqs[i]]
    BY <2>3
  <2>5. Joins(g, seqs, n + 1)
    BY <2>4 DEF Joins
  <2> QED BY <2>5
<1>3. D = Nat
  BY <1>1, <1>2, SetInduction
<1> QED BY <1>3

\* f[n] joins the first n of seqs, and the last of them is what FlattenSeq gives.
Flattens(f, seqs, T) ==
    /\ f \in [0..Len(seqs) -> Seq(T)] /\ f[0] = <<>>
    /\ \A n \in 1..Len(seqs) : f[n] = f[n - 1] \o seqs[n]
    /\ FlattenSeq(seqs) = f[Len(seqs)]

\* FlattenSeq, step by step.
LEMMA FlattenSteps ==
  ASSUME NEW T, NEW seqs \in Seq(Seq(T))
  PROVE  \E f : Flattens(f, seqs, T)
<1> DEFINE g == Joined(seqs)
           f == [n \in 0..Len(seqs) |-> IF n = 0 THEN <<>> ELSE g[n]]
           D == {n \in Nat : n <= Len(seqs) => f[n] \in Seq(T)}
<1>1. Len(seqs) \in Nat /\ \A n \in 1..Len(seqs) : seqs[n] \in Seq(T)
  BY LenProperties, ElementOfSeq
<1>2. Joins(g, seqs, Len(seqs))
  <2>1. \E h : Joins(h, seqs, Len(seqs))
    BY <1>1, JoinsExist
  <2> QED BY <2>1 DEF Joined, Joins
<1>3. \A n \in 1..Len(seqs) : g[n] = IF n = 1 THEN seqs[n] ELSE g[n - 1] \o seqs[n]
  <2> HIDE DEF g
  <2> QED BY <1>2 DEF Joins
<1> HIDE DEF g
<1>f. /\ f[0] = <<>> /\ \A n \in 1..Len(seqs) : f[n] = g[n]
      /\ f = [n \in 0..Len(seqs) |-> f[n]]
  BY <1>1
<1> HIDE DEF f
<1>4. 0 \in D
  BY <1>1, <1>f, EmptySeq
<1>5. ASSUME NEW n \in Nat, n + 1 <= Len(seqs), f[n] \in Seq(T)
      PROVE  f[n + 1] \in Seq(T) /\ f[n + 1] = f[n] \o seqs[n + 1]
  <2>0. n + 1 \in 1..Len(seqs)
    BY <1>1, <1>5
  <2>1. /\ f[n + 1] = g[n + 1] /\ seqs[n + 1] \in Seq(T)
        /\ g[n + 1] = IF n + 1 = 1 THEN seqs[n + 1] ELSE g[n + 1 - 1] \o seqs[n + 1]
    BY SMTT(40), <1>1, <1>3, <1>f, <2>0
  <2>2. CASE n = 0
    <3>1. f[n] = <<>> /\ f[n + 1] = seqs[n + 1]
      BY <1>f, <2>1, <2>2
    <3> QED BY <2>1, <3>1, ConcatEmptySeq
  <2>3. CASE n # 0
    <3>1. n + 1 # 1 /\ n \in 1..Len(seqs) /\ n + 1 - 1 = n
      BY <1>1, <1>5, <2>3
    <3>2. f[n + 1] = f[n] \o seqs[n + 1]
      BY <1>f, <2>1, <3>1
    <3> QED BY <1>5, <2>1, <3>2, ConcatProperties
  <2> QED BY <2>2, <2>3
<1>6. D = Nat
  <2>1. ASSUME NEW n \in D PROVE n + 1 \in D
    <3>1. n \in Nat /\ (n + 1 <= Len(seqs) => f[n] \in Seq(T))
      BY <1>1
    <3>2. n + 1 <= Len(seqs) => f[n + 1] \in Seq(T)
      BY <1>5, <3>1
    <3> QED BY <3>1, <3>2
  <2> HIDE DEF D
  <2> QED BY <1>4, <2>1, SetInduction DEF D
<1>7. \A n \in 0..Len(seqs) : f[n] \in Seq(T)
  BY <1>1, <1>6
<1>8. FlattenSeq(seqs) = f[Len(seqs)]
  <2>1. CASE Len(seqs) = 0
    <3>1. seqs = <<>>
      BY <2>1, EmptySeq
    <3> QED BY <1>f, <2>1, <3>1 DEF FlattenSeq
  <2>2. CASE Len(seqs) # 0
    <3>1. FlattenSeq(seqs) = g[Len(seqs)]
      BY <2>2 DEF FlattenSeq, g, Joined
    <3>2. Len(seqs) \in 1..Len(seqs)
      BY <1>1, <2>2
    <3> QED BY <1>f, <3>1, <3>2
  <2> QED BY <2>1, <2>2
<1>9. f \in [0..Len(seqs) -> Seq(T)] /\ f[0] = <<>>
  BY <1>f, <1>7
<1>10. \A n \in 1..Len(seqs) : f[n] = f[n - 1] \o seqs[n]
  <2> TAKE n \in 1..Len(seqs)
  <2>1. n - 1 \in Nat /\ n - 1 \in 0..Len(seqs) /\ n - 1 + 1 = n
    BY <1>1
  <2>2. n - 1 + 1 <= Len(seqs) /\ f[n - 1] \in Seq(T)
    BY <1>1, <1>7, <2>1
  <2>3. f[n - 1 + 1] = f[n - 1] \o seqs[n - 1 + 1]
    BY <1>5, <2>1, <2>2
  <2> QED BY <2>1, <2>3
<1>11. Flattens(f, seqs, T)
  BY <1>8, <1>9, <1>10 DEF Flattens
<1> QED BY <1>11

\* The flattened sequence has the type of its parts.
LEMMA FlattenType ==
  ASSUME NEW T, NEW seqs \in Seq(Seq(T))
  PROVE  FlattenSeq(seqs) \in Seq(T)
<1>1. PICK f : Flattens(f, seqs, T)
  BY FlattenSteps
<1> QED BY <1>1, LenProperties DEF Flattens

-----------------------------------------------------------------------------
(* Control is kept: the scope and run() *)

\* The scope rejects: the transaction is empty, the error is accounted for.
LEMMA RejectKeeps ==
  ASSUME Control, setup' = setup, NEW r \in Runs, NEW error \in Errors,
         NEW threw \in WorkErrors \cup {None}, ScopeRejects(r, error, threw),
         run[r].pc \in {"opening", "work", "sealed", "harvested"},
         threw = None /\ ~run[r].completed => error \in {"open", "aborted"}
  PROVE  Control'
<1> DEFINE step == IF Retryable(error) /\ run[r].attempt < MaxAttempts THEN "backoff" ELSE "failed"
           c == [run[r] EXCEPT !.pc = step, !.error = error, !.threw = threw]
           x == [rows |-> <<>>, out |-> <<>>]
<1>1. /\ run[r] \in Controls /\ BlameOk(run[r]) /\ RunOk(setup, r, run[r], session[r], objs[r], tx[r])
      /\ run = [q \in Runs |-> run[q]] /\ tx = [q \in Runs |-> tx[q]]
      /\ session = [session EXCEPT ![r] = session[r]] /\ objs = [objs EXCEPT ![r] = objs[r]]
  BY Parts DEF Control
<1>2. step \in {"backoff", "failed"} /\ (step = "backoff" => run[r].attempt < MaxAttempts)
  OBVIOUS
<1>3. run' = [run EXCEPT ![r] = c] /\ tx' = [tx EXCEPT ![r] = x]
  BY <1>1 DEF ScopeRejects
<1> HIDE DEF step
<1>4. /\ c \in Controls /\ c.pc = step /\ c.error = error /\ c.threw = threw
      /\ c.attempt = run[r].attempt /\ c.completed = run[r].completed /\ c.outcome = run[r].outcome
  BY <1>1, <1>2 DEF Controls, Steps
<1> HIDE DEF c
<1>5. BlameOk(c)
  BY <1>1, <1>2, <1>4 DEF BlameOk, WorkErrors, Errors, None
<1>6. RunOk(setup, r, c, session[r], objs[r], x)
  BY <1>1, <1>4, <1>5, EmptyTx DEF RunOk
<1>7. (Busy(c) <=> Busy(run[r])) /\ ~Committing(run[r])
  BY <1>2, <1>4 DEF Busy, Committing
<1>8. Moves(r, c, session[r], objs[r], x) /\ UNCHANGED <<rows, outbox, active>>
  BY <1>1, <1>3 DEF Moves, ScopeRejects
<1> HIDE DEF x
<1> QED BY <1>6, <1>7, <1>8, QuietKeeps

\* The work callback throws.
LEMMA ThrowKeeps ==
  ASSUME Control, setup' = setup, NEW r \in Runs, NEW error \in WorkErrors, Throw(r, error),
         run[r].pc = "work"
  PROVE  Control'
<1>1. /\ error \in Errors /\ "rollback" \in Errors /\ error # None
      /\ error \in WorkErrors \cup {None}
  BY DEF WorkErrors, Errors, None
<1>2. CASE ScopeRejects(r, error, error)
  BY <1>1, <1>2, RejectKeeps
<1>3. CASE ScopeRejects(r, "rollback", error)
  BY <1>1, <1>3, RejectKeeps
<1> QED BY <1>2, <1>3 DEF Throw

\* A step of the scope or of withCommit fails.
LEMMA FailKeeps ==
  ASSUME Control, setup' = setup, NEW r \in Runs, NEW error \in Errors, Fail(r, error),
         \/ run[r].pc = "opening" /\ error = "open"
         \/ run[r].pc \in {"sealed", "harvested"}
  PROVE  Control'
<1>1. run[r].threw \in WorkErrors \cup {None} /\ BlameOk(run[r])
  BY Parts DEF Controls
<1>2. run[r].threw = None /\ ~run[r].completed => error \in {"open", "aborted"}
  BY <1>1 DEF BlameOk
<1> QED BY <1>1, <1>2, RejectKeeps DEF Fail

\* Steps that only change the control state, and neither start nor end a run.
LEMMA TurnKeeps ==
  ASSUME Control, setup' = setup, NEW r \in Runs, NEW c \in Controls,
         run' = [run EXCEPT ![r] = c], UNCHANGED <<rows, outbox, active, session, objs, tx>>,
         BlameOk(c), TxOk(r, c, tx[r]), Busy(c) <=> Busy(run[r]),
         Committing(run[r]) => Committing(c)
  PROVE  Control'
<1>1. RunOk(setup, r, run[r], session[r], objs[r], tx[r])
  BY Parts
<1>2. RunOk(setup, r, c, session[r], objs[r], tx[r])
  BY <1>1 DEF RunOk
<1>3. Moves(r, c, session[r], objs[r], tx[r])
  BY Parts DEF Moves
<1> QED BY <1>2, <1>3, QuietKeeps

\* After the backoff.
LEMMA WakeControl ==
  ASSUME Control, setup' = setup, NEW r \in Runs, Wake(r)
  PROVE  Control'
<1>1. /\ run[r] \in Controls /\ BlameOk(run[r]) /\ run = [q \in Runs |-> run[q]]
      /\ TxOk(r, run[r], tx[r]) /\ MaxAttempts \in Nat
  BY Parts, UnitOfWorkAssumption DEF Control
<1>2. CASE run[r].aborted
  <2> DEFINE c == [run[r] EXCEPT !.pc = "failed", !.error = "aborted"]
  <2>1. run' = [run EXCEPT ![r] = c]
    BY <1>1, <1>2 DEF Wake
  <2>2. /\ c \in Controls /\ c.pc = "failed" /\ c.error = "aborted" /\ c.threw = run[r].threw
        /\ c.completed = run[r].completed /\ c.outcome = run[r].outcome
    BY <1>1 DEF Controls, Steps, Errors
  <2> HIDE DEF c
  <2>3. BlameOk(c) /\ TxOk(r, c, tx[r]) /\ (Busy(c) <=> Busy(run[r])) /\ ~Committing(run[r])
    BY <1>1, <2>2 DEF BlameOk, TxOk, Busy, Committing, Wake, None, WorkErrors
  <2> QED BY <2>1, <2>2, <2>3, TurnKeeps DEF Wake
<1>3. CASE ~run[r].aborted
  <2> DEFINE c == [run[r] EXCEPT !.pc = "opening", !.attempt = @ + 1]
  <2>1. run' = [run EXCEPT ![r] = c]
    BY <1>1, <1>3 DEF Wake
  <2>0. run[r].attempt + 1 \in 0..MaxAttempts
    <3>1. run[r].attempt < MaxAttempts /\ run[r].attempt \in Nat
      BY <1>1 DEF BlameOk, Wake, Controls
    <3> QED BY <1>1, <3>1
  <2>2. /\ c \in Controls /\ c.pc = "opening" /\ c.threw = run[r].threw
        /\ c.completed = run[r].completed /\ c.outcome = run[r].outcome
    BY <1>1, <2>0 DEF Controls, Steps
  <2> HIDE DEF c
  <2>3. BlameOk(c) /\ TxOk(r, c, tx[r]) /\ (Busy(c) <=> Busy(run[r])) /\ ~Committing(run[r])
    BY <1>1, <2>2 DEF BlameOk, TxOk, Busy, Committing, Wake, None, WorkErrors
  <2> QED BY <2>1, <2>2, <2>3, TurnKeeps DEF Wake
<1> QED BY <1>2, <1>3

\* The signal fires.
LEMMA AbortControl ==
  ASSUME Control, setup' = setup, NEW r \in Runs, Abort(r)
  PROVE  Control'
<1> DEFINE c == [run[r] EXCEPT !.aborted = TRUE]
<1>1. /\ run[r] \in Controls /\ BlameOk(run[r]) /\ run = [q \in Runs |-> run[q]]
      /\ TxOk(r, run[r], tx[r])
  BY Parts DEF Control
<1>2. run' = [run EXCEPT ![r] = c]
  BY <1>1 DEF Abort
<1>3. /\ c \in Controls /\ c.pc = run[r].pc /\ c.error = run[r].error /\ c.threw = run[r].threw
      /\ c.completed = run[r].completed /\ c.outcome = run[r].outcome /\ c.attempt = run[r].attempt
  BY <1>1 DEF Controls
<1> HIDE DEF c
<1>4. BlameOk(c) /\ TxOk(r, c, tx[r]) /\ (Busy(c) <=> Busy(run[r]))
      /\ (Committing(run[r]) => Committing(c))
  BY <1>1, <1>3 DEF BlameOk, TxOk, Busy, Committing
<1> QED BY <1>2, <1>3, <1>4, TurnKeeps DEF Abort

\* A run starts: its instance becomes active, if no other run is on it.
LEMMA StartControl ==
  ASSUME Control, setup' = setup, NEW r \in Runs, Start(r)
  PROVE  Control'
<1>1. /\ run[r] \in Controls /\ BlameOk(run[r]) /\ run = [q \in Runs |-> run[q]]
      /\ TxOk(r, run[r], tx[r]) /\ MaxAttempts \in Nat \ {0} /\ run[r].pc = "idle"
      /\ Unit \in [Runs -> Units] /\ active \in [Units -> BOOLEAN]
      /\ RunOk(setup, r, run[r], session[r], objs[r], tx[r])
      /\ \A q \in Runs : Fresh(run[q], q, outbox)
  BY Parts, SetupTypes DEF Control, Start
<1>2. CASE run[r].aborted \/ ~Admits(r)
  <2> DEFINE outcome == IF run[r].aborted THEN "aborted" ELSE "nested"
             c == [run[r] EXCEPT !.pc = "settled", !.outcome = outcome]
  <2>1. run' = [run EXCEPT ![r] = c] /\ active' = active
    BY <1>1, <1>2 DEF Start
  <2>2. outcome \in {"aborted", "nested"}
    OBVIOUS
  <2> HIDE DEF outcome
  <2>3. c \in Controls /\ c.pc = "settled" /\ c.outcome = outcome
    BY <1>1, <2>2 DEF Controls, Steps, Outcomes, Errors
  <2> HIDE DEF c
  <2>4. BlameOk(c) /\ TxOk(r, c, tx[r]) /\ ~Busy(c) /\ ~Busy(run[r]) /\ ~Committing(run[r])
    BY <1>1, <2>2, <2>3 DEF BlameOk, TxOk, Busy, Committing, WorkErrors
  <2> QED BY <2>1, <2>3, <2>4, TurnKeeps DEF Start
<1>3. CASE ~run[r].aborted /\ ~active[Unit[r]]
  <2> DEFINE c == [run[r] EXCEPT !.pc = "opening", !.attempt = 1]
  <2>1. run' = [run EXCEPT ![r] = c] /\ active' = [active EXCEPT ![Unit[r]] = TRUE]
    BY <1>1, <1>3 DEF Start, Admits
  <2>0. 1 \in 0..MaxAttempts
    BY <1>1
  <2>2. c \in Controls /\ c.pc = "opening" /\ c.outcome = run[r].outcome
    BY <1>1, <2>0 DEF Controls, Steps
  <2>3. \A q \in Runs \ {r} : run'[q] = run[q]
    BY <1>1, <2>1
  <2>4. run'[r] = c
    BY <1>1, <2>1
  <2> HIDE DEF c
  <2>5. BlameOk(c) /\ TxOk(r, c, tx[r]) /\ Busy(c) /\ ~Busy(run[r]) /\ ~Committing(run[r])
    BY <1>1, <2>2 DEF BlameOk, TxOk, Busy, Committing, None, WorkErrors
  <2>6. Exclusive(Unit, active', run')
    <3>1. Exclusive(Unit, active, run)
      BY SetupTypes DEF Control
    <3>2. ASSUME NEW q \in Runs, Busy(run'[q]) PROVE active'[Unit[q]]
      BY <1>1, <2>1, <2>3, <3>1, <3>2 DEF Exclusive
    <3>3. ASSUME NEW q \in Runs, NEW p \in Runs, Busy(run'[q]), Busy(run'[p]), Unit[q] = Unit[p]
          PROVE  q = p
      <4>1. \A z \in Runs \ {r} : Unit[z] = Unit[r] => ~Busy(run[z])
        BY <1>3, <3>1 DEF Exclusive
      <4>2. CASE q = r \/ p = r
        BY <2>3, <3>3, <4>1, <4>2
      <4>3. CASE q # r /\ p # r
        BY <2>3, <3>1, <3>3, <4>3 DEF Exclusive
      <4> QED BY <4>2, <4>3
    <3>4. ASSUME NEW u \in Units, active'[u] PROVE \E q \in Runs : Unit[q] = u /\ Busy(run'[q])
      <4>1. CASE u = Unit[r]
        BY <2>4, <2>5, <4>1
      <4>2. CASE u # Unit[r]
        <5>1. active[u]
          BY <1>1, <2>1, <3>4, <4>2
        <5>2. PICK q \in Runs : Unit[q] = u /\ Busy(run[q])
          BY <3>1, <5>1 DEF Exclusive
        <5>3. q # r
          BY <4>2, <5>2
        <5> QED BY <2>3, <5>2, <5>3
      <4> QED BY <4>1, <4>2
    <3> QED BY <3>2, <3>3, <3>4 DEF Exclusive
  <2>7. \A q \in Runs : Fresh(run'[q], q, outbox)
    <3> TAKE q \in Runs
    <3>1. CASE q = r
      BY <1>1, <2>4, <2>5, <3>1 DEF Fresh
    <3>2. CASE q # r
      BY <1>1, <2>3, <3>2
    <3> QED BY <3>1, <3>2
  <2>8. RunOk(setup, r, c, session[r], objs[r], tx[r])
    BY <1>1, <2>2, <2>5 DEF RunOk
  <2>9. /\ Moves(r, c, session[r], objs[r], tx[r]) /\ rows' = rows /\ outbox' = outbox
        /\ active' \in [Units -> BOOLEAN] /\ rows \in [Ids -> Rows] /\ outbox \in Seq(AnyDelivery)
        /\ setup.unit = Unit
    BY <1>1, <2>1, Parts, SetupTypes DEF Start, Control, Moves
  <2> QED BY ZenonT(60), <2>1, <2>6, <2>7, <2>8, <2>9, MoveKeeps
<1> QED BY <1>2, <1>3 DEF Admits

\* A session that is closed keeps its tokens only.
LEMMA ClosedOk ==
  ASSUME setup \in Setups, NEW s, NEW O, SessionOk(setup, s, O)
  PROVE  /\ SessionOk(setup, Closed(s), O)
         /\ Closed(s).tokens = s.tokens /\ ~Closed(s).open /\ Closed(s).map = [i \in Ids |-> 0]
         /\ Closed(s).tombs = {}
<1>1. setup.maxObjects = MaxObjects
  BY SetupTypes
<1> QED BY <1>1 DEF SessionOk, Sessions, Closed, NewSession, Objects

\* A run settles.
LEMMA SettleControl ==
  ASSUME Control, setup' = setup, NEW r \in Runs, NEW outcome \in Outcomes, Settle(r, outcome),
         UNCHANGED <<rows, outbox, objs, tx>>, run[r].pc \in {"committed", "failed"},
         BlameOk([run[r] EXCEPT !.pc = "settled", !.outcome = outcome]),
         run[r].pc = "committed" => outcome = "resolved"
  PROVE  Control'
<1> DEFINE c == [run[r] EXCEPT !.pc = "settled", !.outcome = outcome]
           s == Closed(session[r])
<1>1. /\ run[r] \in Controls /\ run = [q \in Runs |-> run[q]]
      /\ session = [q \in Runs |-> session[q]]
      /\ TxOk(r, run[r], tx[r]) /\ SessionOk(setup, session[r], objs[r])
      /\ Unit \in [Runs -> Units] /\ active \in [Units -> BOOLEAN] /\ setup.unit = Unit
      /\ RunOk(setup, r, run[r], session[r], objs[r], tx[r]) /\ setup \in Setups
      /\ \A q \in Runs : Fresh(run[q], q, outbox)
  BY Parts, SetupTypes DEF Control
<1>2. /\ run' = [run EXCEPT ![r] = c] /\ session' = [session EXCEPT ![r] = s]
      /\ active' = [active EXCEPT ![Unit[r]] = FALSE]
  BY <1>1 DEF Settle
<1>3. c \in Controls /\ c.pc = "settled" /\ c.outcome = outcome
  BY <1>1 DEF Controls, Steps
<1>4. run'[r] = c /\ \A q \in Runs \ {r} : run'[q] = run[q]
  BY <1>1, <1>2
<1>5. BlameOk(c)
  OBVIOUS
<1>6. SessionOk(setup, s, objs[r])
  BY <1>1, ClosedOk
<1> HIDE DEF c, s
<1>7. TxOk(r, c, tx[r]) /\ ~Busy(c) /\ Busy(run[r]) /\ (Committing(run[r]) => Committing(c))
  BY <1>1, <1>3 DEF TxOk, Busy, Committing
<1>8. Exclusive(Unit, active', run')
  <2>1. Exclusive(Unit, active, run)
    BY <1>1 DEF Control
  <2>2. \A z \in Runs \ {r} : Unit[z] = Unit[r] => ~Busy(run[z])
    BY <1>7, <2>1 DEF Exclusive
  <2>3. ASSUME NEW q \in Runs, Busy(run'[q]) PROVE active'[Unit[q]]
    <3>1. q # r /\ Busy(run[q]) /\ Unit[q] # Unit[r]
      BY <1>4, <1>7, <2>2, <2>3
    <3> QED BY <1>1, <1>2, <2>1, <3>1 DEF Exclusive
  <2>4. ASSUME NEW q \in Runs, NEW p \in Runs, Busy(run'[q]), Busy(run'[p]), Unit[q] = Unit[p]
        PROVE  q = p
    <3>1. q # r /\ p # r /\ Busy(run[q]) /\ Busy(run[p])
      BY <1>4, <1>7, <2>4
    <3> QED BY <2>1, <2>4, <3>1 DEF Exclusive
  <2>5. ASSUME NEW u \in Units, active'[u] PROVE \E q \in Runs : Unit[q] = u /\ Busy(run'[q])
    <3>1. active[u] /\ u # Unit[r]
      BY <1>1, <1>2, <2>5
    <3>2. PICK q \in Runs : Unit[q] = u /\ Busy(run[q])
      BY <2>1, <3>1 DEF Exclusive
    <3> QED BY <1>4, <3>1, <3>2
  <2> QED BY <2>3, <2>4, <2>5 DEF Exclusive
<1>9. \A q \in Runs : Fresh(run'[q], q, outbox)
  <2> TAKE q \in Runs
  <2>1. CASE q = r
    BY <1>1, <1>4, <1>7, <2>1 DEF Fresh
  <2>2. CASE q # r
    BY <1>1, <1>4, <2>2
  <2> QED BY <2>1, <2>2
<1>10. RunOk(setup, r, c, s, objs[r], tx[r])
  BY <1>1, <1>3, <1>5, <1>6, <1>7 DEF RunOk
<1>11. /\ Moves(r, c, s, objs[r], tx[r]) /\ rows' = rows /\ outbox' = outbox
       /\ active' \in [Units -> BOOLEAN] /\ rows \in [Ids -> Rows] /\ outbox \in Seq(AnyDelivery)
  BY <1>1, <1>2, Parts DEF Moves, Control
<1> QED BY <1>1, <1>8, <1>9, <1>10, <1>11, MoveKeeps

\* A rejected run names the step that failed.
LEMMA RejectControl ==
  ASSUME Control, setup' = setup, NEW r \in Runs, Reject(r)
  PROVE  Control'
<1>1. /\ run[r] \in Controls /\ BlameOk(run[r]) /\ run = [q \in Runs |-> run[q]]
      /\ run[r].pc = "failed"
  BY Parts DEF Control, Reject
<1>2. PICK outcome \in Errors \cup {"CommitError", "RollbackError"} :
         Settle(r, outcome) /\ outcome = Classify(r, run[r].error)
  BY DEF Reject
<1>3. run'[r].threw = run[r].threw /\ run'[r].completed = run[r].completed
  BY <1>1, <1>2 DEF Settle, Controls
<1> DEFINE c == [run[r] EXCEPT !.pc = "settled", !.outcome = outcome]
<1>4. /\ c.pc = "settled" /\ c.outcome = outcome /\ c.threw = run[r].threw
      /\ c.completed = run[r].completed
  BY <1>1 DEF Controls
<1>5. /\ run[r].threw \in WorkErrors \cup {None} /\ run[r].error \in Errors
      /\ run[r].threw = None /\ ~run[r].completed => run[r].error \in {"open", "aborted"}
  BY <1>1 DEF Controls, BlameOk, None
<1>6. BlameOk(c)
  <2> HIDE DEF c
  <2>1. CASE run[r].threw # None
    BY <1>2, <1>3, <1>4, <1>5, <2>1 DEF BlameOk, Classify, WorkErrors, None
  <2>2. CASE run[r].threw = None /\ run[r].completed
    BY <1>2, <1>3, <1>4, <1>5, <2>2 DEF BlameOk, Classify, WorkErrors, None
  <2>3. CASE run[r].threw = None /\ ~run[r].completed
    BY <1>2, <1>3, <1>4, <1>5, <2>3 DEF BlameOk, Classify, WorkErrors, None
  <2> QED BY <1>1, <2>1, <2>2, <2>3 DEF Controls
<1>7. outcome \in Outcomes
  BY DEF Outcomes
<1> QED BY <1>1, <1>2, <1>6, <1>7, SettleControl DEF Reject

\* A committed run resolves, whatever becomes of the publication.
LEMMA PublishControl ==
  ASSUME Control, setup' = setup, NEW r \in Runs, Publish(r)
  PROVE  Control'
<1>1. /\ run[r] \in Controls /\ BlameOk(run[r]) /\ run[r].pc = "committed"
      /\ Settle(r, "resolved") /\ UNCHANGED <<rows, outbox, objs, tx>>
  BY Parts DEF Publish
<1> DEFINE c == [run[r] EXCEPT !.pc = "settled", !.outcome = "resolved"]
<1>2. c.pc = "settled" /\ c.outcome = "resolved"
  BY <1>1 DEF Controls
<1>3. BlameOk(c)
  <2> HIDE DEF c
  <2> QED BY <1>2 DEF BlameOk, WorkErrors
<1>4. "resolved" \in Outcomes
  BY DEF Outcomes
<1> QED BY <1>1, <1>3, <1>4, SettleControl

\* A transaction opens with a fresh session and no instances.
LEMMA OpenControl ==
  ASSUME Control, setup' = setup, NEW r \in Runs, OpenTransaction(r)
  PROVE  Control'
<1> DEFINE c == [run[r] EXCEPT !.pc = "work", !.completed = FALSE, !.threw = None, !.events = 0]
<1>1. /\ run[r] \in Controls /\ BlameOk(run[r]) /\ run = [q \in Runs |-> run[q]]
      /\ session = [q \in Runs |-> session[q]] /\ objs = [q \in Runs |-> objs[q]]
      /\ TxOk(r, run[r], tx[r]) /\ run[r].pc = "opening" /\ setup \in Setups
      /\ tx = [tx EXCEPT ![r] = tx[r]]
  BY Parts DEF Control, OpenTransaction
<1>2. run' = [run EXCEPT ![r] = c]
  BY <1>1 DEF OpenTransaction
<1>3. /\ c \in Controls /\ c.pc = "work" /\ c.outcome = run[r].outcome /\ c.threw = None
      /\ c.completed = FALSE
  BY <1>1 DEF Controls, Steps
<1> HIDE DEF c
<1>4. BlameOk(c) /\ TxOk(r, c, tx[r]) /\ (Busy(c) <=> Busy(run[r])) /\ ~Committing(run[r])
  BY <1>1, <1>3 DEF BlameOk, TxOk, Busy, Committing, None, WorkErrors
<1>5. <<>> \in Seq(Instances(r)) /\ Len(<<>>) <= setup.maxObjects
  BY <1>1, EmptySeq, SetupTypes
<1>6. SessionOk(setup, NewSession, <<>>)
  <2>1. setup.maxObjects = MaxObjects
    BY <1>1, SetupTypes
  <2> QED BY <2>1, EmptySeq DEF SessionOk, Sessions, NewSession, Objects
<1>7. RunOk(setup, r, c, NewSession, <<>>, tx[r])
  BY <1>3, <1>4, <1>5, <1>6 DEF RunOk
<1>8. Moves(r, c, NewSession, <<>>, tx[r]) /\ UNCHANGED <<rows, outbox, active>>
  BY <1>1, <1>2 DEF Moves, OpenTransaction
<1> QED BY <1>4, <1>7, <1>8, QuietKeeps

-----------------------------------------------------------------------------
(* Control is kept: the work callback *)

\* What a transaction reads has the type of a row.
LEMMA VisibleOk ==
  ASSUME Control, NEW r \in Runs, NEW id \in Ids
  PROVE  Visible(r, id).v \in Nat /\ Visible(r, id).log \in Seq(AnyEvent)
<1>1. rows[id] \in Rows /\ TxOk(r, run[r], tx[r])
  BY Parts DEF Control
<1> QED BY <1>1 DEF Visible, TxOk, Rows, Writes

\* An event is owned by the run that records it.
LEMMA EventOk ==
  ASSUME Control, NEW r \in Runs
  PROVE  /\ NextEvent(r) \in Own(r) /\ Own(r) \subseteq AnyEvent
         /\ NextEvent(r) \in AnyEvent
<1>1. run[r] \in Controls /\ MaxAttempts \in Nat
  BY Parts, UnitOfWorkAssumption
<1>2. run[r].attempt \in Nat /\ run[r].events \in Nat /\ run[r].events + 1 \in Nat
  BY <1>1 DEF Controls
<1> QED BY <1>2 DEF NextEvent, Own, AnyEvent

\* The instance a load or a factory hands out.
LEMMA ObjectOk ==
  ASSUME NEW r, NEW id \in Ids, NEW row, row.v \in Nat, row.log \in Seq(AnyEvent)
  PROVE  /\ Object(id, row) \in Instances(r)
         /\ Object(id, row).id = id /\ Object(id, row).version = row.v
         /\ Object(id, row).persisted = row.v /\ Object(id, row).log = row.log
         /\ Object(id, row).pending = <<>> /\ (Object(id, row).loaded <=> row.v > 0)
<1>1. <<>> \in Seq(Own(r)) /\ (row.v > 0) \in BOOLEAN
  BY EmptySeq
<1> QED BY <1>1 DEF Object, Instances

\* Registrations stay right while instances are added or replaced.
LEMMA RegisteredOk ==
  ASSUME NEW d, NEW s, NEW O, NEW P, SessionOk(d, s, O), Len(O) \in Nat, Len(P) \in Nat,
         Len(O) <= Len(P), \A o \in 1..Len(O) : P[o].id = O[o].id
  PROVE  SessionOk(d, s, P)
  BY DEF SessionOk, Sessions

\* Steps of the callback that run() does not see.
LEMMA WorkKeeps ==
  ASSUME Control, NEW r \in Runs, NEW c \in Controls, NEW s, NEW O, NEW x,
         Moves(r, c, s, O, x), UNCHANGED <<rows, outbox, active>>,
         BlameOk(c), c.pc = run[r].pc, c.outcome = run[r].outcome, run[r].pc = "work",
         O \in Seq(Instances(r)), Len(O) <= setup.maxObjects,
         SessionOk(setup, s, O), TxOk(r, c, x)
  PROVE  Control'
<1>1. RunOk(setup, r, c, s, O, x)
  BY DEF RunOk
<1>2. (Busy(c) <=> Busy(run[r])) /\ (Committing(run[r]) => Committing(c))
  BY DEF Busy, Committing
<1> QED BY <1>1, <1>2, QuietKeeps

\* A load.
LEMMA LoadControl ==
  ASSUME Control, setup' = setup, NEW r \in Runs, NEW id \in Ids, Load(r, id)
  PROVE  Control'
<1> DEFINE o == Len(objs[r]) + 1
           a == Object(id, Visible(r, id))
           O == Append(objs[r], a)
           s == [session[r] EXCEPT !.map[id] = o, !.base[o] = 0]
<1>1. /\ run[r] \in Controls /\ BlameOk(run[r]) /\ objs = [q \in Runs |-> objs[q]]
      /\ session = [q \in Runs |-> session[q]] /\ TxOk(r, run[r], tx[r])
      /\ SessionOk(setup, session[r], objs[r]) /\ objs[r] \in Seq(Instances(r))
      /\ run[r].pc = "work" /\ session[r].open /\ Len(objs[r]) < MaxObjects
      /\ setup.maxObjects = MaxObjects /\ MaxObjects \in Nat
  BY Parts, SetupTypes DEF Control, Load, Working
<1>2. a \in Instances(r) /\ a.id = id
  BY VisibleOk, ObjectOk
<1>3. objs' = [objs EXCEPT ![r] = O] /\ session' = [session EXCEPT ![r] = s]
  BY <1>1 DEF Load
<1>4. /\ Len(objs[r]) \in Nat /\ o \in 1..MaxObjects
      /\ O \in Seq(Instances(r)) /\ Len(O) = o /\ O[o] = a
      /\ \A p \in 1..Len(objs[r]) : O[p] = objs[r][p]
  <2> HIDE DEF a
  <2>1. Len(objs[r]) \in Nat
    BY <1>1, LenProperties
  <2> QED BY <1>1, <1>2, <2>1, AppendProperties
<1>5. SessionOk(setup, s, O)
  <2>1. s \in Sessions(setup)
    <3>1. session[r] \in Sessions(setup) /\ o \in Nat /\ o \in 1..setup.maxObjects
      BY <1>1, <1>4 DEF SessionOk
    <3> HIDE DEF o
    <3> QED BY <3>1 DEF Sessions
  <2>2. /\ s.open /\ s.map = [session[r].map EXCEPT ![id] = o]
        /\ session[r].map \in [Ids -> Nat]
        /\ \A i \in Ids : session[r].map[i] # 0 =>
              session[r].map[i] \in 1..Len(objs[r]) /\ objs[r][session[r].map[i]].id = i
    BY <1>1 DEF SessionOk, Sessions
  <2> HIDE DEF s, O, o, a
  <2>3. ASSUME NEW i \in Ids, s.map[i] # 0 PROVE s.map[i] \in 1..Len(O) /\ O[s.map[i]].id = i
    <3>1. CASE i = id
      BY <1>2, <1>4, <2>2, <3>1
    <3>2. CASE i # id
      <4>1. s.map[i] \in 1..Len(objs[r]) /\ objs[r][s.map[i]].id = i
        BY <2>2, <2>3, <3>2
      <4>2. s.map[i] \in 1..Len(O)
        BY <1>4, <4>1 DEF o
      <4> QED BY <1>4, <4>1, <4>2
    <3> QED BY <3>1, <3>2
  <2>4. s.tokens = session[r].tokens /\ \A k \in 1..Len(session[r].tokens) :
           session[r].tokens[k].obj \in 1..Len(objs[r])
    BY <1>1 DEF SessionOk, Sessions, s
  <2>5. \A k \in 1..Len(s.tokens) : s.tokens[k].obj \in 1..Len(O)
    BY <1>4, <2>4 DEF o
  <2> QED BY <2>1, <2>2, <2>3, <2>5 DEF SessionOk
<1>6. Moves(r, run[r], s, O, tx[r]) /\ UNCHANGED <<rows, outbox, active>>
  BY <1>3, Parts DEF Moves, Load
<1>7. Len(O) <= setup.maxObjects
  BY <1>1, <1>4
<1> HIDE DEF s, O
<1> QED BY <1>1, <1>4, <1>5, <1>6, <1>7, WorkKeeps

\* The control state after an event was recorded.
LEMMA CountedOk ==
  ASSUME Control, NEW r \in Runs, NEW c, c = [run[r] EXCEPT !.events = @ + 1]
  PROVE  /\ c \in Controls /\ BlameOk(c) /\ TxOk(r, c, tx[r])
         /\ c.pc = run[r].pc /\ c.outcome = run[r].outcome /\ c.attempt = run[r].attempt
<1> DEFINE n == run[r].events + 1
<1>1. run[r] \in Controls /\ BlameOk(run[r]) /\ TxOk(r, run[r], tx[r])
  BY Parts
<1>2. n \in Nat
  BY <1>1 DEF Controls
<1>3. c = [run[r] EXCEPT !.events = n]
  OBVIOUS
<1> HIDE DEF n
<1>4. /\ c \in Controls /\ c.pc = run[r].pc /\ c.error = run[r].error /\ c.threw = run[r].threw
      /\ c.completed = run[r].completed /\ c.outcome = run[r].outcome /\ c.attempt = run[r].attempt
  BY <1>1, <1>2, <1>3 DEF Controls
<1> QED BY <1>1, <1>4 DEF BlameOk, TxOk

\* A factory's instance.
Created(r, id) ==
    [Object(id, [v |-> 0, log |-> Visible(r, id).log]) EXCEPT
        !.version = 1, !.log = Append(@, NextEvent(r)), !.pending = <<NextEvent(r)>>]

\* Its fields.
LEMMA CreatedOk ==
  ASSUME Control, NEW r \in Runs, NEW id \in Ids
  PROVE  /\ Created(r, id) \in Instances(r)
         /\ Created(r, id).id = id /\ Created(r, id).version = 1
         /\ Created(r, id).persisted = 0 /\ Created(r, id).loaded = FALSE
         /\ Created(r, id).log = Append(Visible(r, id).log, NextEvent(r))
         /\ Created(r, id).pending = <<NextEvent(r)>>
<1> DEFINE row == [v |-> 0, log |-> Visible(r, id).log]
           a == Object(id, row)
<1>1. /\ row.v = 0 /\ row.log = Visible(r, id).log /\ row.log \in Seq(AnyEvent)
      /\ (row.v > 0) = FALSE
  BY VisibleOk
<1> HIDE DEF row
<1>2. /\ a \in Instances(r) /\ a.id = id /\ a.persisted = 0
      /\ a.log = Visible(r, id).log /\ a.loaded = FALSE
  <2>1. /\ a \in Instances(r) /\ a.id = id /\ a.persisted = row.v
        /\ a.log = row.log /\ (a.loaded <=> row.v > 0)
    <3> HIDE DEF a
    <3>1. /\ Object(id, row) \in Instances(r)
          /\ Object(id, row).id = id /\ Object(id, row).version = row.v
          /\ Object(id, row).persisted = row.v /\ Object(id, row).log = row.log
          /\ Object(id, row).pending = <<>> /\ (Object(id, row).loaded <=> row.v > 0)
      BY SMTT(40), <1>1, ObjectOk
    <3> QED BY <3>1 DEF a
  <2> HIDE DEF a
  <2>2. a.loaded = FALSE
    <3>1. a.loaded \in BOOLEAN /\ ~(row.v > 0)
      BY <1>1, <2>1 DEF Instances
    <3> QED BY <2>1, <3>1
  <2> QED BY <1>1, <2>1, <2>2
<1> DEFINE log == Append(a.log, NextEvent(r))
           pending == <<NextEvent(r)>>
<1>3. Created(r, id) = [a EXCEPT !.version = 1, !.log = log, !.pending = pending]
  BY DEF Created, row
<1>4. pending \in Seq(Own(r)) /\ log \in Seq(AnyEvent)
  BY <1>1, <1>2, EventOk, AppendProperties
<1>5. log = Append(Visible(r, id).log, NextEvent(r)) /\ pending = <<NextEvent(r)>>
  BY <1>2
<1> HIDE DEF a, log, pending
<1>6. Created(r, id) \in Instances(r)
  <2>1. Created(r, id) = [id |-> a.id, version |-> 1, persisted |-> a.persisted, log |-> log,
                          pending |-> pending, loaded |-> a.loaded]
    BY <1>2, <1>3 DEF Instances
  <2> QED BY <1>2, <1>4, <2>1 DEF Instances
<1>7. /\ Created(r, id).id = a.id /\ Created(r, id).version = 1
      /\ Created(r, id).persisted = a.persisted /\ Created(r, id).loaded = a.loaded
      /\ Created(r, id).log = log /\ Created(r, id).pending = pending
  BY <1>2, <1>3 DEF Instances
<1> QED BY <1>2, <1>5, <1>6, <1>7

\* A creation.
LEMMA CreateControl ==
  ASSUME Control, setup' = setup, NEW r \in Runs, NEW id \in Ids, Create(r, id)
  PROVE  Control'
<1> DEFINE a == Created(r, id)
           O == Append(objs[r], a)
           c == [run[r] EXCEPT !.events = @ + 1]
<1>1. /\ objs = [q \in Runs |-> objs[q]] /\ run = [q \in Runs |-> run[q]]
      /\ SessionOk(setup, session[r], objs[r]) /\ objs[r] \in Seq(Instances(r))
      /\ run[r].pc = "work" /\ Len(objs[r]) < MaxObjects
      /\ setup.maxObjects = MaxObjects /\ MaxObjects \in Nat
  BY Parts, SetupTypes DEF Control, Create, Working
<1>2. a \in Instances(r)
  BY CreatedOk
<1>3. objs' = [objs EXCEPT ![r] = O] /\ run' = [run EXCEPT ![r] = c]
  BY <1>1 DEF Create, Created
<1>4. c \in Controls /\ BlameOk(c) /\ TxOk(r, c, tx[r]) /\ c.pc = run[r].pc /\ c.outcome = run[r].outcome
  BY CountedOk
<1> HIDE DEF a, c
<1>5. /\ Len(objs[r]) \in Nat /\ O \in Seq(Instances(r)) /\ Len(O) = Len(objs[r]) + 1
      /\ \A p \in 1..Len(objs[r]) : O[p] = objs[r][p]
  BY <1>1, <1>2, LenProperties, AppendProperties
<1> HIDE DEF O
<1>6. SessionOk(setup, session[r], O)
  BY <1>1, <1>5, RegisteredOk
<1>7. Moves(r, c, session[r], O, tx[r]) /\ UNCHANGED <<rows, outbox, active>>
  BY <1>3, Parts DEF Moves, Create
<1>8. Len(O) <= setup.maxObjects
  BY <1>1, <1>5
<1> QED BY <1>1, <1>4, <1>5, <1>6, <1>7, <1>8, WorkKeeps

\* An instance after an event.
LEMMA RecordedOk ==
  ASSUME NEW r, NEW a \in Instances(r), NEW e \in Own(r), e \in AnyEvent, NEW bump \in BOOLEAN
  PROVE  /\ Recorded(a, e, bump) \in Instances(r)
         /\ Recorded(a, e, bump).id = a.id /\ Recorded(a, e, bump).version >= a.version
         /\ Recorded(a, e, bump).persisted = a.persisted
         /\ Recorded(a, e, bump).loaded = a.loaded
         /\ Recorded(a, e, bump).log = Append(a.log, e)
         /\ Recorded(a, e, bump).pending = Append(a.pending, e)
<1> DEFINE v == IF bump THEN a.version + 1 ELSE a.version
           log == Append(a.log, e)
           pending == Append(a.pending, e)
<1>1. /\ a.version \in Nat /\ a.log \in Seq(AnyEvent) /\ a.pending \in Seq(Own(r)) /\ a.id \in Ids
      /\ a.persisted \in Nat /\ a.loaded \in BOOLEAN
  BY DEF Instances
<1>2. v \in Nat /\ v >= a.version
  BY <1>1
<1>3. log \in Seq(AnyEvent) /\ pending \in Seq(Own(r))
  BY <1>1, AppendProperties
<1>4. Recorded(a, e, bump) = [a EXCEPT !.version = v, !.log = log, !.pending = pending]
  BY DEF Recorded
<1> HIDE DEF v, log, pending
<1>5. Recorded(a, e, bump) = [id |-> a.id, version |-> v, persisted |-> a.persisted, log |-> log,
                              pending |-> pending, loaded |-> a.loaded]
  BY <1>4 DEF Instances
<1>6. Recorded(a, e, bump) \in Instances(r)
  BY <1>1, <1>2, <1>3, <1>5 DEF Instances
<1>7. /\ Recorded(a, e, bump).id = a.id /\ Recorded(a, e, bump).version = v
      /\ Recorded(a, e, bump).persisted = a.persisted /\ Recorded(a, e, bump).loaded = a.loaded
      /\ Recorded(a, e, bump).log = log /\ Recorded(a, e, bump).pending = pending
  BY <1>5
<1> QED BY <1>2, <1>6, <1>7 DEF log, pending

\* A mutation.
LEMMA RecordControl ==
  ASSUME Control, setup' = setup, NEW r \in Runs, NEW o, NEW bump \in BOOLEAN, Record(r, o, bump)
  PROVE  Control'
<1> DEFINE a == Recorded(objs[r][o], NextEvent(r), bump)
           O == [objs[r] EXCEPT ![o] = a]
           c == [run[r] EXCEPT !.events = @ + 1]
<1>1. /\ objs = [q \in Runs |-> objs[q]] /\ run = [q \in Runs |-> run[q]]
      /\ SessionOk(setup, session[r], objs[r]) /\ objs[r] \in Seq(Instances(r))
      /\ run[r].pc = "work" /\ Len(objs[r]) <= setup.maxObjects /\ o \in DOMAIN objs[r]
  BY Parts DEF Control, Record, Working
<1>2. o \in 1..Len(objs[r]) /\ Len(objs[r]) \in Nat
  BY <1>1, LenProperties
<1>3. a \in Instances(r) /\ a.id = objs[r][o].id
  <2>1. objs[r][o] \in Instances(r)
    BY <1>1, <1>2, ElementOfSeq
  <2> QED BY <2>1, EventOk, RecordedOk
<1>4. objs' = [objs EXCEPT ![r] = O]
  BY <1>1 DEF Record
<1>0. run' = [run EXCEPT ![r] = c]
  BY <1>1 DEF Record
<1>5. c \in Controls /\ BlameOk(c) /\ TxOk(r, c, tx[r]) /\ c.pc = run[r].pc /\ c.outcome = run[r].outcome
  BY CountedOk
<1> HIDE DEF a, c
<1>6. /\ O \in Seq(Instances(r)) /\ Len(O) = Len(objs[r])
      /\ \A p \in 1..Len(objs[r]) : O[p] = IF p = o THEN a ELSE objs[r][p]
  BY <1>1, <1>2, <1>3, ExceptSeq
<1> HIDE DEF O
<1>7. \A p \in 1..Len(objs[r]) : O[p].id = objs[r][p].id
  BY <1>3, <1>6
<1>8. SessionOk(setup, session[r], O)
  BY <1>1, <1>2, <1>6, <1>7, RegisteredOk
<1>9. Moves(r, c, session[r], O, tx[r]) /\ UNCHANGED <<rows, outbox, active>>
  BY <1>0, <1>4, Parts DEF Moves, Record
<1> QED BY <1>1, <1>5, <1>6, <1>8, <1>9, WorkKeeps

\* A session after an enrollment, and a transaction after a write.
Token(o, deleted) == [obj |-> o, deleted |-> deleted]

SavedSession(s, o) ==
    [s EXCEPT !.tokens = IF Enrolled(s, o) THEN @ ELSE Append(@, Token(o, FALSE))]

DeletedTokens(s, o) ==
    IF Enrolled(s, o)
    THEN [k \in DOMAIN s.tokens |-> IF s.tokens[k].obj = o THEN Token(o, TRUE) ELSE s.tokens[k]]
    ELSE Append(s.tokens, Token(o, TRUE))

DeletedSession(s, o, id) ==
    [s EXCEPT !.tokens = DeletedTokens(s, o), !.map = [@ EXCEPT ![id] = 0], !.tombs = @ \cup {id}]

Written(x, id, row) ==
    [x EXCEPT !.rows = [j \in DOMAIN @ \cup {id} |-> IF j = id THEN row ELSE @[j]]]

\* The row that Write buffers.
RowOf(r, o, v) ==
    LET i == objs[r][o].id
    IN  [v |-> v, log |-> objs[r][o].log, obj |-> o,
         base |-> IF i \in DOMAIN tx[r].rows THEN tx[r].rows[i].base ELSE rows[i]]

\* It is well formed.
LEMMA RowOfOk ==
  ASSUME Control, NEW r \in Runs, NEW o \in 1..Len(objs[r]), NEW v \in Nat
  PROVE  /\ RowOf(r, o, v) \in Writes /\ objs[r][o].id \in Ids
         /\ objs[r][o] \in Instances(r)
<1>1. /\ objs[r] \in Seq(Instances(r)) /\ TxOk(r, run[r], tx[r]) /\ rows \in [Ids -> Rows]
  BY Parts DEF Control
<1>2. objs[r][o] \in Instances(r) /\ Len(objs[r]) \in Nat
  BY <1>1, ElementOfSeq, LenProperties
<1>3. objs[r][o].id \in Ids /\ objs[r][o].log \in Seq(AnyEvent) /\ o \in Nat
  BY <1>2 DEF Instances
<1> DEFINE i == objs[r][o].id
           base == IF i \in DOMAIN tx[r].rows THEN tx[r].rows[i].base ELSE rows[i]
<1>4. base \in Rows
  BY <1>1, <1>3 DEF TxOk, Writes
<1>5. RowOf(r, o, v) = [v |-> v, log |-> objs[r][o].log, obj |-> o, base |-> base]
  BY DEF RowOf
<1> HIDE DEF base
<1> QED BY <1>2, <1>3, <1>4, <1>5 DEF Writes

\* A write keeps the transaction well formed.
LEMMA WrittenOk ==
  ASSUME NEW r, NEW c, NEW x, TxOk(r, c, x), NEW id \in Ids, NEW row \in Writes, c.pc = "work"
  PROVE  /\ TxOk(r, c, Written(x, id, row))
         /\ DOMAIN Written(x, id, row).rows = DOMAIN x.rows \cup {id}
         /\ Written(x, id, row).out = x.out
         /\ Written(x, id, row).rows[id] = row
         /\ \A j \in DOMAIN x.rows \ {id} : Written(x, id, row).rows[j] = x.rows[j]
<1> DEFINE f == [j \in DOMAIN x.rows \cup {id} |-> IF j = id THEN row ELSE x.rows[j]]
<1>1. /\ x = [rows |-> x.rows, out |-> x.out] /\ x.out \in Seq(Deliveries(r))
      /\ DOMAIN x.rows \subseteq Ids /\ \A i \in DOMAIN x.rows : x.rows[i] \in Writes
  BY DEF TxOk
<1>2. /\ f = [j \in DOMAIN f |-> f[j]] /\ DOMAIN f = DOMAIN x.rows \cup {id}
      /\ f[id] = row /\ \A j \in DOMAIN x.rows \ {id} : f[j] = x.rows[j]
  OBVIOUS
<1>3. Written(x, id, row) = [rows |-> f, out |-> x.out]
  BY <1>1 DEF Written
<1> HIDE DEF f
<1>4. Written(x, id, row).rows = f /\ Written(x, id, row).out = x.out
  BY <1>3
<1>5. TxOk(r, c, Written(x, id, row))
  <2>1. Written(x, id, row) = [rows |-> Written(x, id, row).rows, out |-> Written(x, id, row).out]
    BY <1>3, <1>4
  <2>2. \A j \in DOMAIN f : f[j] \in Writes
    BY <1>1, <1>2
  <2> HIDE <1>3
  <2> QED BY <1>1, <1>2, <1>4, <2>1, <2>2 DEF TxOk
<1> QED BY <1>2, <1>4, <1>5

\* The tokens of a session, before and after an enrollment.
Enrollment(s, o) ==
    /\ Enrolled(s, o) <=> \E k \in 1..Len(s.tokens) : s.tokens[k].obj = o
    /\ MarkedDeleted(s, o) <=>
          \E k \in 1..Len(s.tokens) : s.tokens[k].obj = o /\ s.tokens[k].deleted
    /\ DeletedTokens(s, o) \in Seq(Tokens)
    /\ Enrolled(s, o) =>
          /\ Len(DeletedTokens(s, o)) = Len(s.tokens)
          /\ \A k \in 1..Len(s.tokens) :
                /\ DeletedTokens(s, o)[k].obj = s.tokens[k].obj
                /\ DeletedTokens(s, o)[k].deleted <=>
                      s.tokens[k].deleted \/ s.tokens[k].obj = o
    /\ ~Enrolled(s, o) => DeletedTokens(s, o) = Append(s.tokens, Token(o, TRUE))

\* What an enrollment does to them.
LEMMA TokenLists ==
  ASSUME NEW s, s.tokens \in Seq(Tokens), NEW o \in Nat
  PROVE  Enrollment(s, o)
<1>1. /\ Len(s.tokens) \in Nat /\ DOMAIN s.tokens = 1..Len(s.tokens)
      /\ \A k \in 1..Len(s.tokens) : s.tokens[k] \in Tokens
  BY LenProperties, ElementOfSeq
<1>2. /\ Token(o, TRUE) \in Tokens /\ Token(o, TRUE).obj = o /\ Token(o, TRUE).deleted
      /\ Token(o, FALSE) \in Tokens
  BY DEF Token, Tokens
<1>3. Enrolled(s, o) <=> \E k \in 1..Len(s.tokens) : s.tokens[k].obj = o
  BY <1>1 DEF Enrolled, Disposition, ToSet
<1>4. MarkedDeleted(s, o) <=>
        \E k \in 1..Len(s.tokens) : s.tokens[k].obj = o /\ s.tokens[k].deleted
  <2>1. \A k \in 1..Len(s.tokens) :
           s.tokens[k] = [obj |-> o, deleted |-> TRUE] <=> s.tokens[k].obj = o /\ s.tokens[k].deleted
    <3> TAKE k \in 1..Len(s.tokens)
    <3>1. PICK p \in Nat, b \in BOOLEAN : s.tokens[k] = [obj |-> p, deleted |-> b]
      BY <1>1 DEF Tokens
    <3>2. s.tokens[k].obj = p /\ s.tokens[k].deleted = b
      BY <3>1
    <3>3. ASSUME s.tokens[k] = [obj |-> o, deleted |-> TRUE]
          PROVE  s.tokens[k].obj = o /\ s.tokens[k].deleted
      BY <3>3
    <3>4. ASSUME s.tokens[k].obj = o, s.tokens[k].deleted
          PROVE  s.tokens[k] = [obj |-> o, deleted |-> TRUE]
      <4>1. p = o /\ b = TRUE
        BY <3>2, <3>4
      <4> QED BY <3>1, <4>1
    <3> QED BY <3>3, <3>4
  <2>2. ToSet(s.tokens) = {s.tokens[k] : k \in 1..Len(s.tokens)}
    BY <1>1 DEF ToSet
  <2>3. MarkedDeleted(s, o) <=> \E k \in 1..Len(s.tokens) : s.tokens[k] = [obj |-> o, deleted |-> TRUE]
    BY <2>2 DEF MarkedDeleted
  <2> QED BY <2>1, <2>3
<1>5. CASE Enrolled(s, o)
  <2> DEFINE g == [k \in 1..Len(s.tokens) |-> IF s.tokens[k].obj = o THEN Token(o, TRUE)
                                                ELSE s.tokens[k]]
  <2>1. DeletedTokens(s, o) = g
    BY <1>1, <1>5 DEF DeletedTokens
  <2>2. \A k \in 1..Len(s.tokens) :
           /\ g[k] \in Tokens /\ g[k].obj = s.tokens[k].obj
           /\ g[k].deleted <=> s.tokens[k].deleted \/ s.tokens[k].obj = o
    <3> TAKE k \in 1..Len(s.tokens)
    <3>1. CASE s.tokens[k].obj = o
      <4>1. g[k] = Token(o, TRUE)
        BY <3>1
      <4> HIDE DEF g
      <4> QED BY <1>2, <3>1, <4>1
    <3>2. CASE s.tokens[k].obj # o
      <4>1. g[k] = s.tokens[k]
        BY <3>2
      <4> HIDE DEF g
      <4> QED BY <1>1, <3>2, <4>1
    <3> QED BY <3>1, <3>2
  <2>3. g \in [1..Len(s.tokens) -> Tokens]
    <3>1. \A k \in 1..Len(s.tokens) : g[k] \in Tokens
      BY <2>2
    <3> QED BY <3>1
  <2> HIDE DEF g
  <2>4. g \in Seq(Tokens) /\ Len(g) = Len(s.tokens)
    BY <1>1, <2>3, SeqDef, LenProperties
  <2> QED BY <1>3, <1>4, <1>5, <2>1, <2>2, <2>4 DEF Enrollment
<1>6. CASE ~Enrolled(s, o)
  <2>1. DeletedTokens(s, o) = Append(s.tokens, Token(o, TRUE))
    BY <1>6 DEF DeletedTokens
  <2> QED BY ZenonT(60), <1>2, <1>3, <1>4, <1>6, <2>1, AppendProperties DEF Enrollment
<1> QED BY <1>5, <1>6

\* One more token.
LEMMA OneMore ==
  ASSUME NEW T, NEW seq \in Seq(T), NEW e \in T
  PROVE  /\ Len(Append(seq, e)) = Len(seq) + 1 /\ Append(seq, e)[Len(seq) + 1] = e
         /\ \A k \in 1..Len(seq) : Append(seq, e)[k] = seq[k]
  BY AppendProperties

\* Enrollment keeps the session well formed.
LEMMA EnrolledOk ==
  ASSUME NEW d, NEW s, NEW O, SessionOk(d, s, O), NEW o \in 1..Len(O), Len(O) \in Nat,
         NEW id \in Ids, s.open
  PROVE  /\ SessionOk(d, SavedSession(s, o), O) /\ SessionOk(d, DeletedSession(s, o, id), O)
         /\ SavedSession(s, o).open /\ DeletedSession(s, o, id).open
         /\ SavedSession(s, o).map = s.map /\ SavedSession(s, o).tombs = s.tombs
         /\ SavedSession(s, o).base = s.base /\ DeletedSession(s, o, id).base = s.base
         /\ SavedSession(s, o).tokens =
               IF Enrolled(s, o) THEN s.tokens ELSE Append(s.tokens, Token(o, FALSE))
         /\ DeletedSession(s, o, id).tokens = DeletedTokens(s, o)
         /\ DeletedSession(s, o, id).map = [s.map EXCEPT ![id] = 0]
         /\ DeletedSession(s, o, id).tombs = s.tombs \cup {id}
<1> DEFINE T == IF Enrolled(s, o) THEN s.tokens ELSE Append(s.tokens, Token(o, FALSE))
           D == DeletedTokens(s, o)
           m == [s.map EXCEPT ![id] = 0]
<1>1. s \in Sessions(d) /\ s.tokens \in Seq(Tokens) /\ s.map \in [Ids -> Nat]
  BY DEF SessionOk, Sessions
<1>2. Token(o, FALSE) \in Tokens /\ Token(o, TRUE) \in Tokens /\ o \in Nat
  BY DEF Token, Tokens
<1>3. T \in Seq(Tokens)
  BY <1>1, <1>2, AppendProperties
<1>0. Enrollment(s, o)
  BY <1>1, <1>2, TokenLists
<1>4. D \in Seq(Tokens)
  BY <1>0 DEF Enrollment
<1>a. (\A k \in 1..Len(T) : T[k].obj \in 1..Len(O)) /\ \A k \in 1..Len(D) : D[k].obj \in 1..Len(O)
  <2>0. Len(s.tokens) \in Nat /\ \A k \in 1..Len(s.tokens) : s.tokens[k].obj \in 1..Len(O)
    BY <1>1, LenProperties DEF SessionOk
  <2>1. CASE Enrolled(s, o)
    <3>1. T = s.tokens
      BY <2>1
    <3>2. Len(D) = Len(s.tokens) /\ \A k \in 1..Len(s.tokens) : D[k].obj = s.tokens[k].obj
      BY <1>0, <2>1 DEF Enrollment
    <3> HIDE DEF T, D
    <3> QED BY <2>0, <3>1, <3>2
  <2>2. CASE ~Enrolled(s, o)
    <3>a. PICK saved \in Tokens : saved = Token(o, FALSE)
      BY <1>2
    <3>b. PICK deleted \in Tokens : deleted = Token(o, TRUE)
      BY <1>2
    <3>1. T = Append(s.tokens, saved) /\ D = Append(s.tokens, deleted)
      BY <2>2, <3>a, <3>b DEF DeletedTokens
    <3>2. saved.obj = o /\ deleted.obj = o
      BY <3>a, <3>b DEF Token
    <3> HIDE DEF T, D
    <3>3. /\ Len(T) = Len(s.tokens) + 1 /\ T[Len(s.tokens) + 1].obj = o
          /\ \A k \in 1..Len(s.tokens) : T[k] = s.tokens[k]
      <4>1. /\ Len(Append(s.tokens, saved)) = Len(s.tokens) + 1
            /\ Append(s.tokens, saved)[Len(s.tokens) + 1] = saved
            /\ \A k \in 1..Len(s.tokens) : Append(s.tokens, saved)[k] = s.tokens[k]
        BY <1>1, OneMore
      <4> QED BY <3>1, <3>2, <4>1
    <3>4. /\ Len(D) = Len(s.tokens) + 1 /\ D[Len(s.tokens) + 1].obj = o
          /\ \A k \in 1..Len(s.tokens) : D[k] = s.tokens[k]
      <4>1. /\ Len(Append(s.tokens, deleted)) = Len(s.tokens) + 1
            /\ Append(s.tokens, deleted)[Len(s.tokens) + 1] = deleted
            /\ \A k \in 1..Len(s.tokens) : Append(s.tokens, deleted)[k] = s.tokens[k]
        BY <1>1, OneMore
      <4> QED BY <3>1, <3>2, <4>1
    <3>5. \A k \in 1..Len(T) : T[k].obj \in 1..Len(O)
      BY SMTT(40), <2>0, <3>3
    <3>6. \A k \in 1..Len(D) : D[k].obj \in 1..Len(O)
      BY SMTT(40), <2>0, <3>4
    <3> QED BY <3>5, <3>6
  <2> QED BY <2>1, <2>2
<1>5. m \in [Ids -> Nat] /\ m[id] = 0 /\ \A i \in Ids : m[i] # 0 => m[i] = s.map[i]
  BY <1>1
<1>6. SavedSession(s, o) = [s EXCEPT !.tokens = T]
  BY DEF SavedSession
<1> DEFINE tombs == s.tombs \cup {id}
<1>7. DeletedSession(s, o, id) = [s EXCEPT !.tokens = D, !.map = m, !.tombs = tombs]
  BY DEF DeletedSession
<1>t. tombs \in SUBSET Ids
  BY <1>1 DEF Sessions
<1> HIDE DEF T, D, m, tombs
<1>8. /\ SavedSession(s, o) \in Sessions(d) /\ SavedSession(s, o).open = s.open
      /\ SavedSession(s, o).map = s.map /\ SavedSession(s, o).tombs = s.tombs
      /\ SavedSession(s, o).base = s.base /\ SavedSession(s, o).tokens = T
  BY <1>1, <1>3, <1>6 DEF Sessions
<1>9. /\ DeletedSession(s, o, id) \in Sessions(d) /\ DeletedSession(s, o, id).open = s.open
      /\ DeletedSession(s, o, id).map = m /\ DeletedSession(s, o, id).tombs = tombs
      /\ DeletedSession(s, o, id).base = s.base /\ DeletedSession(s, o, id).tokens = D
  <2>1. DeletedSession(s, o, id) = [open |-> s.open, tokens |-> D, map |-> m, tombs |-> tombs,
                                    base |-> s.base]
    BY <1>1, <1>7 DEF Sessions
  <2> QED BY <1>1, <1>4, <1>5, <1>t, <2>1 DEF Sessions
<1>10. SessionOk(d, SavedSession(s, o), O)
  BY <1>8, <1>a DEF SessionOk
<1>11. SessionOk(d, DeletedSession(s, o, id), O)
  BY <1>5, <1>9, <1>a DEF SessionOk
<1> QED BY <1>8, <1>9, <1>10, <1>11 DEF T, D, m, tombs

\* What a successful save or delete does.
LEMMA SaveForm ==
  ASSUME Control, NEW r \in Runs, NEW o \in DOMAIN objs[r],
         EnrollSaved(r, o), Write(r, o, objs[r][o].version)
  PROVE  /\ session' = [session EXCEPT ![r] = SavedSession(session[r], o)]
         /\ tx' = [tx EXCEPT ![r] = Written(tx[r], objs[r][o].id, RowOf(r, o, objs[r][o].version))]
<1>1. session = [q \in Runs |-> session[q]] /\ tx = [q \in Runs |-> tx[q]]
  BY DEF Control
<1>2. session' = [session EXCEPT ![r] = SavedSession(session[r], o)]
  BY <1>1 DEF EnrollSaved, SavedSession, Token
<1>3. tx' = [tx EXCEPT ![r] = Written(tx[r], objs[r][o].id, RowOf(r, o, objs[r][o].version))]
  BY <1>1 DEF Write, Written, RowOf
<1> QED BY <1>2, <1>3

\* The same for a delete.
LEMMA DeleteForm ==
  ASSUME Control, NEW r \in Runs, NEW o \in DOMAIN objs[r], EnrollDeleted(r, o), Write(r, o, 0)
  PROVE  /\ session' = [session EXCEPT ![r] = DeletedSession(session[r], o, objs[r][o].id)]
         /\ tx' = [tx EXCEPT ![r] = Written(tx[r], objs[r][o].id, RowOf(r, o, 0))]
<1>1. session = [q \in Runs |-> session[q]] /\ tx = [q \in Runs |-> tx[q]]
  BY SMTT(40) DEF Control
<1>2. session' = [session EXCEPT ![r] = DeletedSession(session[r], o, objs[r][o].id)]
  BY ZenonT(60), <1>1 DEF EnrollDeleted, DeletedSession, DeletedTokens, Token
<1>3. tx' = [tx EXCEPT ![r] = Written(tx[r], objs[r][o].id, RowOf(r, o, 0))]
  BY <1>1 DEF Write, Written, RowOf
<1> QED BY <1>2, <1>3

\* A save.
LEMMA SaveControl ==
  ASSUME Control, setup' = setup, NEW r \in Runs, NEW o, Save(r, o)
  PROVE  Control'
<1>1. /\ run[r].pc = "work" /\ session[r].open /\ o \in DOMAIN objs[r] /\ run[r] \in Controls
      /\ BlameOk(run[r]) /\ objs[r] \in Seq(Instances(r)) /\ Len(objs[r]) <= setup.maxObjects
      /\ SessionOk(setup, session[r], objs[r]) /\ TxOk(r, run[r], tx[r])
  BY Parts DEF Save, Open
<1>2. o \in 1..Len(objs[r]) /\ Len(objs[r]) \in Nat
  BY <1>1, LenProperties
<1>3. CASE Throw(r, "deleted") \/ Throw(r, "conflict")
  BY <1>1, <1>3, ThrowKeeps DEF WorkErrors
<1>4. CASE /\ EnrollSaved(r, o) /\ Write(r, o, objs[r][o].version)
           /\ UNCHANGED <<rows, outbox, active, run, objs, bus, faults>>
  <2> DEFINE s == SavedSession(session[r], o)
             row == RowOf(r, o, objs[r][o].version)
             x == Written(tx[r], objs[r][o].id, row)
  <2>1. objs[r][o].version \in Nat /\ objs[r][o].id \in Ids
    <3>1. objs[r][o] \in Instances(r)
      BY <1>1, <1>2, ElementOfSeq
    <3> QED BY <3>1 DEF Instances
  <2>2. row \in Writes
    BY <1>2, <2>1, RowOfOk
  <2>3. Moves(r, run[r], s, objs[r], x) /\ UNCHANGED <<rows, outbox, active>>
    BY ZenonT(60), <1>1, <1>4, Parts, SaveForm DEF Moves
  <2>4. SessionOk(setup, s, objs[r])
    BY <1>1, <1>2, <2>1, EnrolledOk
  <2>5. TxOk(r, run[r], x)
    <3> HIDE DEF row
    <3> QED BY <1>1, <2>1, <2>2, WrittenOk
  <2> HIDE DEF s, x
  <2> QED BY <1>1, <2>3, <2>4, <2>5, WorkKeeps
<1> QED BY <1>3, <1>4 DEF Save

\* A delete.
LEMMA DeleteControl ==
  ASSUME Control, setup' = setup, NEW r \in Runs, NEW o, Delete(r, o)
  PROVE  Control'
<1>1. /\ run[r].pc = "work" /\ session[r].open /\ o \in DOMAIN objs[r] /\ run[r] \in Controls
      /\ BlameOk(run[r]) /\ objs[r] \in Seq(Instances(r)) /\ Len(objs[r]) <= setup.maxObjects
      /\ SessionOk(setup, session[r], objs[r]) /\ TxOk(r, run[r], tx[r])
  BY Parts DEF Delete, Working
<1>2. o \in 1..Len(objs[r]) /\ Len(objs[r]) \in Nat
  BY <1>1, LenProperties
<1>3. CASE Throw(r, "conflict")
  BY <1>1, <1>3, ThrowKeeps DEF WorkErrors
<1>4. CASE /\ EnrollDeleted(r, o) /\ Write(r, o, 0)
           /\ UNCHANGED <<rows, outbox, active, run, objs, bus, faults>>
  <2> DEFINE s == DeletedSession(session[r], o, objs[r][o].id)
             row == RowOf(r, o, 0)
             x == Written(tx[r], objs[r][o].id, row)
  <2>2. row \in Writes /\ objs[r][o].id \in Ids
    BY <1>2, RowOfOk
  <2>3. Moves(r, run[r], s, objs[r], x) /\ UNCHANGED <<rows, outbox, active>>
    BY ZenonT(60), <1>1, <1>4, Parts, DeleteForm DEF Moves
  <2>4. SessionOk(setup, s, objs[r])
    BY <1>1, <1>2, <2>2, EnrolledOk
  <2>5. TxOk(r, run[r], x)
    <3> HIDE DEF row
    <3> QED BY <1>1, <2>2, WrittenOk
  <2> HIDE DEF s, x
  <2> QED BY <1>1, <2>3, <2>4, <2>5, WorkKeeps
<1> QED BY <1>3, <1>4 DEF Delete

\* The callback returns.
LEMMA ReturnControl ==
  ASSUME Control, setup' = setup, NEW r \in Runs, WorkReturns(r)
  PROVE  Control'
<1>1. /\ run[r].pc = "work" /\ run[r] \in Controls /\ BlameOk(run[r])
      /\ run = [q \in Runs |-> run[q]] /\ session = [q \in Runs |-> session[q]]
      /\ objs[r] \in Seq(Instances(r)) /\ Len(objs[r]) <= setup.maxObjects /\ setup \in Setups
      /\ SessionOk(setup, session[r], objs[r]) /\ TxOk(r, run[r], tx[r])
  BY Parts DEF WorkReturns, Working, Control
<1>2. CASE Throw(r, "unenrolled")
  BY <1>1, <1>2, ThrowKeeps DEF WorkErrors
<1>3. CASE /\ run' = [run EXCEPT ![r].pc = "sealed", ![r].completed = TRUE]
           /\ session' = [session EXCEPT ![r] = Closed(@)]
           /\ UNCHANGED <<rows, outbox, active, objs, tx, bus, faults>>
  <2> DEFINE c == [run[r] EXCEPT !.pc = "sealed", !.completed = TRUE]
             s == Closed(session[r])
  <2>1. Moves(r, c, s, objs[r], tx[r]) /\ UNCHANGED <<rows, outbox, active>>
    BY <1>1, <1>3, Parts DEF Moves
  <2>2. /\ c \in Controls /\ c.pc = "sealed" /\ c.completed /\ c.threw = run[r].threw
        /\ c.outcome = run[r].outcome
    BY <1>1 DEF Controls, Steps
  <2>3. SessionOk(setup, s, objs[r])
    BY <1>1, ClosedOk
  <2> HIDE DEF c, s
  <2>4. BlameOk(c) /\ TxOk(r, c, tx[r]) /\ (Busy(c) <=> Busy(run[r])) /\ ~Committing(run[r])
    BY <1>1, <2>2 DEF BlameOk, TxOk, Busy, Committing, None, WorkErrors
  <2>5. RunOk(setup, r, c, s, objs[r], tx[r])
    BY <1>1, <2>2, <2>3, <2>4 DEF RunOk
  <2> QED BY <2>1, <2>4, <2>5, QuietKeeps
<1> QED BY <1>2, <1>3 DEF WorkReturns

\* What the harvest takes from an instance.
CandidatesOf(a) ==
    [k \in 1..Len(a.pending) |-> [id |-> a.id, event |-> a.pending[k],
                                  version |-> a.version, seq |-> k]]

\* One entry for each pending event.
LEMMA CandidatesOk ==
  ASSUME NEW r, NEW a \in Instances(r)
  PROVE  /\ CandidatesOf(a) \in Seq(Deliveries(r)) /\ Len(CandidatesOf(a)) = Len(a.pending)
         /\ Len(a.pending) \in Nat
         /\ \A k \in 1..Len(a.pending) :
               /\ CandidatesOf(a)[k].id = a.id /\ CandidatesOf(a)[k].event = a.pending[k]
               /\ CandidatesOf(a)[k].version = a.version /\ CandidatesOf(a)[k].seq = k
<1>1. a.pending \in Seq(Own(r)) /\ a.id \in Ids /\ a.version \in Nat
  BY DEF Instances
<1>2. Len(a.pending) \in Nat /\ \A k \in 1..Len(a.pending) : a.pending[k] \in Own(r)
  BY <1>1, LenProperties, ElementOfSeq
<1>3. CandidatesOf(a) \in [1..Len(a.pending) -> Deliveries(r)]
  BY <1>1, <1>2 DEF CandidatesOf, Deliveries
<1>4. CandidatesOf(a) \in Seq(Deliveries(r)) /\ Len(CandidatesOf(a)) = Len(a.pending)
  BY <1>2, <1>3, SeqDef, LenProperties
<1> QED BY <1>2, <1>4 DEF CandidatesOf

\* What it takes from all the enrolled ones.
Collected(O, T) == [k \in 1..Len(T) |-> CandidatesOf(O[T[k].obj])]

\* It is what the harvest flattens.
LEMMA CollectedOk ==
  ASSUME Control, NEW r \in Runs
  PROVE  /\ Collected(objs[r], session[r].tokens) \in Seq(Seq(Deliveries(r)))
         /\ Len(Collected(objs[r], session[r].tokens)) = Len(session[r].tokens)
         /\ [k \in DOMAIN session[r].tokens |-> Candidates(r, session[r].tokens[k].obj)]
               = Collected(objs[r], session[r].tokens)
<1> DEFINE T == session[r].tokens
           O == objs[r]
<1>1. /\ O \in Seq(Instances(r)) /\ T \in Seq(Tokens)
      /\ \A k \in 1..Len(T) : T[k].obj \in 1..Len(O)
  BY Parts DEF SessionOk, Sessions
<1>2. /\ Len(T) \in Nat /\ DOMAIN T = 1..Len(T)
      /\ \A k \in 1..Len(T) : O[T[k].obj] \in Instances(r)
  BY <1>1, LenProperties, ElementOfSeq
<1>3. \A k \in 1..Len(T) : Candidates(r, T[k].obj) = CandidatesOf(O[T[k].obj])
  <2> TAKE k \in 1..Len(T)
  <2>1. O[T[k].obj].pending \in Seq(Own(r))
    BY <1>2 DEF Instances
  <2>2. DOMAIN O[T[k].obj].pending = 1..Len(O[T[k].obj].pending)
    BY <2>1, LenProperties
  <2> QED BY <2>2 DEF Candidates, CandidatesOf
<1>4. \A k \in 1..Len(T) : CandidatesOf(O[T[k].obj]) \in Seq(Deliveries(r))
  BY <1>2, CandidatesOk
<1>5. Collected(O, T) \in [1..Len(T) -> Seq(Deliveries(r))]
  BY <1>4 DEF Collected
<1>6. Collected(O, T) \in Seq(Seq(Deliveries(r))) /\ Len(Collected(O, T)) = Len(T)
  BY <1>2, <1>5, SeqDef, LenProperties
<1> QED BY <1>2, <1>3, <1>6 DEF Collected

\* The harvest.
LEMMA HarvestControl ==
  ASSUME Control, setup' = setup, NEW r \in Runs, Harvest(r)
  PROVE  Control'
<1>1. /\ run[r].pc = "sealed" /\ run[r] \in Controls /\ BlameOk(run[r])
      /\ run = [q \in Runs |-> run[q]] /\ tx = [q \in Runs |-> tx[q]]
      /\ objs[r] \in Seq(Instances(r)) /\ Len(objs[r]) <= setup.maxObjects
      /\ SessionOk(setup, session[r], objs[r]) /\ TxOk(r, run[r], tx[r])
  BY Parts DEF Harvest, Control
<1>2. CASE Fail(r, "harvest")
  BY <1>1, <1>2, FailKeeps DEF Errors
<1>3. CASE /\ tx' = [tx EXCEPT ![r].out =
                   FlattenSeq([i \in DOMAIN session[r].tokens |->
                                  Candidates(r, session[r].tokens[i].obj)])]
            /\ run' = [run EXCEPT ![r].pc = "harvested"]
            /\ UNCHANGED <<rows, outbox, active, session, objs, bus, faults>>
  <2> DEFINE out == FlattenSeq(Collected(objs[r], session[r].tokens))
             c == [run[r] EXCEPT !.pc = "harvested"]
             x == [tx[r] EXCEPT !.out = out]
  <2>1. out \in Seq(Deliveries(r))
    BY CollectedOk, FlattenType
  <2>2. tx' = [tx EXCEPT ![r].out = out]
    BY <1>3, CollectedOk
  <2> HIDE DEF out
  <2>3. Moves(r, c, session[r], objs[r], x) /\ UNCHANGED <<rows, outbox, active>>
    BY <1>1, <1>3, <2>2, Parts DEF Moves
  <2>4. /\ c \in Controls /\ c.pc = "harvested" /\ c.completed = run[r].completed
        /\ c.threw = run[r].threw /\ c.outcome = run[r].outcome
    BY <1>1 DEF Controls, Steps
  <2>5. x = [rows |-> tx[r].rows, out |-> out]
    BY <1>1 DEF TxOk
  <2> HIDE DEF c, x
  <2>6. x.rows = tx[r].rows /\ x.out = out
    BY <2>5
  <2>7. BlameOk(c) /\ (Busy(c) <=> Busy(run[r])) /\ ~Committing(run[r])
    BY <1>1, <2>4 DEF BlameOk, Busy, Committing, None, WorkErrors
  <2>8. TxOk(r, c, x)
    BY <1>1, <2>1, <2>4, <2>5, <2>6 DEF TxOk
  <2>9. RunOk(setup, r, c, session[r], objs[r], x)
    BY <1>1, <2>4, <2>7, <2>8 DEF RunOk
  <2> QED BY <2>3, <2>7, <2>9, QuietKeeps
<1> QED BY <1>2, <1>3 DEF Harvest

\* What a commit makes of the rows.
CommittedRows(rws, W) ==
    [i \in Ids |-> IF i \in DOMAIN W THEN [v |-> W[i].v, log |-> W[i].log] ELSE rws[i]]

\* The commit.
LEMMA CommitControl ==
  ASSUME Control, setup' = setup, NEW r \in Runs, Commit(r)
  PROVE  Control'
<1>1. /\ run[r].pc = "harvested" /\ run[r] \in Controls /\ BlameOk(run[r])
      /\ run = [q \in Runs |-> run[q]]
      /\ objs[r] \in Seq(Instances(r)) /\ Len(objs[r]) <= setup.maxObjects
      /\ SessionOk(setup, session[r], objs[r]) /\ TxOk(r, run[r], tx[r])
      /\ rows \in [Ids -> Rows] /\ outbox \in Seq(AnyDelivery) /\ active \in [Units -> BOOLEAN]
      /\ Exclusive(setup.unit, active, run) /\ \A q \in Runs : Fresh(run[q], q, outbox)
  BY Parts DEF Commit, Control
<1>2. CASE Fail(r, "serialization")
  BY <1>1, <1>2, FailKeeps DEF Errors
<1>3. CASE /\ rows' = CommittedRows(rows, tx[r].rows)
           /\ outbox' = outbox \o tx[r].out
           /\ run' = [run EXCEPT ![r].pc = "committed"]
           /\ UNCHANGED <<active, session, objs, tx, bus, faults>>
  <2> DEFINE c == [run[r] EXCEPT !.pc = "committed"]
  <2>1. Moves(r, c, session[r], objs[r], tx[r]) /\ active' \in [Units -> BOOLEAN]
    BY <1>1, <1>3, Parts DEF Moves
  <2>2. run'[r] = c /\ \A q \in Runs \ {r} : run'[q] = run[q]
    BY <1>1, <1>3
  <2>3. /\ c \in Controls /\ c.pc = "committed" /\ c.completed = run[r].completed
        /\ c.threw = run[r].threw /\ c.outcome = run[r].outcome
    BY <1>1 DEF Controls, Steps
  <2> HIDE DEF c
  <2>4. BlameOk(c) /\ TxOk(r, c, tx[r]) /\ (Busy(c) <=> Busy(run[r])) /\ Committing(c)
    BY <1>1, <2>3 DEF BlameOk, TxOk, Busy, Committing, None, WorkErrors
  <2>5. RunOk(setup, r, c, session[r], objs[r], tx[r])
    BY <1>1, <2>3, <2>4 DEF RunOk
  <2>6. rows' \in [Ids -> Rows]
    <3>1. \A i \in DOMAIN tx[r].rows : [v |-> tx[r].rows[i].v, log |-> tx[r].rows[i].log] \in Rows
      BY <1>1 DEF TxOk, Writes, Rows
    <3>2. \A i \in Ids : rows[i] \in Rows
      BY <1>1
    <3> HIDE DEF Rows
    <3> QED BY <1>3, <3>1, <3>2 DEF CommittedRows
  <2>7. tx[r].out \in Seq(Deliveries(r)) /\ tx[r].out \in Seq(AnyDelivery)
    <3>1. Deliveries(r) \subseteq AnyDelivery
      BY DEF Deliveries, AnyDelivery, Own, AnyEvent
    <3> QED BY <1>1, <3>1, SeqMonotonic DEF TxOk
  <2>8. outbox' \in Seq(AnyDelivery)
    BY <1>1, <1>3, <2>7, ConcatProperties
  <2>9. Exclusive(setup.unit, active', run')
    <3>1. \A q \in Runs : Busy(run'[q]) <=> Busy(run[q])
      BY <2>2, <2>4
    <3> QED BY <1>1, <1>3, <3>1 DEF Exclusive
  <2>10. ASSUME NEW q \in Runs PROVE Fresh(run'[q], q, outbox')
    <3>1. CASE q = r
      BY <2>2, <2>4, <3>1 DEF Fresh
    <3>2. CASE q # r /\ ~Committing(run[q])
      <4>1. \A k \in 1..Len(outbox) : outbox[k].event.run # q
        BY <1>1, <3>2 DEF Fresh
      <4>2. \A k \in 1..Len(tx[r].out) : tx[r].out[k].event.run = r
        <5> TAKE k \in 1..Len(tx[r].out)
        <5>1. tx[r].out[k] \in Deliveries(r)
          BY <2>7, ElementOfSeq
        <5> QED BY <5>1 DEF Deliveries, Own
      <4>3. \A k \in 1..Len(outbox') : outbox'[k].event.run # q
        <5>1. /\ Len(outbox) \in Nat /\ Len(tx[r].out) \in Nat
              /\ Len(outbox') = Len(outbox) + Len(tx[r].out)
              /\ \A k \in 1..Len(outbox) + Len(tx[r].out) :
                    outbox'[k] = IF k <= Len(outbox) THEN outbox[k] ELSE tx[r].out[k - Len(outbox)]
          BY <1>1, <1>3, <2>7, ConcatProperties, LenProperties
        <5> TAKE k \in 1..Len(outbox')
        <5>2. CASE k <= Len(outbox)
          BY <4>1, <5>1, <5>2
        <5>3. CASE ~(k <= Len(outbox))
          <6>1. k - Len(outbox) \in 1..Len(tx[r].out) /\ outbox'[k] = tx[r].out[k - Len(outbox)]
            BY <5>1, <5>3
          <6> QED BY <3>2, <4>2, <6>1
        <5> QED BY <5>2, <5>3
      <4> QED BY <4>3 DEF Fresh
    <3>3. CASE q # r /\ Committing(run[q])
      BY <2>2, <3>3 DEF Fresh
    <3> QED BY <3>1, <3>2, <3>3
  <2> QED BY <2>1, <2>5, <2>6, <2>8, <2>9, <2>10, MoveKeeps
<1> QED BY <1>2, <1>3 DEF Commit, CommittedRows

\* An instance after its acknowledgement.
AfterAck(s, o, a, frozen) ==
    IF o \in frozen \/ ~Enrolled(s, o) THEN a
    ELSE IF MarkedDeleted(s, o) THEN [a EXCEPT !.pending = <<>>]
    ELSE [a EXCEPT !.pending = <<>>, !.persisted = a.version]

\* The same aggregate, with the same log.
StaysInstance(r, a, b) == b \in Instances(r) /\ b.id = a.id /\ b.log = a.log /\ b.loaded = a.loaded

\* It is the same aggregate.
LEMMA AfterAckOk ==
  ASSUME NEW r, NEW s, NEW o, NEW a \in Instances(r), NEW frozen
  PROVE  StaysInstance(r, a, AfterAck(s, o, a, frozen))
<1>1. /\ a.version \in Nat /\ a.log \in Seq(AnyEvent) /\ a.pending \in Seq(Own(r)) /\ a.id \in Ids
      /\ a.persisted \in Nat /\ a.loaded \in BOOLEAN /\ <<>> \in Seq(Own(r))
  BY EmptySeq DEF Instances
<1>2. CASE o \in frozen \/ ~Enrolled(s, o)
  BY <1>1, <1>2 DEF AfterAck, StaysInstance
<1>3. CASE ~(o \in frozen \/ ~Enrolled(s, o)) /\ MarkedDeleted(s, o)
  <2>1. AfterAck(s, o, a, frozen) = [id |-> a.id, version |-> a.version, persisted |-> a.persisted,
                                     log |-> a.log, pending |-> <<>>, loaded |-> a.loaded]
    BY <1>3 DEF AfterAck, Instances
  <2> QED BY <1>1, <1>3, <2>1 DEF Instances, StaysInstance
<1>4. CASE ~(o \in frozen \/ ~Enrolled(s, o)) /\ ~MarkedDeleted(s, o)
  <2>1. AfterAck(s, o, a, frozen) = [id |-> a.id, version |-> a.version, persisted |-> a.version,
                                     log |-> a.log, pending |-> <<>>, loaded |-> a.loaded]
    BY <1>4 DEF AfterAck, Instances
  <2> QED BY <1>1, <1>4, <2>1 DEF Instances, StaysInstance
<1> QED BY <1>2, <1>3, <1>4

\* It loses its pending events if it was enrolled, or stays as it is.
LEMMA AfterAckPending ==
  ASSUME NEW r, NEW s, NEW o, NEW a \in Instances(r), NEW frozen
  PROVE  \/ AfterAck(s, o, a, frozen) = a
         \/ Enrolled(s, o) /\ AfterAck(s, o, a, frozen).pending = <<>>
<1>1. CASE o \in frozen \/ ~Enrolled(s, o)
  BY <1>1 DEF AfterAck
<1>2. CASE ~(o \in frozen \/ ~Enrolled(s, o)) /\ MarkedDeleted(s, o)
  BY <1>2 DEF AfterAck, Instances
<1>3. CASE ~(o \in frozen \/ ~Enrolled(s, o)) /\ ~MarkedDeleted(s, o)
  BY <1>3 DEF AfterAck, Instances
<1> QED BY <1>1, <1>2, <1>3

\* All instances after it.
Acked(s, O, frozen) == [o \in DOMAIN O |-> AfterAck(s, o, O[o], frozen)]

\* Instances stay instances.
LEMMA AckedOk ==
  ASSUME NEW r, NEW s, NEW O \in Seq(Instances(r)), NEW frozen
  PROVE  /\ Acked(s, O, frozen) \in Seq(Instances(r)) /\ Len(Acked(s, O, frozen)) = Len(O)
         /\ Len(O) \in Nat
         /\ \A o \in 1..Len(O) : /\ Acked(s, O, frozen)[o] = AfterAck(s, o, O[o], frozen)
                                 /\ StaysInstance(r, O[o], Acked(s, O, frozen)[o])
<1>1. Len(O) \in Nat /\ DOMAIN O = 1..Len(O) /\ \A o \in 1..Len(O) : O[o] \in Instances(r)
  BY LenProperties, ElementOfSeq
<1>2. \A o \in 1..Len(O) : StaysInstance(r, O[o], AfterAck(s, o, O[o], frozen))
  BY <1>1, AfterAckOk
<1>3. Acked(s, O, frozen) \in [1..Len(O) -> Instances(r)]
  BY <1>1, <1>2 DEF Acked, StaysInstance
<1>4. Acked(s, O, frozen) \in Seq(Instances(r)) /\ Len(Acked(s, O, frozen)) = Len(O)
  BY <1>1, <1>3, SeqDef, LenProperties
<1>5. \A o \in 1..Len(O) : Acked(s, O, frozen)[o] = AfterAck(s, o, O[o], frozen)
  BY <1>1 DEF Acked
<1> QED BY <1>1, <1>2, <1>4, <1>5

\* What an acknowledgement does.
LEMMA AcknowledgeForm ==
  ASSUME Control, setup' = setup, NEW r \in Runs, NEW frozen, Acknowledge(r, frozen)
  PROVE  /\ run[r].pc = "committed"
         /\ Moves(r, [run[r] EXCEPT !.acked = TRUE], session[r],
                  Acked(session[r], objs[r], frozen), tx[r])
         /\ UNCHANGED <<rows, outbox, active, bus>>
<1>1. run = [q \in Runs |-> run[q]] /\ objs = [q \in Runs |-> objs[q]]
  BY DEF Control
<1>2. objs' = [objs EXCEPT ![r] = Acked(session[r], objs[r], frozen)]
  BY <1>1 DEF Acknowledge, Acked, AfterAck
<1> QED BY <1>1, <1>2, Parts DEF Acknowledge, Acknowledges, Moves

\* The acknowledgement.
LEMMA AcknowledgeControl ==
  ASSUME Control, setup' = setup, NEW r \in Runs, NEW frozen, Acknowledge(r, frozen)
  PROVE  Control'
<1> DEFINE c == [run[r] EXCEPT !.acked = TRUE]
           O == Acked(session[r], objs[r], frozen)
<1>1. /\ run[r] \in Controls /\ BlameOk(run[r]) /\ objs[r] \in Seq(Instances(r))
      /\ Len(objs[r]) <= setup.maxObjects /\ SessionOk(setup, session[r], objs[r])
      /\ TxOk(r, run[r], tx[r])
  BY Parts
<1>2. Moves(r, c, session[r], O, tx[r]) /\ UNCHANGED <<rows, outbox, active>>
  BY AcknowledgeForm
<1>3. /\ c \in Controls /\ c.pc = run[r].pc /\ c.error = run[r].error /\ c.threw = run[r].threw
      /\ c.completed = run[r].completed /\ c.outcome = run[r].outcome /\ c.attempt = run[r].attempt
  BY <1>1 DEF Controls
<1> HIDE DEF c
<1>4. BlameOk(c) /\ TxOk(r, c, tx[r]) /\ (Busy(c) <=> Busy(run[r]))
      /\ (Committing(run[r]) => Committing(c))
  BY <1>1, <1>3 DEF BlameOk, TxOk, Busy, Committing
<1>5. /\ O \in Seq(Instances(r)) /\ Len(O) = Len(objs[r]) /\ Len(objs[r]) \in Nat
      /\ \A o \in 1..Len(objs[r]) : O[o].id = objs[r][o].id
  <2>1. PICK s : s = session[r]
    OBVIOUS
  <2>2. PICK S : S = objs[r]
    OBVIOUS
  <2>3. S \in Seq(Instances(r)) /\ O = Acked(s, S, frozen)
    BY <1>1, <2>1, <2>2
  <2> HIDE DEF O
  <2>4. /\ O \in Seq(Instances(r)) /\ Len(O) = Len(S) /\ Len(S) \in Nat
        /\ \A o \in 1..Len(S) : StaysInstance(r, S[o], O[o])
    BY <2>3, AckedOk
  <2> QED BY <2>2, <2>4 DEF StaysInstance
<1> HIDE DEF O
<1>6. SessionOk(setup, session[r], O)
  BY <1>1, <1>5, RegisteredOk
<1>7. RunOk(setup, r, c, session[r], O, tx[r])
  BY <1>1, <1>3, <1>4, <1>5, <1>6 DEF RunOk
<1> QED BY <1>2, <1>4, <1>7, QuietKeeps

\* Every action of a run keeps the invariant.
LEMMA WorkControl ==
  ASSUME Control, setup' = setup, NEW r \in Runs, Work(r)
  PROVE  Control'
<1>1. ASSUME NEW id \in Ids, Load(r, id) \/ Create(r, id) PROVE Control'
  BY <1>1, LoadControl, CreateControl
<1>2. ASSUME NEW o \in Objects, NEW bump \in BOOLEAN, Record(r, o, bump) PROVE Control'
  BY <1>2, RecordControl
<1>3. ASSUME NEW o \in Objects, Save(r, o) \/ Delete(r, o) PROVE Control'
  BY <1>3, SaveControl, DeleteControl
<1>4. CASE WorkThrows(r)
  <2>1. run[r].pc = "work" /\ Throw(r, "domain") /\ "domain" \in WorkErrors
    BY <1>4 DEF WorkThrows, Working, WorkErrors
  <2> QED BY <2>1, ThrowKeeps
<1> QED BY <1>1, <1>2, <1>3, <1>4 DEF Work

\* So does everything that run() does by itself.
LEMMA StepControl ==
  ASSUME Control, setup' = setup, NEW r \in Runs, Step(r)
  PROVE  Control'
<1>1. CASE OpenFails(r) \/ OutboxFails(r) \/ CommitFails(r)
  <2>1. /\ \/ run[r].pc = "opening" /\ Fail(r, "open")
           \/ run[r].pc = "sealed" /\ Fail(r, "outbox")
           \/ run[r].pc = "harvested" /\ Fail(r, "serialization")
        /\ {"open", "outbox", "serialization"} \subseteq Errors
    BY <1>1 DEF OpenFails, OutboxFails, CommitFails, Errors
  <2> QED BY <2>1, FailKeeps
<1>2. ASSUME NEW frozen \in SUBSET DOMAIN objs[r], Acknowledge(r, frozen) PROVE Control'
  BY <1>2, AcknowledgeControl
<1> QED BY <1>1, <1>2, StartControl, OpenControl, ReturnControl, HarvestControl, CommitControl,
           PublishControl, WakeControl, RejectControl DEF Step

\* Control is inductive.
LEMMA NextControl ==
  ASSUME Control, [Next]_<<vars, setup>>
  PROVE  Control'
<1>1. ASSUME NEW r \in Runs, setup' = setup, Work(r) \/ Step(r) \/ Abort(r) PROVE Control'
  BY <1>1, WorkControl, StepControl, AbortControl
<1>2. CASE UNCHANGED <<vars, setup>>
  BY <1>2, ControlUnchanged DEF vars
<1> QED BY <1>1, <1>2 DEF Next

\* Control holds throughout.
THEOREM ControlAlways == Spec => []Control
<1>1. Init => Control
  BY InitControl
<1>2. Control /\ [Next]_<<vars, setup>> => Control'
  BY NextControl
<1> QED BY <1>1, <1>2, PTL DEF Spec

\* Control contains the types.
LEMMA TypesHold == Control => TypeOK
<1> SUFFICES ASSUME Control PROVE TypeOK
  OBVIOUS
<1>1. ASSUME NEW i \in Ids PROVE rows[i].v \in Nat
  BY DEF Control, Rows
<1>2. ASSUME NEW r \in Runs
      PROVE  /\ run[r].attempt \in 0..MaxAttempts /\ Len(objs[r]) <= MaxObjects
             /\ ~session[r].open => session[r].map = [i \in Ids |-> 0] /\ session[r].tombs = {}
             /\ DOMAIN tx[r].rows # {} => run[r].pc \in {"work", "sealed", "harvested", "committed",
                                                         "settled"}
             /\ \A i \in Ids : session[r].map[i] # 0 => objs[r][session[r].map[i]].id = i
  <2>1. /\ run[r] \in Controls /\ Len(objs[r]) <= setup.maxObjects /\ setup.maxObjects = MaxObjects
        /\ SessionOk(setup, session[r], objs[r]) /\ TxOk(r, run[r], tx[r])
    BY Parts, SetupTypes DEF Control
  <2>2. run[r].attempt \in 0..MaxAttempts
    BY <2>1 DEF Controls
  <2>3. ~session[r].open => session[r].map = [i \in Ids |-> 0] /\ session[r].tombs = {}
    BY <2>1 DEF SessionOk
  <2>4. DOMAIN tx[r].rows # {} => run[r].pc \in {"work", "sealed", "harvested", "committed", "settled"}
    BY <2>1 DEF TxOk
  <2>5. \A i \in Ids : session[r].map[i] # 0 => objs[r][session[r].map[i]].id = i
    BY <2>1 DEF SessionOk
  <2> QED BY <2>1, <2>2, <2>3, <2>4, <2>5
<1> QED BY <1>1, <1>2 DEF TypeOK

\* At most one run at a time on every instance.
LEMMA ExclusionHolds == Control => OneRunPerUnit
<1> SUFFICES ASSUME Control, NEW u \in Units
             PROVE  LET running == {r \in Runs : Unit[r] = u /\ run[r].pc \notin {"idle", "settled"}}
                    IN  Cardinality(running) <= 1 /\ active[u] = (running # {})
  BY DEF OneRunPerUnit
<1> DEFINE running == {r \in Runs : Unit[r] = u /\ run[r].pc \notin {"idle", "settled"}}
<1>1. Exclusive(Unit, active, run) /\ active[u] \in BOOLEAN
  BY SetupTypes DEF Control
<1>2. running = {r \in Runs : Unit[r] = u /\ Busy(run[r])}
  BY DEF Busy
<1> HIDE DEF running
<1>3. \A q, r \in running : q = r
  BY <1>1, <1>2 DEF Exclusive
<1>4. Cardinality(running) <= 1
  <2>1. CASE running = {}
    <3>1. Cardinality(running) = 0
      BY <2>1, FS_EmptySet
    <3> QED BY <3>1
  <2>2. CASE running # {}
    <3>1. PICK r : r \in running
      BY <2>2
    <3>2. running = {r}
      BY <1>3, <3>1
    <3>3. Cardinality(running) = 1
      BY <3>2, FS_Singleton
    <3> QED BY <3>3
  <2> QED BY <2>1, <2>2
<1>5. active[u] <=> running # {}
  BY <1>1, <1>2 DEF Exclusive
<1>6. active[u] = (running # {})
  BY <1>1, <1>5
<1> QED BY <1>4, <1>6 DEF running

\* Control and sessions are well formed, and one run() at a time uses an
\* instance of UnitOfWork, which is free again afterwards.
THEOREM UnitOfWorkWellFormed == Spec => []WellFormed
<1>1. Control => WellFormed
  BY TypesHold, ExclusionHolds DEF WellFormed
<1> QED BY <1>1, ControlAlways, PTL

\* What run() says of an error is so, and a rejected run left no event behind.
LEMMA TruthHolds == Control => OutcomeTruthful /\ ErrorsClassified
<1> SUFFICES ASSUME Control PROVE OutcomeTruthful /\ ErrorsClassified
  OBVIOUS
<1>1. ASSUME NEW r \in Runs, run[r].pc = "settled", run[r].outcome # "resolved",
             NEW e \in ToSet(outbox)
      PROVE  e.event.run # r
  <2>1. outbox \in Seq(AnyDelivery)
    BY DEF Control
  <2>2. PICK k \in 1..Len(outbox) : e = outbox[k]
    BY <1>1, <2>1, LenProperties DEF ToSet
  <2>3. Fresh(run[r], r, outbox)
    BY Parts
  <2> QED BY <1>1, <2>2, <2>3 DEF Fresh, Committing
<1>2. ASSUME NEW r \in Runs, run[r].pc = "settled"
      PROVE  /\ run[r].outcome \in {"conflict", "deleted", "unenrolled", "domain"} =>
                   run[r].threw = run[r].outcome
             /\ run[r].outcome \in {"CommitError", "harvest"} =>
                   run[r].completed /\ run[r].threw = None
             /\ run[r].outcome \notin {"rollback", "serialization", "outbox"}
  BY Parts DEF BlameOk, WorkErrors
<1>3. OutcomeTruthful
  BY <1>1 DEF OutcomeTruthful
<1>4. ErrorsClassified
  BY <1>2 DEF ErrorsClassified
<1> QED BY <1>3, <1>4

-----------------------------------------------------------------------------
(* What the transactions are going to write *)

Known(ob) == {ob[k].event : k \in 1..Len(ob)}
Pending(a) == {a.pending[k] : k \in 1..Len(a.pending)}
Reflected(a) == {a.log[k] : k \in 1..Len(a.log)}

\* The database: rows and outbox agree, cursors never repeat.
Cursor(e) == <<e.id, e.version, e.seq>>
Cursors(ob) == \A j, k \in 1..Len(ob) : j # k => Cursor(ob[j]) # Cursor(ob[k])
Bounded(i, v, ob) == \A k \in 1..Len(ob) : ob[k].id = i => ob[k].version <= v

Database(rws, ob) ==
    /\ \A i \in Ids : rws[i].log = EventsOf(i, ob)
    /\ Cursors(ob)
    /\ \A i \in Ids : rws[i].v > 0 => rws[i].log # <<>> /\ Bounded(i, rws[i].v, ob)

\* The log an instance had before its pending events.
Ground(a) == SubSeq(a.log, 1, Len(a.log) - Len(a.pending))

Grown(a) ==
    /\ a.log = Ground(a) \o a.pending /\ a.log # <<>>
    /\ a.version >= 1 /\ a.version >= a.persisted
    /\ a.loaded <=> a.persisted > 0

\* The enrolled instances, in the order of their tokens.
Taken(O, T) == [k \in 1..Len(T) |-> O[T[k].obj]]
InTokens(T, o) == \E k \in 1..Len(T) : T[k].obj = o
Gone(T, A) == {i \in Ids : \E k \in 1..Len(T) : T[k].deleted /\ A[k].id = i}

TokensOk(T) == \A k, l \in 1..Len(T) : T[k].obj = T[l].obj => k = l

\* The first instance of an aggregate continues the row, the second the first.
Continues(a, row) == a.log = row.log \o a.pending /\ a.persisted = row.v
Follows(b, a) == b.log = a.log \o b.pending /\ a.persisted = 0 /\ b.persisted = a.version

ChainOk(A, W) ==
    /\ \A k \in 1..Len(A) : A[k].id \in DOMAIN W
    /\ \A k \in 1..Len(A) :
          \/ Continues(A[k], W[A[k].id].base)
          \/ \E j \in 1..Len(A) : j < k /\ A[j].id = A[k].id
    /\ \A j, k \in 1..Len(A) : j < k /\ A[j].id = A[k].id => Follows(A[k], A[j])

\* A buffered row is written from the last instance enrolled for it.
LastOf(T, A, i, k) ==
    /\ A[k].id = i
    /\ \A l \in 1..Len(T) : A[l].id = i => l <= k /\ (T[l].deleted => l = k)
WrittenFrom(w, t, a) ==
    w.obj = t.obj /\ w.log = a.log /\ w.v = IF t.deleted THEN 0 ELSE a.version
Rooted(w) == w.base.v = 0 => w.base.log = <<>>

WritesOk(T, A, W) ==
    \A i \in DOMAIN W :
       Rooted(W[i]) /\ \E k \in 1..Len(T) : LastOf(T, A, i, k) /\ WrittenFrom(W[i], T[k], A[k])

\* An instance that was not enrolled reflects a state the row had, and is not
\* older than the transaction's own write of it.
Prefix(s, t) == Len(s) <= Len(t) /\ \A n \in 1..Len(s) : s[n] = t[n]

BehindOk(a, W, rws) ==
    /\ Ground(a) = <<>> <=> a.persisted = 0
    /\ a.id \notin DOMAIN W => Prefix(Ground(a), rws[a.id].log)
    /\ a.id \in DOMAIN W => a.persisted = 0 \/ Ground(a) = W[a.id].log

\* The instance that stands for its aggregate in the session.
Current(s, O, o) ==
    /\ O[o].loaded => s.map[O[o].id] = o
    /\ O[o].persisted = 0 =>
          \A p \in 1..Len(O) : O[p].id = O[o].id /\ O[p].persisted = 0 => p = o

WorkOk(s, A, O, W, rws) ==
    /\ s.open /\ s.tombs = Gone(s.tokens, A)
    /\ \A o \in DOMAIN s.base : s.base[o] = 0
    /\ \A o \in 1..Len(O) : O[o].id \notin s.tombs =>
          Current(s, O, o) /\ (~InTokens(s.tokens, o) => BehindOk(O[o], W, rws))

\* What the harvest put into the outbox write continues the rows.
EntryOk(e, W) ==
    /\ e.id \in DOMAIN W /\ W[e.id].base.v < e.version
    /\ W[e.id].v > 0 => e.version <= W[e.id].v

OutOk(W, out) ==
    /\ \A i \in DOMAIN W : W[i].log = W[i].base.log \o EventsOf(i, out)
    /\ \A i \in Ids \ DOMAIN W : EventsOf(i, out) = <<>>
    /\ Cursors(out) /\ \A k \in 1..Len(out) : EntryOk(out[k], W)
    /\ \A i \in DOMAIN W : W[i].v > 0 => W[i].base.v <= W[i].v /\ W[i].log # <<>>

\* Nothing is consumed early and nothing is forgotten.
Covered(e, A, known) == e \in known \/ \E k \in 1..Len(A) : e \in Pending(A[k])
Finishing(c) == c.pc = "committed" \/ c.outcome = "resolved"

ConsumedOk(c, T, A, O, out, known) ==
    /\ \A o \in 1..Len(O) : \A e \in Reflected(O[o]) : e \in Pending(O[o]) \/ Covered(e, A, known)
    /\ c.pc = "harvested" => \A k \in 1..Len(A) : Pending(A[k]) \subseteq Known(out)
    /\ c.pc = "committed" => Known(out) \subseteq known
    /\ Finishing(c) => \A k \in 1..Len(A) : Pending(A[k]) \subseteq known
    /\ c.pc \in {"sealed", "harvested"} \/ Finishing(c) =>
          \A o \in 1..Len(O) : O[o].loaded /\ O[o].id \notin Gone(T, A) =>
             InTokens(T, o) \/ O[o].pending = <<>>

InTransaction == {"work", "sealed", "harvested"}

HeldOk(c, s, O, x, rws, known) ==
    /\ TokensOk(s.tokens)
    /\ c.pc \in InTransaction =>
          /\ \A o \in 1..Len(O) : Grown(O[o])
          /\ ChainOk(Taken(O, s.tokens), x.rows)
          /\ WritesOk(s.tokens, Taken(O, s.tokens), x.rows)
    /\ c.pc = "work" => WorkOk(s, Taken(O, s.tokens), O, x.rows, rws)
    /\ c.pc = "harvested" => OutOk(x.rows, x.out)
    /\ ConsumedOk(c, s.tokens, Taken(O, s.tokens), O, x.out, known)

Held ==
    /\ Database(rows, outbox) /\ bus \subseteq Known(outbox)
    /\ \A r \in Runs : HeldOk(run[r], session[r], objs[r], tx[r], rows, Known(outbox))

-----------------------------------------------------------------------------
(* Logs and the events of an aggregate *)

\* What precedes the pending events.
LEMMA GroundIs ==
  ASSUME NEW a, NEW L \in Seq(AnyEvent), a.pending \in Seq(AnyEvent), a.log = L \o a.pending
  PROVE  Ground(a) = L
<1> DEFINE p == a.pending
           u == L \o p
<1>1. /\ Len(L) \in Nat /\ Len(p) \in Nat /\ u \in Seq(AnyEvent) /\ Len(u) = Len(L) + Len(p)
      /\ \A n \in 1..Len(L) : u[n] = L[n] /\ u[n] \in AnyEvent
  BY ConcatProperties, LenProperties, ElementOfSeq
<1>2. Len(u) - Len(p) = Len(L)
  BY <1>1
<1> HIDE DEF u
<1>3. /\ SubSeq(u, 1, Len(L)) \in Seq(AnyEvent) /\ Len(SubSeq(u, 1, Len(L))) = Len(L)
      /\ \A n \in 1..Len(L) : SubSeq(u, 1, Len(L))[n] = u[n]
  <2>1. /\ SubSeq(u, 1, Len(L)) \in Seq(AnyEvent)
        /\ Len(SubSeq(u, 1, Len(L))) = IF 1 <= Len(L) THEN Len(L) - 1 + 1 ELSE 0
        /\ \A n \in 1..(Len(L) - 1 + 1) : SubSeq(u, 1, Len(L))[n] = u[1 + n - 1]
    BY <1>1, SubSeqProperties
  <2> HIDE DEF p
  <2> QED BY <1>1, <2>1
<1>4. SubSeq(u, 1, Len(L)) = L
  BY <1>1, <1>3, SeqEqual
<1> QED BY <1>2, <1>4 DEF Ground, u, p

\* It is a log.
LEMMA GroundType ==
  ASSUME NEW a, a.log \in Seq(AnyEvent), a.pending \in Seq(AnyEvent), Grown(a)
  PROVE  Ground(a) \in Seq(AnyEvent) /\ a.log = Ground(a) \o a.pending
<1>1. /\ Len(a.log) \in Nat /\ Len(a.pending) \in Nat
      /\ \A k \in 1..Len(a.log) : a.log[k] \in AnyEvent
  <2>1. Len(a.log) \in Nat /\ Len(a.pending) \in Nat
    BY LenProperties
  <2>2. \A k \in 1..Len(a.log) : a.log[k] \in AnyEvent
    BY ElementOfSeq
  <2> QED BY <2>1, <2>2
<1>2. PICK n \in Int : n = Len(a.log) - Len(a.pending) /\ n <= Len(a.log)
  <2>1. PICK l \in Nat, m \in Nat : l = Len(a.log) /\ m = Len(a.pending)
    BY <1>1
  <2>2. l - m \in Int /\ l - m <= l
    OBVIOUS
  <2> QED BY <2>1, <2>2
<1>3. \A k \in 1..n : a.log[k] \in AnyEvent
  BY <1>1, <1>2
<1>4. SubSeq(a.log, 1, n) \in Seq(AnyEvent)
  BY <1>3, SubSeqProperties
<1> QED BY <1>2, <1>4 DEF Grown, Ground

\* A log starts with what it continues.
LEMMA PrefixOfConcat ==
  ASSUME NEW T, NEW s \in Seq(T), NEW t \in Seq(T)
  PROVE  Prefix(s, s \o t)
<1>1. /\ Len(s) \in Nat /\ Len(t) \in Nat /\ Len(s \o t) = Len(s) + Len(t)
      /\ \A n \in 1..Len(s) + Len(t) : (s \o t)[n] = IF n <= Len(s) THEN s[n] ELSE t[n - Len(s)]
  BY ConcatProperties, LenProperties
<1> QED BY <1>1 DEF Prefix

\* IsPrefix, entry by entry.
LEMMA PrefixIs ==
  ASSUME NEW T, NEW s \in Seq(T), NEW t \in Seq(T), IsPrefix(s, t)
  PROVE  Prefix(s, t)
<1>1. /\ Len(s) \in Nat /\ Len(t) \in Nat /\ Len(s) <= Len(t)
      /\ \A n \in 1..Len(s) : s[n] \in T /\ t[n] \in T
  <2>1. Len(s) <= Len(t)
    BY DEF IsPrefix
  <2>2. \A n \in 1..Len(t) : t[n] \in T
    BY ElementOfSeq
  <2>3. \A n \in 1..Len(s) : s[n] \in T
    BY ElementOfSeq
  <2> QED BY <2>1, <2>2, <2>3, LenProperties
<1>2. \A n \in 1..Len(s) : SubSeq(s, 1, Len(s))[n] = s[n]
  <2>1. \A n \in 1..(Len(s) - 1 + 1) : SubSeq(s, 1, Len(s))[n] = s[1 + n - 1]
    BY <1>1, SubSeqProperties
  <2> QED BY <1>1, <2>1
<1>3. \A n \in 1..Len(s) : SubSeq(t, 1, Len(s))[n] = t[n]
  <2>1. \A n \in 1..(Len(s) - 1 + 1) : SubSeq(t, 1, Len(s))[n] = t[1 + n - 1]
    BY <1>1, SubSeqProperties
  <2> QED BY <1>1, <2>1
<1>4. SubSeq(s, 1, Len(s)) = SubSeq(t, 1, Len(s))
  BY DEF IsPrefix
<1> QED BY <1>1, <1>2, <1>3, <1>4 DEF Prefix

\* Between a log and its continuation by events it does not hold lies only itself.
LEMMA Between ==
  ASSUME NEW T, NEW G \in Seq(T), NEW R \in Seq(T), NEW p \in Seq(T),
         Prefix(G, R), Prefix(R, G \o p),
         \A n \in 1..Len(R), m \in 1..Len(p) : R[n] # p[m]
  PROVE  R = G
<1>1. /\ Len(G) \in Nat /\ Len(R) \in Nat /\ Len(p) \in Nat /\ Len(G \o p) = Len(G) + Len(p)
      /\ \A n \in 1..Len(G) + Len(p) : (G \o p)[n] = IF n <= Len(G) THEN G[n] ELSE p[n - Len(G)]
  BY ConcatProperties, LenProperties
<1>2. Len(G) <= Len(R) /\ Len(R) <= Len(G) + Len(p)
  BY <1>1 DEF Prefix
<1>3. ASSUME Len(G) # Len(R) PROVE FALSE
  <2> DEFINE n == Len(G) + 1
  <2>1. n \in 1..Len(R) /\ n \in 1..Len(G) + Len(p) /\ 1 \in 1..Len(p) /\ ~(n <= Len(G))
        /\ n - Len(G) = 1
    BY <1>1, <1>2, <1>3
  <2> HIDE DEF n
  <2>2. R[n] = (G \o p)[n]
    BY <2>1 DEF Prefix
  <2>3. (G \o p)[n] = p[1]
    BY <1>1, <2>1
  <2> QED BY <2>1, <2>2, <2>3
<1>4. Len(G) = Len(R) /\ \A n \in 1..Len(G) : G[n] = R[n]
  BY <1>3 DEF Prefix
<1> QED BY <1>4, SeqEqual

\* The entries of an aggregate.
OfId(i) == {e \in AnyDelivery : e.id = i}
Logged(s) == [k \in 1..Len(s) |-> s[k].event]

\* EventsOf is the log of those entries.
LEMMA EventsAre ==
  ASSUME NEW i \in Ids, NEW s \in Seq(AnyDelivery)
  PROVE  /\ EventsOf(i, s) = Logged(Only(s, OfId(i))) /\ Only(s, OfId(i)) \in Seq(AnyDelivery)
         /\ EventsOf(i, s) \in Seq(AnyEvent) /\ Len(EventsOf(i, s)) = Len(Only(s, OfId(i)))
<1>1. /\ Len(s) \in Nat /\ DOMAIN s = 1..Len(s) /\ \A h \in 1..Len(s) : s[h] \in AnyDelivery
  BY LenProperties, ElementOfSeq
<1>2. Only(s, {e \in ToSet(s) : e.id = i}) = Only(s, OfId(i))
  <2>1. \A h \in 1..Len(s) : s[h] \in {e \in ToSet(s) : e.id = i} <=> s[h] \in OfId(i)
    BY <1>1 DEF ToSet, OfId
  <2> QED BY <2>1, OnlyAgrees
<1>3. PICK m \in Seq(AnyDelivery) : m = Only(s, OfId(i))
  BY OnlyLists
<1>4. Len(m) \in Nat /\ DOMAIN m = 1..Len(m) /\ \A k \in 1..Len(m) : m[k] \in AnyDelivery
  BY <1>3, LenProperties, ElementOfSeq
<1>5. EventsOf(i, s) = Logged(m)
  BY <1>2, <1>3, <1>4 DEF EventsOf, Logged
<1>6. Logged(m) \in [1..Len(m) -> AnyEvent]
  BY <1>4 DEF Logged, AnyDelivery
<1>7. Logged(m) \in Seq(AnyEvent) /\ Len(Logged(m)) = Len(m)
  BY <1>4, <1>6, SeqDef, LenProperties
<1> QED BY <1>3, <1>5, <1>7

\* The events of an aggregate in an outbox that grew.
LEMMA EventsConcat ==
  ASSUME NEW i \in Ids, NEW s \in Seq(AnyDelivery), NEW t \in Seq(AnyDelivery)
  PROVE  EventsOf(i, s \o t) = EventsOf(i, s) \o EventsOf(i, t)
<1>1. PICK u \in Seq(AnyDelivery) : u = s \o t
  BY ConcatProperties
<1>2. PICK m \in Seq(AnyDelivery) : m = Only(s, OfId(i))
  BY OnlyLists
<1>3. PICK n \in Seq(AnyDelivery) : n = Only(t, OfId(i))
  BY OnlyLists
<1>4. Only(u, OfId(i)) = m \o n
  BY ZenonT(60), <1>1, <1>2, <1>3, OnlyConcat
<1>5. /\ EventsOf(i, u) = Logged(m \o n) /\ EventsOf(i, s) = Logged(m) /\ EventsOf(i, t) = Logged(n)
      /\ Logged(m \o n) \in Seq(AnyEvent) /\ Len(Logged(m \o n)) = Len(m \o n)
      /\ Logged(m) \in Seq(AnyEvent) /\ Len(Logged(m)) = Len(m)
      /\ Logged(n) \in Seq(AnyEvent) /\ Len(Logged(n)) = Len(n)
  <2>1. /\ EventsOf(i, u) = Logged(m \o n) /\ Logged(m \o n) \in Seq(AnyEvent)
        /\ Len(Logged(m \o n)) = Len(m \o n)
    <3>1. /\ EventsOf(i, u) = Logged(Only(u, OfId(i))) /\ EventsOf(i, u) \in Seq(AnyEvent)
          /\ Len(EventsOf(i, u)) = Len(Only(u, OfId(i)))
      BY EventsAre
    <3> QED BY <1>4, <3>1
  <2>2. /\ EventsOf(i, s) = Logged(m) /\ Logged(m) \in Seq(AnyEvent) /\ Len(Logged(m)) = Len(m)
    BY <1>2, EventsAre
  <2>3. /\ EventsOf(i, t) = Logged(n) /\ Logged(n) \in Seq(AnyEvent) /\ Len(Logged(n)) = Len(n)
    BY <1>3, EventsAre
  <2> QED BY <2>1, <2>2, <2>3
<1>6. /\ Len(m) \in Nat /\ Len(n) \in Nat /\ Len(m \o n) = Len(m) + Len(n)
      /\ \A k \in 1..Len(m) + Len(n) : (m \o n)[k] = IF k <= Len(m) THEN m[k] ELSE n[k - Len(m)]
  BY ConcatProperties, LenProperties
<1>7. /\ Logged(m) \o Logged(n) \in Seq(AnyEvent)
      /\ Len(Logged(m) \o Logged(n)) = Len(m) + Len(n)
      /\ \A k \in 1..Len(m) + Len(n) :
            (Logged(m) \o Logged(n))[k] = IF k <= Len(m) THEN Logged(m)[k] ELSE Logged(n)[k - Len(m)]
  <2>1. PICK p \in Seq(AnyEvent) : p = Logged(m)
    BY <1>5
  <2>2. PICK q \in Seq(AnyEvent) : q = Logged(n)
    BY <1>5
  <2>3. /\ p \o q \in Seq(AnyEvent) /\ Len(p \o q) = Len(p) + Len(q)
        /\ \A k \in 1..Len(p) + Len(q) : (p \o q)[k] = IF k <= Len(p) THEN p[k] ELSE q[k - Len(p)]
    BY ConcatProperties
  <2> QED BY <1>5, <2>1, <2>2, <2>3
<1>8. \A k \in 1..Len(m) + Len(n) : Logged(m \o n)[k] = (Logged(m) \o Logged(n))[k]
  <2> TAKE k \in 1..Len(m) + Len(n)
  <2>1. Logged(m \o n)[k] = (m \o n)[k].event
    BY <1>6 DEF Logged
  <2>2. CASE k <= Len(m)
    <3>1. Logged(m)[k] = m[k].event
      BY <1>6, <2>2 DEF Logged
    <3> QED BY <1>6, <1>7, <2>1, <2>2, <3>1
  <2>3. CASE ~(k <= Len(m))
    <3>1. k - Len(m) \in 1..Len(n)
      BY <1>6, <2>3
    <3>2. Logged(n)[k - Len(m)] = n[k - Len(m)].event
      BY <3>1 DEF Logged
    <3> QED BY <1>6, <1>7, <2>1, <2>3, <3>2
  <2> QED BY <2>2, <2>3
<1>9. Logged(m \o n) = Logged(m) \o Logged(n)
  BY <1>5, <1>6, <1>7, <1>8, SeqEqual
<1> QED BY <1>1, <1>5, <1>9

\* Where nothing is of the aggregate, there are none, and conversely.
LEMMA EventsNone ==
  ASSUME NEW i \in Ids, NEW s \in Seq(AnyDelivery)
  PROVE  (\A k \in 1..Len(s) : s[k].id # i) <=> EventsOf(i, s) = <<>>
<1>1. Len(s) \in Nat /\ \A k \in 1..Len(s) : s[k] \in AnyDelivery
  BY LenProperties, ElementOfSeq
<1>2. PICK m \in Seq(AnyDelivery) : m = Only(s, OfId(i))
  BY OnlyLists
<1>3. EventsOf(i, s) \in Seq(AnyEvent) /\ Len(EventsOf(i, s)) = Len(m)
  BY <1>2, EventsAre
<1>4. ASSUME \A k \in 1..Len(s) : s[k].id # i PROVE EventsOf(i, s) = <<>>
  <2>1. \A k \in 1..Len(s) : s[k] \notin OfId(i)
    BY <1>4 DEF OfId
  <2>2. m = <<>>
    BY <1>2, <2>1, OnlyNone
  <2>3. Len(EventsOf(i, s)) = 0
    BY <1>3, <2>2, EmptySeq
  <2> QED BY <1>3, <2>3, EmptySeq
<1>5. ASSUME EventsOf(i, s) = <<>>, NEW k \in 1..Len(s) PROVE s[k].id # i
  <2>1. PICK ix : Lists(m, s, OfId(i), Len(s), ix)
    BY <1>2, OnlyLists
  <2>2. Len(m) = 0
    BY <1>3, <1>5, EmptySeq
  <2>3. s[k] \notin OfId(i)
    BY <2>1, <2>2 DEF Lists
  <2> QED BY <1>1, <2>3 DEF OfId
<1> QED BY <1>4, <1>5

\* Where everything is of the aggregate, they are the events of all entries.
LEMMA EventsAll ==
  ASSUME NEW i \in Ids, NEW s \in Seq(AnyDelivery), \A k \in 1..Len(s) : s[k].id = i
  PROVE  EventsOf(i, s) = Logged(s)
<1>1. \A k \in 1..Len(s) : s[k] \in OfId(i)
  BY ElementOfSeq DEF OfId
<1>2. Only(s, OfId(i)) = s
  BY <1>1, OnlyAll
<1> QED BY <1>2, EventsAre

\* Every event of an aggregate stands in the outbox.
LEMMA EventsKnown ==
  ASSUME NEW i \in Ids, NEW s \in Seq(AnyDelivery), NEW n \in 1..Len(EventsOf(i, s))
  PROVE  EventsOf(i, s)[n] \in Known(s)
<1>1. PICK m \in Seq(AnyDelivery) : m = Only(s, OfId(i))
  BY OnlyLists
<1>2. EventsOf(i, s) = Logged(m) /\ Len(EventsOf(i, s)) = Len(m)
  BY <1>1, EventsAre
<1>3. PICK ix : Lists(m, s, OfId(i), Len(s), ix)
  BY <1>1, OnlyLists
<1>4. n \in 1..Len(m) /\ ix[n] \in 1..Len(s) /\ m[n] = s[ix[n]]
  BY <1>2, <1>3 DEF Lists
<1>5. EventsOf(i, s)[n] = s[ix[n]].event
  BY <1>2, <1>4 DEF Logged
<1> QED BY <1>4, <1>5 DEF Known

\* The outbox holds what it held and what was added.
LEMMA KnownConcat ==
  ASSUME NEW s \in Seq(AnyDelivery), NEW t \in Seq(AnyDelivery)
  PROVE  Known(s) \subseteq Known(s \o t) /\ Known(t) \subseteq Known(s \o t)
<1>1. /\ Len(s) \in Nat /\ Len(t) \in Nat /\ Len(s \o t) = Len(s) + Len(t)
      /\ \A n \in 1..Len(s) + Len(t) : (s \o t)[n] = IF n <= Len(s) THEN s[n] ELSE t[n - Len(s)]
  BY ConcatProperties, LenProperties
<1>2. \A n \in 1..Len(s) : n \in 1..Len(s \o t) /\ (s \o t)[n] = s[n]
  BY <1>1
<1>3. \A n \in 1..Len(t) : Len(s) + n \in 1..Len(s \o t) /\ (s \o t)[Len(s) + n] = t[n]
  <2> TAKE n \in 1..Len(t)
  <2>1. Len(s) + n \in 1..Len(s) + Len(t) /\ ~(Len(s) + n <= Len(s)) /\ Len(s) + n - Len(s) = n
    BY <1>1
  <2> QED BY <1>1, <2>1
<1> HIDE <1>1
<1>4. Known(s) \subseteq Known(s \o t)
  BY <1>2 DEF Known
<1>5. Known(t) \subseteq Known(s \o t)
  BY <1>3 DEF Known
<1> QED BY <1>4, <1>5

-----------------------------------------------------------------------------
(* Held is kept: what run() does outside the work callback *)

\* Instances, tokens, and the enrolled instances.
Shape(r, O, T, A) ==
    /\ O \in Seq(Instances(r)) /\ Len(O) \in Nat /\ \A o \in 1..Len(O) : O[o] \in Instances(r)
    /\ T \in Seq(Tokens) /\ Len(T) \in Nat /\ \A k \in 1..Len(T) : T[k].obj \in 1..Len(O)
    /\ A \in Seq(Instances(r)) /\ Len(A) = Len(T)
    /\ \A k \in 1..Len(T) : A[k] = O[T[k].obj] /\ A[k] \in Instances(r)

\* They have their types.
LEMMA TakenOk ==
  ASSUME NEW r, NEW O \in Seq(Instances(r)), NEW T \in Seq(Tokens),
         \A k \in 1..Len(T) : T[k].obj \in 1..Len(O)
  PROVE  Shape(r, O, T, Taken(O, T))
<1>1. /\ Len(O) \in Nat /\ \A o \in 1..Len(O) : O[o] \in Instances(r)
      /\ Len(T) \in Nat
  BY LenProperties, ElementOfSeq
<1>2. Taken(O, T) \in [1..Len(T) -> Instances(r)]
  BY <1>1 DEF Taken
<1>3. Taken(O, T) \in Seq(Instances(r)) /\ Len(Taken(O, T)) = Len(T)
  BY <1>1, <1>2, SeqDef, LenProperties
<1>4. \A k \in 1..Len(T) : Taken(O, T)[k] = O[T[k].obj]
  BY DEF Taken
<1> QED BY <1>1, <1>3, <1>4 DEF Shape

\* What an instance is made of.
LEMMA InstanceParts ==
  ASSUME NEW r \in Runs, NEW a \in Instances(r)
  PROVE  /\ a.id \in Ids /\ a.version \in Nat /\ a.persisted \in Nat /\ a.loaded \in BOOLEAN
         /\ a.log \in Seq(AnyEvent) /\ a.pending \in Seq(Own(r)) /\ a.pending \in Seq(AnyEvent)
<1>1. Own(r) \subseteq AnyEvent
  BY DEF Own, AnyEvent
<1>2. a.pending \in Seq(Own(r))
  BY DEF Instances
<1> QED BY <1>1, <1>2, SeqMonotonic DEF Instances

\* The parts of a run.
LEMMA HeldShape ==
  ASSUME Control, NEW r \in Runs
  PROVE  Shape(r, objs[r], session[r].tokens, Taken(objs[r], session[r].tokens))
<1> DEFINE T == session[r].tokens
<1>1. /\ objs[r] \in Seq(Instances(r)) /\ T \in Seq(Tokens)
      /\ \A k \in 1..Len(T) : T[k].obj \in 1..Len(objs[r])
  BY Parts DEF SessionOk, Sessions
<1> QED BY <1>1, TakenOk

\* What the second layer says of one run.
LEMMA HeldParts ==
  ASSUME Held, NEW r \in Runs
  PROVE  HeldOk(run[r], session[r], objs[r], tx[r], rows, Known(outbox))
  BY DEF Held

\* A step of r that commits nothing keeps it if it does for r.
LEMMA HeldMoves ==
  ASSUME Control, Held, NEW r \in Runs, NEW c, NEW s, NEW O, NEW x, Moves(r, c, s, O, x),
         UNCHANGED <<rows, outbox>>, bus' \subseteq Known(outbox),
         HeldOk(c, s, O, x, rows, Known(outbox))
  PROVE  Held'
<1>1. /\ run'[r] = c /\ session'[r] = s /\ objs'[r] = O /\ tx'[r] = x
      /\ \A q \in Runs \ {r} : /\ run'[q] = run[q] /\ session'[q] = session[q]
                               /\ objs'[q] = objs[q] /\ tx'[q] = tx[q]
  BY DEF Control, Moves
<1>2. \A q \in Runs : HeldOk(run'[q], session'[q], objs'[q], tx'[q], rows, Known(outbox))
  <2> TAKE q \in Runs
  <2>1. CASE q = r
    BY <1>1, <2>1
  <2>2. CASE q # r
    BY <1>1, <2>2, HeldParts
  <2> QED BY <2>1, <2>2
<1>3. Database(rows, outbox)
  BY DEF Held
<1>4. outbox' = outbox /\ rows' = rows /\ Known(outbox)' = Known(outbox)
  BY DEF Known
<1>5. Database(rows, outbox)'
  BY <1>3, <1>4
<1>6. bus' \subseteq Known(outbox')
  BY <1>4
<1>7. \A q \in Runs : HeldOk(run'[q], session'[q], objs'[q], tx'[q], rows', Known(outbox'))
  BY <1>2, <1>4
<1> QED BY <1>5, <1>6, <1>7 DEF Held

\* A run that works on nothing holds nothing it could lose.
LEMMA LeftHeld ==
  ASSUME NEW c, NEW s, NEW O, NEW x, NEW rws, NEW known, HeldOk(c, s, O, x, rws, known),
         NEW d, NEW t, NEW y, t.tokens = s.tokens,
         d.pc \notin InTransaction \cup {"committed"}, d.outcome # "resolved"
  PROVE  HeldOk(d, t, O, y, rws, known)
<1> DEFINE A == Taken(O, s.tokens)
<1>1. TokensOk(t.tokens) /\ d.pc \notin InTransaction /\ d.pc # "work" /\ d.pc # "harvested"
  BY DEF HeldOk, InTransaction
<1>2. ConsumedOk(c, s.tokens, A, O, x.out, known)
  BY DEF HeldOk
<1> HIDE DEF A
<1>3. ConsumedOk(d, s.tokens, A, O, y.out, known)
  BY <1>2 DEF ConsumedOk, Finishing, InTransaction
<1> QED BY <1>1, <1>3 DEF HeldOk, A

\* A failure.
LEMMA FailHeld ==
  ASSUME Control, Held, setup' = setup, NEW r \in Runs, NEW error, NEW threw,
         ScopeRejects(r, error, threw), run[r].pc # "settled"
  PROVE  Held'
<1> DEFINE c == [run[r] EXCEPT !.pc = IF Retryable(error) /\ run[r].attempt < MaxAttempts
                                       THEN "backoff" ELSE "failed",
                               !.error = error, !.threw = threw]
           x == [rows |-> <<>>, out |-> <<>>]
<1>1. Moves(r, c, session[r], objs[r], x)
  BY Parts DEF ScopeRejects, Moves, Control
<1>2. run[r] \in Controls /\ run[r].outcome = None
  BY Parts DEF BlameOk
<1>3. c.pc \in {"backoff", "failed"} /\ c.outcome = None
  BY <1>2 DEF Controls
<1> HIDE DEF c, x
<1>4. c.pc \notin InTransaction \cup {"committed"} /\ c.outcome # "resolved"
  BY <1>3 DEF InTransaction, None
<1>5. HeldOk(c, session[r], objs[r], x, rows, Known(outbox))
  BY <1>4, HeldParts, LeftHeld
<1>6. UNCHANGED <<rows, outbox, bus>> /\ bus' \subseteq Known(outbox)
  BY DEF ScopeRejects, Held
<1> QED BY <1>1, <1>5, <1>6, HeldMoves

\* A throw.
LEMMA ThrowHeld ==
  ASSUME Control, Held, setup' = setup, NEW r \in Runs, NEW error, Throw(r, error),
         run[r].pc # "settled"
  PROVE  Held'
  BY FailHeld DEF Throw

\* A change of the control state alone, outside a transaction.
LEMMA TurnHeld ==
  ASSUME Control, Held, setup' = setup, NEW r \in Runs, NEW c, run' = [run EXCEPT ![r] = c],
         UNCHANGED <<rows, outbox, session, objs, tx, bus>>,
         c.pc \notin InTransaction \cup {"committed"}, c.outcome # "resolved"
  PROVE  Held'
<1>1. Moves(r, c, session[r], objs[r], tx[r])
  BY Parts DEF Moves, Control
<1>2. HeldOk(c, session[r], objs[r], tx[r], rows, Known(outbox))
  BY HeldParts, LeftHeld
<1>3. bus' \subseteq Known(outbox)
  BY DEF Held
<1> QED BY <1>1, <1>2, <1>3, HeldMoves

\* Start and the end of a backoff.
LEMMA TurnsHeld ==
  ASSUME Control, Held, setup' = setup, NEW r \in Runs, Start(r) \/ Wake(r)
  PROVE  Held'
<1>1. run[r] \in Controls /\ run = [q \in Runs |-> run[q]] /\ run[r].outcome = None
  BY Parts DEF BlameOk, Control, Start, Wake
<1>2. CASE Start(r)
  <2> DEFINE outcome == IF run[r].aborted THEN "aborted" ELSE "nested"
             c == IF run[r].aborted \/ ~Admits(r)
                  THEN [run[r] EXCEPT !.pc = "settled", !.outcome = outcome]
                  ELSE [run[r] EXCEPT !.pc = "opening", !.attempt = 1]
  <2>1. run' = [run EXCEPT ![r] = c]
    BY <1>1, <1>2 DEF Start
  <2>2. c.pc \in {"settled", "opening"} /\ c.outcome \in {"aborted", "nested", None}
    BY <1>1 DEF Controls
  <2> HIDE DEF c
  <2>3. c.pc \notin InTransaction \cup {"committed"} /\ c.outcome # "resolved"
    BY <2>2 DEF InTransaction, None
  <2> QED BY <1>2, <2>1, <2>3, TurnHeld DEF Start
<1>3. CASE Wake(r)
  <2> DEFINE c == IF run[r].aborted
                  THEN [run[r] EXCEPT !.pc = "failed", !.error = "aborted"]
                  ELSE [run[r] EXCEPT !.pc = "opening", !.attempt = @ + 1]
  <2>1. run' = [run EXCEPT ![r] = c]
    BY <1>1, <1>3 DEF Wake
  <2>2. c.pc \in {"failed", "opening"} /\ c.outcome = None
    BY <1>1 DEF Controls
  <2> HIDE DEF c
  <2>3. c.pc \notin InTransaction \cup {"committed"} /\ c.outcome # "resolved"
    BY <2>2 DEF InTransaction, None
  <2> QED BY <1>3, <2>1, <2>3, TurnHeld DEF Wake
<1> QED BY <1>2, <1>3

\* Abort.
LEMMA AbortHeld ==
  ASSUME Control, Held, setup' = setup, NEW r \in Runs, Abort(r)
  PROVE  Held'
<1> DEFINE c == [run[r] EXCEPT !.aborted = TRUE]
<1>1. Moves(r, c, session[r], objs[r], tx[r]) /\ UNCHANGED <<rows, outbox, bus>>
  BY Parts DEF Moves, Control, Abort
<1>2. c.pc = run[r].pc /\ c.outcome = run[r].outcome
  BY Parts DEF Controls
<1> HIDE DEF c
<1>3. HeldOk(run[r], session[r], objs[r], tx[r], rows, Known(outbox))
  BY HeldParts
<1>4. HeldOk(c, session[r], objs[r], tx[r], rows, Known(outbox))
  BY <1>2, <1>3 DEF HeldOk, ConsumedOk, Finishing
<1>5. bus' \subseteq Known(outbox)
  BY <1>1 DEF Held
<1> QED BY <1>1, <1>4, <1>5, HeldMoves

\* A run settles: rejected, or resolved after its commit.
LEMMA SettleHeld ==
  ASSUME Control, Held, setup' = setup, NEW r \in Runs, NEW outcome, Settle(r, outcome),
         UNCHANGED <<rows, outbox, objs, tx>>, bus' \subseteq Known(outbox),
         run[r].pc = "committed" \/ outcome # "resolved"
  PROVE  Held'
<1> DEFINE c == [run[r] EXCEPT !.pc = "settled", !.outcome = outcome]
           s == Closed(session[r])
<1>1. Moves(r, c, s, objs[r], tx[r])
  BY Parts DEF Moves, Control, Settle
<1>2. c.pc = "settled" /\ c.outcome = outcome /\ s.tokens = session[r].tokens
  BY Parts DEF Controls, Closed, NewSession
<1> HIDE DEF c, s
<1>3. HeldOk(run[r], session[r], objs[r], tx[r], rows, Known(outbox))
  BY HeldParts
<1>4. HeldOk(c, s, objs[r], tx[r], rows, Known(outbox))
  <2>1. CASE outcome # "resolved"
    <3>1. c.pc \notin InTransaction \cup {"committed"} /\ c.outcome # "resolved"
      BY <1>2, <2>1 DEF InTransaction
    <3> QED BY <1>2, <1>3, <3>1, LeftHeld
  <2>2. CASE run[r].pc = "committed"
    <3> DEFINE A == Taken(objs[r], session[r].tokens)
    <3>1. /\ TokensOk(s.tokens) /\ c.pc \notin InTransaction /\ c.pc # "work" /\ c.pc # "harvested"
          /\ ConsumedOk(run[r], session[r].tokens, A, objs[r], tx[r].out, Known(outbox))
          /\ A = Taken(objs[r], s.tokens)
      BY <1>2, <1>3 DEF HeldOk, InTransaction
    <3> HIDE DEF A
    <3>2. ConsumedOk(c, s.tokens, A, objs[r], tx[r].out, Known(outbox))
      BY <1>2, <2>2, <3>1 DEF ConsumedOk, Finishing
    <3> QED BY <3>1, <3>2 DEF HeldOk
  <2> QED BY <2>1, <2>2
<1> QED BY <1>1, <1>4, HeldMoves

\* A rejection.
LEMMA RejectHeld ==
  ASSUME Control, Held, setup' = setup, NEW r \in Runs, Reject(r)
  PROVE  Held'
<1>1. PICK outcome \in Errors \cup {"CommitError", "RollbackError"} : Settle(r, outcome)
  BY DEF Reject
<1>2. outcome # "resolved" /\ UNCHANGED <<rows, outbox, objs, tx>> /\ bus' \subseteq Known(outbox)
  BY DEF Reject, Errors, Held
<1> QED BY <1>1, <1>2, SettleHeld

\* What a committed run publishes is in the outbox.
LEMMA PublishHeld ==
  ASSUME Control, Held, setup' = setup, NEW r \in Runs, Publish(r)
  PROVE  Held'
<1>1. run[r].pc = "committed" /\ Settle(r, "resolved") /\ UNCHANGED <<rows, outbox, objs, tx>>
  BY DEF Publish
<1>2. tx[r].out \in Seq(Deliveries(r)) /\ Known(tx[r].out) \subseteq Known(outbox)
      /\ bus \subseteq Known(outbox)
  BY <1>1, Parts, HeldParts DEF TxOk, HeldOk, ConsumedOk, Held
<1>3. {e.event : e \in ToSet(tx[r].out)} = Known(tx[r].out)
  BY <1>2, LenProperties DEF ToSet, Known
<1>4. bus' \subseteq Known(outbox)
  BY <1>2, <1>3 DEF Publish
<1> QED BY <1>1, <1>4, SettleHeld

\* A transaction opens with nothing in its hands.
LEMMA OpenHeld ==
  ASSUME Control, Held, setup' = setup, NEW r \in Runs, OpenTransaction(r)
  PROVE  Held'
<1> DEFINE c == [run[r] EXCEPT !.pc = "work", !.completed = FALSE, !.threw = None, !.events = 0]
           s == NewSession
<1>1. /\ run[r] \in Controls /\ run = [q \in Runs |-> run[q]]
      /\ session = [q \in Runs |-> session[q]] /\ objs = [q \in Runs |-> objs[q]]
      /\ TxOk(r, run[r], tx[r]) /\ run[r].pc = "opening" /\ run[r].outcome = None
      /\ tx = [tx EXCEPT ![r] = tx[r]]
  BY Parts DEF Control, OpenTransaction, BlameOk
<1>2. Moves(r, c, s, <<>>, tx[r]) /\ UNCHANGED <<rows, outbox, bus>>
  BY <1>1 DEF Moves, OpenTransaction
<1>3. c.pc = "work" /\ c.outcome = None /\ DOMAIN tx[r].rows = {}
  BY <1>1 DEF Controls, TxOk
<1>4. /\ s.tokens = <<>> /\ s.open /\ s.tombs = {} /\ \A o \in DOMAIN s.base : s.base[o] = 0
  BY DEF NewSession
<1> HIDE DEF c, s
<1> DEFINE A == Taken(<<>>, s.tokens)
<1>5. Len(s.tokens) = 0 /\ A = <<>> /\ Len(<<>>) = 0
  BY <1>4, EmptySeq DEF Taken
<1> HIDE DEF A
<1>6. TokensOk(s.tokens) /\ ChainOk(A, tx[r].rows) /\ WritesOk(s.tokens, A, tx[r].rows)
  BY <1>3, <1>5 DEF TokensOk, ChainOk, WritesOk
<1>7. WorkOk(s, A, <<>>, tx[r].rows, rows)
  <2>1. Gone(s.tokens, A) = {}
    BY <1>5 DEF Gone
  <2> QED BY <1>4, <1>5, <2>1 DEF WorkOk
<1>8. ConsumedOk(c, s.tokens, A, <<>>, tx[r].out, Known(outbox))
  BY <1>3, <1>5 DEF ConsumedOk, Finishing, None
<1>9. \A o \in 1..Len(<<>>) : Grown(<<>>[o])
  BY <1>5
<1>10. HeldOk(c, s, <<>>, tx[r], rows, Known(outbox))
  BY <1>3, <1>6, <1>7, <1>8, <1>9 DEF HeldOk, A
<1>11. bus' \subseteq Known(outbox)
  BY <1>2 DEF Held
<1> QED BY <1>2, <1>10, <1>11, HeldMoves

\* Whether an instance has a token.
LEMMA EnrolledIs ==
  ASSUME NEW s, s.tokens \in Seq(Tokens), NEW o \in Nat
  PROVE  /\ Enrolled(s, o) <=> InTokens(s.tokens, o)
         /\ MarkedDeleted(s, o) <=>
               \E k \in 1..Len(s.tokens) : s.tokens[k].obj = o /\ s.tokens[k].deleted
<1>1. Enrollment(s, o)
  BY TokenLists
<1>2. Enrolled(s, o) <=> \E k \in 1..Len(s.tokens) : s.tokens[k].obj = o
  BY <1>1 DEF Enrollment
<1>3. MarkedDeleted(s, o) <=>
        \E k \in 1..Len(s.tokens) : s.tokens[k].obj = o /\ s.tokens[k].deleted
  BY <1>1 DEF Enrollment
<1> QED BY <1>2, <1>3 DEF InTokens

\* The callback returns: what is not enrolled has nothing to lose.
LEMMA ReturnHeld ==
  ASSUME Control, Held, setup' = setup, NEW r \in Runs, WorkReturns(r)
  PROVE  Held'
<1> DEFINE T == session[r].tokens
           O == objs[r]
           A == Taken(O, T)
<1>1. /\ run[r].pc = "work" /\ run[r] \in Controls /\ run[r].outcome = None
      /\ run = [q \in Runs |-> run[q]] /\ session = [q \in Runs |-> session[q]]
      /\ objs = [objs EXCEPT ![r] = objs[r]] /\ tx = [tx EXCEPT ![r] = tx[r]]
      /\ SessionOk(setup, session[r], O)
      /\ Len(O) <= setup.maxObjects /\ setup.maxObjects \in Nat
  BY Parts, SetupTypes DEF WorkReturns, Working, Control, BlameOk
<1>2. CASE Throw(r, "unenrolled")
  BY <1>1, <1>2, ThrowHeld
<1>3. CASE /\ Forgotten(r) = {}
           /\ run' = [run EXCEPT ![r].pc = "sealed", ![r].completed = TRUE]
           /\ session' = [session EXCEPT ![r] = Closed(@)]
           /\ UNCHANGED <<rows, outbox, active, objs, tx, bus, faults>>
  <2> DEFINE c == [run[r] EXCEPT !.pc = "sealed", !.completed = TRUE]
             s == Closed(session[r])
  <2>1. Moves(r, c, s, O, tx[r]) /\ UNCHANGED <<rows, outbox, bus>>
    BY <1>1, <1>3 DEF Moves
  <2>2. c.pc = "sealed" /\ c.outcome = None /\ s.tokens = T
    BY <1>1 DEF Controls, Closed, NewSession
  <2> HIDE DEF c, s
  <2>3. Shape(r, O, T, A)
    BY HeldShape
  <2>4. /\ TokensOk(T) /\ \A o \in 1..Len(O) : Grown(O[o])
        /\ ChainOk(A, tx[r].rows) /\ WritesOk(T, A, tx[r].rows)
        /\ WorkOk(session[r], A, O, tx[r].rows, rows)
        /\ ConsumedOk(run[r], T, A, O, tx[r].out, Known(outbox))
    BY <1>1, HeldParts DEF HeldOk, InTransaction
  <2>5. DOMAIN session[r].base = 1..setup.maxObjects /\ session[r].tokens \in Seq(Tokens)
    BY <1>1 DEF SessionOk, Sessions
  <2>6. ASSUME NEW o \in 1..Len(O), O[o].loaded, O[o].id \notin Gone(T, A)
        PROVE  InTokens(T, o) \/ O[o].pending = <<>>
    <3>1. O[o] \in Instances(r) /\ o \in Nat
      BY <2>3 DEF Shape
    <3>2. O[o].id \in Ids /\ O[o].pending \in Seq(Own(r))
      BY <3>1, InstanceParts
    <3>3. session[r].map[O[o].id] = o /\ session[r].base[o] = 0
      <4>1. Current(session[r], O, o) /\ \A p \in DOMAIN session[r].base : session[r].base[p] = 0
        BY <2>4, <2>6 DEF WorkOk
      <4>2. o \in DOMAIN session[r].base
        BY <1>1, <2>3, <2>5 DEF Shape
      <4> QED BY <2>6, <4>1, <4>2 DEF Current
    <3>4. ~(Len(O[o].pending) > 0 /\ ~Enrolled(session[r], o))
      <4>1. O[o].id \notin Forgotten(r)
        BY <1>3
      <4> QED BY SMTT(40), <3>1, <3>2, <3>3, <4>1 DEF Forgotten
    <3>5. Enrolled(session[r], o) <=> InTokens(T, o)
      BY <2>5, <3>1, EnrolledIs
    <3>6. O[o].pending = <<>> \/ Len(O[o].pending) > 0
      BY <3>2, EmptySeq
    <3> QED BY <3>4, <3>5, <3>6
  <2>7. ConsumedOk(c, T, A, O, tx[r].out, Known(outbox))
    <3> HIDE DEF T, A, O
    <3> QED BY <2>2, <2>4, <2>6 DEF ConsumedOk, Finishing, None
  <2>8. HeldOk(c, s, O, tx[r], rows, Known(outbox))
    BY <2>2, <2>4, <2>7 DEF HeldOk
  <2>9. bus' \subseteq Known(outbox)
    BY <2>1 DEF Held
  <2> HIDE DEF T, A, O
  <2> QED BY <2>1, <2>8, <2>9, HeldMoves
<1> QED BY <1>2, <1>3 DEF WorkReturns

\* An acknowledgement drops events that the outbox holds.
LEMMA AcknowledgeHeld ==
  ASSUME Control, Held, setup' = setup, NEW r \in Runs, NEW frozen, Acknowledge(r, frozen)
  PROVE  Held'
<1> DEFINE c == [run[r] EXCEPT !.acked = TRUE]
           s == session[r]
           T == s.tokens
           O == objs[r]
           P == Acked(s, O, frozen)
           A == Taken(O, T)
           B == Taken(P, T)
           known == Known(outbox)
<1>1. /\ run[r].pc = "committed" /\ Moves(r, c, s, P, tx[r]) /\ UNCHANGED <<rows, outbox, bus>>
  BY AcknowledgeForm
<1>2. c.pc = "committed" /\ c.outcome = run[r].outcome
  BY <1>1, Parts DEF Controls
<1>3. Shape(r, O, T, A)
  BY HeldShape
<1>4. /\ P \in Seq(Instances(r)) /\ Len(P) = Len(O)
      /\ \A o \in 1..Len(O) : P[o] = AfterAck(s, o, O[o], frozen) /\ StaysInstance(r, O[o], P[o])
  <2>1. PICK S \in Seq(Instances(r)) : S = O
    BY <1>3 DEF Shape
  <2>2. PICK u : u = s
    OBVIOUS
  <2>3. P = Acked(u, S, frozen)
    BY <2>1, <2>2
  <2> HIDE DEF O, s, P
  <2>4. /\ P \in Seq(Instances(r)) /\ Len(P) = Len(S)
        /\ \A o \in 1..Len(S) : P[o] = AfterAck(u, o, S[o], frozen) /\ StaysInstance(r, S[o], P[o])
    BY <2>3, AckedOk
  <2> QED BY <2>1, <2>2, <2>4
<1>5. HeldOk(run[r], s, O, tx[r], rows, known)
  BY HeldParts
<1> HIDE DEF c, s, O, P, known
<1>6. Shape(r, P, T, B)
  BY <1>3, <1>4, TakenOk DEF Shape
<1>7. ConsumedOk(run[r], T, A, O, tx[r].out, known) /\ TokensOk(T)
  BY <1>5 DEF HeldOk
<1>8. \A o \in 1..Len(O) :
         /\ P[o].id = O[o].id /\ P[o].log = O[o].log /\ P[o].loaded = O[o].loaded
         /\ P[o] = O[o] \/ (InTokens(T, o) /\ P[o].pending = <<>>)
  <2> TAKE o \in 1..Len(O)
  <2>1. PICK a \in Instances(r) : a = O[o]
    BY <1>3 DEF Shape
  <2>2. \/ AfterAck(s, o, a, frozen) = a
        \/ Enrolled(s, o) /\ AfterAck(s, o, a, frozen).pending = <<>>
    BY AfterAckPending
  <2>3. o \in Nat /\ T \in Seq(Tokens)
    BY <1>3 DEF Shape
  <2>4. Enrolled(s, o) <=> InTokens(T, o)
    BY <2>3, EnrolledIs
  <2> QED BY <1>4, <2>1, <2>2, <2>4 DEF StaysInstance
<1> HIDE DEF T, A, B
<1>9. \A o \in 1..Len(O) : Pending(P[o]) \subseteq Pending(O[o]) /\ Reflected(P[o]) = Reflected(O[o])
  <2> TAKE o \in 1..Len(O)
  <2>1. Reflected(P[o]) = Reflected(O[o])
    BY <1>8 DEF Reflected
  <2>2. CASE P[o] = O[o]
    BY <2>1, <2>2
  <2>3. CASE P[o].pending = <<>>
    <3>1. Pending(P[o]) = {}
      BY <2>3, EmptySeq DEF Pending
    <3> QED BY <2>1, <3>1
  <2> QED BY <1>8, <2>2, <2>3
<1>10. \A k \in 1..Len(T) : /\ Pending(A[k]) \subseteq known /\ Pending(B[k]) \subseteq known
                            /\ B[k].id = A[k].id
  <2> TAKE k \in 1..Len(T)
  <2>1. Pending(A[k]) \subseteq known
    BY <1>1, <1>3, <1>7 DEF ConsumedOk, Finishing, Shape
  <2>2. T[k].obj \in 1..Len(O) /\ A[k] = O[T[k].obj] /\ B[k] = P[T[k].obj]
    BY <1>3, <1>6 DEF Shape
  <2> QED BY <1>8, <1>9, <2>1, <2>2
<1>11. ConsumedOk(c, T, B, P, tx[r].out, known)
  <2>1. \A o \in 1..Len(P) : \A e \in Reflected(P[o]) : e \in Pending(P[o]) \/ Covered(e, B, known)
    <3> SUFFICES ASSUME NEW o \in 1..Len(P), NEW e \in Reflected(P[o])
                 PROVE  e \in Pending(P[o]) \/ e \in known
      BY DEF Covered
    <3>1. o \in 1..Len(O) /\ e \in Reflected(O[o])
      BY <1>4, <1>9
    <3>2. e \in Pending(O[o]) \/ Covered(e, A, known)
      BY <1>7, <3>1 DEF ConsumedOk
    <3>3. CASE Covered(e, A, known)
      BY <1>3, <1>10, <3>3 DEF Covered, Shape
    <3>4. CASE e \in Pending(O[o]) /\ P[o] = O[o]
      BY <3>4
    <3>5. CASE e \in Pending(O[o]) /\ InTokens(T, o)
      <4>1. PICK k \in 1..Len(T) : A[k] = O[o]
        BY <1>3, <3>5 DEF InTokens, Shape
      <4> QED BY <1>10, <3>5, <4>1
    <3> QED BY <1>8, <3>1, <3>2, <3>3, <3>4, <3>5
  <2>2. Known(tx[r].out) \subseteq known
    BY <1>1, <1>7 DEF ConsumedOk
  <2>3. \A k \in 1..Len(B) : Pending(B[k]) \subseteq known
    BY <1>6, <1>10 DEF Shape
  <2>4. ASSUME NEW o \in 1..Len(P), P[o].loaded, P[o].id \notin Gone(T, B)
        PROVE  InTokens(T, o) \/ P[o].pending = <<>>
    <3>1. o \in 1..Len(O) /\ O[o].loaded /\ O[o].id = P[o].id
      BY <1>4, <1>8, <2>4
    <3>2. O[o].id \notin Gone(T, A)
      BY <1>10, <2>4, <3>1 DEF Gone
    <3>3. InTokens(T, o) \/ O[o].pending = <<>>
      BY <1>1, <1>7, <3>1, <3>2 DEF ConsumedOk, Finishing
    <3> QED BY <1>8, <3>1, <3>3
  <2> QED BY <1>2, <2>1, <2>2, <2>3, <2>4 DEF ConsumedOk
<1>12. HeldOk(c, s, P, tx[r], rows, known)
  <2>1. c.pc \notin InTransaction /\ c.pc # "work" /\ c.pc # "harvested"
    BY <1>2 DEF InTransaction
  <2> QED BY <1>7, <1>11, <2>1 DEF HeldOk, T, B
<1>13. bus' \subseteq known
  BY <1>1 DEF Held, known
<1> QED BY <1>1, <1>12, <1>13, HeldMoves DEF known

-----------------------------------------------------------------------------
(* Held is kept: instances are loaded, created and changed *)

\* The enrolled instances stay the same while their instances do.
LEMMA TakenSame ==
  ASSUME NEW O, NEW P, NEW T, \A k \in 1..Len(T) : P[T[k].obj] = O[T[k].obj]
  PROVE  Taken(P, T) = Taken(O, T)
  BY DEF Taken

\* Every reflected event is pending or covered.
AllCovered(A, O, known) ==
    \A o \in 1..Len(O) : \A e \in Reflected(O[o]) : e \in Pending(O[o]) \/ Covered(e, A, known)

\* What the second layer says of a run at work.
WorkHeld(s, T, A, O, W, known) ==
    /\ TokensOk(T) /\ (\A o \in 1..Len(O) : Grown(O[o]))
    /\ ChainOk(A, W) /\ WritesOk(T, A, W) /\ WorkOk(s, A, O, W, rows)
    /\ AllCovered(A, O, known)

\* It says that.
LEMMA WorkParts ==
  ASSUME Control, Held, NEW r \in Runs, run[r].pc = "work"
  PROVE  /\ WorkHeld(session[r], session[r].tokens, Taken(objs[r], session[r].tokens), objs[r],
                     tx[r].rows, Known(outbox))
         /\ run[r].outcome = None
<1>1. HeldOk(run[r], session[r], objs[r], tx[r], rows, Known(outbox)) /\ run[r].outcome = None
  BY HeldParts, Parts DEF BlameOk
<1> QED BY <1>1 DEF HeldOk, WorkHeld, InTransaction, ConsumedOk, AllCovered

\* And nothing more.
LEMMA WorkMoves ==
  ASSUME Control, Held, NEW r \in Runs, NEW c, NEW s, NEW O, NEW x, Moves(r, c, s, O, x),
         UNCHANGED <<rows, outbox, bus>>, c.pc = "work", c.outcome = None,
         WorkHeld(s, s.tokens, Taken(O, s.tokens), O, x.rows, Known(outbox))
  PROVE  Held'
<1>1. ConsumedOk(c, s.tokens, Taken(O, s.tokens), O, x.out, Known(outbox))
  BY DEF WorkHeld, ConsumedOk, AllCovered, Finishing, None
<1>2. HeldOk(c, s, O, x, rows, Known(outbox))
  BY <1>1 DEF WorkHeld, HeldOk
<1>3. bus' \subseteq Known(outbox)
  BY DEF Held
<1> QED BY <1>2, <1>3, HeldMoves

\* What a run at work reads: its own write, of an enrolled instance, or the row.
LEMMA VisibleHeld ==
  ASSUME Control, Held, NEW r \in Runs, run[r].pc = "work", NEW id \in Ids,
         NEW T, T = session[r].tokens, NEW A, A = Taken(objs[r], T), NEW W, W = tx[r].rows
  PROVE  /\ id \in DOMAIN W => Visible(r, id) = W[id]
         /\ id \in DOMAIN W => \E k \in 1..Len(T) : LastOf(T, A, id, k) /\ WrittenFrom(W[id], T[k], A[k])
         /\ id \notin DOMAIN W => Visible(r, id) = rows[id]
         /\ \A n \in 1..Len(Visible(r, id).log) : Covered(Visible(r, id).log[n], A, Known(outbox))
         /\ Visible(r, id).v > 0 => Visible(r, id).log # <<>>
<1>1. Shape(r, objs[r], T, A) /\ WorkHeld(session[r], T, A, objs[r], W, Known(outbox))
  BY HeldShape, WorkParts
<1>2. Database(rows, outbox) /\ outbox \in Seq(AnyDelivery) /\ rows \in [Ids -> Rows]
  BY DEF Held, Control
<1>3. CASE id \in DOMAIN W
  <2>1. Visible(r, id) = W[id]
    BY <1>3 DEF Visible
  <2>2. PICK k \in 1..Len(T) : LastOf(T, A, id, k) /\ WrittenFrom(W[id], T[k], A[k])
    BY <1>1, <1>3 DEF WorkHeld, WritesOk
  <2>3. /\ T[k].obj \in 1..Len(objs[r]) /\ A[k] = objs[r][T[k].obj] /\ A[k] \in Instances(r)
        /\ k \in 1..Len(A)
    BY <1>1 DEF Shape
  <2>4. /\ Grown(A[k])
        /\ \A e \in Reflected(A[k]) : e \in Pending(A[k]) \/ Covered(e, A, Known(outbox))
    BY SMTT(40), <1>1, <2>3 DEF WorkHeld, AllCovered
  <2>5. Visible(r, id).log = A[k].log /\ A[k].log # <<>>
    BY ZenonT(60), <2>1, <2>2, <2>4 DEF WrittenFrom, Grown
  <2>6. \A e \in Reflected(A[k]) : Covered(e, A, Known(outbox))
    BY <2>3, <2>4 DEF Covered
  <2>7. \A n \in 1..Len(Visible(r, id).log) : Covered(Visible(r, id).log[n], A, Known(outbox))
    BY <2>5, <2>6 DEF Reflected
  <2> QED BY <1>3, <2>1, <2>2, <2>5, <2>7
<1>4. CASE id \notin DOMAIN W
  <2>1. Visible(r, id) = rows[id]
    BY <1>4 DEF Visible
  <2>2. rows[id].log = EventsOf(id, outbox) /\ (rows[id].v > 0 => rows[id].log # <<>>)
    BY <1>2 DEF Database
  <2>3. \A n \in 1..Len(EventsOf(id, outbox)) : EventsOf(id, outbox)[n] \in Known(outbox)
    BY <1>2, EventsKnown
  <2> QED BY <1>4, <2>1, <2>2, <2>3 DEF Covered
<1> QED BY <1>3, <1>4

\* One more instance leaves the enrolled ones alone.
LEMMA OneMoreInstance ==
  ASSUME NEW r, NEW O, NEW T, NEW A, Shape(r, O, T, A), A = Taken(O, T), NEW a \in Instances(r)
  PROVE  /\ Taken(Append(O, a), T) = A /\ Len(Append(O, a)) = Len(O) + 1
         /\ Append(O, a)[Len(O) + 1] = a
         /\ \A o \in 1..Len(O) : Append(O, a)[o] = O[o]
         /\ ~InTokens(T, Len(O) + 1)
<1>1. /\ Len(Append(O, a)) = Len(O) + 1 /\ Append(O, a)[Len(O) + 1] = a /\ Len(O) \in Nat
      /\ \A o \in 1..Len(O) : Append(O, a)[o] = O[o]
  BY OneMore DEF Shape
<1>2. T \in Seq(Tokens) /\ \A k \in 1..Len(T) : T[k].obj \in 1..Len(O)
  BY DEF Shape
<1>3. PICK P : P = Append(O, a)
  OBVIOUS
<1>4. Taken(P, T) = Taken(O, T)
  BY <1>1, <1>2, <1>3, TakenSame
<1>5. ~InTokens(T, Len(O) + 1)
  BY <1>1, <1>2 DEF InTokens
<1> QED BY <1>1, <1>2, <1>3, <1>4, <1>5

\* A load registers the instance of a row, or of the transaction's own write.
LEMMA LoadHeld ==
  ASSUME Control, Held, setup' = setup, NEW r \in Runs, NEW id \in Ids, Load(r, id)
  PROVE  Held'
<1> DEFINE T == session[r].tokens
           A == Taken(objs[r], T)
           W == tx[r].rows
           known == Known(outbox)
           n == Len(objs[r]) + 1
           a == Object(id, Visible(r, id))
           O == Append(objs[r], a)
           s == [session[r] EXCEPT !.map[id] = n, !.base[n] = 0]
<1>1. /\ run[r].pc = "work" /\ objs = [q \in Runs |-> objs[q]] /\ run[r].outcome = None
      /\ session = [q \in Runs |-> session[q]] /\ session[r].map[id] = 0
      /\ id \notin session[r].tombs /\ Visible(r, id).v > 0
      /\ session[r] \in Sessions(setup)
  BY Parts, WorkParts DEF Control, Load, Working, SessionOk
<1>2. /\ Shape(r, objs[r], T, A) /\ WorkHeld(session[r], T, A, objs[r], W, known)
  BY <1>1, HeldShape, WorkParts
<1>3. /\ a \in Instances(r) /\ a.id = id /\ a.version = Visible(r, id).v
      /\ a.persisted = Visible(r, id).v /\ a.log = Visible(r, id).log
      /\ a.pending = <<>> /\ a.loaded = TRUE /\ Visible(r, id).v \in Nat
      /\ a.log \in Seq(AnyEvent)
  <2>1. Visible(r, id).v \in Nat /\ Visible(r, id).log \in Seq(AnyEvent)
    BY VisibleOk
  <2>2. /\ Object(id, Visible(r, id)) \in Instances(r)
        /\ Object(id, Visible(r, id)).id = id /\ Object(id, Visible(r, id)).version = Visible(r, id).v
        /\ Object(id, Visible(r, id)).persisted = Visible(r, id).v
        /\ Object(id, Visible(r, id)).log = Visible(r, id).log
        /\ Object(id, Visible(r, id)).pending = <<>>
        /\ (Object(id, Visible(r, id)).loaded <=> Visible(r, id).v > 0)
    BY <2>1, ObjectOk
  <2>3. a.loaded \in BOOLEAN
    BY <2>2, InstanceParts
  <2> QED BY <1>1, <2>1, <2>2, <2>3
<1>4. /\ s.tokens = T /\ s.open = session[r].open /\ s.tombs = session[r].tombs
      /\ s.map[id] = n /\ \A i \in Ids \ {id} : s.map[i] = session[r].map[i]
      /\ \A o \in DOMAIN s.base : s.base[o] = 0 \/ (o \in DOMAIN session[r].base /\ s.base[o] = session[r].base[o])
  <2> HIDE DEF n
  <2> QED BY <1>1 DEF Sessions
<1>5. Moves(r, run[r], s, O, tx[r]) /\ UNCHANGED <<rows, outbox, bus>>
  <2>1. objs' = [objs EXCEPT ![r] = O] /\ session' = [session EXCEPT ![r] = s]
    BY <1>1 DEF Load
  <2>2. UNCHANGED <<rows, outbox, run, tx, bus>>
    BY DEF Load
  <2> HIDE DEF O, s
  <2> QED BY <2>1, <2>2, Parts DEF Moves
<1> HIDE DEF a
<1>6. /\ Taken(O, T) = A /\ Len(O) = n /\ O[n] = a /\ \A o \in 1..Len(objs[r]) : O[o] = objs[r][o]
      /\ ~InTokens(T, n) /\ Len(objs[r]) \in Nat
  <2>1. PICK S : S = objs[r]
    OBVIOUS
  <2>2. Shape(r, S, T, A) /\ A = Taken(S, T) /\ O = Append(S, a)
    BY <1>2, <2>1
  <2> HIDE DEF A, T, O
  <2>3. /\ Taken(Append(S, a), T) = A /\ Len(Append(S, a)) = Len(S) + 1
        /\ Append(S, a)[Len(S) + 1] = a /\ ~InTokens(T, Len(S) + 1)
        /\ \A o \in 1..Len(S) : Append(S, a)[o] = S[o]
    BY <1>3, <2>2, OneMoreInstance
  <2> QED BY <2>1, <2>2, <2>3 DEF Shape
<1>7. Grown(a) /\ Ground(a) = a.log
  <2>1. a.log \o a.pending = a.log /\ a.pending \in Seq(AnyEvent)
    BY <1>3, ConcatEmptySeq, EmptySeq
  <2>2. Ground(a) = a.log
    BY <1>3, <2>1, GroundIs
  <2>3. a.log # <<>>
    BY <1>1, <1>3, VisibleHeld
  <2> QED BY <1>1, <1>3, <2>1, <2>2, <2>3 DEF Grown
<1>8. BehindOk(a, W, rows)
  <2>1. CASE id \in DOMAIN W
    <3>1. a.log = W[id].log
      BY <1>1, <1>3, <2>1, VisibleHeld
    <3> QED BY <1>1, <1>3, <1>7, <2>1, <3>1 DEF BehindOk, Grown
  <2>2. CASE id \notin DOMAIN W
    <3>1. a.log = rows[id].log
      BY <1>1, <1>3, <2>2, VisibleHeld
    <3>2. Prefix(a.log, a.log)
      BY <1>3, LenProperties DEF Prefix
    <3> QED BY <1>1, <1>3, <1>7, <2>2, <3>1, <3>2 DEF BehindOk, Grown
  <2> QED BY <2>1, <2>2
<1> HIDE DEF s, O, A, W, T, known
<1>9. \A o \in 1..Len(O) : o \in 1..Len(objs[r]) \/ o = n
  BY <1>6
<1> HIDE DEF n
<1>10. \A o \in 1..Len(O) : Grown(O[o])
  BY <1>2, <1>6, <1>7, <1>9 DEF WorkHeld
<1>11. WorkOk(s, A, O, W, rows)
  <2>1. /\ session[r].open /\ session[r].tombs = Gone(T, A)
        /\ \A o \in DOMAIN session[r].base : session[r].base[o] = 0
        /\ \A o \in 1..Len(objs[r]) : objs[r][o].id \notin session[r].tombs =>
              /\ Current(session[r], objs[r], o)
              /\ ~InTokens(T, o) => BehindOk(objs[r][o], W, rows)
    BY <1>2 DEF WorkHeld, WorkOk, T
  <2>2. ASSUME NEW o \in 1..Len(O), O[o].id \notin s.tombs
        PROVE  Current(s, O, o) /\ (~InTokens(s.tokens, o) => BehindOk(O[o], W, rows))
    <3>1. CASE o = n
      <4>1. Current(s, O, o)
        BY <1>1, <1>3, <1>4, <1>6, <3>1 DEF Current
      <4> QED BY <1>6, <1>8, <3>1, <4>1
    <3>2. CASE o \in 1..Len(objs[r])
      <4>1. O[o] = objs[r][o] /\ O[o] \in Instances(r) /\ objs[r][o].id \notin session[r].tombs
        BY <1>2, <1>4, <1>6, <2>2, <3>2 DEF Shape
      <4>2. Current(session[r], objs[r], o) /\ (~InTokens(T, o) => BehindOk(O[o], W, rows))
        BY <2>1, <3>2, <4>1
      <4>3. O[o].id \in Ids
        BY <4>1, InstanceParts
      <4>4. ASSUME O[o].loaded PROVE s.map[O[o].id] = o
        <5>1. session[r].map[O[o].id] = o /\ o # 0
          BY <3>2, <4>1, <4>2, <4>4 DEF Current
        <5> QED BY <1>1, <1>4, <4>3, <5>1
      <4>5. ASSUME O[o].persisted = 0, NEW p \in 1..Len(O), O[p].id = O[o].id, O[p].persisted = 0
            PROVE  p = o
        <5>1. p # n
          BY <1>1, <1>3, <1>6, <4>5
        <5>2. p \in 1..Len(objs[r]) /\ O[p] = objs[r][p]
          BY <1>6, <1>9, <5>1
        <5> QED BY <4>1, <4>2, <4>5, <5>2 DEF Current
      <4> QED BY <1>4, <4>2, <4>4, <4>5 DEF Current
    <3> QED BY <1>9, <3>1, <3>2
  <2> QED BY <1>4, <2>1, <2>2 DEF WorkOk
<1>12. AllCovered(A, O, known)
  <2>1. AllCovered(A, objs[r], known)
    BY <1>2 DEF WorkHeld
  <2>2. \A e \in Reflected(a) : Covered(e, A, known)
    <3>1. \A k \in 1..Len(Visible(r, id).log) : Covered(Visible(r, id).log[k], A, known)
      BY <1>1, VisibleHeld DEF A, T, known
    <3> QED BY <1>3, <3>1 DEF Reflected
  <2> QED BY <1>6, <1>9, <2>1, <2>2 DEF AllCovered
<1>13. WorkHeld(s, T, A, O, W, known)
  BY <1>2, <1>10, <1>11, <1>12 DEF WorkHeld
<1>14. WorkHeld(s, s.tokens, Taken(O, s.tokens), O, tx[r].rows, Known(outbox))
  BY <1>4, <1>6, <1>13 DEF W, known
<1> QED BY <1>1, <1>5, <1>14, WorkMoves

\* A factory's instance starts where the log of its aggregate ends.
LEMMA CreateHeld ==
  ASSUME Control, Held, setup' = setup, NEW r \in Runs, NEW id \in Ids, Create(r, id)
  PROVE  Held'
<1> DEFINE s == session[r]
           T == s.tokens
           A == Taken(objs[r], T)
           W == tx[r].rows
           known == Known(outbox)
           n == Len(objs[r]) + 1
           a == Created(r, id)
           O == Append(objs[r], a)
           c == [run[r] EXCEPT !.events = @ + 1]
<1>1. /\ run[r].pc = "work" /\ objs = [q \in Runs |-> objs[q]] /\ run[r].outcome = None
      /\ run = [q \in Runs |-> run[q]]
      /\ \/ Visible(r, id).log = <<>> /\ \A o \in DOMAIN objs[r] : objs[r][o].id # id
         \/ id \in s.tombs
  BY WorkParts DEF Control, Create, Working
<1>2. Shape(r, objs[r], T, A) /\ WorkHeld(s, T, A, objs[r], W, known)
  BY <1>1, HeldShape, WorkParts
<1>3. /\ a \in Instances(r) /\ a.id = id /\ a.version = 1 /\ a.persisted = 0 /\ a.loaded = FALSE
      /\ a.log = Append(Visible(r, id).log, NextEvent(r)) /\ a.pending = <<NextEvent(r)>>
  BY CreatedOk
<1>4. Moves(r, c, s, O, tx[r]) /\ UNCHANGED <<rows, outbox, bus>>
  <2>1. objs' = [objs EXCEPT ![r] = O] /\ run' = [run EXCEPT ![r] = c]
    BY <1>1 DEF Create, Created
  <2> HIDE DEF O, c
  <2> QED BY <2>1, Parts DEF Moves, Create
<1>5. c.pc = "work" /\ c.outcome = None
  BY <1>1, CountedOk
<1> HIDE DEF a, c
<1>6. /\ Taken(O, T) = A /\ Len(O) = n /\ O[n] = a /\ \A o \in 1..Len(objs[r]) : O[o] = objs[r][o]
      /\ ~InTokens(T, n) /\ Len(objs[r]) \in Nat
  <2>1. PICK S : S = objs[r]
    OBVIOUS
  <2>2. Shape(r, S, T, A) /\ A = Taken(S, T) /\ O = Append(S, a)
    BY <1>2, <2>1
  <2> HIDE DEF A, T, O
  <2>3. /\ Taken(Append(S, a), T) = A /\ Len(Append(S, a)) = Len(S) + 1
        /\ Append(S, a)[Len(S) + 1] = a /\ ~InTokens(T, Len(S) + 1)
        /\ \A o \in 1..Len(S) : Append(S, a)[o] = S[o]
    BY <1>3, <2>2, OneMoreInstance
  <2> QED BY <2>1, <2>2, <2>3 DEF Shape
<1>7. Grown(a) /\ Ground(a) = Visible(r, id).log
  <2>1. PICK L \in Seq(AnyEvent) : L = Visible(r, id).log
    BY VisibleOk
  <2>2. PICK e \in AnyEvent : e = NextEvent(r)
    BY EventOk
  <2>3. a.log = L \o <<e>> /\ a.pending = <<e>> /\ a.pending \in Seq(AnyEvent) /\ a.log # <<>>
    BY <1>3, <2>1, <2>2, AppendIsConcat, AppendProperties
  <2>4. Ground(a) = L
    BY <2>3, GroundIs
  <2> QED BY <1>3, <2>1, <2>3, <2>4 DEF Grown
<1>8. id \notin s.tombs => BehindOk(a, W, rows) /\ \A o \in 1..Len(objs[r]) : objs[r][o].id # id
  <2> SUFFICES ASSUME id \notin s.tombs
               PROVE  BehindOk(a, W, rows) /\ \A o \in 1..Len(objs[r]) : objs[r][o].id # id
    OBVIOUS
  <2>1. Ground(a) = <<>> /\ \A o \in 1..Len(objs[r]) : objs[r][o].id # id
    BY <1>1, <1>2, <1>7, LenProperties DEF Shape
  <2>2. Prefix(<<>>, rows[id].log)
    <3>1. rows[id].log \in Seq(AnyEvent)
      BY DEF Control, Rows
    <3> QED BY <3>1, EmptySeq, LenProperties DEF Prefix
  <2> QED BY <1>3, <2>1, <2>2 DEF BehindOk
<1> HIDE DEF s, O, A, W, T, known
<1>9. \A o \in 1..Len(O) : o \in 1..Len(objs[r]) \/ o = n
  BY <1>6
<1> HIDE DEF n
<1>10. \A o \in 1..Len(O) : Grown(O[o])
  BY <1>2, <1>6, <1>7, <1>9 DEF WorkHeld
<1>11. WorkOk(s, A, O, W, rows)
  <2>1. /\ s.open /\ s.tombs = Gone(T, A)
        /\ \A o \in DOMAIN s.base : s.base[o] = 0
        /\ \A o \in 1..Len(objs[r]) : objs[r][o].id \notin s.tombs =>
              /\ Current(s, objs[r], o)
              /\ ~InTokens(T, o) => BehindOk(objs[r][o], W, rows)
    BY <1>2 DEF WorkHeld, WorkOk, T
  <2>2. ASSUME NEW o \in 1..Len(O), O[o].id \notin s.tombs
        PROVE  Current(s, O, o) /\ (~InTokens(s.tokens, o) => BehindOk(O[o], W, rows))
    <3>1. CASE o = n
      <4>1. id \notin s.tombs
        BY <1>3, <1>6, <2>2, <3>1
      <4>2. ASSUME NEW p \in 1..Len(O), O[p].id = id PROVE p = o
        BY <1>6, <1>8, <1>9, <3>1, <4>1, <4>2
      <4>3. Current(s, O, o)
        BY <1>3, <1>6, <3>1, <4>2 DEF Current
      <4> QED BY <1>6, <1>8, <3>1, <4>1, <4>3
    <3>2. CASE o \in 1..Len(objs[r])
      <4>1. O[o] = objs[r][o] /\ objs[r][o].id \notin s.tombs
        BY <1>6, <2>2, <3>2
      <4>2. Current(s, objs[r], o) /\ (~InTokens(T, o) => BehindOk(O[o], W, rows))
        BY <2>1, <3>2, <4>1
      <4>3. O[o].id # id
        BY <1>8, <2>2, <3>2, <4>1
      <4>4. ASSUME NEW p \in 1..Len(O), O[p].id = O[o].id
            PROVE  p \in 1..Len(objs[r]) /\ O[p] = objs[r][p]
        BY <1>3, <1>6, <1>9, <4>3, <4>4
      <4>5. Current(s, O, o)
        BY <4>1, <4>2, <4>4 DEF Current
      <4> QED BY <4>2, <4>5 DEF T
    <3> QED BY <1>9, <3>1, <3>2
  <2> QED BY <2>1, <2>2 DEF WorkOk, T
<1>12. AllCovered(A, O, known)
  <2>1. AllCovered(A, objs[r], known)
    BY <1>2 DEF WorkHeld
  <2>2. \A e \in Reflected(a) : e \in Pending(a) \/ Covered(e, A, known)
    <3>1. \A k \in 1..Len(Visible(r, id).log) : Covered(Visible(r, id).log[k], A, known)
      BY <1>1, VisibleHeld DEF A, T, s, known
    <3>2. PICK L \in Seq(AnyEvent) : L = Visible(r, id).log
      BY VisibleOk
    <3>3. PICK e \in AnyEvent : e = NextEvent(r)
      BY EventOk
    <3>4. /\ a.log = Append(L, e) /\ Len(Append(L, e)) = Len(L) + 1 /\ Append(L, e)[Len(L) + 1] = e
          /\ \A k \in 1..Len(L) : Append(L, e)[k] = L[k]
      BY <1>3, <3>2, <3>3, OneMore
    <3>5. \A k \in 1..Len(a.log) : a.log[k] = e \/ Covered(a.log[k], A, known)
      <4>1. \A k \in 1..Len(L) + 1 : k \in 1..Len(L) \/ k = Len(L) + 1
        BY LenProperties
      <4> QED BY <3>1, <3>2, <3>4, <4>1
    <3>6. e \in Pending(a)
      <4>1. a.pending = <<e>> /\ Len(<<e>>) = 1 /\ <<e>>[1] = e
        BY <1>3, <3>3
      <4> QED BY <4>1 DEF Pending
    <3> QED BY <3>5, <3>6 DEF Reflected
  <2> QED BY <1>6, <1>9, <2>1, <2>2 DEF AllCovered
<1>13. WorkHeld(s, s.tokens, Taken(O, s.tokens), O, tx[r].rows, Known(outbox))
  BY <1>2, <1>6, <1>10, <1>11, <1>12 DEF WorkHeld, W, known, T
<1> QED BY <1>4, <1>5, <1>13, WorkMoves

\* An event grows the log and the pending events alike.
LEMMA RecordedHeld ==
  ASSUME NEW r \in Runs, NEW a \in Instances(r), NEW e \in Own(r), NEW bump \in BOOLEAN, Grown(a)
  PROVE  /\ Grown(Recorded(a, e, bump)) /\ Ground(Recorded(a, e, bump)) = Ground(a)
         /\ Reflected(Recorded(a, e, bump)) \subseteq Reflected(a) \cup {e}
         /\ Pending(a) \cup {e} \subseteq Pending(Recorded(a, e, bump))
<1>1. e \in AnyEvent
  BY DEF Own, AnyEvent
<1>2. PICK b \in Instances(r) : b = Recorded(a, e, bump)
  BY <1>1, RecordedOk
<1>3. /\ b.version >= a.version /\ b.persisted = a.persisted /\ b.loaded = a.loaded
      /\ b.log = Append(a.log, e) /\ b.pending = Append(a.pending, e)
  BY <1>1, <1>2, RecordedOk
<1>4. /\ a.version \in Nat /\ a.persisted \in Nat /\ a.log \in Seq(AnyEvent)
      /\ a.pending \in Seq(AnyEvent) /\ b.version \in Nat /\ b.pending \in Seq(AnyEvent)
  BY InstanceParts
<1>5. PICK L \in Seq(AnyEvent) : L = Ground(a) /\ a.log = L \o a.pending
  BY <1>4, GroundType
<1>6. b.log = L \o b.pending /\ b.log # <<>>
  <2>1. L \o Append(a.pending, e) = Append(L \o a.pending, e)
    BY SMTT(40), <1>1, <1>4, AppendConcat
  <2>2. Append(a.log, e) # <<>>
    BY SMTT(40), <1>1, <1>4, AppendProperties
  <2> QED BY <1>3, <1>5, <2>1, <2>2
<1>7. Ground(b) = L
  BY <1>4, <1>6, GroundIs
<1>8. Grown(b)
  BY SMTT(40), <1>3, <1>4, <1>6, <1>7 DEF Grown
<1>9. Reflected(b) \subseteq Reflected(a) \cup {e}
  <2>1. PICK l \in Seq(AnyEvent) : l = a.log
    BY <1>4
  <2>2. /\ Len(l) \in Nat /\ Len(Append(l, e)) = Len(l) + 1 /\ Append(l, e)[Len(l) + 1] = e
        /\ \A k \in 1..Len(l) : Append(l, e)[k] = l[k]
    BY <1>1, OneMore, LenProperties
  <2>3. \A k \in 1..Len(l) + 1 : k \in 1..Len(l) \/ k = Len(l) + 1
    BY <2>2
  <2> QED BY <1>3, <2>1, <2>2, <2>3 DEF Reflected
<1>10. Pending(a) \cup {e} \subseteq Pending(b)
  <2>1. PICK p \in Seq(AnyEvent) : p = a.pending
    BY <1>4
  <2>2. /\ Len(p) \in Nat /\ Len(Append(p, e)) = Len(p) + 1 /\ Append(p, e)[Len(p) + 1] = e
        /\ \A k \in 1..Len(p) : Append(p, e)[k] = p[k]
    BY <1>1, OneMore, LenProperties
  <2>3. Len(p) + 1 \in 1..Len(p) + 1 /\ \A k \in 1..Len(p) : k \in 1..Len(p) + 1
    BY <2>2
  <2> QED BY <1>3, <2>1, <2>2, <2>3 DEF Pending
<1> QED BY <1>2, <1>5, <1>7, <1>8, <1>9, <1>10

\* A mutation of an instance that is not enrolled.
LEMMA RecordHeld ==
  ASSUME Control, Held, setup' = setup, NEW r \in Runs, NEW o, NEW bump \in BOOLEAN, Record(r, o, bump)
  PROVE  Held'
<1> DEFINE s == session[r]
           T == s.tokens
           A == Taken(objs[r], T)
           W == tx[r].rows
           known == Known(outbox)
           e == NextEvent(r)
           b == Recorded(objs[r][o], e, bump)
           O == [objs[r] EXCEPT ![o] = b]
           c == [run[r] EXCEPT !.events = @ + 1]
<1>1. /\ run[r].pc = "work" /\ objs = [q \in Runs |-> objs[q]] /\ run[r].outcome = None
      /\ run = [q \in Runs |-> run[q]] /\ o \in DOMAIN objs[r] /\ ~Enrolled(s, o)
  BY WorkParts DEF Control, Record, Working
<1>2. Shape(r, objs[r], T, A) /\ WorkHeld(s, T, A, objs[r], W, known)
  BY <1>1, HeldShape, WorkParts
<1>3. o \in 1..Len(objs[r]) /\ objs[r][o] \in Instances(r) /\ Grown(objs[r][o]) /\ ~InTokens(T, o)
  <2>1. o \in 1..Len(objs[r]) /\ Len(objs[r]) \in Nat /\ T \in Seq(Tokens)
    BY <1>1, <1>2, LenProperties DEF Shape
  <2> QED BY <1>1, <1>2, <2>1, EnrolledIs DEF Shape, WorkHeld
<1>4. Moves(r, c, s, O, tx[r]) /\ UNCHANGED <<rows, outbox, bus>>
  <2>1. objs' = [objs EXCEPT ![r] = O] /\ run' = [run EXCEPT ![r] = c]
    BY <1>1 DEF Record
  <2> HIDE DEF O, c
  <2> QED BY <2>1, Parts DEF Moves, Record
<1>5. c.pc = "work" /\ c.outcome = None
  BY <1>1, CountedOk
<1>6. /\ b \in Instances(r) /\ b.id = objs[r][o].id /\ b.persisted = objs[r][o].persisted
      /\ b.loaded = objs[r][o].loaded /\ Grown(b) /\ Ground(b) = Ground(objs[r][o])
      /\ Reflected(b) \subseteq Reflected(objs[r][o]) \cup {e}
      /\ Pending(objs[r][o]) \cup {e} \subseteq Pending(b)
  <2>1. PICK a \in Instances(r) : a = objs[r][o]
    BY <1>3
  <2>2. PICK f \in Own(r) : f = e /\ f \in AnyEvent
    BY EventOk
  <2>3. /\ Recorded(a, f, bump) \in Instances(r) /\ Recorded(a, f, bump).id = a.id
        /\ Recorded(a, f, bump).persisted = a.persisted /\ Recorded(a, f, bump).loaded = a.loaded
    BY <2>2, RecordedOk
  <2>4. Grown(a)
    BY <1>3, <2>1
  <2>5. /\ Grown(Recorded(a, f, bump)) /\ Ground(Recorded(a, f, bump)) = Ground(a)
        /\ Reflected(Recorded(a, f, bump)) \subseteq Reflected(a) \cup {f}
        /\ Pending(a) \cup {f} \subseteq Pending(Recorded(a, f, bump))
    BY <2>2, <2>4, RecordedHeld
  <2>6. b = Recorded(a, f, bump)
    BY <2>1, <2>2
  <2> HIDE DEF b, e
  <2> QED BY <2>1, <2>2, <2>3, <2>5, <2>6
<1> HIDE DEF b, c, e
<1>7. /\ Len(O) = Len(objs[r]) /\ O[o] = b /\ \A p \in 1..Len(objs[r]) : p # o => O[p] = objs[r][p]
  BY <1>2, <1>3, <1>6, ExceptSeq DEF Shape
<1>8. Taken(O, T) = A
  <2> HIDE DEF O, T
  <2>1. \A k \in 1..Len(T) : O[T[k].obj] = objs[r][T[k].obj]
    BY <1>2, <1>3, <1>7 DEF Shape, InTokens
  <2> QED BY <2>1, TakenSame
<1> HIDE DEF s, O, A, W, T, known
<1>9. \A p \in 1..Len(O) : /\ p \in 1..Len(objs[r]) /\ O[p].id = objs[r][p].id
                           /\ O[p].persisted = objs[r][p].persisted
                           /\ O[p].loaded = objs[r][p].loaded
                           /\ Ground(O[p]) = Ground(objs[r][p]) /\ Grown(O[p])
  BY <1>2, <1>3, <1>6, <1>7 DEF WorkHeld
<1>10. WorkOk(s, A, O, W, rows)
  <2>1. /\ s.open /\ s.tombs = Gone(T, A)
        /\ \A p \in DOMAIN s.base : s.base[p] = 0
        /\ \A p \in 1..Len(objs[r]) : objs[r][p].id \notin s.tombs =>
              /\ Current(s, objs[r], p)
              /\ ~InTokens(T, p) => BehindOk(objs[r][p], W, rows)
    BY <1>2 DEF WorkHeld, WorkOk, T
  <2>2. ASSUME NEW p \in 1..Len(O), O[p].id \notin s.tombs
        PROVE  Current(s, O, p) /\ (~InTokens(s.tokens, p) => BehindOk(O[p], W, rows))
    <3>1. Current(s, objs[r], p) /\ (~InTokens(T, p) => BehindOk(objs[r][p], W, rows))
      BY <1>9, <2>1, <2>2
    <3>2. Current(s, O, p)
      BY <1>7, <1>9, <3>1 DEF Current
    <3>3. BehindOk(objs[r][p], W, rows) => BehindOk(O[p], W, rows)
      BY <1>9 DEF BehindOk
    <3> QED BY <3>1, <3>2, <3>3 DEF T
  <2> QED BY <2>1, <2>2 DEF WorkOk, T
<1>11. AllCovered(A, O, known)
  <2>1. AllCovered(A, objs[r], known)
    BY <1>2 DEF WorkHeld
  <2>2. ASSUME NEW p \in 1..Len(O), NEW f \in Reflected(O[p])
        PROVE  f \in Pending(O[p]) \/ Covered(f, A, known)
    <3>1. CASE p # o
      BY <1>7, <1>9, <2>1, <2>2, <3>1 DEF AllCovered
    <3>2. CASE p = o
      BY <1>3, <1>6, <1>7, <2>1, <2>2, <3>2 DEF AllCovered
    <3> QED BY <3>1, <3>2
  <2> QED BY <2>2 DEF AllCovered
<1>12. WorkHeld(s, s.tokens, Taken(O, s.tokens), O, tx[r].rows, Known(outbox))
  BY <1>2, <1>8, <1>9, <1>10, <1>11 DEF WorkHeld, W, known, T
<1> QED BY <1>4, <1>5, <1>12, WorkMoves

-----------------------------------------------------------------------------
(* Held is kept: instances are saved and deleted *)

\* A token more, for an instance that had none, and its row written.
Enrolls(r, O, T, A, W, o, t, row, rws, T2, A2, W2) ==
    /\ Shape(r, O, T, A) /\ o \in 1..Len(O) /\ ~InTokens(T, o) /\ t \in Tokens /\ t.obj = o
    /\ T2 = Append(T, t) /\ A2 = Taken(O, T2)
    /\ DOMAIN W2 = DOMAIN W \cup {O[o].id} /\ W2[O[o].id] = row
    /\ \A j \in DOMAIN W \ {O[o].id} : W2[j] = W[j]
    /\ row.obj = o /\ row.log = O[o].log /\ row.v = IF t.deleted THEN 0 ELSE O[o].version
    /\ O[o].id \in DOMAIN W => row.base = W[O[o].id].base
    /\ O[o].id \notin DOMAIN W => row.base = rws[O[o].id]

\* The enrolled instances afterwards.
LEMMA EnrollsShape ==
  ASSUME NEW r, NEW O, NEW T, NEW A, NEW W, NEW o, NEW t, NEW row, NEW rws, NEW T2, NEW A2, NEW W2,
         Enrolls(r, O, T, A, W, o, t, row, rws, T2, A2, W2)
  PROVE  /\ Shape(r, O, T2, A2) /\ Len(T2) = Len(T) + 1 /\ Len(A2) = Len(A) + 1 /\ Len(A) = Len(T)
         /\ Len(T) \in Nat /\ T2[Len(T) + 1] = t /\ A2[Len(T) + 1] = O[o]
         /\ \A k \in 1..Len(T) : T2[k] = T[k] /\ A2[k] = A[k]
         /\ \A k \in 1..Len(T2) : k \in 1..Len(T) \/ k = Len(T) + 1
<1>1. T \in Seq(Tokens) /\ t \in Tokens /\ Shape(r, O, T, A) /\ T2 = Append(T, t)
  BY DEF Enrolls, Shape
<1>2. /\ T2 \in Seq(Tokens) /\ Len(T2) = Len(T) + 1 /\ Len(T) \in Nat /\ T2[Len(T) + 1] = t
      /\ \A k \in 1..Len(T) : T2[k] = T[k]
  BY <1>1, AppendProperties, LenProperties
<1>3. \A k \in 1..Len(T2) : k \in 1..Len(T) \/ k = Len(T) + 1
  BY <1>2
<1>4. \A k \in 1..Len(T2) : T2[k].obj \in 1..Len(O)
  BY <1>1, <1>2, <1>3 DEF Enrolls, Shape
<1>5. Shape(r, O, T2, A2)
  <2>1. A2 = Taken(O, T2) /\ O \in Seq(Instances(r))
    BY DEF Enrolls, Shape
  <2> QED BY <1>2, <1>4, <2>1, TakenOk
<1>6. Len(T) + 1 \in 1..Len(T2) /\ \A k \in 1..Len(T) : k \in 1..Len(T2)
  BY <1>2
<1>7. A2[Len(T) + 1] = O[o] /\ \A k \in 1..Len(T) : A2[k] = A[k]
  <2>1. t.obj = o
    BY DEF Enrolls
  <2>2. \A k \in 1..Len(T2) : A2[k] = O[T2[k].obj]
    BY <1>5 DEF Shape
  <2>3. \A k \in 1..Len(T) : A[k] = O[T[k].obj]
    BY <1>1 DEF Shape
  <2> QED BY <1>2, <1>6, <2>1, <2>2, <2>3
<1>8. Len(A2) = Len(A) + 1 /\ Len(A) = Len(T)
  BY <1>1, <1>2, <1>5 DEF Shape
<1> QED BY <1>2, <1>3, <1>5, <1>7, <1>8

\* What the instance must continue to be enrolled.
Enrollable(O, A, W, o, rws) ==
    /\ O[o].id \notin DOMAIN W =>
          /\ Continues(O[o], rws[O[o].id]) /\ (rws[O[o].id].v = 0 => rws[O[o].id].log = <<>>)
          /\ \A k \in 1..Len(A) : A[k].id # O[o].id
    /\ O[o].id \in DOMAIN W => \A k \in 1..Len(A) : A[k].id = O[o].id => Follows(O[o], A[k])

\* The tokens and the chain afterwards.
LEMMA EnrollChain ==
  ASSUME NEW r, NEW O, NEW T, NEW A, NEW W, NEW o, NEW t, NEW row, NEW rws, NEW T2, NEW A2, NEW W2,
         Enrolls(r, O, T, A, W, o, t, row, rws, T2, A2, W2), Enrollable(O, A, W, o, rws),
         TokensOk(T), ChainOk(A, W), WritesOk(T, A, W)
  PROVE  TokensOk(T2) /\ ChainOk(A2, W2)
<1> DEFINE n == Len(T) + 1
           i == O[o].id
<1>1. /\ Shape(r, O, T2, A2) /\ Len(T2) = n /\ Len(A2) = n /\ Len(A) = Len(T)
      /\ Len(T) \in Nat /\ T2[n] = t /\ A2[n] = O[o]
      /\ \A k \in 1..Len(T) : T2[k] = T[k] /\ A2[k] = A[k]
      /\ \A k \in 1..n : k \in 1..Len(T) \/ k = n
  BY EnrollsShape
<1>2. /\ t.obj = o /\ ~InTokens(T, o) /\ DOMAIN W2 = DOMAIN W \cup {i} /\ W2[i] = row
      /\ \A j \in DOMAIN W \ {i} : W2[j] = W[j]
      /\ i \in DOMAIN W => row.base = W[i].base
      /\ i \notin DOMAIN W => row.base = rws[i]
  BY DEF Enrolls
<1> HIDE DEF i
<1>3. TokensOk(T2)
  <2> SUFFICES ASSUME NEW k \in 1..n, NEW l \in 1..n, T2[k].obj = T2[l].obj PROVE k = l
    BY <1>1 DEF TokensOk
  <2>1. CASE k \in 1..Len(T) /\ l \in 1..Len(T)
    BY <1>1, <2>1 DEF TokensOk
  <2>2. CASE k \in 1..Len(T) /\ l = n
    BY <1>1, <1>2, <2>2 DEF InTokens
  <2>3. CASE k = n /\ l \in 1..Len(T)
    BY <1>1, <1>2, <2>3 DEF InTokens
  <2> QED BY <1>1, <2>1, <2>2, <2>3
<1>4. \A k \in 1..n : A2[k].id \in DOMAIN W2
  BY <1>1, <1>2 DEF ChainOk, i
<1>5. \A j \in DOMAIN W : W2[j].base = W[j].base
  BY <1>2
<1>6. ASSUME NEW k \in 1..n
      PROVE  \/ Continues(A2[k], W2[A2[k].id].base)
             \/ \E j \in 1..n : j < k /\ A2[j].id = A2[k].id
  <2>1. CASE k \in 1..Len(T)
    <3>1. A2[k] = A[k] /\ A[k].id \in DOMAIN W /\ W2[A[k].id].base = W[A[k].id].base
      BY <1>1, <1>5, <2>1 DEF ChainOk
    <3>2. CASE Continues(A[k], W[A[k].id].base)
      BY <3>1, <3>2
    <3>3. CASE \E j \in 1..Len(A) : j < k /\ A[j].id = A[k].id
      <4>1. PICK j \in 1..Len(T) : j < k /\ A[j].id = A[k].id
        BY <1>1, <3>3
      <4>2. j \in 1..n /\ A2[j] = A[j]
        BY <1>1
      <4> QED BY <3>1, <4>1, <4>2
    <3> QED BY <1>1, <2>1, <3>2, <3>3 DEF ChainOk
  <2>2. CASE k = n /\ i \notin DOMAIN W
    BY <1>1, <1>2, <2>2 DEF Enrollable, i
  <2>3. CASE k = n /\ i \in DOMAIN W
    <3>1. PICK j \in 1..Len(T) : A[j].id = i
      BY <2>3 DEF WritesOk, LastOf
    <3>2. j \in 1..n /\ j < k /\ A2[j].id = A2[k].id
      BY <1>1, <2>3, <3>1 DEF i
    <3> QED BY <3>2
  <2> QED BY <1>1, <2>1, <2>2, <2>3
<1>7. ASSUME NEW j \in 1..n, NEW k \in 1..n, j < k, A2[j].id = A2[k].id
      PROVE  Follows(A2[k], A2[j])
  <2>1. j \in 1..Len(T)
    BY <1>1, <1>7
  <2>2. CASE k \in 1..Len(T)
    <3>1. A2[k] = A[k] /\ A2[j] = A[j] /\ j \in 1..Len(A) /\ k \in 1..Len(A)
      BY <1>1, <2>1, <2>2
    <3> QED BY <1>7, <3>1 DEF ChainOk
  <2>3. CASE k = n
    <3>1. A2[k] = O[o] /\ A2[j] = A[j] /\ j \in 1..Len(A) /\ A[j].id = i
      BY <1>1, <1>7, <2>1, <2>3 DEF i
    <3>2. i \in DOMAIN W
      BY <3>1 DEF ChainOk
    <3> QED BY <3>1, <3>2 DEF Enrollable, i
  <2> QED BY <1>1, <2>2, <2>3
<1>8. ChainOk(A2, W2)
  BY <1>1, <1>4, <1>6, <1>7 DEF ChainOk
<1> QED BY <1>3, <1>8

\* The buffered rows afterwards, unless the aggregate was deleted before.
LEMMA EnrollWrites ==
  ASSUME NEW r, NEW O, NEW T, NEW A, NEW W, NEW o, NEW t, NEW row, NEW rws, NEW T2, NEW A2, NEW W2,
         Enrolls(r, O, T, A, W, o, t, row, rws, T2, A2, W2), Enrollable(O, A, W, o, rws),
         WritesOk(T, A, W), r \in Runs, O[o].id \notin Gone(T, A)
  PROVE  WritesOk(T2, A2, W2)
<1> DEFINE n == Len(T) + 1
           i == O[o].id
<1>1. /\ Shape(r, O, T2, A2) /\ Len(T2) = n /\ Len(A2) = n /\ Len(A) = Len(T)
      /\ Len(T) \in Nat /\ T2[n] = t /\ A2[n] = O[o]
      /\ \A k \in 1..Len(T) : T2[k] = T[k] /\ A2[k] = A[k]
      /\ \A k \in 1..n : k \in 1..Len(T) \/ k = n
  BY EnrollsShape
<1>2. /\ t.obj = o /\ DOMAIN W2 = DOMAIN W \cup {i} /\ W2[i] = row
      /\ \A j \in DOMAIN W \ {i} : W2[j] = W[j]
      /\ row.obj = o /\ row.log = O[o].log /\ row.v = IF t.deleted THEN 0 ELSE O[o].version
      /\ i \in DOMAIN W => row.base = W[i].base
      /\ i \notin DOMAIN W => row.base = rws[i]
      /\ O[o] \in Instances(r)
  BY DEF Enrolls, Shape
<1>3. i \in Ids
  BY <1>2, InstanceParts
<1> HIDE DEF i
<1>4. ASSUME NEW j \in DOMAIN W2, j # i
      PROVE  /\ Rooted(W2[j])
             /\ \E k \in 1..n : LastOf(T2, A2, j, k) /\ WrittenFrom(W2[j], T2[k], A2[k])
  <2>1. j \in DOMAIN W /\ W2[j] = W[j] /\ Rooted(W[j])
    BY <1>2, <1>4 DEF WritesOk
  <2>2. PICK k \in 1..Len(T) : LastOf(T, A, j, k) /\ WrittenFrom(W[j], T[k], A[k])
    BY <2>1 DEF WritesOk
  <2>3. k \in 1..n /\ T2[k] = T[k] /\ A2[k] = A[k]
    BY <1>1
  <2>4. LastOf(T2, A2, j, k)
    <3>1. ASSUME NEW l \in 1..n, A2[l].id = j PROVE l <= k /\ (T2[l].deleted => l = k)
      <4>1. l \in 1..Len(T) /\ T2[l] = T[l] /\ A2[l] = A[l]
        BY <1>1, <1>4, <3>1 DEF i
      <4> QED BY <2>2, <3>1, <4>1 DEF LastOf
    <3> QED BY <1>1, <2>2, <2>3, <3>1 DEF LastOf
  <2> QED BY <2>1, <2>2, <2>3, <2>4
<1>5. Rooted(row)
  BY <1>2 DEF WritesOk, Rooted, Enrollable, i
<1>6. LastOf(T2, A2, i, n) /\ WrittenFrom(row, T2[n], A2[n])
  <2>1. ASSUME NEW l \in 1..n, A2[l].id = i PROVE l <= n /\ (T2[l].deleted => l = n)
    <3>1. CASE l \in 1..Len(T)
      BY <1>1, <1>3, <2>1, <3>1 DEF Gone, i
    <3> QED BY <1>1, <3>1
  <2>2. LastOf(T2, A2, i, n)
    BY <1>1, <2>1 DEF LastOf, i
  <2>3. WrittenFrom(row, T2[n], A2[n])
    BY <1>1, <1>2 DEF WrittenFrom
  <2> QED BY <2>2, <2>3
<1>7. n \in 1..n
  BY <1>1
<1> HIDE DEF n
<1> QED BY <1>1, <1>2, <1>4, <1>5, <1>6, <1>7 DEF WritesOk

\* What else changes with the token.
LEMMA EnrollSets ==
  ASSUME NEW r, NEW O, NEW T, NEW A, NEW W, NEW o, NEW t, NEW row, NEW rws, NEW T2, NEW A2, NEW W2,
         Enrolls(r, O, T, A, W, o, t, row, rws, T2, A2, W2), r \in Runs
  PROVE  /\ t.deleted => Gone(T2, A2) = Gone(T, A) \cup {O[o].id}
         /\ ~t.deleted => Gone(T2, A2) = Gone(T, A)
         /\ \A p : InTokens(T2, p) <=> InTokens(T, p) \/ p = o
         /\ \A e, known : Covered(e, A, known) => Covered(e, A2, known)
<1> DEFINE n == Len(T) + 1
<1>1. /\ Len(T2) = n /\ Len(A2) = n /\ Len(A) = Len(T)
      /\ Len(T) \in Nat /\ T2[n] = t /\ A2[n] = O[o] /\ n \in 1..n
      /\ \A k \in 1..Len(T) : T2[k] = T[k] /\ A2[k] = A[k] /\ k \in 1..n
      /\ \A k \in 1..n : k \in 1..Len(T) \/ k = n
  BY EnrollsShape
<1>2. t.obj = o /\ O[o] \in Instances(r)
  BY DEF Enrolls, Shape
<1>3. O[o].id \in Ids
  BY <1>2, InstanceParts
<1> HIDE DEF n
<1>4. t.deleted => Gone(T2, A2) = Gone(T, A) \cup {O[o].id}
  BY <1>1, <1>3 DEF Gone
<1>5. ~t.deleted => Gone(T2, A2) = Gone(T, A)
  BY <1>1, <1>3 DEF Gone
<1>6. \A p : InTokens(T2, p) <=> InTokens(T, p) \/ p = o
  BY <1>1, <1>2 DEF InTokens
<1>7. \A e, known : Covered(e, A, known) => Covered(e, A2, known)
  BY <1>1 DEF Covered
<1> QED BY <1>4, <1>5, <1>6, <1>7

\* An instance to be saved or deleted, in a run at work.
Handled(r, o, s, O, T, A, W, i) ==
    /\ run[r].pc = "work" /\ o \in 1..Len(O) /\ s = session[r] /\ O = objs[r]
    /\ T = s.tokens /\ A = Taken(O, T) /\ W = tx[r].rows /\ i = O[o].id

\* What is known of it.
HandledParts(r, o, s, O, T, A, W, i) ==
    /\ Shape(r, O, T, A) /\ WorkHeld(s, T, A, O, W, Known(outbox))
    /\ O[o] \in Instances(r) /\ Grown(O[o]) /\ i \in Ids /\ rows[i] \in Rows
    /\ O[o].persisted \in Nat /\ O[o].version \in Nat
    /\ Ground(O[o]) \in Seq(AnyEvent) /\ O[o].pending \in Seq(AnyEvent)
    /\ O[o].log = Ground(O[o]) \o O[o].pending
    /\ rows[i].log = EventsOf(i, outbox) /\ (rows[i].v > 0 => rows[i].log # <<>>)

\* It is known.
LEMMA HandledOk ==
  ASSUME Control, Held, NEW r \in Runs, NEW o, NEW s, NEW O, NEW T, NEW A, NEW W, NEW i,
         Handled(r, o, s, O, T, A, W, i)
  PROVE  HandledParts(r, o, s, O, T, A, W, i)
<1>1. Shape(r, O, T, A) /\ WorkHeld(s, T, A, O, W, Known(outbox))
  BY HeldShape, WorkParts DEF Handled
<1>2. O[o] \in Instances(r) /\ Grown(O[o]) /\ i = O[o].id
  BY <1>1 DEF Handled, Shape, WorkHeld
<1>3. /\ i \in Ids /\ O[o].persisted \in Nat /\ O[o].version \in Nat
      /\ O[o].log \in Seq(AnyEvent) /\ O[o].pending \in Seq(AnyEvent)
  BY <1>2, InstanceParts
<1>4. Ground(O[o]) \in Seq(AnyEvent) /\ O[o].log = Ground(O[o]) \o O[o].pending
  BY <1>2, <1>3, GroundType
<1>5. rows[i] \in Rows /\ Database(rows, outbox)
  BY <1>3 DEF Control, Held
<1> QED BY <1>1, <1>2, <1>3, <1>4, <1>5 DEF HandledParts, Database

\* An instance that is not enrolled did not write the buffered row.
LEMMA NotTheWriter ==
  ASSUME NEW T, NEW A, NEW W, NEW i \in DOMAIN W, WritesOk(T, A, W), NEW o, ~InTokens(T, o)
  PROVE  W[i].obj # o
  BY DEF WritesOk, WrittenFrom, InTokens

\* Where the transaction has not written, a row whose version matches is the ground.
LEMMA RowIsGround ==
  ASSUME Control, Held, NEW r \in Runs, NEW o, NEW s, NEW O, NEW T, NEW A, NEW W, NEW i,
         Handled(r, o, s, O, T, A, W, i), ~InTokens(T, o), i \notin s.tombs, i \notin DOMAIN W,
         RowMatches(r, o)
  PROVE  Continues(O[o], rows[i]) /\ (rows[i].v = 0 => rows[i].log = <<>>)
<1>1. HandledParts(r, o, s, O, T, A, W, i)
  BY HandledOk
<1>2. rows[i].v = O[o].persisted /\ IsPrefix(rows[i].log, O[o].log)
  <2>1. Visible(r, i) = rows[i]
    BY DEF Handled, Visible
  <2> QED BY <2>1 DEF RowMatches, Handled
<1>3. PICK G \in Seq(AnyEvent) : G = Ground(O[o])
  BY <1>1 DEF HandledParts
<1>4. PICK R \in Seq(AnyEvent) : R = rows[i].log
  BY <1>1 DEF HandledParts, Rows
<1>5. PICK p \in Seq(Own(r)) : p = O[o].pending /\ p \in Seq(AnyEvent)
  BY <1>1 DEF HandledParts, Instances
<1>6. O[o].log = G \o p /\ G \o p \in Seq(AnyEvent)
  BY <1>1, <1>3, <1>5, ConcatProperties DEF HandledParts
<1>7. Prefix(G, R) /\ (G = <<>> <=> O[o].persisted = 0)
  <2>1. BehindOk(O[o], W, rows)
    BY <1>1 DEF HandledParts, WorkHeld, WorkOk, Handled
  <2> QED BY <1>3, <1>4, <2>1 DEF BehindOk, Handled
<1>8. Prefix(R, G \o p)
  BY <1>2, <1>4, <1>6, PrefixIs
<1>9. ASSUME NEW n \in 1..Len(R), NEW m \in 1..Len(p) PROVE R[n] # p[m]
  <2>1. p[m] \in Own(r)
    BY <1>5, ElementOfSeq
  <2>2. R[n] \in Known(outbox)
    <3>1. outbox \in Seq(AnyDelivery) /\ R = EventsOf(i, outbox)
      BY <1>1, <1>4 DEF HandledParts, Control
    <3> QED BY <1>1, <3>1, EventsKnown DEF HandledParts
  <2>3. PICK k \in 1..Len(outbox) : R[n] = outbox[k].event
    BY <2>2 DEF Known
  <2>4. outbox[k].event.run # r
    <3>1. Fresh(run[r], r, outbox)
      BY Parts
    <3> QED BY <3>1 DEF Fresh, Committing, Handled
  <2> QED BY <2>1, <2>3, <2>4 DEF Own
<1>10. R = G
  <2> HIDE <1>9
  <2>1. \A n \in 1..Len(R), m \in 1..Len(p) : R[n] # p[m]
    BY <1>9
  <2> QED BY <1>5, <1>7, <1>8, <2>1, Between
<1> QED BY <1>2, <1>3, <1>4, <1>5, <1>6, <1>7, <1>10 DEF Continues

\* Where it has, the instance follows the one that was written, which is the
\* only one enrolled for the aggregate.
LEMMA RowIsFollowed ==
  ASSUME Control, Held, NEW r \in Runs, NEW o, NEW s, NEW O, NEW T, NEW A, NEW W, NEW i,
         Handled(r, o, s, O, T, A, W, i), ~InTokens(T, o), i \notin s.tombs, i \in DOMAIN W,
         RowMatches(r, o), NEW k \in 1..Len(A), A[k].id = i
  PROVE  Follows(O[o], A[k])
<1>1. HandledParts(r, o, s, O, T, A, W, i)
  BY HandledOk
<1>2. /\ Shape(r, O, T, A) /\ ChainOk(A, W) /\ WritesOk(T, A, W) /\ s.tombs = Gone(T, A)
      /\ \A q \in 1..Len(O) : Grown(O[q])
      /\ \A q \in 1..Len(O) : O[q].id \notin s.tombs =>
            Current(s, O, q) /\ (~InTokens(s.tokens, q) => BehindOk(O[q], W, rows))
  BY <1>1 DEF HandledParts, WorkHeld, WorkOk, Handled
<1>3. /\ o \in 1..Len(O) /\ i = O[o].id /\ T = s.tokens /\ Len(A) = Len(T) /\ i \in Ids
      /\ O[o].persisted \in Nat
  BY <1>1 DEF Handled, HandledParts, Shape
<1>4. PICK l \in 1..Len(T) : LastOf(T, A, i, l) /\ WrittenFrom(W[i], T[l], A[l])
  BY <1>2 DEF WritesOk
<1>5. \A j \in 1..Len(T) : /\ T[j].obj \in 1..Len(O) /\ A[j] = O[T[j].obj] /\ Grown(A[j])
                           /\ A[j] \in Instances(r) /\ T[j].obj # o
                           /\ A[j].id = i => ~T[j].deleted
  BY SMTT(40), <1>2, <1>3 DEF Shape, Gone, InTokens
<1>6. W[i].v = A[l].version /\ W[i].log = A[l].log /\ A[l].id = i
  BY <1>4, <1>5 DEF WrittenFrom, LastOf
<1>7. W[i].v = O[o].persisted
  <2>1. Visible(r, i) = W[i]
    BY DEF Handled, Visible
  <2>2. W[i].obj # o
    BY <1>2, NotTheWriter
  <2> QED BY <2>1, <2>2 DEF RowMatches, Handled
<1>8. A[l].version \in Nat /\ A[l].version >= 1 /\ A[l].persisted \in Nat
  <2>1. A[l] \in Instances(r) /\ Grown(A[l])
    BY <1>5
  <2> QED BY <2>1, InstanceParts DEF Grown
<1>9. O[o].persisted > 0
  BY <1>3, <1>6, <1>7, <1>8
<1>10. O[o].loaded /\ s.map[i] = o
  <2>1. O[o].loaded /\ Current(s, O, o)
    BY <1>2, <1>3, <1>9 DEF Grown
  <2> QED BY <1>3, <2>1 DEF Current
<1>11. \A j \in 1..Len(T) : A[j].id = i => A[j].persisted = 0
  <2> SUFFICES ASSUME NEW j \in 1..Len(T), A[j].id = i, A[j].persisted # 0 PROVE FALSE
    OBVIOUS
  <2>1. /\ T[j].obj \in 1..Len(O) /\ A[j] = O[T[j].obj] /\ Grown(A[j]) /\ A[j] \in Instances(r)
        /\ T[j].obj # o
    BY <1>5
  <2>2. A[j].loaded
    BY <2>1, InstanceParts DEF Grown
  <2>3. s.map[i] = T[j].obj
    BY <1>2, <2>1, <2>2 DEF Current
  <2> QED BY <1>10, <2>1, <2>3
<1>12. k = l
  <2> SUFFICES ASSUME k # l PROVE FALSE
    OBVIOUS
  <2>1. k \in 1..Len(T) /\ k <= l
    BY <1>3, <1>4 DEF LastOf
  <2>2. k < l /\ l \in 1..Len(A)
    BY <1>3, <2>1
  <2>3. Follows(A[l], A[k])
    BY <1>2, <1>6, <2>2 DEF ChainOk
  <2>4. A[l].persisted = A[k].version /\ A[l].persisted = 0
    BY <1>6, <1>11, <2>3 DEF Follows
  <2>5. A[k].version \in Nat /\ A[k].version >= 1
    <3>1. A[k] \in Instances(r) /\ Grown(A[k])
      BY <1>5, <2>1
    <3> QED BY <3>1, InstanceParts DEF Grown
  <2> QED BY <2>4, <2>5
<1>13. Ground(O[o]) = W[i].log
  <2>1. BehindOk(O[o], W, rows)
    BY <1>2, <1>3
  <2> QED BY <1>3, <1>9, <2>1 DEF BehindOk
<1>14. O[o].log = Ground(O[o]) \o O[o].pending
  BY <1>1 DEF HandledParts
<1> QED BY <1>6, <1>7, <1>11, <1>12, <1>13, <1>14 DEF Follows

\* So an instance whose row predicate matches can be enrolled.
LEMMA EnrollableHolds ==
  ASSUME Control, Held, NEW r \in Runs, NEW o, NEW s, NEW O, NEW T, NEW A, NEW W, NEW i,
         Handled(r, o, s, O, T, A, W, i), ~InTokens(T, o), i \notin s.tombs, RowMatches(r, o)
  PROVE  Enrollable(O, A, W, o, rows)
<1>1. HandledParts(r, o, s, O, T, A, W, i) /\ i = O[o].id
  BY HandledOk DEF Handled
<1>2. CASE i \notin DOMAIN W
  <2>1. Continues(O[o], rows[i]) /\ (rows[i].v = 0 => rows[i].log = <<>>)
    BY <1>2, RowIsGround
  <2>2. \A k \in 1..Len(A) : A[k].id # i
    BY <1>1, <1>2 DEF HandledParts, WorkHeld, ChainOk
  <2> QED BY <1>1, <1>2, <2>1, <2>2 DEF Enrollable
<1>3. CASE i \in DOMAIN W
  <2>1. \A k \in 1..Len(A) : A[k].id = i => Follows(O[o], A[k])
    BY <1>3, RowIsFollowed
  <2> QED BY <1>1, <1>3, <2>1 DEF Enrollable
<1> QED BY <1>2, <1>3

\* An enrollment keeps what is said of the run, save or delete.
Resumes(s, s2, t, T2, i) ==
    /\ s2.tokens = T2 /\ s2.open = s.open /\ s2.base = s.base
    /\ s2.tombs = s.tombs \cup (IF t.deleted THEN {i} ELSE {})
    /\ \A j \in Ids : j # i \/ ~t.deleted => s2.map[j] = s.map[j]

\* It does.
LEMMA EnrollWork ==
  ASSUME NEW r \in Runs, NEW O, NEW T, NEW A, NEW W, NEW o, NEW t, NEW row, NEW T2, NEW A2, NEW W2,
         Enrolls(r, O, T, A, W, o, t, row, rows, T2, A2, W2), Enrollable(O, A, W, o, rows),
         NEW s, NEW s2, Resumes(s, s2, t, T2, O[o].id), s.tokens = T, O[o].id \notin s.tombs,
         NEW known, WorkHeld(s, T, A, O, W, known), rows \in [Ids -> Rows]
  PROVE  WorkHeld(s2, T2, A2, O, W2, known)
<1> DEFINE i == O[o].id
<1>1. /\ TokensOk(T) /\ ChainOk(A, W) /\ WritesOk(T, A, W) /\ s.open /\ s.tombs = Gone(T, A)
      /\ \A q \in 1..Len(O) : Grown(O[q])
      /\ \A q \in DOMAIN s.base : s.base[q] = 0
      /\ \A q \in 1..Len(O) : O[q].id \notin s.tombs =>
            Current(s, O, q) /\ (~InTokens(T, q) => BehindOk(O[q], W, rows))
      /\ AllCovered(A, O, known)
  BY DEF WorkHeld, WorkOk
<1>2. TokensOk(T2) /\ ChainOk(A2, W2)
  BY <1>1, EnrollChain
<1>3. WritesOk(T2, A2, W2)
  BY <1>1, EnrollWrites
<1>4. /\ t.deleted => Gone(T2, A2) = Gone(T, A) \cup {i}
      /\ ~t.deleted => Gone(T2, A2) = Gone(T, A)
      /\ \A p : InTokens(T2, p) <=> InTokens(T, p) \/ p = o
      /\ \A e : Covered(e, A, known) => Covered(e, A2, known)
  BY EnrollSets
<1>5. /\ \A q \in 1..Len(O) : /\ O[q] \in Instances(r) /\ O[q].id \in Ids /\ O[q].persisted \in Nat
                              /\ O[q].log \in Seq(AnyEvent) /\ O[q].pending \in Seq(AnyEvent)
      /\ o \in 1..Len(O)
  BY InstanceParts DEF Enrolls, Shape
<1>6. DOMAIN W2 = DOMAIN W \cup {i} /\ \A j \in DOMAIN W \ {i} : W2[j] = W[j]
  BY DEF Enrolls
<1>7. /\ s2.tokens = T2 /\ s2.open = s.open /\ s2.base = s.base
      /\ s2.tombs = s.tombs \cup (IF t.deleted THEN {i} ELSE {})
      /\ \A j \in Ids : j # i \/ ~t.deleted => s2.map[j] = s.map[j]
  BY DEF Resumes
<1> HIDE DEF i
<1>8. s2.tombs = Gone(T2, A2)
  BY <1>1, <1>4, <1>7
<1>9. ASSUME NEW q \in 1..Len(O), O[q].id \notin s2.tombs
      PROVE  Current(s2, O, q) /\ (~InTokens(s2.tokens, q) => BehindOk(O[q], W2, rows))
  <2>1. /\ O[q].id \notin s.tombs /\ (O[q].id # i \/ ~t.deleted)
        /\ s2.map[O[q].id] = s.map[O[q].id]
    <3>1. O[q].id \notin s.tombs /\ (O[q].id # i \/ ~t.deleted)
      BY <1>7, <1>9
    <3> QED BY <1>5, <1>7, <3>1
  <2>2. Current(s, O, q) /\ (~InTokens(T, q) => BehindOk(O[q], W, rows))
    BY <1>1, <2>1
  <2>3. Current(s2, O, q)
    BY <2>1, <2>2 DEF Current
  <2>4. ASSUME ~InTokens(T2, q) PROVE BehindOk(O[q], W2, rows)
    <3>1. ~InTokens(T, q) /\ q # o /\ BehindOk(O[q], W, rows)
      BY <1>4, <2>2, <2>4
    <3>2. CASE O[q].id # i
      BY <1>6, <3>1, <3>2 DEF BehindOk
    <3>3. CASE O[q].id = i
      <4>1. ASSUME O[q].persisted # 0 PROVE FALSE
        <5>1. O[q].loaded /\ s.map[i] = q
          <6>1. Grown(O[q]) /\ O[q].persisted \in Nat
            BY <1>1, <1>5
          <6>2. O[q].loaded
            BY <4>1, <6>1 DEF Grown
          <6> QED BY <2>2, <3>3, <6>2 DEF Current
        <5>2. Current(s, O, o) /\ Grown(O[o]) /\ O[o].persisted \in Nat
          BY <1>1, <1>5, <2>1, <3>3 DEF i
        <5>3. O[o].persisted = 0
          BY <3>1, <5>1, <5>2 DEF Current, Grown, i
        <5>4. CASE i \in DOMAIN W
          <6>1. PICK k \in 1..Len(T) : A[k].id = i
            BY <1>1, <5>4 DEF WritesOk, LastOf
          <6>2. k \in 1..Len(A) /\ T[k].obj \in 1..Len(O) /\ A[k] = O[T[k].obj]
            BY <6>1 DEF Enrolls, Shape
          <6>3. Follows(O[o], A[k])
            BY <5>4, <6>1, <6>2 DEF Enrollable, i
          <6>4. A[k].version \in Nat /\ A[k].version >= 1
            <7>1. A[k] \in Instances(r) /\ Grown(A[k])
              BY <1>1, <1>5, <6>2
            <7> QED BY <7>1, InstanceParts DEF Grown
          <6> QED BY <5>3, <6>3, <6>4 DEF Follows
        <5>5. CASE i \notin DOMAIN W
          <6>1. rows[i].log = <<>>
            BY <5>3, <5>5 DEF Enrollable, Continues, i
          <6>2. Prefix(Ground(O[q]), rows[i].log)
            BY <3>1, <3>3, <5>5 DEF BehindOk
          <6>3. Ground(O[q]) \in Seq(AnyEvent)
            BY <1>1, <1>5, GroundType
          <6>4. Ground(O[q]) = <<>>
            BY <6>1, <6>2, <6>3, EmptySeq, LenProperties DEF Prefix
          <6> QED BY <3>1, <4>1, <6>4 DEF BehindOk
        <5> QED BY <5>4, <5>5
      <4> QED BY <1>6, <3>1, <3>3, <4>1 DEF BehindOk
    <3> QED BY <3>2, <3>3
  <2> QED BY <1>7, <2>3, <2>4
<1>10. WorkOk(s2, A2, O, W2, rows)
  BY <1>1, <1>7, <1>8, <1>9 DEF WorkOk
<1>11. AllCovered(A2, O, known)
  BY <1>1, <1>4 DEF AllCovered
<1> QED BY <1>1, <1>2, <1>3, <1>10, <1>11 DEF WorkHeld

\* An enrolled instance whose row predicate matches wrote the buffered row.
LEMMA LastToken ==
  ASSUME Control, Held, NEW r \in Runs, NEW o, NEW s, NEW O, NEW T, NEW A, NEW W, NEW i,
         Handled(r, o, s, O, T, A, W, i), InTokens(T, o), i \notin s.tombs, RowMatches(r, o)
  PROVE  /\ i \in DOMAIN W
         /\ \E k \in 1..Len(T) : /\ T[k].obj = o /\ ~T[k].deleted /\ A[k] = O[o]
                                 /\ LastOf(T, A, i, k) /\ WrittenFrom(W[i], T[k], A[k])
<1>1. HandledParts(r, o, s, O, T, A, W, i)
  BY HandledOk
<1>2. /\ Shape(r, O, T, A) /\ TokensOk(T) /\ ChainOk(A, W) /\ WritesOk(T, A, W)
      /\ s.tombs = Gone(T, A) /\ \A q \in 1..Len(O) : Grown(O[q])
      /\ i = O[o].id /\ T = s.tokens /\ i \in Ids
  BY <1>1 DEF HandledParts, WorkHeld, WorkOk, Handled
<1>3. PICK k \in 1..Len(T) : T[k].obj = o
  BY DEF InTokens
<1>4. \A j \in 1..Len(T) : /\ T[j].obj \in 1..Len(O) /\ A[j] = O[T[j].obj] /\ Grown(A[j])
                           /\ A[j] \in Instances(r) /\ j \in 1..Len(A)
                           /\ A[j].id = i => ~T[j].deleted
  BY <1>2 DEF Shape, Gone
<1>5. A[k] = O[o] /\ A[k].id = i /\ i \in DOMAIN W
  BY <1>2, <1>3, <1>4 DEF ChainOk
<1>6. PICK l \in 1..Len(T) : LastOf(T, A, i, l) /\ WrittenFrom(W[i], T[l], A[l])
  BY <1>2, <1>5 DEF WritesOk
<1>7. ASSUME T[l].obj # o PROVE FALSE
  <2>1. A[l].id = i /\ k <= l /\ k # l /\ W[i].v = A[l].version /\ W[i].obj # o
    BY <1>3, <1>4, <1>5, <1>6, <1>7 DEF LastOf, WrittenFrom
  <2>2. W[i].v = O[o].persisted
    <3>1. Visible(r, i) = W[i]
      BY <1>5 DEF Handled, Visible
    <3> QED BY <2>1, <3>1 DEF RowMatches, Handled
  <2>3. k < l /\ k \in 1..Len(A) /\ l \in 1..Len(A)
    BY <1>4, <2>1
  <2>4. A[k].persisted = 0
    BY <1>2, <1>5, <2>1, <2>3 DEF ChainOk, Follows
  <2>5. A[l].version \in Nat /\ A[l].version >= 1
    <3>1. A[l] \in Instances(r) /\ Grown(A[l])
      BY <1>4
    <3> QED BY <3>1, InstanceParts DEF Grown
  <2> QED BY <1>5, <2>1, <2>2, <2>4, <2>5
<1>8. l = k
  BY <1>2, <1>3, <1>7 DEF TokensOk
<1> QED BY <1>3, <1>4, <1>5, <1>6, <1>8

\* What a save and a delete leave of a session.
SavedFrom(s, s2, o) ==
    /\ s2.open = s.open /\ s2.map = s.map /\ s2.tombs = s.tombs /\ s2.base = s.base
    /\ s2.tokens = IF Enrolled(s, o) THEN s.tokens ELSE Append(s.tokens, Token(o, FALSE))

DeletedFrom(s, s2, o, id) ==
    /\ s2.open = s.open /\ s2.base = s.base /\ s2.tombs = s.tombs \cup {id}
    /\ s2.tokens = DeletedTokens(s, o) /\ \A j \in Ids : j # id => s2.map[j] = s.map[j]

\* They are that.
LEMMA SavedIs ==
  ASSUME NEW d, NEW s, NEW O, SessionOk(d, s, O), NEW o
  PROVE  SavedFrom(s, SavedSession(s, o), o)
<1> DEFINE T == IF Enrolled(s, o) THEN s.tokens ELSE Append(s.tokens, Token(o, FALSE))
<1>1. s \in Sessions(d)
  BY DEF SessionOk
<1>2. SavedSession(s, o) = [s EXCEPT !.tokens = T]
  BY DEF SavedSession
<1> HIDE DEF T
<1>3. /\ SavedSession(s, o).open = s.open /\ SavedSession(s, o).map = s.map
      /\ SavedSession(s, o).tombs = s.tombs /\ SavedSession(s, o).base = s.base
      /\ SavedSession(s, o).tokens = T
  BY <1>1, <1>2 DEF Sessions
<1> QED BY <1>3 DEF SavedFrom, T

\* The same for a delete.
LEMMA DeletedIs ==
  ASSUME NEW d, NEW s, NEW O, SessionOk(d, s, O), NEW o, NEW id \in Ids
  PROVE  DeletedFrom(s, DeletedSession(s, o, id), o, id)
<1> DEFINE D == DeletedTokens(s, o)
           m == [s.map EXCEPT ![id] = 0]
           tombs == s.tombs \cup {id}
<1>1. s \in Sessions(d) /\ s.map \in [Ids -> Nat]
  BY DEF SessionOk, Sessions
<1>2. DeletedSession(s, o, id) = [s EXCEPT !.tokens = D, !.map = m, !.tombs = tombs]
  BY DEF DeletedSession
<1>3. \A j \in Ids : j # id => m[j] = s.map[j]
  BY <1>1
<1> HIDE DEF D, m, tombs
<1>4. DeletedSession(s, o, id) = [open |-> s.open, tokens |-> D, map |-> m, tombs |-> tombs,
                                  base |-> s.base]
  BY <1>1, <1>2 DEF Sessions
<1> QED BY <1>3, <1>4 DEF DeletedFrom, D, tombs

\* What an enrollment of an instance writes.
Enrolling(r, o, s, O, T, A, W, i, t, v, row, W2) ==
    /\ Handled(r, o, s, O, T, A, W, i) /\ ~InTokens(T, o) /\ i \notin s.tombs /\ RowMatches(r, o)
    /\ t \in Tokens /\ t.obj = o /\ v = (IF t.deleted THEN 0 ELSE O[o].version)
    /\ row = RowOf(r, o, v) /\ W2 = Written(tx[r], i, row).rows

\* The rows it writes.
LEMMA EnrollingOk ==
  ASSUME Control, Held, NEW r \in Runs, NEW o, NEW s, NEW O, NEW T, NEW A, NEW W, NEW i, NEW t,
         NEW v, NEW row, NEW W2, Enrolling(r, o, s, O, T, A, W, i, t, v, row, W2)
  PROVE  /\ Enrolls(r, O, T, A, W, o, t, row, rows, Append(T, t), Taken(O, Append(T, t)), W2)
         /\ Enrollable(O, A, W, o, rows) /\ i = O[o].id /\ T = s.tokens
         /\ WorkHeld(s, T, A, O, W, Known(outbox))
<1>1. Handled(r, o, s, O, T, A, W, i) /\ HandledParts(r, o, s, O, T, A, W, i)
  BY HandledOk DEF Enrolling
<1>2. Enrollable(O, A, W, o, rows)
  BY <1>1, EnrollableHolds DEF Enrolling
<1>3. /\ o \in 1..Len(O) /\ O = objs[r] /\ W = tx[r].rows /\ i = O[o].id /\ T = s.tokens
      /\ run[r].pc = "work" /\ i \in Ids /\ v \in Nat /\ Shape(r, O, T, A)
      /\ t \in Tokens /\ t.obj = o /\ ~InTokens(T, o)
      /\ row = RowOf(r, o, v) /\ W2 = Written(tx[r], i, row).rows
      /\ v = IF t.deleted THEN 0 ELSE O[o].version
  BY <1>1 DEF Handled, HandledParts, Enrolling
<1>4. row \in Writes /\ TxOk(r, run[r], tx[r])
  BY <1>3, RowOfOk, Parts
<1>5. /\ DOMAIN W2 = DOMAIN W \cup {i} /\ W2[i] = row
      /\ \A j \in DOMAIN W \ {i} : W2[j] = W[j]
  BY <1>3, <1>4, WrittenOk
<1>6. /\ row.obj = o /\ row.log = O[o].log /\ row.v = v
      /\ row.base = IF i \in DOMAIN W THEN W[i].base ELSE rows[i]
  BY ZenonT(60), <1>3 DEF RowOf
<1>7. Enrolls(r, O, T, A, W, o, t, row, rows, Append(T, t), Taken(O, Append(T, t)), W2)
  BY <1>3, <1>5, <1>6 DEF Enrolls
<1> QED BY <1>1, <1>2, <1>3, <1>7 DEF HandledParts

\* A first save.
LEMMA FirstSaveHeld ==
  ASSUME Control, Held, setup' = setup, NEW r \in Runs, NEW o, NEW s, NEW O, NEW T, NEW A, NEW W,
         NEW i, Handled(r, o, s, O, T, A, W, i), ~InTokens(T, o), i \notin s.tombs, RowMatches(r, o),
         NEW s2, s2 = SavedSession(s, o), NEW x,
         x = Written(tx[r], i, RowOf(r, o, O[o].version)),
         Moves(r, run[r], s2, O, x), UNCHANGED <<rows, outbox, bus>>
  PROVE  Held'
<1>1. /\ o \in 1..Len(O) /\ T = s.tokens /\ run[r].pc = "work" /\ s = session[r] /\ O = objs[r]
      /\ i = O[o].id
  BY SMTT(40) DEF Handled
<1>2. SessionOk(setup, s, O) /\ T \in Seq(Tokens) /\ Len(O) \in Nat /\ run[r].outcome = None
      /\ rows \in [Ids -> Rows] /\ i \in Ids /\ s.open
  <2>1. HandledParts(r, o, s, O, T, A, W, i)
    BY HandledOk
  <2> QED BY <1>1, <2>1, Parts, WorkParts DEF HandledParts, Shape, Control, WorkHeld, WorkOk
<1>3. ~Enrolled(s, o)
  BY <1>1, <1>2, EnrolledIs
<1>4. PICK t \in Tokens : t = Token(o, FALSE) /\ t.obj = o /\ ~t.deleted
  <2>1. o \in Nat
    BY <1>1, <1>2
  <2>2. Token(o, FALSE) \in Tokens /\ Token(o, FALSE).obj = o /\ ~Token(o, FALSE).deleted
    BY <2>1 DEF Token, Tokens
  <2> QED BY <2>2
<1>5. /\ s2.open = s.open /\ s2.map = s.map /\ s2.tombs = s.tombs
      /\ s2.base = s.base /\ s2.tokens = Append(T, t)
  <2>1. o \in 1..Len(O) /\ Len(O) \in Nat /\ i \in Ids /\ s.open /\ SessionOk(setup, s, O)
    BY <1>1, <1>2
  <2>2. /\ SavedSession(s, o).open /\ SavedSession(s, o).map = s.map
        /\ SavedSession(s, o).tombs = s.tombs /\ SavedSession(s, o).base = s.base
        /\ SavedSession(s, o).tokens =
              IF Enrolled(s, o) THEN s.tokens ELSE Append(s.tokens, Token(o, FALSE))
    <3>1. SavedFrom(s, SavedSession(s, o), o)
      BY <2>1, SavedIs
    <3> QED BY <2>1, <3>1 DEF SavedFrom
  <2> QED BY <1>1, <1>2, <1>3, <1>4, <2>2
<1>6. PICK v : v = O[o].version
  OBVIOUS
<1>7. PICK row : row = RowOf(r, o, v)
  OBVIOUS
<1>8. PICK W2 : W2 = x.rows
  OBVIOUS
<1>9. Enrolling(r, o, s, O, T, A, W, i, t, v, row, W2)
  BY <1>4, <1>6, <1>7, <1>8 DEF Enrolling
<1>10. /\ Enrolls(r, O, T, A, W, o, t, row, rows, Append(T, t), Taken(O, Append(T, t)), W2)
       /\ Enrollable(O, A, W, o, rows) /\ WorkHeld(s, T, A, O, W, Known(outbox))
  BY <1>9, EnrollingOk
<1>11. PICK T2 : T2 = Append(T, t)
  OBVIOUS
<1>12. PICK A2 : A2 = Taken(O, T2)
  OBVIOUS
<1>13. Resumes(s, s2, t, T2, O[o].id)
  BY <1>4, <1>5, <1>11 DEF Resumes
<1>14. WorkHeld(s2, T2, A2, O, W2, Known(outbox))
  <2>1. Enrolls(r, O, T, A, W, o, t, row, rows, T2, A2, W2)
    BY <1>10, <1>11, <1>12
  <2> QED BY <1>1, <1>2, <1>10, <1>13, <2>1, EnrollWork
<1>15. WorkHeld(s2, s2.tokens, Taken(O, s2.tokens), O, x.rows, Known(outbox))
  BY <1>5, <1>8, <1>11, <1>12, <1>14
<1> QED BY <1>1, <1>2, <1>15, WorkMoves

\* Another save of it.
LEMMA SecondSaveHeld ==
  ASSUME Control, Held, setup' = setup, NEW r \in Runs, NEW o, NEW s, NEW O, NEW T, NEW A, NEW W,
         NEW i, Handled(r, o, s, O, T, A, W, i), InTokens(T, o), i \notin s.tombs, RowMatches(r, o),
         NEW s2, s2 = SavedSession(s, o), NEW x,
         x = Written(tx[r], i, RowOf(r, o, O[o].version)),
         Moves(r, run[r], s2, O, x), UNCHANGED <<rows, outbox, bus>>
  PROVE  Held'
<1>1. /\ o \in 1..Len(O) /\ T = s.tokens /\ run[r].pc = "work" /\ s = session[r] /\ O = objs[r]
      /\ i = O[o].id /\ A = Taken(O, T) /\ W = tx[r].rows
  BY SMTT(40) DEF Handled
<1>2. /\ SessionOk(setup, s, O) /\ T \in Seq(Tokens) /\ Len(O) \in Nat /\ run[r].outcome = None
      /\ rows \in [Ids -> Rows] /\ i \in Ids /\ s.open /\ O[o].version \in Nat
      /\ WorkHeld(s, T, A, O, W, Known(outbox)) /\ TxOk(r, run[r], tx[r])
  <2>1. HandledParts(r, o, s, O, T, A, W, i)
    BY HandledOk
  <2> QED BY <1>1, <2>1, Parts, WorkParts DEF HandledParts, Shape, Control, WorkHeld, WorkOk
<1>3. Enrolled(s, o)
  BY <1>1, <1>2, EnrolledIs
<1>4. /\ s2.open /\ s2.map = s.map /\ s2.tombs = s.tombs /\ s2.base = s.base /\ s2.tokens = T
  <2>1. o \in 1..Len(O) /\ Len(O) \in Nat /\ i \in Ids /\ s.open /\ SessionOk(setup, s, O)
    BY <1>1, <1>2
  <2>2. /\ SavedSession(s, o).open /\ SavedSession(s, o).map = s.map
        /\ SavedSession(s, o).tombs = s.tombs /\ SavedSession(s, o).base = s.base
        /\ SavedSession(s, o).tokens =
              IF Enrolled(s, o) THEN s.tokens ELSE Append(s.tokens, Token(o, FALSE))
    <3>1. SavedFrom(s, SavedSession(s, o), o)
      BY <2>1, SavedIs
    <3> QED BY <2>1, <3>1 DEF SavedFrom
  <2> QED BY <1>1, <1>3, <2>2
<1>5. /\ i \in DOMAIN W
      /\ \E k \in 1..Len(T) : /\ T[k].obj = o /\ ~T[k].deleted /\ A[k] = O[o]
                              /\ WrittenFrom(W[i], T[k], A[k])
  BY SMTT(40), LastToken
<1>6. W[i].v = O[o].version /\ W[i].log = O[o].log /\ W[i].obj = o /\ W[i] \in Writes
  BY SMTT(40), <1>1, <1>2, <1>5 DEF WrittenFrom, TxOk
<1>7. RowOf(r, o, O[o].version) = W[i]
  <2>1. RowOf(r, o, O[o].version)
           = [v |-> O[o].version, log |-> O[o].log, obj |-> o, base |-> W[i].base]
    BY <1>1, <1>5 DEF RowOf
  <2>2. W[i] = [v |-> W[i].v, log |-> W[i].log, obj |-> W[i].obj, base |-> W[i].base]
    BY <1>6 DEF Writes
  <2> QED BY <1>6, <2>1, <2>2
<1>8. x.rows = W
  <2>1. PICK row \in Writes : row = W[i]
    BY SMTT(40), <1>6
  <2>0. x = Written(tx[r], i, row) /\ TxOk(r, run[r], tx[r]) /\ i \in Ids /\ run[r].pc = "work"
    BY <1>1, <1>2, <1>7, <2>1
  <2>a. /\ TxOk(r, run[r], Written(tx[r], i, row))
        /\ DOMAIN Written(tx[r], i, row).rows = DOMAIN tx[r].rows \cup {i}
        /\ Written(tx[r], i, row).rows[i] = row
        /\ \A j \in DOMAIN tx[r].rows \ {i} : Written(tx[r], i, row).rows[j] = tx[r].rows[j]
    BY SMTT(40), <2>0, WrittenOk
  <2>2. /\ DOMAIN x.rows = DOMAIN W \cup {i} /\ x.rows[i] = row
        /\ \A j \in DOMAIN W \ {i} : x.rows[j] = W[j]
    BY <1>1, <2>0, <2>a
  <2>3. TxOk(r, run[r], x)
    BY SMTT(40), <2>0, <2>a
  <2>4. W = [j \in DOMAIN W |-> W[j]] /\ x.rows = [j \in DOMAIN x.rows |-> x.rows[j]]
    BY ZenonT(60), <1>1, <1>2, <2>3 DEF TxOk
  <2>5. DOMAIN x.rows = DOMAIN W /\ \A j \in DOMAIN W : x.rows[j] = W[j]
    BY <1>5, <2>1, <2>2
  <2> QED BY <2>4, <2>5
<1>9. WorkHeld(s2, T, A, O, x.rows, Known(outbox))
  BY <1>1, <1>2, <1>4, <1>8 DEF WorkHeld, WorkOk, Current
<1>10. WorkHeld(s2, s2.tokens, Taken(O, s2.tokens), O, x.rows, Known(outbox))
  BY <1>1, <1>4, <1>9
<1> QED BY <1>1, <1>2, <1>10, WorkMoves

\* A save.
LEMMA SaveHeld ==
  ASSUME Control, Held, setup' = setup, NEW r \in Runs, NEW o, Save(r, o)
  PROVE  Held'
<1>1. run[r].pc = "work" /\ session[r].open /\ o \in DOMAIN objs[r] /\ run[r].pc # "settled"
  BY DEF Save, Open
<1>2. CASE Throw(r, "deleted") \/ Throw(r, "conflict")
  BY <1>1, <1>2, ThrowHeld
<1>3. CASE /\ ~RefusesDeleted(r, o) /\ RowMatches(r, o)
           /\ EnrollSaved(r, o) /\ Write(r, o, objs[r][o].version)
           /\ UNCHANGED <<rows, outbox, active, run, objs, bus, faults>>
  <2>1. PICK O : O = objs[r]
    OBVIOUS
  <2>2. PICK s : s = session[r]
    OBVIOUS
  <2>3. PICK T : T = s.tokens
    OBVIOUS
  <2>4. PICK A : A = Taken(O, T)
    OBVIOUS
  <2>5. PICK W : W = tx[r].rows
    OBVIOUS
  <2>6. PICK i : i = O[o].id
    OBVIOUS
  <2>7. o \in 1..Len(O)
    <3>1. objs[r] \in Seq(Instances(r))
      BY Parts
    <3> QED BY <1>1, <2>1, <3>1, LenProperties
  <2>8. Handled(r, o, s, O, T, A, W, i) /\ i \notin s.tombs /\ RowMatches(r, o)
    BY <1>1, <1>3, <2>1, <2>2, <2>3, <2>4, <2>5, <2>6, <2>7 DEF Handled, RefusesDeleted
  <2>9. PICK s2 : s2 = SavedSession(s, o)
    OBVIOUS
  <2>10. PICK x : x = Written(tx[r], i, RowOf(r, o, O[o].version))
    OBVIOUS
  <2>11. Moves(r, run[r], s2, O, x) /\ UNCHANGED <<rows, outbox, bus>>
    <3>1. session' = [session EXCEPT ![r] = s2] /\ tx' = [tx EXCEPT ![r] = x]
      BY <1>1, <1>3, <2>1, <2>2, <2>6, <2>9, <2>10, SaveForm
    <3> QED BY <1>3, <2>1, <3>1, Parts DEF Moves
  <2> QED BY <2>8, <2>9, <2>10, <2>11, FirstSaveHeld, SecondSaveHeld
<1> QED BY <1>2, <1>3 DEF Save

\* A delete of an instance that was not enrolled.
LEMMA FirstDeleteHeld ==
  ASSUME Control, Held, setup' = setup, NEW r \in Runs, NEW o, NEW s, NEW O, NEW T, NEW A, NEW W,
         NEW i, Handled(r, o, s, O, T, A, W, i), ~InTokens(T, o), i \notin s.tombs, RowMatches(r, o),
         NEW s2, s2 = DeletedSession(s, o, i), NEW x, x = Written(tx[r], i, RowOf(r, o, 0)),
         Moves(r, run[r], s2, O, x), UNCHANGED <<rows, outbox, bus>>
  PROVE  Held'
<1>1. /\ o \in 1..Len(O) /\ T = s.tokens /\ run[r].pc = "work" /\ s = session[r] /\ O = objs[r]
      /\ i = O[o].id
  BY DEF Handled
<1>2. /\ SessionOk(setup, s, O) /\ T \in Seq(Tokens) /\ Len(O) \in Nat /\ run[r].outcome = None
      /\ rows \in [Ids -> Rows] /\ i \in Ids /\ o \in Nat
  <2>1. HandledParts(r, o, s, O, T, A, W, i)
    BY HandledOk
  <2>2. Len(O) \in Nat /\ i \in Ids /\ o \in Nat
    BY SMTT(40), <1>1, <2>1 DEF HandledParts, Shape
  <2>3. SessionOk(setup, s, O) /\ T \in Seq(Tokens)
    BY <1>1, <2>1, Parts DEF HandledParts, Shape
  <2> QED BY <1>1, <2>2, <2>3, WorkParts DEF Control
<1>3. ~Enrolled(s, o) /\ Enrollment(s, o)
  BY <1>1, <1>2, EnrolledIs, TokenLists
<1>4. PICK t \in Tokens : t = Token(o, TRUE) /\ t.obj = o /\ t.deleted
  <2>1. Token(o, TRUE) \in Tokens /\ Token(o, TRUE).obj = o /\ Token(o, TRUE).deleted
    BY <1>2 DEF Token, Tokens
  <2> QED BY <2>1
<1>5. DeletedFrom(s, s2, o, i) /\ s2.tokens = Append(T, t)
  <2>1. DeletedFrom(s, s2, o, i)
    BY <1>2, DeletedIs
  <2> QED BY <1>1, <1>3, <1>4, <2>1 DEF Enrollment, DeletedFrom
<1>6. PICK v : v = 0
  OBVIOUS
<1>7. PICK row : row = RowOf(r, o, v)
  OBVIOUS
<1>8. PICK W2 : W2 = x.rows
  OBVIOUS
<1>9. Enrolling(r, o, s, O, T, A, W, i, t, v, row, W2)
  BY <1>4, <1>6, <1>7, <1>8 DEF Enrolling
<1>10. /\ Enrolls(r, O, T, A, W, o, t, row, rows, Append(T, t), Taken(O, Append(T, t)), W2)
       /\ Enrollable(O, A, W, o, rows) /\ WorkHeld(s, T, A, O, W, Known(outbox))
  BY <1>9, EnrollingOk
<1>11. PICK T2 : T2 = Append(T, t)
  OBVIOUS
<1>12. PICK A2 : A2 = Taken(O, T2)
  OBVIOUS
<1>13. Resumes(s, s2, t, T2, O[o].id)
  BY <1>1, <1>4, <1>5, <1>11 DEF Resumes, DeletedFrom
<1>14. WorkHeld(s2, T2, A2, O, W2, Known(outbox))
  <2>1. Enrolls(r, O, T, A, W, o, t, row, rows, T2, A2, W2)
    BY <1>10, <1>11, <1>12
  <2> QED BY <1>1, <1>2, <1>10, <1>13, <2>1, EnrollWork
<1>15. WorkHeld(s2, s2.tokens, Taken(O, s2.tokens), O, x.rows, Known(outbox))
  BY <1>5, <1>8, <1>11, <1>12, <1>14
<1> QED BY <1>1, <1>2, <1>15, WorkMoves

\* A delete overrides the token of an earlier save.
Overrides(T, T2, o) ==
    /\ Len(T2) = Len(T)
    /\ \A k \in 1..Len(T) : T2[k].obj = T[k].obj /\ (T2[k].deleted <=> T[k].deleted \/ T[k].obj = o)

\* The row that the save wrote is written again.
Rewrites(O, T, A, W, o, T2, W2, i, k) ==
    /\ i = O[o].id /\ Overrides(T, T2, o)
    /\ T[k].obj = o /\ LastOf(T, A, i, k) /\ WrittenFrom(W[i], T[k], A[k])
    /\ i \in DOMAIN W /\ DOMAIN W2 = DOMAIN W /\ \A j \in DOMAIN W \ {i} : W2[j] = W[j]
    /\ W2[i].v = 0 /\ W2[i].log = O[o].log /\ W2[i].obj = o /\ W2[i].base = W[i].base

\* The enrolled instances stay the same.
LEMMA OverrideWork ==
  ASSUME NEW r \in Runs, NEW O, NEW T, NEW A, NEW W, NEW o \in 1..Len(O), NEW T2, NEW W2, NEW i,
         Shape(r, O, T, A), NEW k \in 1..Len(T), Rewrites(O, T, A, W, o, T2, W2, i, k),
         NEW s, NEW s2, DeletedFrom(s, s2, o, i), s.tokens = T, s2.tokens = T2, i \notin s.tombs,
         NEW known, WorkHeld(s, T, A, O, W, known)
  PROVE  WorkHeld(s2, T2, A, O, W2, known)
<1>0. /\ i = O[o].id /\ Overrides(T, T2, o)
      /\ T[k].obj = o /\ LastOf(T, A, i, k) /\ WrittenFrom(W[i], T[k], A[k])
      /\ i \in DOMAIN W /\ DOMAIN W2 = DOMAIN W /\ \A j \in DOMAIN W \ {i} : W2[j] = W[j]
      /\ W2[i].v = 0 /\ W2[i].log = O[o].log /\ W2[i].obj = o /\ W2[i].base = W[i].base
  BY DEF Rewrites
<1>1. /\ TokensOk(T) /\ ChainOk(A, W) /\ WritesOk(T, A, W) /\ s.open /\ s.tombs = Gone(T, A)
      /\ \A q \in 1..Len(O) : Grown(O[q])
      /\ \A q \in DOMAIN s.base : s.base[q] = 0
      /\ \A q \in 1..Len(O) : O[q].id \notin s.tombs =>
            Current(s, O, q) /\ (~InTokens(T, q) => BehindOk(O[q], W, rows))
      /\ AllCovered(A, O, known)
  BY DEF WorkHeld, WorkOk
<1>2. /\ Len(T2) = Len(T) /\ Len(A) = Len(T) /\ A[k] = O[o]
      /\ \A l \in 1..Len(T) : /\ T2[l].obj = T[l].obj
                              /\ T2[l].deleted <=> T[l].deleted \/ T[l].obj = o
                              /\ T[l].obj = o => l = k
  BY <1>0, <1>1 DEF Overrides, Shape, TokensOk
<1>3. \A l \in 1..Len(T) : A[l].id = i => ~T[l].deleted
  <2>1. i \in Ids
    <3>1. O[o] \in Instances(r)
      BY DEF Shape
    <3> QED BY <1>0, <3>1, InstanceParts
  <2> QED BY <1>0, <1>1, <2>1 DEF Gone
<1>4. TokensOk(T2)
  BY <1>0, <1>1, <1>2 DEF TokensOk
<1>5. \A j \in DOMAIN W : W2[j].base = W[j].base
  BY <1>0
<1>6. ChainOk(A, W2)
  <2>1. \A l \in 1..Len(A) : A[l].id \in DOMAIN W
    BY <1>0, <1>1 DEF ChainOk
  <2>2. \A l \in 1..Len(A) : A[l].id \in DOMAIN W2 /\ W2[A[l].id].base = W[A[l].id].base
    BY <1>0, <1>5, <2>1
  <2> QED BY <1>0, <1>1, <2>2 DEF ChainOk
<1>7. ASSUME NEW j \in DOMAIN W2
      PROVE  /\ Rooted(W2[j])
             /\ \E l \in 1..Len(T2) : LastOf(T2, A, j, l) /\ WrittenFrom(W2[j], T2[l], A[l])
  <2>1. Rooted(W2[j])
    BY <1>0, <1>1, <1>5 DEF WritesOk, Rooted
  <2>2. CASE j = i
    <3>1. LastOf(T2, A, i, k)
      BY <1>0, <1>2, <1>3 DEF LastOf
    <3>2. WrittenFrom(W2[i], T2[k], A[k])
      BY <1>0, <1>2 DEF WrittenFrom
    <3> QED BY <1>0, <1>2, <2>1, <2>2, <3>1, <3>2
  <2>3. CASE j # i
    <3>1. PICK l \in 1..Len(T) : LastOf(T, A, j, l) /\ WrittenFrom(W[j], T[l], A[l])
      BY <1>0, <1>1 DEF WritesOk
    <3>2. \A m \in 1..Len(T) : A[m].id = j => (T2[m].deleted <=> T[m].deleted)
      BY <1>0, <1>2, <2>3
    <3>3. LastOf(T2, A, j, l)
      BY <1>0, <1>2, <3>1, <3>2 DEF LastOf
    <3>4. WrittenFrom(W2[j], T2[l], A[l])
      BY <1>0, <1>2, <2>3, <3>1, <3>2 DEF WrittenFrom, LastOf
    <3> QED BY <1>0, <1>2, <2>1, <3>3, <3>4
  <2> QED BY <2>2, <2>3
<1>8. WritesOk(T2, A, W2)
  BY <1>7 DEF WritesOk
<1>9. /\ s2.open = s.open /\ s2.base = s.base /\ s2.tombs = s.tombs \cup {i}
      /\ \A j \in Ids : j # i => s2.map[j] = s.map[j]
  BY DEF DeletedFrom
<1>10. s2.tombs = Gone(T2, A)
  <2>1. A[k].id = i
    BY <1>0, <1>2
  <2>2. \A l \in 1..Len(T) : T2[l].deleted <=> T[l].deleted \/ l = k
    BY <1>0, <1>2
  <2>3. i \in Ids
    <3>1. O[o] \in Instances(r)
      BY DEF Shape
    <3> QED BY <1>0, <3>1, InstanceParts
  <2>4. Gone(T2, A) = Gone(T, A) \cup {i}
    BY <1>0, <1>2, <2>1, <2>2, <2>3 DEF Gone
  <2> QED BY <1>0, <1>1, <1>9, <2>4
<1>11. ASSUME NEW q \in 1..Len(O), O[q].id \notin s2.tombs
       PROVE  Current(s2, O, q) /\ (~InTokens(T2, q) => BehindOk(O[q], W2, rows))
  <2>1. O[q].id \notin s.tombs /\ O[q].id # i /\ O[q].id \in Ids
    <3>1. O[q] \in Instances(r)
      BY DEF Shape
    <3> QED BY <1>0, <1>9, <1>11, <3>1, InstanceParts
  <2>2. Current(s, O, q) /\ (~InTokens(T, q) => BehindOk(O[q], W, rows))
    BY <1>0, <1>1, <2>1
  <2>3. Current(s2, O, q)
    BY <1>0, <1>9, <2>1, <2>2 DEF Current
  <2>4. InTokens(T, q) => InTokens(T2, q)
    BY <1>0, <1>2 DEF InTokens
  <2>5. BehindOk(O[q], W, rows) => BehindOk(O[q], W2, rows)
    BY <1>0, <2>1 DEF BehindOk
  <2> QED BY <2>2, <2>3, <2>4, <2>5
<1>12. WorkOk(s2, A, O, W2, rows)
  BY <1>0, <1>1, <1>9, <1>10, <1>11 DEF WorkOk
<1> QED BY <1>0, <1>1, <1>4, <1>6, <1>8, <1>12 DEF WorkHeld

\* A delete of an instance that was saved before.
LEMMA SecondDeleteHeld ==
  ASSUME Control, Held, setup' = setup, NEW r \in Runs, NEW o, NEW s, NEW O, NEW T, NEW A, NEW W,
         NEW i, Handled(r, o, s, O, T, A, W, i), InTokens(T, o), i \notin s.tombs, RowMatches(r, o),
         NEW s2, s2 = DeletedSession(s, o, i), NEW x, x = Written(tx[r], i, RowOf(r, o, 0)),
         Moves(r, run[r], s2, O, x), UNCHANGED <<rows, outbox, bus>>
  PROVE  Held'
<1>1. /\ o \in 1..Len(O) /\ T = s.tokens /\ run[r].pc = "work" /\ s = session[r] /\ O = objs[r]
      /\ i = O[o].id /\ A = Taken(O, T) /\ W = tx[r].rows
  BY DEF Handled
<1>2. /\ SessionOk(setup, s, O) /\ T \in Seq(Tokens) /\ Len(O) \in Nat /\ run[r].outcome = None
      /\ i \in Ids /\ o \in Nat /\ Shape(r, O, T, A)
      /\ WorkHeld(s, T, A, O, W, Known(outbox)) /\ TxOk(r, run[r], tx[r])
  <2>1. HandledParts(r, o, s, O, T, A, W, i)
    BY SMTT(40), HandledOk
  <2>2. Len(O) \in Nat /\ i \in Ids /\ o \in Nat /\ T \in Seq(Tokens)
    BY <1>1, <2>1 DEF HandledParts, Shape
  <2>3. SessionOk(setup, s, O) /\ TxOk(r, run[r], tx[r])
    BY <1>1, Parts
  <2> QED BY <1>1, <2>1, <2>2, <2>3, WorkParts DEF HandledParts
<1>3. Enrolled(s, o) /\ Enrollment(s, o)
  BY <1>1, <1>2, EnrolledIs, TokenLists
<1>4. DeletedFrom(s, s2, o, i)
  BY <1>2, DeletedIs
<1>5. PICK T2 : T2 = s2.tokens
  OBVIOUS
<1>6. Overrides(T, T2, o)
  <2>1. T2 = DeletedTokens(s, o)
    BY <1>4, <1>5 DEF DeletedFrom
  <2> QED BY <1>1, <1>3, <2>1 DEF Enrollment, Overrides
<1>7. PICK W2 : W2 = x.rows
  OBVIOUS
<1>8. i \in DOMAIN W
  BY LastToken
<1>9. PICK k \in 1..Len(T) : T[k].obj = o /\ LastOf(T, A, i, k) /\ WrittenFrom(W[i], T[k], A[k])
  BY LastToken
<1>10. PICK row \in Writes : row = RowOf(r, o, 0)
  <2>1. o \in 1..Len(objs[r]) /\ 0 \in Nat
    BY <1>1
  <2> QED BY <2>1, RowOfOk
<1>11. /\ DOMAIN W2 = DOMAIN W /\ W2[i] = row /\ \A j \in DOMAIN W \ {i} : W2[j] = W[j]
  <2>1. x = Written(tx[r], i, row) /\ TxOk(r, run[r], tx[r]) /\ i \in Ids /\ run[r].pc = "work"
    BY <1>1, <1>2, <1>10
  <2>2. /\ DOMAIN Written(tx[r], i, row).rows = DOMAIN tx[r].rows \cup {i}
        /\ Written(tx[r], i, row).rows[i] = row
        /\ \A j \in DOMAIN tx[r].rows \ {i} : Written(tx[r], i, row).rows[j] = tx[r].rows[j]
    BY SMTT(40), <2>1, WrittenOk
  <2> QED BY ZenonT(60), <1>1, <1>7, <1>8, <2>1, <2>2
<1>12. row.v = 0 /\ row.log = O[o].log /\ row.obj = o /\ row.base = W[i].base
  BY <1>1, <1>8, <1>10 DEF RowOf
<1>13. WorkHeld(s2, T2, A, O, W2, Known(outbox))
  <2>1. /\ W2[i].v = 0 /\ W2[i].log = O[o].log /\ W2[i].obj = o /\ W2[i].base = W[i].base
        /\ s.tokens = T /\ s2.tokens = T2 /\ i = O[o].id /\ o \in 1..Len(O) /\ i \notin s.tombs
    BY <1>1, <1>5, <1>11, <1>12
  <2>2. Shape(r, O, T, A) /\ WorkHeld(s, T, A, O, W, Known(outbox))
    BY <1>2
  <2>3. DOMAIN W2 = DOMAIN W /\ \A j \in DOMAIN W \ {i} : W2[j] = W[j]
    BY <1>11
  <2>4. Rewrites(O, T, A, W, o, T2, W2, i, k)
    BY SMTT(40), <1>6, <1>8, <1>9, <2>1, <2>3 DEF Rewrites
  <2> QED BY <1>4, <2>1, <2>2, <2>4, OverrideWork
<1>14. Taken(O, T2) = A
  BY <1>1, <1>6 DEF Taken, Overrides
<1>15. WorkHeld(s2, s2.tokens, Taken(O, s2.tokens), O, x.rows, Known(outbox))
  BY <1>5, <1>7, <1>13, <1>14
<1> QED BY <1>1, <1>2, <1>15, WorkMoves

\* A delete.
LEMMA DeleteHeld ==
  ASSUME Control, Held, setup' = setup, NEW r \in Runs, NEW o, Delete(r, o)
  PROVE  Held'
<1>1. run[r].pc = "work" /\ session[r].open /\ o \in DOMAIN objs[r] /\ run[r].pc # "settled"
      /\ objs[r][o].id \notin session[r].tombs
  BY DEF Delete, Working
<1>2. CASE Throw(r, "conflict")
  BY <1>1, <1>2, ThrowHeld
<1>3. CASE /\ RowMatches(r, o) /\ EnrollDeleted(r, o) /\ Write(r, o, 0)
           /\ UNCHANGED <<rows, outbox, active, run, objs, bus, faults>>
  <2>1. PICK O : O = objs[r]
    OBVIOUS
  <2>2. PICK s : s = session[r]
    OBVIOUS
  <2>3. PICK T : T = s.tokens
    OBVIOUS
  <2>4. PICK A : A = Taken(O, T)
    OBVIOUS
  <2>5. PICK W : W = tx[r].rows
    OBVIOUS
  <2>6. PICK i : i = O[o].id
    OBVIOUS
  <2>7. o \in 1..Len(O)
    <3>1. objs[r] \in Seq(Instances(r))
      BY Parts
    <3> QED BY <1>1, <2>1, <3>1, LenProperties
  <2>8. Handled(r, o, s, O, T, A, W, i) /\ i \notin s.tombs /\ RowMatches(r, o)
    BY <1>1, <1>3, <2>1, <2>2, <2>3, <2>4, <2>5, <2>6, <2>7 DEF Handled
  <2>9. PICK s2 : s2 = DeletedSession(s, o, i)
    OBVIOUS
  <2>10. PICK x : x = Written(tx[r], i, RowOf(r, o, 0))
    OBVIOUS
  <2>11. Moves(r, run[r], s2, O, x) /\ UNCHANGED <<rows, outbox, bus>>
    <3>1. session' = [session EXCEPT ![r] = s2] /\ tx' = [tx EXCEPT ![r] = x]
      BY <1>1, <1>3, <2>1, <2>2, <2>6, <2>9, <2>10, DeleteForm
    <3> QED BY <1>3, <2>1, <3>1, Parts DEF Moves
  <2> QED BY <2>8, <2>9, <2>10, <2>11, FirstDeleteHeld, SecondDeleteHeld
<1> QED BY <1>2, <1>3 DEF Delete

-----------------------------------------------------------------------------
(* What the harvest collects *)

\* Events never wait on a version that did not move.
Moved(a) == a.pending # <<>> /\ a.persisted > 0 => a.version > a.persisted

\* The enrolled instances of a run that is about to harvest.
Chained(r, A, W) ==
    /\ r \in Runs /\ Len(A) \in Nat /\ ChainOk(A, W)
    /\ \A k \in 1..Len(A) : A[k] \in Instances(r) /\ Grown(A[k]) /\ Moved(A[k])
    /\ \A i \in DOMAIN W : W[i].base \in Rows

\* The first instance of an aggregate.
First(A, W, j) == A[j].persisted = 0 /\ Continues(A[j], W[A[j].id].base)

\* At most two instances of an aggregate are enrolled in one transaction.
LEMMA AtMostTwo ==
  ASSUME NEW r, NEW A, NEW W, Chained(r, A, W), NEW j \in 1..Len(A), NEW k \in 1..Len(A), j < k,
         A[j].id = A[k].id
  PROVE  /\ First(A, W, j) /\ Follows(A[k], A[j]) /\ A[j].version \in Nat /\ A[j].version >= 1
         /\ \A l \in 1..Len(A) : l < k /\ A[l].id = A[k].id => l = j
<1>1. /\ \A l \in 1..Len(A) : A[l].version \in Nat /\ A[l].version >= 1
      /\ \A l, m \in 1..Len(A) : l < m /\ A[l].id = A[m].id => Follows(A[m], A[l])
  BY InstanceParts DEF Chained, Grown, ChainOk
<1>2. Follows(A[k], A[j])
  BY <1>1
<1>3. ASSUME NEW l \in 1..Len(A), l < j, A[l].id = A[j].id PROVE FALSE
  <2>1. Follows(A[j], A[l])
    BY <1>1, <1>3
  <2> QED BY <1>1, <1>2, <2>1 DEF Follows
<1>4. Continues(A[j], W[A[j].id].base)
  BY <1>3 DEF Chained, ChainOk
<1>5. ASSUME NEW l \in 1..Len(A), l < k, A[l].id = A[k].id, l # j PROVE FALSE
  <2>1. j < l
    BY <1>3, <1>5
  <2>2. Follows(A[l], A[j]) /\ Follows(A[k], A[l])
    BY <1>1, <1>5, <2>1
  <2>3. A[l].persisted = 0 /\ A[l].persisted = A[j].version
    BY <2>2 DEF Follows
  <2> QED BY <1>1, <2>3
<1> QED BY <1>1, <1>2, <1>4, <1>5 DEF First, Follows

\* An entry and the instance it was taken from.
From(e, a) ==
    /\ e.id = a.id /\ e.version = a.version
    /\ e.seq \in 1..Len(a.pending) /\ e.event = a.pending[e.seq]

\* What one instance contributes.
Contributes(a, C) ==
    /\ C \in Seq(AnyDelivery) /\ Len(C) \in Nat /\ Cursors(C) /\ Known(C) = Pending(a)
    /\ \A p \in 1..Len(C) : From(C[p], a) /\ C[p].seq = p
    /\ EventsOf(a.id, C) = a.pending /\ \A i \in Ids \ {a.id} : EventsOf(i, C) = <<>>

\* It does.
LEMMA ContributesOk ==
  ASSUME NEW r \in Runs, NEW a \in Instances(r)
  PROVE  Contributes(a, CandidatesOf(a))
<1> DEFINE C == CandidatesOf(a)
<1>1. /\ C \in Seq(Deliveries(r)) /\ Len(C) = Len(a.pending) /\ Len(C) \in Nat
      /\ \A k \in 1..Len(C) : /\ C[k].id = a.id /\ C[k].event = a.pending[k]
                              /\ C[k].version = a.version /\ C[k].seq = k
  BY CandidatesOk
<1> HIDE DEF C
<1>2. C \in Seq(AnyDelivery)
  <2>1. Deliveries(r) \subseteq AnyDelivery
    BY DEF Deliveries, AnyDelivery, Own, AnyEvent
  <2> QED BY <1>1, <2>1, SeqMonotonic
<1>3. Cursors(C)
  BY <1>1 DEF Cursors, Cursor
<1>4. Known(C) = Pending(a)
  BY <1>1 DEF Known, Pending
<1>5. \A p \in 1..Len(C) : From(C[p], a) /\ C[p].seq = p
  BY <1>1 DEF From
<1>6. a.id \in Ids /\ a.pending \in Seq(AnyEvent)
  BY InstanceParts
<1>7. EventsOf(a.id, C) = a.pending
  <2>1. EventsOf(a.id, C) = Logged(C) /\ EventsOf(a.id, C) \in Seq(AnyEvent)
    BY <1>1, <1>2, <1>6, EventsAll, EventsAre
  <2>2. Len(EventsOf(a.id, C)) = Len(C)
    <3>1. \A k \in 1..Len(C) : C[k] \in OfId(a.id)
      BY <1>1, <1>2, ElementOfSeq DEF OfId
    <3>2. Only(C, OfId(a.id)) = C
      BY <1>2, <3>1, OnlyAll
    <3> QED BY <1>2, <1>6, <3>2, EventsAre
  <2>3. \A k \in 1..Len(C) : Logged(C)[k] = a.pending[k]
    BY <1>1 DEF Logged
  <2> QED BY <1>1, <1>6, <2>1, <2>2, <2>3, SeqEqual
<1>8. \A i \in Ids \ {a.id} : EventsOf(i, C) = <<>>
  BY <1>1, <1>2, EventsNone
<1> QED BY <1>1, <1>2, <1>3, <1>4, <1>5, <1>7, <1>8 DEF Contributes, C

\* The contributions of the first k instances.
Harvested(A, W, k, h) ==
    /\ h \in Seq(AnyDelivery)
    /\ \A p \in 1..Len(h) : \E l \in 1..k : From(h[p], A[l])
    /\ Cursors(h)
    /\ \A l \in 1..k : Pending(A[l]) \subseteq Known(h)
    /\ \A i \in Ids : (\A l \in 1..k : A[l].id # i) => EventsOf(i, h) = <<>>
    /\ \A l \in 1..k : (\A m \in 1..k : A[m].id = A[l].id => m <= l) =>
          A[l].log = W[A[l].id].base.log \o EventsOf(A[l].id, h)

\* One instance more: the entries.
LEMMA HarvestEntries ==
  ASSUME NEW r, NEW A, NEW W, Chained(r, A, W), NEW k \in Nat, k + 1 \in 1..Len(A), NEW h,
         Harvested(A, W, k, h), NEW C, Contributes(A[k + 1], C), NEW g, g = h \o C
  PROVE  /\ \A p \in 1..Len(g) : \E l \in 1..(k + 1) : From(g[p], A[l])
         /\ Cursors(g)
         /\ \A l \in 1..(k + 1) : Pending(A[l]) \subseteq Known(g)
<1> DEFINE a == A[k + 1]
<1>1. /\ h \in Seq(AnyDelivery) /\ C \in Seq(AnyDelivery) /\ Cursors(h) /\ Cursors(C)
      /\ \A p \in 1..Len(h) : \E l \in 1..k : From(h[p], A[l])
      /\ \A p \in 1..Len(C) : From(C[p], a) /\ C[p].seq = p
      /\ Known(C) = Pending(a) /\ \A l \in 1..k : Pending(A[l]) \subseteq Known(h)
  BY DEF Harvested, Contributes
<1>2. /\ Len(h) \in Nat /\ Len(C) \in Nat /\ Len(g) = Len(h) + Len(C)
      /\ \A p \in 1..Len(g) : g[p] = IF p <= Len(h) THEN h[p] ELSE C[p - Len(h)]
  BY <1>1, ConcatProperties, LenProperties
<1>3. \A p \in 1..Len(g) : \/ p \in 1..Len(h) /\ g[p] = h[p]
                           \/ \E q \in 1..Len(C) : p = Len(h) + q /\ g[p] = C[q]
  <2> TAKE p \in 1..Len(g)
  <2>1. CASE p <= Len(h)
    BY <1>2, <2>1
  <2>2. CASE ~(p <= Len(h))
    <3>1. p - Len(h) \in 1..Len(C) /\ p = Len(h) + (p - Len(h))
      BY <1>2, <2>2
    <3> QED BY <1>2, <2>2, <3>1
  <2> QED BY <2>1, <2>2
<1>4. k + 1 \in 1..(k + 1) /\ \A l \in 1..k : l \in 1..(k + 1)
  OBVIOUS
<1> HIDE DEF a
<1>5. ASSUME NEW p \in 1..Len(g) PROVE \E l \in 1..(k + 1) : From(g[p], A[l])
  BY <1>1, <1>3, <1>4 DEF a
<1>6. ASSUME NEW p \in 1..Len(h), NEW q \in 1..Len(C) PROVE Cursor(h[p]) # Cursor(C[q])
  <2>1. PICK l \in 1..k : From(h[p], A[l])
    BY <1>1
  <2>2. From(C[q], a)
    BY <1>1
  <2>3. ASSUME A[l].id = a.id, A[l].version = a.version PROVE FALSE
    <3>1. l \in 1..Len(A) /\ l < k + 1 /\ Len(A) \in Nat
      BY DEF Chained
    <3>2. Follows(a, A[l]) /\ A[l].version >= 1 /\ A[l].version \in Nat
      BY <2>3, <3>1, AtMostTwo DEF a
    <3>3. a.persisted = a.version /\ a.persisted > 0
      BY <2>3, <3>2 DEF Follows
    <3>4. a.pending # <<>>
      <4>1. Len(C) # 0 /\ C[q].seq \in 1..Len(a.pending)
        BY <1>2, <2>2 DEF From
      <4> QED BY <4>1, EmptySeq
    <3>5. Moved(a)
      BY DEF Chained, a
    <3>6. PICK v \in Nat : v = a.version /\ v = a.persisted
      BY <2>3, <3>2, <3>3
    <3>7. a.version > a.persisted
      BY <3>3, <3>4, <3>5 DEF Moved
    <3> QED BY <3>6, <3>7
  <2> QED BY <2>1, <2>2, <2>3 DEF From, Cursor
<1>7. Cursors(g)
  <2> SUFFICES ASSUME NEW p \in 1..Len(g), NEW q \in 1..Len(g), p # q
               PROVE  Cursor(g[p]) # Cursor(g[q])
    BY DEF Cursors
  <2>1. CASE p \in 1..Len(h) /\ g[p] = h[p] /\ q \in 1..Len(h) /\ g[q] = h[q]
    BY <1>1, <2>1 DEF Cursors
  <2>2. CASE /\ \E m \in 1..Len(C) : p = Len(h) + m /\ g[p] = C[m]
             /\ \E m \in 1..Len(C) : q = Len(h) + m /\ g[q] = C[m]
    BY <1>1, <2>2 DEF Cursors
  <2>3. CASE p \in 1..Len(h) /\ g[p] = h[p] /\ \E m \in 1..Len(C) : q = Len(h) + m /\ g[q] = C[m]
    BY <1>6, <2>3
  <2>4. CASE q \in 1..Len(h) /\ g[q] = h[q] /\ \E m \in 1..Len(C) : p = Len(h) + m /\ g[p] = C[m]
    BY <1>6, <2>4
  <2> QED BY <1>3, <2>1, <2>2, <2>3, <2>4
<1>8. ASSUME NEW l \in 1..(k + 1) PROVE Pending(A[l]) \subseteq Known(g)
  <2>1. Known(h) \subseteq Known(g) /\ Known(C) \subseteq Known(g)
    BY <1>1, KnownConcat
  <2>2. CASE l = k + 1
    BY <1>1, <2>1, <2>2 DEF a
  <2>3. CASE l \in 1..k
    BY SMTT(40), <1>1, <2>1, <2>3
  <2> QED BY <2>2, <2>3
<1> QED BY <1>5, <1>7, <1>8

\* One instance more: the logs.
LEMMA HarvestStep ==
  ASSUME NEW r, NEW A, NEW W, Chained(r, A, W), NEW k \in Nat, k + 1 \in 1..Len(A), NEW h,
         Harvested(A, W, k, h), NEW C, Contributes(A[k + 1], C), NEW g, g = h \o C
  PROVE  Harvested(A, W, k + 1, g)
<1> DEFINE a == A[k + 1]
<1>1. /\ h \in Seq(AnyDelivery) /\ C \in Seq(AnyDelivery) /\ g \in Seq(AnyDelivery)
      /\ EventsOf(a.id, C) = a.pending /\ \A i \in Ids \ {a.id} : EventsOf(i, C) = <<>>
      /\ \A i \in Ids : (\A l \in 1..k : A[l].id # i) => EventsOf(i, h) = <<>>
      /\ \A l \in 1..k : (\A m \in 1..k : A[m].id = A[l].id => m <= l) =>
            A[l].log = W[A[l].id].base.log \o EventsOf(A[l].id, h)
  BY ConcatProperties DEF Harvested, Contributes
<1>2. /\ \A i \in Ids : EventsOf(i, g) = EventsOf(i, h) \o EventsOf(i, C)
      /\ \A i \in Ids : EventsOf(i, h) \in Seq(AnyEvent)
  BY <1>1, EventsConcat, EventsAre
<1>3. /\ k \in 0..Len(A) /\ Len(A) \in Nat /\ a \in Instances(r) /\ r \in Runs
      /\ k + 1 \in 1..(k + 1) /\ \A l \in 1..(k + 1) : l \in 1..k \/ l = k + 1
      /\ \A l \in 1..k : l \in 1..Len(A) /\ l < k + 1 /\ l \in 1..(k + 1)
  BY DEF Chained
<1>4. a.id \in Ids /\ a.pending \in Seq(AnyEvent) /\ a.id \in DOMAIN W /\ W[a.id].base.log \in Seq(AnyEvent)
  <2>1. a.id \in DOMAIN W
    BY DEF Chained, ChainOk
  <2>2. W[a.id].base \in Rows
    BY <2>1 DEF Chained
  <2> QED BY <1>3, <2>1, <2>2, InstanceParts DEF Rows
<1> HIDE DEF a
<1>5. \A i \in Ids \ {a.id} : EventsOf(i, g) = EventsOf(i, h)
  BY ZenonT(60), <1>1, <1>2, ConcatEmptySeq
<1>6. EventsOf(a.id, g) = EventsOf(a.id, h) \o a.pending
  BY <1>1, <1>2, <1>4
<1>7. ASSUME NEW i \in Ids, \A l \in 1..(k + 1) : A[l].id # i PROVE EventsOf(i, g) = <<>>
  <2>1. i # a.id /\ \A l \in 1..k : A[l].id # i
    BY SMTT(40), <1>3, <1>7 DEF a
  <2> QED BY <1>1, <1>5, <2>1
<1>8. ASSUME NEW l \in 1..(k + 1), \A m \in 1..(k + 1) : A[m].id = A[l].id => m <= l
      PROVE  A[l].log = W[A[l].id].base.log \o EventsOf(A[l].id, g)
  <2>1. CASE A[l].id # a.id
    <3>1. l \in 1..k /\ \A m \in 1..k : A[m].id = A[l].id => m <= l
      BY <1>3, <1>8, <2>1 DEF a
    <3>2. A[l].id \in Ids
      <4>1. A[l] \in Instances(r)
        BY SMTT(40), <1>3, <3>1 DEF Chained
      <4> QED BY <1>3, <4>1, InstanceParts
    <3> QED BY <1>1, <1>5, <2>1, <3>1, <3>2
  <2>2. CASE A[l].id = a.id
    <3>1. l = k + 1
      BY <1>3, <1>8, <2>2 DEF a
    <3>2. CASE \A j \in 1..k : A[j].id # a.id
      <4>1. EventsOf(a.id, h) = <<>>
        BY <1>1, <1>4, <3>2
      <4>2. Continues(a, W[a.id].base)
        <5>1. k + 1 \in 1..Len(A) /\ \A j \in 1..Len(A) : j < k + 1 => j \in 1..k
          BY <1>3
        <5>2. ~ \E j \in 1..Len(A) : j < k + 1 /\ A[j].id = A[k + 1].id
          BY <3>2, <5>1 DEF a
        <5> QED BY <5>1, <5>2 DEF Chained, ChainOk, a
      <4>3. EventsOf(a.id, g) = a.pending
        BY SMTT(40), <1>4, <1>6, <4>1, ConcatEmptySeq
      <4> QED BY <3>1, <4>2, <4>3 DEF Continues, a
    <3>3. CASE \E j \in 1..k : A[j].id = a.id
      <4>1. PICK j \in 1..k : A[j].id = a.id
        BY <3>3
      <4>2. /\ Follows(a, A[j])
            /\ \A m \in 1..Len(A) : m < k + 1 /\ A[m].id = a.id => m = j
        <5>1. j \in 1..Len(A) /\ j < k + 1 /\ k + 1 \in 1..Len(A) /\ A[j].id = A[k + 1].id
          BY <1>3, <4>1 DEF a
        <5> QED BY <5>1, AtMostTwo DEF a
      <4>3. \A m \in 1..k : A[m].id = A[j].id => m <= j
        BY SMTT(40), <1>3, <4>1, <4>2
      <4>4. A[j].log = W[a.id].base.log \o EventsOf(a.id, h)
        BY <1>1, <4>1, <4>3
      <4>5. A[l].log = (W[a.id].base.log \o EventsOf(a.id, h)) \o a.pending
        BY <3>1, <4>2, <4>4 DEF Follows, a
      <4>6. PICK b \in Seq(AnyEvent), e \in Seq(AnyEvent), p \in Seq(AnyEvent) :
               b = W[a.id].base.log /\ e = EventsOf(a.id, h) /\ p = a.pending
        BY <1>2, <1>4
      <4>7. (b \o e) \o p = b \o (e \o p)
        BY SMTT(40), ConcatAssociative
      <4>8. EventsOf(A[l].id, g) = e \o p
        BY <1>6, <2>2, <4>6
      <4>9. A[l].log = (b \o e) \o p
        BY <4>5, <4>6
      <4>10. W[A[l].id].base.log = b
        BY <2>2, <4>6
      <4> QED BY <4>7, <4>8, <4>9, <4>10
    <3> QED BY <3>2, <3>3
  <2> QED BY <2>1, <2>2
<1>9. /\ \A p \in 1..Len(g) : \E l \in 1..(k + 1) : From(g[p], A[l])
      /\ Cursors(g)
      /\ \A l \in 1..(k + 1) : Pending(A[l]) \subseteq Known(g)
  BY HarvestEntries
<1> QED BY <1>1, <1>7, <1>8, <1>9 DEF Harvested

\* All of them.
LEMMA HarvestAll ==
  ASSUME NEW r, NEW A, NEW W, Chained(r, A, W), NEW C, Len(C) = Len(A),
         \A k \in 1..Len(A) : Contributes(A[k], C[k]), NEW f, NEW T, Flattens(f, C, T)
  PROVE  Harvested(A, W, Len(A), FlattenSeq(C))
<1> DEFINE D == {k \in Nat : k <= Len(A) => Harvested(A, W, k, f[k])}
<1>1. Len(A) \in Nat
  BY DEF Chained
<1>2. Harvested(A, W, 0, <<>>)
  <2>1. <<>> \in Seq(AnyDelivery) /\ Len(<<>>) = 0
    BY EmptySeq
  <2>2. \A i \in Ids : EventsOf(i, <<>>) = <<>>
    <3> TAKE i \in Ids
    <3>1. \A k \in 1..Len(<<>>) : <<>>[k].id # i
      BY <2>1
    <3> QED BY <2>1, <3>1, EventsNone
  <2>3. Cursors(<<>>)
    BY <2>1 DEF Cursors
  <2>4. \A p \in 1..Len(<<>>) : \E l \in 1..0 : From(<<>>[p], A[l])
    BY <2>1
  <2> QED BY <2>1, <2>2, <2>3, <2>4 DEF Harvested
<1>3. 0 \in D
  BY <1>2 DEF Flattens
<1>4. ASSUME NEW k \in D PROVE k + 1 \in D
  <2>1. k \in Nat /\ k + 1 \in Nat
    OBVIOUS
  <2>2. ASSUME k + 1 <= Len(A) PROVE Harvested(A, W, k + 1, f[k + 1])
    <3>1. Harvested(A, W, k, f[k]) /\ k + 1 \in 1..Len(A)
      BY <1>1, <2>1, <2>2
    <3>2. f[k + 1] = f[k] \o C[k + 1]
      <4>1. \A n \in 1..Len(A) : f[n] = f[n - 1] \o C[n]
        BY DEF Flattens
      <4>2. k + 1 - 1 = k
        BY <2>1
      <4>3. PICK n \in 1..Len(A) : n = k + 1 /\ n - 1 = k
        BY <3>1, <4>2
      <4> QED BY <4>1, <4>3
    <3>3. Contributes(A[k + 1], C[k + 1])
      BY <3>1
    <3> QED BY <2>1, <3>1, <3>2, <3>3, HarvestStep
  <2> QED BY <2>1, <2>2
<1> HIDE DEF D
<1>5. D = Nat
  <2>1. D \subseteq Nat
    BY DEF D
  <2> QED BY <1>3, <1>4, <2>1, SetInduction
<1>6. Harvested(A, W, Len(A), f[Len(A)])
  BY <1>1, <1>5 DEF D
<1> QED BY <1>6 DEF Flattens

\* Where the row that an instance continues stands.
LEMMA BaseOf ==
  ASSUME NEW r, NEW A, NEW W, Chained(r, A, W), NEW k \in 1..Len(A)
  PROVE  LET base == W[A[k].id].base
         IN  /\ base.v \in Nat /\ A[k].version \in Nat /\ base.v <= A[k].version
             /\ A[k].pending # <<>> => base.v < A[k].version
<1> DEFINE a == A[k]
           base == W[A[k].id].base
<1>1. /\ a.version \in Nat /\ a.persisted \in Nat /\ a.version >= 1 /\ a.version >= a.persisted
      /\ Moved(a) /\ Len(A) \in Nat
  BY InstanceParts DEF Chained, Grown
<1>2. base.v \in Nat
  <2>1. a.id \in DOMAIN W
    BY DEF Chained, ChainOk
  <2> QED BY <2>1 DEF Chained, Rows
<1>3. CASE Continues(a, base)
  <2>1. base.v = a.persisted
    BY <1>3 DEF Continues
  <2>2. a.pending # <<>> => a.persisted < a.version
    BY <1>1 DEF Moved
  <2> HIDE DEF a, base
  <2> QED BY <1>1, <1>2, <2>1, <2>2 DEF a, base
<1>4. CASE \E j \in 1..Len(A) : j < k /\ A[j].id = A[k].id
  <2>1. PICK j \in 1..Len(A) : j < k /\ A[j].id = A[k].id
    BY <1>4
  <2>2. First(A, W, j)
    BY SMTT(40), <2>1, AtMostTwo
  <2>3. base.v = 0
    BY <2>1, <2>2 DEF First, Continues
  <2> HIDE DEF a, base
  <2> QED BY <1>1, <1>2, <2>3 DEF a, base
<1> QED BY <1>3, <1>4 DEF Chained, ChainOk

\* What was collected continues the rows.
LEMMA OutHolds ==
  ASSUME NEW r, NEW O, NEW T, NEW A, NEW W, Shape(r, O, T, A), Chained(r, A, W), WritesOk(T, A, W),
         DOMAIN W \subseteq Ids, NEW out, Harvested(A, W, Len(A), out)
  PROVE  OutOk(W, out)
<1>1. /\ Len(A) = Len(T) /\ Len(A) \in Nat /\ ChainOk(A, W) /\ r \in Runs
      /\ \A k \in 1..Len(A) : A[k] \in Instances(r) /\ Grown(A[k]) /\ A[k].id \in DOMAIN W
  BY DEF Shape, Chained, ChainOk
<1>2. ASSUME NEW i \in DOMAIN W
      PROVE  /\ W[i].log = W[i].base.log \o EventsOf(i, out)
             /\ W[i].v > 0 => W[i].base.v <= W[i].v /\ W[i].log # <<>>
             /\ W[i].v > 0 => \A l \in 1..Len(A) : A[l].id = i => A[l].version <= W[i].v
  <2>1. PICK k \in 1..Len(T) : LastOf(T, A, i, k) /\ WrittenFrom(W[i], T[k], A[k])
    BY DEF WritesOk
  <2>2. /\ k \in 1..Len(A) /\ A[k].id = i /\ \A m \in 1..Len(A) : A[m].id = A[k].id => m <= k
    BY <1>1, <2>1 DEF LastOf
  <2>3. W[i].log = W[i].base.log \o EventsOf(i, out)
    <3>1. A[k].log = W[i].base.log \o EventsOf(i, out)
      BY <2>2 DEF Harvested
    <3> QED BY <2>1, <3>1 DEF WrittenFrom
  <2>4. ASSUME W[i].v > 0 PROVE W[i].v = A[k].version
    BY <2>1, <2>4 DEF WrittenFrom
  <2>5. W[i].log # <<>>
    BY <1>1, <2>1, <2>2 DEF WrittenFrom, Grown
  <2>6. W[i].base.v <= A[k].version
    BY <2>2, BaseOf
  <2>7. ASSUME NEW l \in 1..Len(A), A[l].id = i PROVE A[l].version <= A[k].version
    <3>1. l <= k /\ k \in Nat /\ A[k].version \in Nat
      BY <1>1, <2>2, <2>7, InstanceParts
    <3>2. CASE l = k
      BY <3>1, <3>2
    <3>3. CASE l < k
      <4>1. Follows(A[k], A[l])
        BY <2>2, <2>7, <3>3, AtMostTwo
      <4>2. A[k].version >= A[k].persisted
        BY <1>1, <2>2 DEF Grown
      <4> QED BY <4>1, <4>2 DEF Follows
    <3> QED BY <1>1, <2>2, <3>1, <3>2, <3>3
  <2> QED BY <2>3, <2>4, <2>5, <2>6, <2>7
<1>3. ASSUME NEW i \in Ids \ DOMAIN W PROVE EventsOf(i, out) = <<>>
  BY <1>1, <1>3 DEF Harvested
<1>4. ASSUME NEW p \in 1..Len(out) PROVE EntryOk(out[p], W)
  <2>1. PICK l \in 1..Len(A) : From(out[p], A[l])
    BY DEF Harvested
  <2>2. A[l].pending # <<>>
    <3>1. A[l].pending \in Seq(AnyEvent)
      BY <1>1, InstanceParts
    <3> QED BY <2>1, <3>1, EmptySeq, LenProperties DEF From
  <2>3. out[p].id = A[l].id /\ out[p].version = A[l].version /\ A[l].id \in DOMAIN W
    BY <1>1, <2>1 DEF From
  <2>4. W[A[l].id].base.v < A[l].version
    BY <2>2, BaseOf
  <2>5. W[A[l].id].v > 0 => A[l].version <= W[A[l].id].v
    BY <1>2, <2>3
  <2> QED BY <2>3, <2>4, <2>5 DEF EntryOk
<1>5. Cursors(out)
  BY DEF Harvested
<1> QED BY <1>2, <1>3, <1>4, <1>5 DEF OutOk

\* The harvest.
LEMMA HarvestHeld ==
  ASSUME Control, Held, setup' = setup, NEW r \in Runs, Harvest(r)
  PROVE  Held'
<1>1. /\ run[r].pc = "sealed" /\ run[r] \in Controls /\ run[r].outcome = None
      /\ run = [q \in Runs |-> run[q]] /\ tx = [q \in Runs |-> tx[q]]
      /\ TxOk(r, run[r], tx[r])
  BY Parts DEF Harvest, Control, BlameOk
<1>2. CASE Fail(r, "harvest")
  BY <1>1, <1>2, FailHeld DEF Fail
<1>3. CASE /\ Cursorless(r) = {}
           /\ tx' = [tx EXCEPT ![r].out =
                   FlattenSeq([i \in DOMAIN session[r].tokens |->
                                  Candidates(r, session[r].tokens[i].obj)])]
           /\ run' = [run EXCEPT ![r].pc = "harvested"]
           /\ UNCHANGED <<rows, outbox, active, session, objs, bus, faults>>
  <2>1. PICK O : O = objs[r]
    OBVIOUS
  <2>2. PICK s : s = session[r]
    OBVIOUS
  <2>3. PICK T : T = s.tokens
    OBVIOUS
  <2>4. PICK A : A = Taken(O, T)
    OBVIOUS
  <2>5. PICK W : W = tx[r].rows
    OBVIOUS
  <2>6. PICK C : C = Collected(O, T)
    OBVIOUS
  <2>7. PICK out : out = FlattenSeq(C)
    OBVIOUS
  <2>8. PICK c : c = [run[r] EXCEPT !.pc = "harvested"]
    OBVIOUS
  <2>9. PICK x : x = [rows |-> W, out |-> out]
    OBVIOUS
  <2>10. Shape(r, O, T, A)
    BY <2>1, <2>2, <2>3, <2>4, HeldShape
  <2>11. /\ TokensOk(T) /\ ChainOk(A, W) /\ WritesOk(T, A, W) /\ \A o \in 1..Len(O) : Grown(O[o])
         /\ ConsumedOk(run[r], T, A, O, tx[r].out, Known(outbox))
    <3>1. HeldOk(run[r], session[r], objs[r], tx[r], rows, Known(outbox))
      BY HeldParts
    <3> QED BY <1>1, <2>1, <2>2, <2>3, <2>4, <2>5, <3>1 DEF HeldOk, InTransaction
  <2>12. c.pc = "harvested" /\ c.outcome = None
    BY <1>1, <2>8 DEF Controls
  <2>13. Moves(r, c, s, O, x) /\ UNCHANGED <<rows, outbox, bus>>
    <3>1. tx' = [tx EXCEPT ![r].out = out]
      BY <1>3, <2>1, <2>2, <2>3, <2>6, <2>7, CollectedOk
    <3>2. tx' = [tx EXCEPT ![r] = x]
      <4>1. tx[r] = [rows |-> W, out |-> tx[r].out]
        BY <1>1, <2>5 DEF TxOk
      <4>2. [tx[r] EXCEPT !.out = out] = x
        BY <2>9, <4>1
      <4>3. tx' = [tx EXCEPT ![r] = [tx[r] EXCEPT !.out = out]]
        BY <3>1
      <4> QED BY <4>2, <4>3
    <3>3. run' = [run EXCEPT ![r] = c]
      BY <1>1, <1>3, <2>8
    <3> QED BY <1>3, <2>1, <2>2, <3>2, <3>3, Parts DEF Moves
  <2>14. \A k \in 1..Len(A) : Moved(A[k])
    <3> TAKE k \in 1..Len(A)
    <3>1. k \in 1..Len(T) /\ A[k] = O[T[k].obj] /\ A[k] \in Instances(r) /\ T \in Seq(Tokens)
      BY <2>10 DEF Shape
    <3>2. T[k] \in ToSet(session[r].tokens)
      BY <2>2, <2>3, <3>1, LenProperties DEF ToSet
    <3>3. ~(A[k].pending # <<>> /\ A[k].persisted > 0 /\ A[k].version <= A[k].persisted)
      BY <1>3, <2>1, <3>1, <3>2 DEF Cursorless
    <3>4. A[k].version \in Nat /\ A[k].persisted \in Nat
      BY <3>1, InstanceParts
    <3> QED BY <3>3, <3>4 DEF Moved
  <2>15. Chained(r, A, W)
    <3>1. \A k \in 1..Len(A) : A[k] \in Instances(r) /\ Grown(A[k])
      BY <2>10, <2>11 DEF Shape
    <3>2. \A i \in DOMAIN W : W[i].base \in Rows
      BY <1>1, <2>5 DEF TxOk, Writes
    <3>3. Len(A) \in Nat
      BY <2>10 DEF Shape
    <3> QED BY <2>11, <2>14, <3>1, <3>2, <3>3 DEF Chained
  <2>16. Harvested(A, W, Len(A), out)
    <3>1. Len(C) = Len(A) /\ C \in Seq(Seq(Deliveries(r)))
      BY <2>1, <2>2, <2>3, <2>6, <2>10, CollectedOk DEF Shape
    <3>2. \A k \in 1..Len(A) : Contributes(A[k], C[k])
      <4> TAKE k \in 1..Len(A)
      <4>1. k \in 1..Len(T) /\ A[k] = O[T[k].obj] /\ A[k] \in Instances(r)
        BY <2>10 DEF Shape
      <4>2. C[k] = CandidatesOf(A[k])
        BY <2>6, <4>1 DEF Collected
      <4> QED BY <4>1, <4>2, ContributesOk
    <3>3. PICK f : Flattens(f, C, Deliveries(r))
      BY <3>1, FlattenSteps
    <3> QED BY <2>7, <2>15, <3>1, <3>2, <3>3, HarvestAll
  <2>17. OutOk(W, out)
    <3>1. DOMAIN W \subseteq Ids
      BY <1>1, <2>5 DEF TxOk
    <3> QED BY <2>10, <2>11, <2>15, <2>16, <3>1, OutHolds
  <2>18. ConsumedOk(c, T, A, O, out, Known(outbox))
    <3>1. \A k \in 1..Len(A) : Pending(A[k]) \subseteq Known(out)
      BY <2>16 DEF Harvested
    <3> QED BY <1>1, <2>11, <2>12, <3>1 DEF ConsumedOk, Finishing, None
  <2>19. x.rows = W /\ x.out = out
    BY <2>9
  <2>20. HeldOk(c, s, O, x, rows, Known(outbox))
    BY <2>3, <2>4, <2>11, <2>12, <2>17, <2>18, <2>19 DEF HeldOk
  <2>21. bus' \subseteq Known(outbox)
    BY <2>13 DEF Held
  <2> QED BY <2>13, <2>20, <2>21, HeldMoves
<1> QED BY <1>2, <1>3 DEF Harvest

-----------------------------------------------------------------------------
(* What a commit does to the database and to the other runs *)

\* The rows and the outbox after it.
CommitRows(r, W, out, rws, ob) ==
    /\ \A i \in DOMAIN W : W[i].base = rows[i]
    /\ rws = CommittedRows(rows, W) /\ ob = outbox \o out
    /\ DOMAIN W \subseteq Ids /\ out \in Seq(AnyDelivery) /\ OutOk(W, out)
    /\ \A i \in DOMAIN W : Rooted(W[i]) /\ W[i] \in Writes
    /\ Database(rows, outbox) /\ outbox \in Seq(AnyDelivery) /\ rows \in [Ids -> Rows]

\* Every aggregate's row.
LEMMA CommittedRow ==
  ASSUME NEW r, NEW W, NEW out, NEW rws, NEW ob, CommitRows(r, W, out, rws, ob), NEW i \in Ids
  PROVE  /\ i \in DOMAIN W => rws[i].v = W[i].v /\ rws[i].log = W[i].log
         /\ i \notin DOMAIN W => rws[i] = rows[i]
         /\ rws[i].log = rows[i].log \o EventsOf(i, out)
         /\ rws[i].log = EventsOf(i, ob)
         /\ rows[i].log \in Seq(AnyEvent) /\ EventsOf(i, out) \in Seq(AnyEvent)
<1>1. rows[i] \in Rows /\ rows[i].log = EventsOf(i, outbox) /\ rows[i].log \in Seq(AnyEvent)
  BY DEF CommitRows, Database, Rows
<1>2. EventsOf(i, out) \in Seq(AnyEvent)
  BY EventsAre DEF CommitRows
<1>3. EventsOf(i, ob) = EventsOf(i, outbox) \o EventsOf(i, out)
  BY EventsConcat DEF CommitRows
<1>4. CASE i \in DOMAIN W
  <2>1. rws[i].v = W[i].v /\ rws[i].log = W[i].log
    BY <1>4 DEF CommitRows, CommittedRows
  <2>2. W[i].log = rows[i].log \o EventsOf(i, out)
    BY <1>4 DEF CommitRows, OutOk
  <2> QED BY <1>1, <1>2, <1>3, <1>4, <2>1, <2>2
<1>5. CASE i \notin DOMAIN W
  <2>1. rws[i] = rows[i]
    BY <1>5 DEF CommitRows, CommittedRows
  <2>2. EventsOf(i, out) = <<>>
    BY <1>5 DEF CommitRows, OutOk
  <2>3. rows[i].log \o EventsOf(i, out) = rows[i].log
    BY <1>1, <2>2, ConcatEmptySeq
  <2> QED BY <1>1, <1>2, <1>3, <1>5, <2>1, <2>3
<1> QED BY <1>4, <1>5

\* Entries of an aggregate, old and new.
LEMMA OldAndNew ==
  ASSUME NEW r, NEW W, NEW out, NEW rws, NEW ob, CommitRows(r, W, out, rws, ob),
         NEW j \in 1..Len(outbox), NEW k \in 1..Len(out), outbox[j].id = out[k].id
  PROVE  outbox[j].version < out[k].version
<1>1. out[k] \in AnyDelivery /\ outbox[j] \in AnyDelivery
  BY ElementOfSeq DEF CommitRows
<1>2. PICK i \in Ids, v \in Nat, w \in Nat :
         i = out[k].id /\ v = outbox[j].version /\ w = out[k].version
  BY <1>1 DEF AnyDelivery
<1>3. i \in DOMAIN W /\ W[i].base.v < w /\ W[i].base = rows[i] /\ Rooted(W[i]) /\ rows[i].v \in Nat
  <2>1. EntryOk(out[k], W)
    BY DEF CommitRows, OutOk
  <2>2. i \in DOMAIN W /\ W[i].base.v < w
    BY <1>2, <2>1 DEF EntryOk
  <2> QED BY <1>2, <2>2 DEF CommitRows, Rows
<1>4. CASE rows[i].v > 0
  <2>1. Bounded(i, rows[i].v, outbox)
    BY <1>2, <1>4 DEF CommitRows, Database
  <2>2. v <= rows[i].v
    BY <1>2, <2>1 DEF Bounded
  <2> QED BY <1>2, <1>3, <2>2
<1>5. CASE rows[i].v = 0
  <2>1. rows[i].log = <<>> /\ rows[i].log = EventsOf(i, outbox) /\ outbox \in Seq(AnyDelivery)
    BY <1>2, <1>3, <1>5 DEF Rooted, CommitRows, Database
  <2>2. \A m \in 1..Len(outbox) : outbox[m].id # i
    BY <1>2, <2>1, EventsNone
  <2> QED BY <1>2, <2>2
<1> QED BY <1>3, <1>4, <1>5

\* An entry afterwards is an old one or a new one.
LEMMA OldOrNew ==
  ASSUME NEW r, NEW W, NEW out, NEW rws, NEW ob, CommitRows(r, W, out, rws, ob),
         NEW k \in 1..Len(ob)
  PROVE  \/ k \in 1..Len(outbox) /\ ob[k] = outbox[k]
         \/ \E m \in 1..Len(out) : k = Len(outbox) + m /\ ob[k] = out[m]
<1>1. /\ Len(outbox) \in Nat /\ Len(out) \in Nat /\ Len(ob) = Len(outbox) + Len(out)
      /\ \A p \in 1..Len(ob) : ob[p] = IF p <= Len(outbox) THEN outbox[p] ELSE out[p - Len(outbox)]
  BY ConcatProperties, LenProperties DEF CommitRows
<1>2. CASE k <= Len(outbox)
  BY <1>1, <1>2
<1>3. CASE ~(k <= Len(outbox))
  <2>1. k - Len(outbox) \in 1..Len(out) /\ k = Len(outbox) + (k - Len(outbox))
    BY <1>1, <1>3
  <2> QED BY <1>1, <1>3, <2>1
<1> QED BY <1>2, <1>3

\* Rows and outbox agree afterwards.
LEMMA DatabaseKept ==
  ASSUME NEW r, NEW W, NEW out, NEW rws, NEW ob, CommitRows(r, W, out, rws, ob)
  PROVE  Database(rws, ob)
<1>1. \A i \in Ids : rws[i].log = EventsOf(i, ob)
  BY CommittedRow
<1>2. \A k \in 1..Len(ob) : \/ k \in 1..Len(outbox) /\ ob[k] = outbox[k]
                            \/ \E m \in 1..Len(out) : k = Len(outbox) + m /\ ob[k] = out[m]
  BY OldOrNew
<1>3. /\ Cursors(outbox) /\ Cursors(out)
      /\ outbox \in Seq(AnyDelivery) /\ out \in Seq(AnyDelivery)
  BY DEF CommitRows, Database, OutOk
<1>4. ASSUME NEW j \in 1..Len(outbox), NEW m \in 1..Len(out) PROVE Cursor(outbox[j]) # Cursor(out[m])
  <2>1. outbox[j] \in AnyDelivery /\ out[m] \in AnyDelivery
    BY <1>3, ElementOfSeq
  <2>2. outbox[j].version \in Nat /\ out[m].version \in Nat
    BY <2>1 DEF AnyDelivery
  <2>3. outbox[j].id = out[m].id => outbox[j].version < out[m].version
    BY OldAndNew
  <2>4. ~(outbox[j].id = out[m].id /\ outbox[j].version = out[m].version)
    BY <2>2, <2>3
  <2> QED BY <2>4 DEF Cursor
<1>5. Cursors(ob)
  <2> SUFFICES ASSUME NEW p \in 1..Len(ob), NEW q \in 1..Len(ob), p # q
               PROVE  Cursor(ob[p]) # Cursor(ob[q])
    BY DEF Cursors
  <2>1. CASE p \in 1..Len(outbox) /\ ob[p] = outbox[p] /\ q \in 1..Len(outbox) /\ ob[q] = outbox[q]
    BY <1>3, <2>1 DEF Cursors
  <2>2. CASE /\ \E m \in 1..Len(out) : p = Len(outbox) + m /\ ob[p] = out[m]
             /\ \E m \in 1..Len(out) : q = Len(outbox) + m /\ ob[q] = out[m]
    BY <1>3, <2>2 DEF Cursors
  <2>3. CASE /\ p \in 1..Len(outbox) /\ ob[p] = outbox[p]
             /\ \E m \in 1..Len(out) : q = Len(outbox) + m /\ ob[q] = out[m]
    BY <1>4, <2>3
  <2>4. CASE /\ q \in 1..Len(outbox) /\ ob[q] = outbox[q]
             /\ \E m \in 1..Len(out) : p = Len(outbox) + m /\ ob[p] = out[m]
    BY <1>4, <2>4
  <2> QED BY <1>2, <2>1, <2>2, <2>3, <2>4
<1>6. ASSUME NEW i \in Ids, rws[i].v > 0 PROVE rws[i].log # <<>> /\ Bounded(i, rws[i].v, ob)
  <2>1. CASE i \notin DOMAIN W
    <3>1. rws[i] = rows[i]
      BY <2>1, CommittedRow
    <3>2. rows[i].log # <<>> /\ Bounded(i, rows[i].v, outbox)
      BY <1>6, <3>1 DEF CommitRows, Database
    <3>3. \A m \in 1..Len(out) : out[m].id # i
      BY <2>1 DEF CommitRows, OutOk, EntryOk
    <3>4. Bounded(i, rows[i].v, ob)
      BY <1>2, <3>2, <3>3 DEF Bounded
    <3> QED BY <3>1, <3>2, <3>4
  <2>2. CASE i \in DOMAIN W
    <3>1. rws[i].v = W[i].v /\ rws[i].log = W[i].log /\ W[i].base = rows[i] /\ Rooted(W[i])
      BY SMTT(40), <2>2, CommittedRow DEF CommitRows
    <3>2. W[i].log # <<>> /\ W[i].base.v <= W[i].v
      BY <1>6, <2>2, <3>1 DEF CommitRows, OutOk
    <3>3. \A m \in 1..Len(out) : out[m].id = i => out[m].version <= W[i].v
      BY <1>6, <3>1 DEF CommitRows, OutOk, EntryOk
    <3>4. rows[i].v \in Nat /\ W[i].v \in Nat
      BY <2>2 DEF CommitRows, Rows, Writes
    <3>5. \A j \in 1..Len(outbox) : outbox[j].id = i => outbox[j].version <= W[i].v
      <4> SUFFICES ASSUME NEW j \in 1..Len(outbox), outbox[j].id = i
                   PROVE  outbox[j].version <= W[i].v
        OBVIOUS
      <4>1. outbox[j].version \in Nat
        <5>1. outbox[j] \in AnyDelivery
          BY <1>3, ElementOfSeq
        <5> QED BY <5>1 DEF AnyDelivery
      <4>2. CASE rows[i].v > 0
        <5>1. outbox[j].version <= rows[i].v
          BY <4>2 DEF CommitRows, Database, Bounded
        <5> QED BY <3>1, <3>2, <3>4, <4>1, <5>1
      <4>3. CASE rows[i].v = 0
        <5>1. rows[i].log = <<>> /\ rows[i].log = EventsOf(i, outbox)
          BY <3>1, <4>3 DEF Rooted, CommitRows, Database
        <5> QED BY <1>3, <5>1, EventsNone
      <4> QED BY <3>4, <4>2, <4>3
    <3>6. Bounded(i, W[i].v, ob)
      BY <1>2, <3>3, <3>5 DEF Bounded
    <3> QED BY <3>1, <3>2, <3>6
  <2> QED BY <2>1, <2>2
<1> QED BY <1>1, <1>5, <1>6 DEF Database

\* Prefixes of prefixes.
LEMMA PrefixTransitive ==
  ASSUME NEW T, NEW s \in Seq(T), NEW t \in Seq(T), NEW u \in Seq(T), Prefix(s, t), Prefix(t, u)
  PROVE  Prefix(s, u)
<1>1. Len(s) \in Nat /\ Len(t) \in Nat /\ Len(u) \in Nat
  BY LenProperties
<1> QED BY <1>1 DEF Prefix

\* Another run's commit takes nothing from what is said of a run.
LEMMA OthersKept ==
  ASSUME Control, Held, NEW q \in Runs, NEW rws, NEW known, Known(outbox) \subseteq known,
         \A i \in Ids : rws[i].log \in Seq(AnyEvent) /\ Prefix(rows[i].log, rws[i].log)
  PROVE  HeldOk(run[q], session[q], objs[q], tx[q], rws, known)
<1> DEFINE T == session[q].tokens
           O == objs[q]
           A == Taken(O, T)
           W == tx[q].rows
<1>1. HeldOk(run[q], session[q], O, tx[q], rows, Known(outbox)) /\ Shape(q, O, T, A)
  BY HeldParts, HeldShape
<1>2. ConsumedOk(run[q], T, A, O, tx[q].out, Known(outbox))
  BY <1>1 DEF HeldOk
<1>3. \A e : Covered(e, A, Known(outbox)) => Covered(e, A, known)
  BY DEF Covered
<1> HIDE DEF T, O, A, W
<1>4. ConsumedOk(run[q], T, A, O, tx[q].out, known)
  BY <1>2, <1>3 DEF ConsumedOk
<1>5. ASSUME WorkOk(session[q], A, O, W, rows), \A o \in 1..Len(O) : Grown(O[o])
      PROVE  WorkOk(session[q], A, O, W, rws)
  <2>1. ASSUME NEW o \in 1..Len(O), BehindOk(O[o], W, rows) PROVE BehindOk(O[o], W, rws)
    <3>1. O[o] \in Instances(q) /\ Grown(O[o])
      BY <1>1, <1>5 DEF Shape
    <3>2. O[o].id \in Ids /\ O[o].log \in Seq(AnyEvent) /\ O[o].pending \in Seq(AnyEvent)
      BY <3>1, InstanceParts
    <3>3. PICK G \in Seq(AnyEvent) : G = Ground(O[o])
      BY <3>1, <3>2, GroundType
    <3>4. PICK R \in Seq(AnyEvent) : R = rows[O[o].id].log
      BY <3>2 DEF Control, Rows
    <3>5. PICK S \in Seq(AnyEvent) : S = rws[O[o].id].log
      BY <3>2
    <3>6. Prefix(R, S)
      BY <3>2, <3>4, <3>5
    <3>7. Prefix(G, R) => Prefix(G, S)
      BY <3>6, PrefixTransitive
    <3> QED BY <2>1, <3>3, <3>4, <3>5, <3>7 DEF BehindOk
  <2> QED BY <1>5, <2>1 DEF WorkOk
<1>6. run[q].pc = "work" => run[q].pc \in InTransaction
  BY DEF InTransaction
<1> QED BY <1>1, <1>4, <1>5, <1>6 DEF HeldOk, T, O, A, W

\* A commit that succeeds.
LEMMA CommittedHeld ==
  ASSUME Control, Held, NEW r \in Runs, run[r].pc = "harvested",
         CommitRows(r, tx[r].rows, tx[r].out, rows', outbox'),
         Moves(r, [run[r] EXCEPT !.pc = "committed"], session[r], objs[r], tx[r]), bus' = bus
  PROVE  Held'
<1> DEFINE c == [run[r] EXCEPT !.pc = "committed"]
           T == session[r].tokens
           O == objs[r]
           A == Taken(O, T)
           out == tx[r].out
           known == Known(outbox')
<1>1. /\ run[r] \in Controls /\ run[r].outcome = None
      /\ run = [q \in Runs |-> run[q]] /\ session = [q \in Runs |-> session[q]]
      /\ objs = [q \in Runs |-> objs[q]] /\ tx = [q \in Runs |-> tx[q]]
  BY Parts DEF Control, BlameOk
<1>2. /\ run'[r] = c /\ \A q \in Runs \ {r} : run'[q] = run[q]
      /\ \A q \in Runs : session'[q] = session[q] /\ objs'[q] = objs[q] /\ tx'[q] = tx[q]
  BY <1>1 DEF Moves
<1>3. c.pc = "committed" /\ c.outcome = None
  BY <1>1 DEF Controls
<1>4. Known(outbox) \subseteq known /\ Known(out) \subseteq known
  BY KnownConcat DEF CommitRows
<1>5. \A i \in Ids : rows'[i].log \in Seq(AnyEvent) /\ Prefix(rows[i].log, rows'[i].log)
  <2>1. PICK W, D, rws, ob : W = tx[r].rows /\ D = tx[r].out /\ rws = rows' /\ ob = outbox'
    OBVIOUS
  <2>2. CommitRows(r, W, D, rws, ob)
    BY <2>1
  <2>3. ASSUME NEW i \in Ids PROVE rws[i].log \in Seq(AnyEvent) /\ Prefix(rows[i].log, rws[i].log)
    <3>1. /\ rws[i].log = rows[i].log \o EventsOf(i, D)
          /\ rows[i].log \in Seq(AnyEvent) /\ EventsOf(i, D) \in Seq(AnyEvent)
      BY <2>2, CommittedRow
    <3> QED BY <3>1, PrefixOfConcat, ConcatProperties
  <2> QED BY <2>1, <2>3
<1>6. /\ TokensOk(T) /\ ConsumedOk(run[r], T, A, O, out, Known(outbox))
  BY HeldParts DEF HeldOk
<1> HIDE DEF c, T, O, A, out, known
<1>7. ConsumedOk(c, T, A, O, out, known)
  <2>1. \A e : Covered(e, A, Known(outbox)) => Covered(e, A, known)
    BY <1>4 DEF Covered
  <2> QED BY <1>3, <1>4, <1>6, <2>1 DEF ConsumedOk
<1>8. HeldOk(c, session[r], objs[r], tx[r], rows', known)
  BY <1>3, <1>6, <1>7 DEF HeldOk, InTransaction, T, O, A, out
<1>9. \A q \in Runs : HeldOk(run'[q], session'[q], objs'[q], tx'[q], rows', known)
  <2> TAKE q \in Runs
  <2>1. CASE q = r
    BY <1>2, <1>8, <2>1
  <2>2. CASE q # r
    <3>1. PICK rws : rws = rows'
      OBVIOUS
    <3>2. HeldOk(run[q], session[q], objs[q], tx[q], rws, known)
      BY <1>4, <1>5, <3>1, OthersKept
    <3> QED BY <1>2, <2>2, <3>1, <3>2
  <2> QED BY <2>1, <2>2
<1>10. Database(rows', outbox')
  BY DatabaseKept
<1>11. bus' \subseteq known
  BY <1>4 DEF Held
<1> QED BY <1>9, <1>10, <1>11 DEF Held, known

\* The rows that a commit writes.
LEMMA CommitForm ==
  ASSUME Control, Held, NEW r \in Runs, run[r].pc = "harvested",
         \A i \in DOMAIN tx[r].rows : tx[r].rows[i].base = rows[i],
         rows' = CommittedRows(rows, tx[r].rows), outbox' = outbox \o tx[r].out
  PROVE  CommitRows(r, tx[r].rows, tx[r].out, rows', outbox')
<1> DEFINE W == tx[r].rows
           out == tx[r].out
<1>1. out \in Seq(AnyDelivery)
  <2>1. Deliveries(r) \subseteq AnyDelivery
    BY DEF Deliveries, AnyDelivery, Own, AnyEvent
  <2>2. out \in Seq(Deliveries(r))
    BY Parts DEF TxOk
  <2> QED BY <2>1, <2>2, SeqMonotonic
<1>2. DOMAIN W \subseteq Ids /\ \A i \in DOMAIN W : W[i] \in Writes
  BY Parts DEF TxOk
<1>3. HeldOk(run[r], session[r], objs[r], tx[r], rows, Known(outbox))
  BY HeldParts
<1>4. OutOk(W, out) /\ \A i \in DOMAIN W : Rooted(W[i])
  BY <1>3 DEF HeldOk, InTransaction, WritesOk
<1>5. Database(rows, outbox) /\ outbox \in Seq(AnyDelivery) /\ rows \in [Ids -> Rows]
  BY DEF Held, Control
<1> QED BY <1>1, <1>2, <1>4, <1>5 DEF CommitRows

\* The commit.
LEMMA CommitHeld ==
  ASSUME Control, Held, setup' = setup, NEW r \in Runs, Commit(r)
  PROVE  Held'
<1>1. run[r].pc = "harvested" /\ run[r].pc # "settled" /\ run = [q \in Runs |-> run[q]]
  BY DEF Commit, Control
<1>2. CASE Fail(r, "serialization")
  BY <1>1, <1>2, FailHeld DEF Fail
<1>3. CASE /\ \A i \in DOMAIN tx[r].rows : tx[r].rows[i].base = rows[i]
           /\ rows' = CommittedRows(rows, tx[r].rows)
           /\ outbox' = outbox \o tx[r].out
           /\ run' = [run EXCEPT ![r].pc = "committed"]
           /\ UNCHANGED <<active, session, objs, tx, bus, faults>>
  <2>1. CommitRows(r, tx[r].rows, tx[r].out, rows', outbox')
    BY <1>1, <1>3, CommitForm
  <2>2. Moves(r, [run[r] EXCEPT !.pc = "committed"], session[r], objs[r], tx[r])
    BY <1>1, <1>3, Parts DEF Moves
  <2>3. bus' = bus
    BY <1>3
  <2> QED BY <1>1, <2>1, <2>2, <2>3, CommittedHeld
<1> QED BY <1>2, <1>3 DEF Commit, CommittedRows

-----------------------------------------------------------------------------
(* Both layers hold throughout *)

\* The initial states satisfy the second.
LEMMA InitHeld == Init => Held
<1> SUFFICES ASSUME Init PROVE Held
  OBVIOUS
<1>1. /\ rows = [i \in Ids |-> [v |-> 0, log |-> <<>>]] /\ outbox = <<>> /\ bus = {}
      /\ objs = [r \in Runs |-> <<>>] /\ tx = [r \in Runs |-> [rows |-> <<>>, out |-> <<>>]]
      /\ \A r \in Runs : run[r].pc = "idle" /\ run[r].outcome = None
      /\ \A r \in Runs : session[r] = Closed(NewSession)
  BY DEF Init
<1>2. Len(<<>>) = 0 /\ <<>> \in Seq(AnyDelivery)
  BY EmptySeq
<1>3. Database(rows, outbox)
  <2>1. \A i \in Ids : EventsOf(i, outbox) = <<>>
    <3> TAKE i \in Ids
    <3>1. \A k \in 1..Len(<<>>) : <<>>[k].id # i
      BY <1>2
    <3> QED BY <1>1, <1>2, <3>1, EventsNone
  <2>2. \A i \in Ids : rows[i].log = <<>> /\ ~(rows[i].v > 0)
    BY <1>1
  <2>3. Cursors(outbox)
    BY <1>1, <1>2 DEF Cursors
  <2> QED BY <2>1, <2>2, <2>3 DEF Database
<1>4. ASSUME NEW r \in Runs
      PROVE  HeldOk(run[r], session[r], objs[r], tx[r], rows, Known(outbox))
  <2>1. session[r].tokens = <<>> /\ objs[r] = <<>>
    BY <1>1 DEF Closed, NewSession
  <2>2. run[r].pc = "idle" /\ run[r].outcome = None
    BY <1>1
  <2>3. TokensOk(session[r].tokens)
    BY <1>2, <2>1 DEF TokensOk
  <2>4. Len(Taken(objs[r], session[r].tokens)) = 0
    BY <1>2, <2>1 DEF Taken
  <2>5. ConsumedOk(run[r], session[r].tokens, Taken(objs[r], session[r].tokens), objs[r], tx[r].out,
                   Known(outbox))
    BY <1>2, <2>1, <2>2, <2>4 DEF ConsumedOk, Finishing, None
  <2> QED BY <2>2, <2>3, <2>5 DEF HeldOk, InTransaction
<1> QED BY <1>1, <1>3, <1>4 DEF Held

\* The second layer only looks at these variables.
LEMMA HeldUnchanged ==
  ASSUME Held, UNCHANGED <<rows, outbox, run, session, objs, tx, bus>>
  PROVE  Held'
<1>1. Database(rows, outbox)'
  BY DEF Held
<1>2. bus' \subseteq Known(outbox')
  BY DEF Held
<1>3. \A r \in Runs : HeldOk(run'[r], session'[r], objs'[r], tx'[r], rows', Known(outbox'))
  BY DEF Held
<1> QED BY <1>1, <1>2, <1>3 DEF Held

\* What the work callback does keeps it.
LEMMA WorkHeldStep ==
  ASSUME Control, Held, setup' = setup, NEW r \in Runs, Work(r)
  PROVE  Held'
<1>1. CASE \E id \in Ids : Load(r, id) \/ Create(r, id)
  BY <1>1, LoadHeld, CreateHeld
<1>2. CASE \E o \in Objects : \E bump \in BOOLEAN : Record(r, o, bump)
  BY <1>2, RecordHeld
<1>3. CASE \E o \in Objects : Save(r, o) \/ Delete(r, o)
  BY <1>3, SaveHeld, DeleteHeld
<1>4. CASE WorkThrows(r)
  <2>1. run[r].pc # "settled" /\ Throw(r, "domain")
    BY <1>4 DEF WorkThrows, Working
  <2> QED BY <2>1, ThrowHeld
<1> QED BY <1>1, <1>2, <1>3, <1>4 DEF Work

\* So does what run() does by itself.
LEMMA StepHeld ==
  ASSUME Control, Held, setup' = setup, NEW r \in Runs, Step(r)
  PROVE  Held'
<1>1. CASE OpenFails(r) \/ OutboxFails(r) \/ CommitFails(r)
  <2>1. /\ run[r].pc # "settled"
        /\ \E error : ScopeRejects(r, error, run[r].threw)
    BY <1>1 DEF OpenFails, OutboxFails, CommitFails, Fail
  <2> QED BY <2>1, FailHeld
<1>2. ASSUME NEW frozen \in SUBSET DOMAIN objs[r], Acknowledge(r, frozen) PROVE Held'
  BY <1>2, AcknowledgeHeld
<1>3. CASE Start(r) \/ Wake(r)
  BY <1>3, TurnsHeld
<1> QED BY <1>1, <1>2, <1>3, OpenHeld, ReturnHeld, HarvestHeld, CommitHeld, PublishHeld, RejectHeld
        DEF Step

\* Held is inductive beside Control.
LEMMA NextHeld ==
  ASSUME Control, Held, [Next]_<<vars, setup>>
  PROVE  Held'
<1>1. ASSUME NEW r \in Runs, setup' = setup, Work(r) \/ Step(r) \/ Abort(r) PROVE Held'
  BY <1>1, WorkHeldStep, StepHeld, AbortHeld
<1>2. CASE UNCHANGED <<vars, setup>>
  BY <1>2, HeldUnchanged DEF vars
<1> QED BY <1>1, <1>2 DEF Next

\* Both hold throughout.
THEOREM HeldAlways == Spec => [](Control /\ Held)
<1>1. Init => Control /\ Held
  BY InitControl, InitHeld
<1>2. Control /\ Held /\ [Next]_<<vars, setup>> => (Control /\ Held)'
  BY NextControl, NextHeld
<1> QED BY <1>1, <1>2, PTL DEF Spec

-----------------------------------------------------------------------------
(* The outbox is exact *)

\* What a sequence holds.
LEMMA ListElements ==
  ASSUME NEW S, NEW s \in Seq(S)
  PROVE  DOMAIN s = 1..Len(s) /\ ToSet(s) = {s[k] : k \in 1..Len(s)}
<1>1. DOMAIN s = 1..Len(s)
  BY LenProperties
<1> QED BY <1>1 DEF ToSet

\* The committed events.
LEMMA CommittedEvents ==
  ASSUME Control
  PROVE  {e.event : e \in ToSet(outbox)} = Known(outbox)
<1>1. ToSet(outbox) = {outbox[k] : k \in 1..Len(outbox)}
  BY ListElements DEF Control
<1> QED BY <1>1 DEF Known

\* The sequences of an instance hold what the second layer says of them.
LEMMA InstanceLists ==
  ASSUME Control, NEW r \in Runs, NEW o \in DOMAIN objs[r]
  PROVE  /\ DOMAIN objs[r] = 1..Len(objs[r])
         /\ ToSet(objs[r][o].log) = Reflected(objs[r][o])
         /\ ToSet(objs[r][o].pending) = Pending(objs[r][o])
<1>1. objs[r] \in Seq(Instances(r))
  BY Parts
<1>2. DOMAIN objs[r] = 1..Len(objs[r]) /\ objs[r][o] \in Instances(r)
  BY <1>1, ListElements, ElementOfSeq
<1>3. PICK a : a = objs[r][o]
  OBVIOUS
<1>4. a.log \in Seq(AnyEvent) /\ a.pending \in Seq(AnyEvent)
  BY <1>2, <1>3, InstanceParts
<1>5. ToSet(a.log) = Reflected(a) /\ ToSet(a.pending) = Pending(a)
  BY <1>4, ListElements DEF Reflected, Pending
<1> QED BY <1>2, <1>3, <1>5

\* An event that an instance reflects is committed, or still pending.
LEMMA PendingOrKnown ==
  ASSUME Control, Held, NEW r \in Runs, NEW o \in 1..Len(objs[r]), NEW e \in Reflected(objs[r][o])
  PROVE  e \in Known(outbox) \/ \E p \in 1..Len(objs[r]) : e \in Pending(objs[r][p])
<1> DEFINE T == session[r].tokens
           O == objs[r]
           A == Taken(O, T)
<1>1. ConsumedOk(run[r], T, A, O, tx[r].out, Known(outbox)) /\ Shape(r, O, T, A)
  BY HeldParts, HeldShape DEF HeldOk
<1> HIDE DEF T, A
<1>2. e \in Pending(O[o]) \/ Covered(e, A, Known(outbox))
  BY <1>1 DEF ConsumedOk
<1>3. ASSUME NEW k \in 1..Len(A), e \in Pending(A[k]) PROVE \E p \in 1..Len(O) : e \in Pending(O[p])
  BY <1>1, <1>3 DEF Shape
<1> QED BY <1>2, <1>3 DEF Covered

\* Rows, outbox and consumers agree.
LEMMA ExactHolds ==
  ASSUME Control, Held
  PROVE  OutboxExact
<1>1. StateMatchesEvents
  BY DEF Held, Database, StateMatchesEvents
<1>2. CursorsUnique
  <2>1. DOMAIN outbox = 1..Len(outbox)
    BY ListElements DEF Control
  <2>2. Cursors(outbox)
    BY DEF Held, Database
  <2> QED BY <2>1, <2>2 DEF Cursors, Cursor, CursorsUnique
<1>3. ASSUME NEW r \in Runs, NEW o \in DOMAIN objs[r], NEW e \in ToSet(objs[r][o].log)
      PROVE  e \in Known(outbox) \/ \E p \in DOMAIN objs[r] : e \in ToSet(objs[r][p].pending)
  <2>1. o \in 1..Len(objs[r]) /\ e \in Reflected(objs[r][o]) /\ DOMAIN objs[r] = 1..Len(objs[r])
    BY InstanceLists
  <2>2. \A p \in DOMAIN objs[r] : ToSet(objs[r][p].pending) = Pending(objs[r][p])
    BY InstanceLists
  <2> QED BY <2>1, <2>2, PendingOrKnown
<1>4. bus \subseteq Known(outbox)
  BY DEF Held
<1>5. NothingConsumedEarly
  BY <1>3, <1>4, CommittedEvents DEF NothingConsumedEarly
<1> QED BY <1>1, <1>2, <1>5 DEF OutboxExact

\* However runs are retried, rolled back or interleaved: the outbox holds exactly
\* the events that the rows reflect, in order and at cursors of their own, and
\* neither the bus nor an acknowledged instance is ahead of it.
THEOREM OutboxIsExact == Spec => []OutboxExact
<1>1. Control /\ Held => OutboxExact
  BY ExactHolds
<1> QED BY <1>1, HeldAlways, PTL

-----------------------------------------------------------------------------
(* What run() says is so *)

\* A resolved run committed all that its instances reflect.
LEMMA ForgetsNothing ==
  ASSUME Control, Held, NEW r \in Runs, run[r].outcome = "resolved", NEW o \in 1..Len(objs[r]),
         objs[r][o].loaded, NEW e \in Reflected(objs[r][o]),
         \A k \in 1..Len(session[r].tokens) :
            session[r].tokens[k].deleted =>
               objs[r][session[r].tokens[k].obj].id # objs[r][o].id
  PROVE  e \in Known(outbox)
<1> DEFINE T == session[r].tokens
           O == objs[r]
           A == Taken(O, T)
<1>1. ConsumedOk(run[r], T, A, O, tx[r].out, Known(outbox)) /\ Shape(r, O, T, A)
  BY HeldParts, HeldShape DEF HeldOk
<1>2. \A k \in 1..Len(T) : T[k].deleted => O[T[k].obj].id # O[o].id
  OBVIOUS
<1> HIDE DEF T, A
<1>3. Finishing(run[r])
  BY DEF Finishing
<1>4. \A k \in 1..Len(A) : Pending(A[k]) \subseteq Known(outbox)
  BY <1>1, <1>3 DEF ConsumedOk
<1>5. O[o].id \notin Gone(T, A)
  BY <1>1, <1>2 DEF Gone, Shape
<1>6. InTokens(T, o) \/ O[o].pending = <<>>
  BY <1>1, <1>3, <1>5 DEF ConsumedOk
<1>7. e \in Pending(O[o]) \/ Covered(e, A, Known(outbox))
  BY <1>1 DEF ConsumedOk
<1>8. CASE e \in Pending(O[o])
  <2>1. CASE InTokens(T, o)
    <3>1. PICK k \in 1..Len(T) : T[k].obj = o
      BY <2>1 DEF InTokens
    <3>2. A[k] = O[o] /\ k \in 1..Len(A)
      BY <1>1, <3>1 DEF Shape
    <3> QED BY <1>4, <1>8, <3>2
  <2>2. CASE O[o].pending = <<>>
    <3>1. Pending(O[o]) = {}
      BY <2>2 DEF Pending
    <3> QED BY <1>8, <3>1
  <2> QED BY <1>6, <2>1, <2>2
<1>9. CASE Covered(e, A, Known(outbox))
  BY <1>4, <1>9 DEF Covered
<1> QED BY <1>7, <1>8, <1>9

\* The second layer says that nothing was forgotten.
LEMMA NoneForgotten ==
  ASSUME Control, Held
  PROVE  NoChangeForgotten
<1> SUFFICES ASSUME NEW r \in Runs, run[r].outcome = "resolved", NEW o \in DOMAIN objs[r],
                    objs[r][o].loaded,
                    \A t \in ToSet(session[r].tokens) : t.deleted => objs[r][t.obj].id # objs[r][o].id
             PROVE  ToSet(objs[r][o].log) \subseteq {e.event : e \in ToSet(outbox)}
  BY DEF NoChangeForgotten
<1>1. session[r].tokens \in Seq(Tokens)
  BY Parts DEF SessionOk, Sessions
<1>2. ToSet(session[r].tokens) = {session[r].tokens[k] : k \in 1..Len(session[r].tokens)}
  BY <1>1, ListElements
<1>3. o \in 1..Len(objs[r]) /\ ToSet(objs[r][o].log) = Reflected(objs[r][o])
  BY InstanceLists
<1>4. \A k \in 1..Len(session[r].tokens) :
         session[r].tokens[k].deleted => objs[r][session[r].tokens[k].obj].id # objs[r][o].id
  BY <1>2
<1>5. \A e \in Reflected(objs[r][o]) : e \in Known(outbox)
  BY <1>3, <1>4, ForgetsNothing
<1> QED BY <1>3, <1>5, CommittedEvents

\* A resolved run committed everything it recorded on what it loaded, a rejected
\* one left nothing behind, and an error names the step that failed.
THEOREM OutcomesAreTruthful == Spec => []OutcomesTruthful
<1>1. Control /\ Held => OutcomesTruthful
  BY TruthHolds, NoneForgotten DEF OutcomesTruthful
<1> QED BY <1>1, HeldAlways, PTL

-----------------------------------------------------------------------------
(* A deletion is final *)

\* An error of the scope leaves the other runs alone and commits nothing.
LEMMA RejectsOne ==
  ASSUME Control, NEW r \in Runs, NEW error, NEW threw, ScopeRejects(r, error, threw), NEW q \in Runs
  PROVE  (q # r => run'[q] = run[q]) /\ (q = r => run'[q].pc \in {"backoff", "failed"})
<1>1. run[r] \in Controls /\ run = [p \in Runs |-> run[p]]
  BY Parts DEF Control
<1> QED BY <1>1 DEF ScopeRejects, Controls

\* Neither does a throw of the work callback.
LEMMA ThrowsOne ==
  ASSUME Control, NEW r \in Runs, NEW error, Throw(r, error), NEW q \in Runs
  PROVE  (q # r => run'[q] = run[q]) /\ (q = r => run'[q].pc \in {"backoff", "failed"})
<1>1. CASE ScopeRejects(r, error, error)
  BY <1>1, RejectsOne
<1>2. CASE ScopeRejects(r, "rollback", error)
  BY <1>2, RejectsOne
<1> QED BY <1>1, <1>2 DEF Throw

\* The work callback commits nothing.
LEMMA WorkCommitsNone ==
  ASSUME Control, NEW r \in Runs, Work(r), NEW q \in Runs, run[q].pc = "harvested"
  PROVE  run'[q].pc # "committed"
<1>1. run = [p \in Runs |-> run[p]] /\ \A p \in Runs : run[p] \in Controls
  BY Parts DEF Control
<1>2. ASSUME NEW error, Throw(r, error) PROVE run'[q].pc # "committed"
  BY <1>2, ThrowsOne
<1>3. CASE \E id \in Ids : Load(r, id)
  BY <1>3 DEF Load
<1>4. CASE \E id \in Ids : Create(r, id)
  <2>1. run' = [run EXCEPT ![r].events = @ + 1]
    BY <1>4 DEF Create
  <2> QED BY <1>1, <2>1 DEF Controls
<1>5. CASE \E o \in Objects : \E bump \in BOOLEAN : Record(r, o, bump)
  <2>1. run' = [run EXCEPT ![r].events = @ + 1]
    BY <1>5 DEF Record
  <2> QED BY <1>1, <2>1 DEF Controls
<1>6. CASE \E o \in Objects : Save(r, o)
  <2>1. run' = run \/ \E error : Throw(r, error)
    BY <1>6 DEF Save
  <2> QED BY <1>2, <2>1
<1>7. CASE \E o \in Objects : Delete(r, o)
  <2>1. run' = run \/ \E error : Throw(r, error)
    BY <1>7 DEF Delete
  <2> QED BY <1>2, <2>1
<1>8. CASE WorkThrows(r)
  BY <1>2, <1>8 DEF WorkThrows
<1> QED BY <1>3, <1>4, <1>5, <1>6, <1>7, <1>8 DEF Work

\* Only a commit that finds its rows unchanged commits.
LEMMA OnlyCommits ==
  ASSUME Control, NEW r \in Runs, Step(r), NEW q \in Runs,
         run[q].pc = "harvested", run'[q].pc = "committed"
  PROVE  r = q /\ rows' = CommittedRows(rows, tx[q].rows)
<1>1. run = [p \in Runs |-> run[p]] /\ \A p \in Runs : run[p] \in Controls
  BY Parts DEF Control
<1>2. ASSUME NEW error, NEW threw, ScopeRejects(r, error, threw) PROVE FALSE
  BY <1>2, RejectsOne
<1>3. ASSUME NEW error, Throw(r, error) PROVE FALSE
  BY <1>3, ThrowsOne
<1>4. CASE Start(r)
  BY <1>1, <1>4 DEF Start, Controls
<1>5. CASE OpenTransaction(r)
  BY <1>1, <1>5 DEF OpenTransaction, Controls
<1>6. CASE OpenFails(r) \/ OutboxFails(r) \/ CommitFails(r)
  BY <1>2, <1>6 DEF OpenFails, OutboxFails, CommitFails, Fail
<1>7. CASE WorkReturns(r)
  BY <1>1, <1>3, <1>7 DEF WorkReturns, Controls
<1>8. CASE Harvest(r)
  BY <1>1, <1>2, <1>8 DEF Harvest, Fail, Controls
<1>9. CASE Commit(r)
  BY <1>1, <1>2, <1>9 DEF Commit, CommittedRows, Fail, Controls
<1>10. CASE \E frozen \in SUBSET DOMAIN objs[r] : Acknowledge(r, frozen)
  <2>1. run[r].pc = "committed" /\ run' = [run EXCEPT ![r].acked = TRUE]
    BY <1>10 DEF Acknowledge, Acknowledges
  <2> QED BY <1>1, <2>1 DEF Controls
<1>11. CASE Publish(r) \/ Reject(r)
  <2>1. run[r].pc # "harvested" /\ \E outcome : Settle(r, outcome)
    BY <1>11 DEF Publish, Reject
  <2> QED BY <1>1, <2>1 DEF Settle, Controls
<1>12. CASE Wake(r)
  BY <1>1, <1>12 DEF Wake, Controls
<1> QED BY <1>4, <1>5, <1>6, <1>7, <1>8, <1>9, <1>10, <1>11, <1>12 DEF Step

\* An aborted run is where it was.
LEMMA AbortCommitsNone ==
  ASSUME Control, NEW r \in Runs, Abort(r), NEW q \in Runs, run[q].pc = "harvested"
  PROVE  run'[q].pc # "committed"
<1>1. run = [p \in Runs |-> run[p]] /\ \A p \in Runs : run[p] \in Controls
  BY Parts DEF Control
<1> QED BY <1>1 DEF Abort, Controls

\* A harvested deletion is written last.
LEMMA DeletedLast ==
  ASSUME Control, Held, NEW r \in Runs, run[r].pc = "harvested",
         NEW t \in ToSet(session[r].tokens), t.deleted
  PROVE  /\ objs[r][t.obj].id \in DOMAIN tx[r].rows /\ objs[r][t.obj].id \in Ids
         /\ tx[r].rows[objs[r][t.obj].id].v = 0
<1> DEFINE T == session[r].tokens
           A == Taken(objs[r], T)
           W == tx[r].rows
<1>1. Shape(r, objs[r], T, A) /\ ChainOk(A, W) /\ WritesOk(T, A, W)
  BY HeldParts, HeldShape DEF HeldOk, InTransaction
<1>2. PICK k \in 1..Len(T) : t = T[k]
  BY <1>1, ListElements DEF Shape
<1> HIDE DEF T, A, W
<1>3. PICK i : i = A[k].id
  OBVIOUS
<1>4. i = objs[r][t.obj].id /\ i \in DOMAIN W /\ i \in Ids
  <2>1. A[k] = objs[r][t.obj] /\ A[k] \in Instances(r) /\ k \in 1..Len(A)
    BY <1>1, <1>2 DEF Shape
  <2> QED BY <1>1, <1>3, <2>1, InstanceParts DEF ChainOk
<1>5. PICK l \in 1..Len(T) : LastOf(T, A, i, l) /\ WrittenFrom(W[i], T[l], A[l])
  BY <1>1, <1>4 DEF WritesOk
<1>6. k = l
  BY <1>2, <1>3, <1>5 DEF LastOf
<1>7. W[i].v = 0
  BY <1>2, <1>5, <1>6 DEF WrittenFrom
<1> QED BY <1>4, <1>7 DEF W

\* A commit leaves no row of an aggregate that its session deleted, also if the
\* work callback saved it before or created it again.
THEOREM DeletionIsFinal == Spec => DeletedIsFinal
<1> DEFINE Final == \A r \in Runs : run[r].pc = "harvested" /\ run'[r].pc = "committed" =>
                       \A t \in ToSet(session[r].tokens) :
                          t.deleted => rows'[objs[r][t.obj].id].v = 0
<1>1. ASSUME Control, Held, [Next]_<<vars, setup>> PROVE Final
  <2> SUFFICES ASSUME NEW r \in Runs, run[r].pc = "harvested", run'[r].pc = "committed",
                      NEW t \in ToSet(session[r].tokens), t.deleted
               PROVE  rows'[objs[r][t.obj].id].v = 0
    OBVIOUS
  <2>1. PICK i : i = objs[r][t.obj].id
    OBVIOUS
  <2>2. i \in DOMAIN tx[r].rows /\ i \in Ids /\ tx[r].rows[i].v = 0
    <3>1. /\ objs[r][t.obj].id \in DOMAIN tx[r].rows /\ objs[r][t.obj].id \in Ids
          /\ tx[r].rows[objs[r][t.obj].id].v = 0
      BY <1>1, DeletedLast
    <3> QED BY <2>1, <3>1
  <2>3. run' # run
    OBVIOUS
  <2>4. PICK q \in Runs : Work(q) \/ Step(q) \/ Abort(q)
    BY <1>1, <2>3 DEF Next, vars
  <2>5. rows' = CommittedRows(rows, tx[r].rows)
    BY <1>1, <2>4, WorkCommitsNone, OnlyCommits, AbortCommitsNone
  <2>6. rows'[i].v = 0
    BY <2>2, <2>5 DEF CommittedRows
  <2> QED BY <2>1, <2>6
<1>2. Control /\ Held /\ [Next]_<<vars, setup>> => [Final]_vars
  BY <1>1
<1> HIDE DEF Final
<1>3. Spec => [][Final]_vars
  BY <1>2, HeldAlways, PTL DEF Spec
<1> QED BY <1>3 DEF DeletedIsFinal, Final
=============================================================================
