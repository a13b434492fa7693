------------------------ MODULE EventSourcingProofs ------------------------
(***************************************************************************)
(* For any writers, deployments and bounds, states in memory, snapshots    *)
(* and streams tell one history, and a load returns what is current or     *)
(* fails for a reason in the stream.                                       *)
(*                                                                         *)
(* Streams only grow, so everything the invariant says of a writer is said *)
(* of a prefix of its stream: the events folded into its state, the head a *)
(* load has pinned, the snapshot it restores, the row that made it fail.   *)
(***************************************************************************)
EXTENDS EventSourcing, OrderedFilterProofs, FiniteSetTheorems, TLAPS

\* A stream that does not exist reads as empty.
StreamOf(str, a) == IF a \in DOMAIN str THEN str[a] ELSE <<>>

\* The first n events of s, and those after them up to m.
Stem(s, n) == SubSeq(s, 1, n)
Between(s, n, m) == SubSeq(s, n + 1, m)

\* A row that a writer decided on: at its place, with its address, replayable.
Decided(e, a, i) ==
    e.by \in Writers => e.base = i - 1 /\ e.addr = a /\ e.kind # "poison"

\* Everything about a stream that does not depend on the others.
History(s, a) == s \in Seq(Events) /\ \A i \in 1..Len(s) : Decided(s[i], a, i)

\* The number of events in the streams of the set S.
EventCount(str, S) == FoldSet(LAMBDA a, m : m + Len(str[a]), 0, S)

\* The streams that exist are not empty, and are counted.
StreamsOk(d, str, n) ==
    /\ str = [a \in DOMAIN str |-> str[a]] /\ DOMAIN str \subseteq Addresses
    /\ IsFiniteSet(DOMAIN str)
    /\ \A a \in DOMAIN str : History(str[a], a) /\ str[a] # <<>>
    /\ n \in Nat /\ n = EventCount(str, DOMAIN str)
    /\ n <= d.maxEvents /\ Cardinality(DOMAIN str) <= d.maxStreams

\* An intact snapshot is the fold of the stream up to its version.
Derived(s, str) ==
    s.intact => s.version <= Len(str) /\ s.state = Stem(str, s.version)

SnapEntries == [addr : Addresses, snapshot : Snapshots, saved : Nat, expires : Nat]

EntryOk(d, e, str, t) ==
    /\ Derived(e.snapshot, StreamOf(str, e.addr))
    /\ e.saved <= t /\ e.expires = e.saved + d.ttl

SnapsOk(d, sns, str, t) ==
    /\ sns \in Seq(SnapEntries) /\ Len(sns) <= d.maxEntries
    /\ \A i \in 1..Len(sns) : EntryOk(d, sns[i], str, t)
    /\ \A i, j \in 1..Len(sns) : sns[i].addr = sns[j].addr => i = j

\* An instance reflects a stored prefix and its own pending events.
InstanceOk(agg, s) ==
    /\ agg.persisted <= Len(s)
    /\ agg.state = Stem(s, agg.persisted) \o agg.pending
    /\ agg.version = agg.persisted + Len(agg.pending)
    /\ \A k \in 1..Len(agg.pending) :
          agg.pending[k].by \in Writers /\ Decided(agg.pending[k], agg.addr, agg.persisted + k)
    /\ agg.persisted > 0 => agg.stored

\* What a writer carries.
Outcomes == {None, "found", "absent", "failed"}
Made == [addr : Addresses, snapshot : Snapshots]
Procs == [pc : {"none", "held", "appended", "tail", "catchup", "fold", "discard"},
          agg : Aggregates, from : Nat, target : Nat, pinned : BOOLEAN,
          snap : SUBSET Snapshots, discard : BOOLEAN, made : SUBSET Made,
          age : Nat, start : Nat, res : Outcomes]

\* A row that explains why the load of a writer fails.
Blamed(d, e, w) == e.by = None \/ (e.kind = "v2" /\ d.generation[w] = 1)

\* The stages of a load.
LoadOk(p, s) ==
    /\ p.pc \in {"tail", "catchup", "fold"} => p.agg.pending = <<>> /\ p.start <= Len(s)
    /\ p.pc \in {"catchup", "fold"} => p.from = p.agg.persisted
    /\ p.pc \in {"catchup", "fold"} /\ p.pinned =>
          p.from <= p.target /\ p.target <= Len(s) /\ p.start <= p.target
    /\ p.pc = "catchup" => p.pinned
    /\ p.pc = "tail" => p.snap # {}
    /\ p.pc \in {"tail", "catchup", "fold"} => p.res = None
    /\ p.pc = "discard" => p.res \in {"found", "absent"}

\* What a finished load says.
ResultOk(d, w, p, s) ==
    /\ p.res = "absent" => p.start = 0
    /\ p.res = "found" => p.start <= p.agg.persisted
    /\ p.res = "failed" => \E i \in 1..Len(s) : Blamed(d, s[i], w)

\* What holds at every stage.
CoreOk(d, p, str) ==
    LET s == StreamOf(str, p.agg.addr)
    IN  /\ p \in Procs /\ p.age < d.ttl
        /\ p.pc # "none" => p.agg.addr \in Addresses
        /\ InstanceOk(p.agg, s)
        /\ \A n \in p.snap : Derived(n, s)
        /\ \A m \in p.made : Derived(m.snapshot, StreamOf(str, m.addr))

ProcOk(d, w, p, str) ==
    LET s == StreamOf(str, p.agg.addr)
    IN  /\ CoreOk(d, p, str) /\ LoadOk(p, s) /\ ResultOk(d, w, p, s)
        /\ p.pc = "appended" => p.agg.version <= Len(s) /\ p.agg.state = Stem(s, p.agg.version)

\* The inductive invariant.
IInv ==
    /\ setup \in Setups /\ now \in 0..MaxTime /\ faults \in 0..MaxFaults
    /\ StreamsOk(setup, streams, total)
    /\ SnapsOk(setup, snaps, streams, now)
    /\ proc = [w \in Writers |-> proc[w]]
    /\ \A w \in Writers : ProcOk(setup, w, proc[w], streams)

-----------------------------------------------------------------------------
(* Deployments and sequences *)

\* What the assumption says of the deployment that was chosen.
LEMMA SetupTypes ==
  ASSUME setup \in Setups
  PROVE  /\ Limit \in Nat \ {0} /\ MaxStreams \in Nat \ {0} /\ MaxEvents \in Nat \ {0}
         /\ MaxEntries \in Nat \ {0} /\ Ttl \in Nat \ {0}
         /\ MaxPending \in Nat /\ MaxTime \in Nat /\ MaxFaults \in Nat
         /\ setup.addresses \subseteq Addresses
         /\ Running \subseteq Writers /\ None \notin Writers
         /\ \A w \in Running : Generation[w] \in 1..2
<1>1. /\ DOMAIN setup.generation \subseteq Writers /\ Range(setup.generation) \subseteq 1..2
      /\ setup.addresses \subseteq Addresses /\ None \notin Writers
      /\ {setup.limit, setup.maxStreams, setup.maxEvents, setup.maxEntries, setup.ttl}
           \subseteq Nat \ {0}
      /\ {setup.maxPending, setup.maxTime, setup.maxFaults} \subseteq Nat
  BY EventSourcingAssumption
<1> QED
  BY <1>1 DEF Limit, MaxStreams, MaxEvents, MaxEntries, Ttl, MaxPending, MaxTime, MaxFaults,
              Running, Generation, Range

\* t is s, or s with more events after it.
Extends(s, t) == \E u \in Seq(Events) : t = s \o u

\* What was read from a stream is still there when it has grown.
LEMMA ExtendsKeeps ==
  ASSUME NEW s \in Seq(Events), NEW t, Extends(s, t)
  PROVE  /\ t \in Seq(Events) /\ Len(s) \in Nat /\ Len(t) \in Nat /\ Len(s) <= Len(t)
         /\ \A i \in 1..Len(s) : t[i] = s[i]
         /\ \A n \in 0..Len(s) : Stem(t, n) = Stem(s, n)
<1>1. PICK u \in Seq(Events) : t = s \o u
  BY DEF Extends
<1>2. /\ t \in Seq(Events) /\ Len(t) = Len(s) + Len(u)
      /\ \A i \in 1..Len(s) + Len(u) : t[i] = IF i <= Len(s) THEN s[i] ELSE u[i - Len(s)]
      /\ Len(s) \in Nat /\ Len(u) \in Nat
  BY <1>1, ConcatProperties, LenProperties
<1>3. \A i \in 1..Len(s) : t[i] = s[i]
  BY <1>2
<1>4. ASSUME NEW n \in 0..Len(s) PROVE Stem(t, n) = Stem(s, n)
  <2>1. CASE n = 0
    BY <2>1, SubSeqEmpty DEF Stem
  <2>2. CASE n \in 1..Len(s)
    <3>1. 1 \in 1..Len(s)
      BY <2>2, <1>2
    <3> QED
      BY <1>1, <2>2, <3>1, SubSeqOfConcat1 DEF Stem
  <2> QED
    BY <2>1, <2>2, <1>2
<1> QED
  BY <1>2, <1>3, <1>4

\* A sequence extends itself.
LEMMA ExtendsSelf == ASSUME NEW s \in Seq(Events) PROVE Extends(s, s)
<1>1. s = s \o <<>> /\ <<>> \in Seq(Events)
  BY ConcatEmptySeq, EmptySeq
<1> QED
  BY <1>1 DEF Extends

\* A prefix is a sequence of its own length, with the same entries.
LEMMA PrefixIs ==
  ASSUME NEW s \in Seq(Events), NEW n \in 0..Len(s)
  PROVE  /\ Stem(s, n) \in Seq(Events) /\ Len(Stem(s, n)) = n
         /\ \A i \in 1..n : Stem(s, n)[i] = s[i]
<1>1. Len(s) \in Nat /\ \A i \in 1..n : s[i] \in Events
  BY LenProperties, ElementOfSeq
<1> QED
  BY <1>1, SubSeqProperties DEF Stem

\* A page after a prefix makes a longer prefix.
LEMMA PrefixThenPage ==
  ASSUME NEW s \in Seq(Events), NEW n \in 0..Len(s), NEW m \in n..Len(s)
  PROVE  /\ Stem(s, n) \o Between(s, n, m) = Stem(s, m)
         /\ Between(s, n, m) \in Seq(Events) /\ Len(Between(s, n, m)) = m - n
         /\ \A i \in 1..m - n : Between(s, n, m)[i] = s[n + i]
<1>1. Len(s) \in Nat /\ \A i \in 1..Len(s) : s[i] \in Events
  BY LenProperties, ElementOfSeq
<1>2. Stem(s, n) \o Between(s, n, m) = Stem(s, m)
  BY <1>1, ConcatAdjacentSubSeq DEF Stem, Between
<1>3. \A i \in n + 1..m : s[i] \in Events
  BY <1>1
<1>4. /\ Between(s, n, m) \in Seq(Events)
      /\ Len(Between(s, n, m)) = IF n + 1 <= m THEN m - (n + 1) + 1 ELSE 0
      /\ \A i \in 1..m - (n + 1) + 1 : Between(s, n, m)[i] = s[n + 1 + i - 1]
  BY SMTT(40), <1>1, <1>3, SubSeqProperties DEF Between
<1>5. m - (n + 1) + 1 = m - n /\ \A i \in 1..m - n : n + 1 + i - 1 = n + i
  BY <1>1
<1> QED
  BY <1>1, <1>2, <1>4, <1>5

-----------------------------------------------------------------------------
(* Reading and replaying *)

\* The least of three numbers.
LEMMA LeastOfThree ==
  ASSUME NEW x \in Int, NEW y \in Int, NEW z \in Int
  PROVE  /\ Min({x, y, z}) \in {x, y, z}
         /\ Min({x, y, z}) <= x /\ Min({x, y, z}) <= y /\ Min({x, y, z}) <= z
<1>1. \E m \in {x, y, z} : \A k \in {x, y, z} : m <= k
  <2>1. CASE x <= y /\ x <= z
    BY <2>1
  <2>2. CASE y <= x /\ y <= z
    BY <2>2
  <2>3. CASE z <= x /\ z <= y
    BY <2>3
  <2> QED
    BY <2>1, <2>2, <2>3
<1> QED
  BY <1>1 DEF Min

\* A page is a part of the stream that starts behind the cursor, and is not
\* empty before the head the load has pinned.
LEMMA PageIs ==
  ASSUME setup \in Setups, NEW a, Stream(a) \in Seq(Events),
         NEW from \in 0..Len(Stream(a)), NEW to \in from..Len(Stream(a))
  PROVE  \E n \in from..to : /\ Page(a, from, to) = Between(Stream(a), from, n)
                             /\ from < to => from < n
<1> DEFINE l == Len(Stream(a))
           n == Min({to, from + Limit, l})
<1>1. Limit \in Nat \ {0} /\ l \in Nat
  BY SetupTypes, LenProperties
<1>2. from \in Int /\ to \in Int /\ from + Limit \in Int /\ l \in Int
  BY <1>1
<1>3. n \in {to, from + Limit, l} /\ n <= to /\ n <= from + Limit /\ n <= l
  BY <1>2, LeastOfThree
<1>4. n \in from..to /\ (from < to => from < n)
  BY <1>1, <1>2, <1>3
<1> QED
  BY <1>4 DEF Page, Between

\* A replay that fails met an event it cannot fold.
LEMMA HandledBad ==
  ASSUME NEW w, NEW agg, NEW events \in Seq(Events)
  PROVE  /\ Handled(w, agg, events) \in {"ok", "throw", "err"}
         /\ Handled(w, agg, events) # "ok" =>
               \E i \in 1..Len(events) : Outcome(w, agg, events[i]) # "ok"
<1> DEFINE bad == {i \in DOMAIN events : Outcome(w, agg, events[i]) # "ok"}
<1>1. DOMAIN events = 1..Len(events)
  BY LenProperties
<1>2. CASE bad = {}
  BY <1>2 DEF Handled
<1>3. CASE bad # {}
  <2>1. Handled(w, agg, events) = Outcome(w, agg, events[Min(bad)])
    BY <1>3 DEF Handled
  <2>2. Outcome(w, agg, events[Min(bad)]) \in {"ok", "throw", "err"}
    BY DEF Outcome
  <2> QED
    BY <1>1, <1>3, <2>1, <2>2
<1> QED
  BY <1>2, <1>3

\* What apply() let through replays, in the generation that wrote it.
LEMMA BadIsBlamed ==
  ASSUME setup \in Setups, NEW w \in Running, NEW agg, NEW e \in Events, NEW i,
         Decided(e, agg.addr, i), Outcome(w, agg, e) # "ok"
  PROVE  Blamed(setup, e, w)
<1>1. e.by \in Writers \cup {None} /\ Generation[w] \in 1..2
  BY SetupTypes DEF Events
<1>2. CASE e.by \in Writers
  <2>1. e.addr = agg.addr /\ e.kind # "poison"
    BY <1>2 DEF Decided
  <2>2. ~HasHandler(w, e)
    BY <2>1 DEF Outcome, Belongs
  <2> QED
    BY <1>1, <2>2 DEF HasHandler, Blamed, Generation
<1>3. CASE e.by = None
  BY <1>3 DEF Blamed
<1> QED
  BY <1>1, <1>2, <1>3

\* A failed replay of a page blames a row of the stream.
LEMMA FailedReplay ==
  ASSUME setup \in Setups, NEW w \in Running, NEW agg, NEW s, History(s, agg.addr),
         NEW n \in 0..Len(s), NEW m \in n..Len(s),
         Handled(w, agg, Between(s, n, m)) # "ok"
  PROVE  \E i \in 1..Len(s) : Blamed(setup, s[i], w)
<1> DEFINE page == Between(s, n, m)
<1>1. s \in Seq(Events) /\ \A i \in 1..Len(s) : Decided(s[i], agg.addr, i)
  BY DEF History
<1>2. /\ page \in Seq(Events) /\ Len(page) = m - n /\ Len(s) \in Nat
      /\ \A i \in 1..m - n : page[i] = s[n + i]
  BY <1>1, PrefixThenPage, LenProperties
<1>3. PICK i \in 1..Len(page) : Outcome(w, agg, page[i]) # "ok"
  BY <1>2, HandledBad
<1>4. n + i \in 1..Len(s) /\ page[i] = s[n + i]
  BY <1>2
<1>5. s[n + i] \in Events /\ Decided(s[n + i], agg.addr, n + i)
  BY <1>1, <1>4, ElementOfSeq
<1> QED
  BY <1>3, <1>4, <1>5, BadIsBlamed

\* An instance restored at a stored version is sound.
LEMMA RestoredOk ==
  ASSUME NEW s \in Seq(Events), NEW agg \in Aggregates, agg.pending = <<>>,
         NEW n \in 0..Len(s), NEW state, state = Stem(s, n)
  PROVE  LET r == Restored(agg, state, n)
         IN  /\ r \in Aggregates /\ InstanceOk(r, s)
             /\ r.addr = agg.addr /\ r.persisted = n /\ r.pending = <<>> /\ r.version = n
<1> DEFINE r == Restored(agg, state, n)
<1>1. Len(s) \in Nat /\ Stem(s, n) \in Seq(Events) /\ n \in Nat
  BY LenProperties, PrefixIs
<1>2. /\ r \in Aggregates /\ r.addr = agg.addr /\ r.state = Stem(s, n) /\ r.version = n
      /\ r.persisted = n /\ r.stored = TRUE /\ r.pending = <<>>
  BY <1>1 DEF Restored, Aggregates
<1>3. Len(r.pending) = 0
  BY <1>2
<1>4. r.state = Stem(s, n) \o r.pending
  BY <1>1, <1>2, ConcatEmptySeq
<1> HIDE DEF r
<1>5. InstanceOk(r, s)
  BY <1>1, <1>2, <1>3, <1>4 DEF InstanceOk
<1> QED
  BY <1>2, <1>5 DEF r

\* A new instance is sound, whatever the stream.
LEMMA BareOk ==
  ASSUME NEW a \in Addresses \cup {None}, NEW s \in Seq(Events)
  PROVE  /\ Bare(a) \in Aggregates /\ InstanceOk(Bare(a), s)
         /\ Bare(a).addr = a /\ Bare(a).pending = <<>> /\ Bare(a).persisted = 0
         /\ Bare(a).version = 0
<1> DEFINE b == Bare(a)
<1>1. <<>> \in Seq(Events) /\ Len(s) \in Nat /\ Len(<<>>) = 0
  BY EmptySeq, LenProperties
<1>2. /\ b \in Aggregates /\ b.addr = a /\ b.state = <<>> /\ b.version = 0 /\ b.persisted = 0
      /\ b.stored = FALSE /\ b.pending = <<>>
  BY <1>1 DEF Bare, Aggregates
<1>3. Stem(s, 0) = <<>>
  BY SubSeqEmpty DEF Stem
<1>4. b.state = Stem(s, b.persisted) \o b.pending
  BY <1>1, <1>2, <1>3, ConcatEmptySeq
<1> HIDE DEF b
<1>5. InstanceOk(b, s)
  BY <1>1, <1>2, <1>4 DEF InstanceOk
<1> QED
  BY <1>2, <1>5 DEF b

-----------------------------------------------------------------------------
(* What growing streams leave true *)

\* Every stream of str2 extends the one of str.
Grows(str, str2) == \A a : Extends(StreamOf(str, a), StreamOf(str2, a))

\* Every stream is a history, also one that does not exist.
LEMMA StreamHistory ==
  ASSUME NEW d, NEW str, NEW n, StreamsOk(d, str, n), NEW a
  PROVE  History(StreamOf(str, a), a) /\ StreamOf(str, a) \in Seq(Events)
<1>1. CASE a \in DOMAIN str
  BY <1>1 DEF StreamsOk, StreamOf, History
<1>2. CASE a \notin DOMAIN str
  <2>1. StreamOf(str, a) = <<>> /\ <<>> \in Seq(Events) /\ Len(<<>>) = 0
    BY <1>2, EmptySeq DEF StreamOf
  <2> QED
    BY <2>1 DEF History
<1> QED
  BY <1>1, <1>2

\* Nothing grows into itself.
LEMMA GrowsSelf ==
  ASSUME NEW d, NEW str, NEW n, StreamsOk(d, str, n) PROVE Grows(str, str)
BY StreamHistory, ExtendsSelf DEF Grows

\* A snapshot stays the fold of its stream.
LEMMA DerivedGrows ==
  ASSUME NEW n \in Snapshots, NEW s \in Seq(Events), NEW t, Extends(s, t), Derived(n, s)
  PROVE  Derived(n, t)
<1>1. n.version \in Nat
  BY DEF Snapshots
<1>2. n.version <= Len(s) => n.version \in 0..Len(s)
  BY <1>1, LenProperties
<1> QED
  BY <1>1, <1>2, ExtendsKeeps DEF Derived

\* A sound writer stays sound while its streams grow.
LEMMA ProcGrows ==
  ASSUME NEW d, NEW w, NEW p, NEW str, NEW str2, \A a : StreamOf(str, a) \in Seq(Events),
         Grows(str, str2), ProcOk(d, w, p, str)
  PROVE  ProcOk(d, w, p, str2)
<1> DEFINE agg == p.agg
           s == StreamOf(str, agg.addr)
           t == StreamOf(str2, agg.addr)
<1>1. s \in Seq(Events) /\ Extends(s, t)
  BY DEF Grows
<1>2. /\ t \in Seq(Events) /\ Len(s) \in Nat /\ Len(t) \in Nat /\ Len(s) <= Len(t)
      /\ \A i \in 1..Len(s) : t[i] = s[i]
      /\ \A n \in 0..Len(s) : Stem(t, n) = Stem(s, n)
  BY <1>1, ExtendsKeeps
<1>3. /\ p \in Procs /\ InstanceOk(agg, s) /\ LoadOk(p, s) /\ ResultOk(d, w, p, s)
      /\ p.pc # "none" => agg.addr \in Addresses
      /\ p.pc = "appended" => agg.version <= Len(s) /\ agg.state = Stem(s, agg.version)
      /\ \A n \in p.snap : Derived(n, s)
      /\ \A m \in p.made : Derived(m.snapshot, StreamOf(str, m.addr))
      /\ p.age < d.ttl
  BY DEF ProcOk, CoreOk
<1>4. /\ agg \in Aggregates /\ agg.persisted \in Nat /\ agg.version \in Nat
      /\ p.snap \subseteq Snapshots /\ p.made \subseteq Made
      /\ p.start \in Nat /\ p.target \in Nat
  BY <1>3 DEF Procs, Aggregates
<1> HIDE DEF s, t
<1>5. InstanceOk(agg, t)
  <2>1. agg.persisted <= Len(s)
    BY <1>3 DEF InstanceOk
  <2>2. Stem(t, agg.persisted) = Stem(s, agg.persisted) /\ agg.persisted <= Len(t)
    BY <1>2, <1>4, <2>1
  <2> QED
    BY <1>3, <2>2 DEF InstanceOk
<1>6. LoadOk(p, t)
  BY <1>2, <1>3, <1>4 DEF LoadOk
<1>7. ResultOk(d, w, p, t)
  BY <1>2, <1>3 DEF ResultOk
<1>8. p.pc = "appended" => agg.version <= Len(t) /\ agg.state = Stem(t, agg.version)
  BY <1>2, <1>3, <1>4
<1>9. \A n \in p.snap : Derived(n, t)
  BY <1>1, <1>3, <1>4, DerivedGrows
<1>10. \A m \in p.made : Derived(m.snapshot, StreamOf(str2, m.addr))
  <2>1. \A m \in p.made : m.snapshot \in Snapshots
    BY <1>4 DEF Made
  <2> QED
    BY <1>3, <2>1, DerivedGrows DEF Grows
<1> QED
  BY <1>3, <1>5, <1>6, <1>7, <1>8, <1>9, <1>10 DEF ProcOk, CoreOk, t

\* So do the stored snapshots, while the clock runs.
LEMMA SnapsGrow ==
  ASSUME NEW d, NEW sns, NEW str, NEW str2, \A a : StreamOf(str, a) \in Seq(Events),
         Grows(str, str2), NEW t \in Nat, NEW t2 \in Nat, t <= t2, SnapsOk(d, sns, str, t)
  PROVE  SnapsOk(d, sns, str2, t2)
<1>1. ASSUME NEW i \in 1..Len(sns) PROVE EntryOk(d, sns[i], str2, t2)
  <2>1. sns[i] \in SnapEntries /\ EntryOk(d, sns[i], str, t)
    BY ElementOfSeq DEF SnapsOk
  <2>2. sns[i].snapshot \in Snapshots /\ sns[i].saved \in Nat
    BY <2>1 DEF SnapEntries
  <2>3. Derived(sns[i].snapshot, StreamOf(str2, sns[i].addr))
    BY <2>1, <2>2, DerivedGrows DEF EntryOk, Grows
  <2> QED
    BY <2>1, <2>2, <2>3 DEF EntryOk
<1> QED
  BY <1>1 DEF SnapsOk

\* A step is safe that grows the streams, leaves the snapshots sound and every
\* writer that it changes sound.
LEMMA StepSafe ==
  ASSUME IInv, setup' = setup, now' \in 0..MaxTime, now <= now', faults' \in 0..MaxFaults,
         StreamsOk(setup, streams', total'), Grows(streams, streams'),
         SnapsOk(setup, snaps', streams', now'),
         proc' = [w \in Writers |-> proc'[w]],
         \A w \in Writers : proc'[w] = proc[w] \/ ProcOk(setup, w, proc'[w], streams')
  PROVE  IInv'
<1>1. /\ setup \in Setups /\ StreamsOk(setup, streams, total)
      /\ \A w \in Writers : ProcOk(setup, w, proc[w], streams)
  BY DEF IInv
<1>2. \A a : StreamOf(streams, a) \in Seq(Events)
  BY <1>1, StreamHistory
<1>3. \A w \in Writers : ProcOk(setup, w, proc'[w], streams')
  BY <1>1, <1>2, ProcGrows
<1>4. MaxTime' = MaxTime /\ MaxFaults' = MaxFaults
  BY DEF MaxTime, MaxFaults
<1> QED
  BY <1>1, <1>3, <1>4 DEF IInv

\* A step that changes one writer, and maybe the stored snapshots.
LEMMA PutSafe ==
  ASSUME IInv, setup' = setup, NEW w \in Writers, NEW p, Set(w, p),
         ProcOk(setup, w, p, streams), SnapsOk(setup, snaps', streams, now),
         faults' \in 0..MaxFaults, UNCHANGED <<streams, total, now>>
  PROVE  IInv'
<1>1. /\ proc = [v \in Writers |-> proc[v]] /\ now \in 0..MaxTime /\ setup \in Setups
      /\ StreamsOk(setup, streams, total)
  BY DEF IInv
<1>2. /\ proc' = [v \in Writers |-> proc'[v]] /\ proc'[w] = p
      /\ \A v \in Writers \ {w} : proc'[v] = proc[v]
  BY <1>1 DEF Set
<1>3. now' \in 0..MaxTime /\ now <= now'
  BY <1>1, SetupTypes
<1>4. Grows(streams, streams') /\ StreamsOk(setup, streams', total')
  BY <1>1, GrowsSelf
<1> QED
  BY <1>2, <1>3, <1>4, StepSafe

-----------------------------------------------------------------------------
(* The stages of a load *)

\* What is known of a running writer.
LEMMA WriterFacts ==
  ASSUME IInv, NEW w \in Running
  PROVE  LET p == proc[w]
             s == Stream(p.agg.addr)
         IN  /\ setup \in Setups /\ w \in Writers /\ p \in Procs /\ p.agg \in Aggregates
             /\ p.agg.persisted \in Nat /\ p.agg.version \in Nat /\ p.from \in Nat
             /\ p.target \in Nat /\ p.start \in Nat
             /\ s = StreamOf(streams, p.agg.addr)
             /\ s \in Seq(Events) /\ Len(s) \in Nat /\ History(s, p.agg.addr)
             /\ CoreOk(setup, p, streams) /\ LoadOk(p, s) /\ ResultOk(setup, w, p, s)
             /\ InstanceOk(p.agg, s) /\ p.agg.persisted <= Len(s)
             /\ p.pc = "appended" =>
                   p.agg.version <= Len(s) /\ p.agg.state = Stem(s, p.agg.version)
             /\ SnapsOk(setup, snaps, streams, now) /\ faults \in 0..MaxFaults
<1> DEFINE p == proc[w]
           s == Stream(p.agg.addr)
<1>1. /\ setup \in Setups /\ w \in Writers /\ ProcOk(setup, w, p, streams)
      /\ StreamsOk(setup, streams, total)
      /\ SnapsOk(setup, snaps, streams, now) /\ faults \in 0..MaxFaults
  BY SetupTypes DEF IInv
<1>2. s = StreamOf(streams, p.agg.addr)
  BY DEF Stream, StreamOf
<1>3. History(s, p.agg.addr) /\ s \in Seq(Events) /\ Len(s) \in Nat
  BY <1>1, <1>2, StreamHistory, LenProperties
<1>4. /\ CoreOk(setup, p, streams) /\ LoadOk(p, s) /\ ResultOk(setup, w, p, s)
      /\ p.pc = "appended" => p.agg.version <= Len(s) /\ p.agg.state = Stem(s, p.agg.version)
  BY SMTT(40), <1>1, <1>2 DEF ProcOk
<1>5. p \in Procs /\ InstanceOk(p.agg, s) /\ p.agg.persisted <= Len(s)
  BY <1>2, <1>4 DEF CoreOk, InstanceOk
<1>6. /\ p.agg \in Aggregates /\ p.from \in Nat /\ p.target \in Nat /\ p.start \in Nat
      /\ p.agg.persisted \in Nat /\ p.agg.version \in Nat
  BY <1>5 DEF Procs, Aggregates
<1> QED
  BY <1>1, <1>2, <1>3, <1>4, <1>5, <1>6

\* A load ends soundly with an instance that is new enough, without one if
\* there was no stream, or with an error that a row explains.
LEMMA EndedOk ==
  ASSUME NEW d, NEW w, NEW p, NEW str, \A a : StreamOf(str, a) \in Seq(Events),
         CoreOk(d, p, str), p.pc # "none", NEW res \in {"found", "absent", "failed"},
         res = "absent" => p.start = 0,
         res = "found" => p.start <= p.agg.persisted,
         res = "failed" => LET s == StreamOf(str, p.agg.addr)
                           IN  \E i \in 1..Len(s) : Blamed(d, s[i], w)
  PROVE  ProcOk(d, w, Ended(p, res), str)
<1> DEFINE a == p.agg.addr
           s == StreamOf(str, a)
           q == Ended(p, res)
<1>1. p \in Procs /\ p.agg \in Aggregates /\ a \in Addresses /\ InstanceOk(p.agg, s)
  BY DEF CoreOk, Procs
<1>2. /\ q.pc = IF res = "failed" THEN "none" ELSE IF p.discard THEN "discard"
                ELSE IF res = "found" THEN "held" ELSE "none"
      /\ q.agg = IF res = "found" THEN p.agg ELSE Bare(a)
      /\ q.res = res /\ q.snap = {} /\ q.made = p.made /\ q.age = p.age /\ q.start = p.start
      /\ q.discard = p.discard /\ q.from = 0 /\ q.target = 0 /\ q.pinned = FALSE
  BY <1>1 DEF Ended, Procs
<1>3. s \in Seq(Events)
  OBVIOUS
<1>4. Bare(a) \in Aggregates /\ InstanceOk(Bare(a), s) /\ Bare(a).addr = a
  BY <1>1, <1>3, BareOk
<1>5. q.agg \in Aggregates /\ q.agg.addr = a /\ InstanceOk(q.agg, s)
  BY <1>1, <1>2, <1>4
<1>6. q \in Procs
  BY ZenonT(60), <1>1, <1>4 DEF Ended, Procs, Outcomes
<1> HIDE DEF q
<1>7. CoreOk(d, q, str)
  BY <1>1, <1>2, <1>5, <1>6 DEF CoreOk
<1>8. LoadOk(q, s)
  BY <1>2 DEF LoadOk
<1>9. ResultOk(d, w, q, s)
  BY <1>2 DEF ResultOk
<1>10. q.pc # "appended"
  BY <1>2
<1> QED
  BY <1>5, <1>7, <1>8, <1>9, <1>10 DEF ProcOk, q

\* Replaying from zero is a sound stage.
LEMMA RefoldOk ==
  ASSUME NEW d, NEW w, NEW p, NEW str, \A a : StreamOf(str, a) \in Seq(Events),
         CoreOk(d, p, str), p.pc # "none", p.res = None,
         p.start <= Len(StreamOf(str, p.agg.addr))
  PROVE  ProcOk(d, w, Refold(p), str)
<1> DEFINE a == p.agg.addr
           s == StreamOf(str, a)
           q == Refold(p)
<1>1. p \in Procs /\ p.agg \in Aggregates /\ a \in Addresses /\ s \in Seq(Events)
  BY DEF CoreOk, Procs
<1>2. /\ q.pc = "fold" /\ q.agg = Bare(a) /\ q.from = 0 /\ q.target = 0 /\ q.pinned = FALSE
      /\ q.snap = {} /\ q.discard = TRUE /\ q.made = p.made /\ q.age = p.age
      /\ q.start = p.start /\ q.res = None
  BY <1>1 DEF Refold, Procs
<1>4. /\ q.agg \in Aggregates /\ InstanceOk(q.agg, s) /\ q.agg.addr = a /\ q.agg.pending = <<>>
      /\ q.agg.persisted = 0
  BY <1>1, <1>2, BareOk
<1>5. q \in Procs
  BY <1>1, <1>2, <1>4 DEF Refold, Procs
<1> HIDE DEF q
<1>6. CoreOk(d, q, str)
  BY <1>1, <1>2, <1>4, <1>5 DEF CoreOk
<1>7. LoadOk(q, s)
  BY <1>2, <1>4 DEF LoadOk
<1>8. ResultOk(d, w, q, s)
  BY <1>2 DEF ResultOk, None
<1> QED
  BY <1>2, <1>4, <1>6, <1>7, <1>8 DEF ProcOk, q

\* q is p after a page was folded in.
FoldedIn(d, q, p, r, page, target, str) ==
    /\ CoreOk(d, q, str) /\ q.pc = p.pc /\ q.agg = r.agg /\ q.from = p.from + Len(page)
    /\ q.target = target /\ q.pinned = TRUE /\ q.start = p.start /\ q.res = p.res
    /\ q.snap = p.snap

\* A page that was folded in: the instance is sound at the new cursor.
LEMMA AdvancedOk ==
  ASSUME NEW d, NEW p, NEW str, CoreOk(d, p, str),
         NEW r, NEW page \in Seq(Events), NEW target \in Nat,
         r.agg \in Aggregates, r.agg.addr = p.agg.addr,
         InstanceOk(r.agg, StreamOf(str, p.agg.addr)),
         NEW q, q = Advanced(p, r, page, target)
  PROVE  FoldedIn(d, q, p, r, page, target, str)
<1>1. p \in Procs /\ Len(page) \in Nat /\ p.from \in Nat /\ p.from + Len(page) \in Nat
  BY LenProperties DEF CoreOk, Procs
<1>2. /\ q.pc = p.pc /\ q.agg = r.agg /\ q.from = p.from + Len(page) /\ q.target = target
      /\ q.pinned = TRUE /\ q.start = p.start /\ q.res = p.res /\ q.snap = p.snap
      /\ q.made = p.made /\ q.age = p.age
  BY <1>1 DEF Advanced, Procs
<1>3. q \in Procs
  BY <1>1 DEF Advanced, Procs
<1>4. CoreOk(d, q, str)
  BY <1>2, <1>3 DEF CoreOk
<1> QED
  BY <1>2, <1>4 DEF FoldedIn

-----------------------------------------------------------------------------
(* The steps of a load *)

\* A replay onto a persisted instance: what it is when it succeeds, and which
\* row it blames when it does not.
LEMMA ReplayOk ==
  ASSUME setup \in Setups, NEW w \in Running, NEW s, NEW agg \in Aggregates,
         History(s, agg.addr), InstanceOk(agg, s), agg.pending = <<>>,
         NEW m \in agg.persisted..Len(s),
         NEW page, page = Between(s, agg.persisted, m),
         NEW r, r = LoadFromHistory(w, agg, page)
  PROVE  /\ page \in Seq(Events) /\ Len(page) = m - agg.persisted
         /\ r.res # "ok" => \E i \in 1..Len(s) : Blamed(setup, s[i], w)
         /\ r.res \in {"ok", "throw", "err"}
         /\ r.agg \in Aggregates /\ r.agg.addr = agg.addr /\ InstanceOk(r.agg, s)
         /\ r.agg.pending = <<>> /\ agg.persisted <= r.agg.persisted
         /\ r.res = "ok" => r.agg.persisted = m
<1> DEFINE n == agg.persisted
           out == Restored(agg, agg.state \o page, agg.version + Len(page))
<1>1. /\ s \in Seq(Events) /\ Len(s) \in Nat /\ n \in Nat /\ m \in Nat /\ n <= m /\ m <= Len(s)
      /\ n \in 0..Len(s) /\ m \in n..Len(s) /\ m \in 0..Len(s)
  BY LenProperties DEF History, Aggregates
<1>2. /\ page \in Seq(Events) /\ Len(page) = m - n
      /\ Stem(s, n) \o page = Stem(s, m)
  BY <1>1, PrefixThenPage
<1>3. /\ agg.state = Stem(s, n) \o <<>> /\ agg.version = n + Len(<<>>)
      /\ n > 0 => agg.stored
  BY DEF InstanceOk
<1>4. agg.state = Stem(s, n) /\ agg.version = n
  BY <1>1, <1>3, PrefixIs, ConcatEmptySeq, EmptySeq
<1>5. ~Unreplayable(agg)
  BY <1>3, <1>4 DEF Unreplayable
<1>6. agg.state \o page = Stem(s, m) /\ agg.version + Len(page) = m
  <2>1. agg.state \o page = Stem(s, m)
    BY <1>2, <1>4, Zenon
  <2>2. agg.version + Len(page) = n + (m - n)
    BY <1>2, <1>4, Zenon
  <2>3. n + (m - n) = m
    BY <1>1
  <2> QED
    BY <2>1, <2>2, <2>3, Zenon
<1>7. /\ out \in Aggregates /\ InstanceOk(out, s) /\ out.addr = agg.addr
      /\ out.persisted = m /\ out.pending = <<>>
  <2>1. out = Restored(agg, Stem(s, m), m)
    BY <1>6
  <2> HIDE DEF out
  <2> QED
    BY <1>1, <2>1, RestoredOk
<1>8. Handled(w, agg, page) # "ok" => \E i \in 1..Len(s) : Blamed(setup, s[i], w)
  BY <1>1, FailedReplay
<1> HIDE DEF out
<1>9. CASE page = <<>>
  <2>1. r = [res |-> "ok", agg |-> agg]
    BY <1>5, <1>9 DEF LoadFromHistory
  <2>2. m = n
    BY <1>1, <1>2, <1>9, EmptySeq
  <2> QED
    BY <1>1, <1>2, <2>1, <2>2
<1>10. CASE page # <<>> /\ Handled(w, agg, page) # "ok"
  <2>1. r = [res |-> Handled(w, agg, page), agg |-> agg]
    BY <1>5, <1>10 DEF LoadFromHistory
  <2>2. r.res \in {"throw", "err"} /\ r.agg = agg
    BY <1>2, <1>10, <2>1, HandledBad
  <2> QED
    BY <1>1, <1>2, <1>8, <1>10, <2>2
<1>11. CASE page # <<>> /\ Handled(w, agg, page) = "ok"
  <2>1. r = [res |-> "ok", agg |-> out]
    BY <1>5, <1>11 DEF LoadFromHistory, out
  <2> QED
    BY <1>1, <1>2, <1>7, <2>1
<1> QED
  BY <1>9, <1>10, <1>11

\* A page of the fold from zero (the page loop of findById).
LEMMA SafeFoldPage ==
  ASSUME IInv, setup' = setup, NEW w \in Running, FoldPage(w)
  PROVE  IInv'
<1>0. PICK p, target, page, r :
           p = proc[w] /\ target = Head0(p) /\ page = Page(p.agg.addr, p.from, target)
           /\ r = LoadFromHistory(w, p.agg, page)
  OBVIOUS
<1> DEFINE a == p.agg.addr
           s == Stream(a)
           q == IF a \notin DOMAIN streams THEN Ended(p, "absent")
                ELSE IF p.from = target THEN Ended(p, "found")
                ELSE IF page = <<>> \/ r.res # "ok" THEN Ended(p, "failed")
                ELSE Advanced(p, r, page, target)
<1>1. /\ setup \in Setups /\ w \in Writers /\ p \in Procs /\ p.agg \in Aggregates
      /\ p.agg.persisted \in Nat /\ p.from \in Nat /\ p.target \in Nat /\ p.start \in Nat
      /\ s = StreamOf(streams, a) /\ s \in Seq(Events) /\ Len(s) \in Nat /\ History(s, a)
      /\ CoreOk(setup, p, streams) /\ LoadOk(p, s) /\ ResultOk(setup, w, p, s)
      /\ InstanceOk(p.agg, s) /\ p.agg.persisted <= Len(s)
      /\ SnapsOk(setup, snaps, streams, now) /\ faults \in 0..MaxFaults
  BY <1>0, WriterFacts
<1>2. p.pc = "fold" /\ Set(w, q) /\ UNCHANGED <<streams, total, snaps, now, faults>>
  BY <1>0 DEF FoldPage
<1>3. /\ p.agg.pending = <<>> /\ p.start <= Len(s) /\ p.from = p.agg.persisted /\ p.res = None
      /\ p.pinned => p.from <= p.target /\ p.target <= Len(s) /\ p.start <= p.target
  BY <1>1, <1>2 DEF LoadOk
<1>4. /\ target \in p.from..Len(s) /\ p.start <= target /\ target \in Nat
      /\ p.from \in 0..Len(s)
  BY <1>0, <1>1, <1>3 DEF Head0
<1>5. \A b : StreamOf(streams, b) \in Seq(Events)
  BY StreamHistory DEF IInv
<1>6. PICK m \in p.from..target : /\ page = Between(s, p.from, m)
                                  /\ p.from < target => p.from < m
  BY <1>0, <1>1, <1>4, PageIs
<1>7. /\ page \in Seq(Events) /\ Len(page) = m - p.from
      /\ r.res # "ok" => \E i \in 1..Len(s) : Blamed(setup, s[i], w)
      /\ r.agg \in Aggregates /\ r.agg.addr = a /\ InstanceOk(r.agg, s)
      /\ r.agg.pending = <<>>
      /\ r.res = "ok" => r.agg.persisted = m
  <2>1. m \in p.agg.persisted..Len(s) /\ page = Between(s, p.agg.persisted, m)
    BY <1>1, <1>3, <1>4, <1>6
  <2>2. r = LoadFromHistory(w, p.agg, page)
    BY <1>0
  <2>3. /\ page \in Seq(Events) /\ Len(page) = m - p.agg.persisted
        /\ r.res # "ok" => \E i \in 1..Len(s) : Blamed(setup, s[i], w)
        /\ r.agg \in Aggregates /\ r.agg.addr = a /\ InstanceOk(r.agg, s)
        /\ r.agg.pending = <<>>
        /\ r.res = "ok" => r.agg.persisted = m
    <3>1. /\ setup \in Setups /\ w \in Running /\ p.agg \in Aggregates /\ History(s, p.agg.addr)
          /\ InstanceOk(p.agg, s) /\ p.agg.pending = <<>>
      BY <1>1, <1>3
    <3> HIDE DEF s
    <3> QED
      BY <3>1, <2>1, <2>2, ReplayOk, SMTT(30)
  <2> QED
    BY <1>3, <2>3
<1>8. ProcOk(setup, w, q, streams)
  <2>1. CASE a \notin DOMAIN streams
    <3>1. Len(s) = 0
      BY <2>1, EmptySeq DEF Stream
    <3>2. p.start = 0
      BY <1>1, <1>3, <3>1
    <3> QED
      BY <1>1, <1>2, <1>5, <2>1, <3>2, EndedOk
  <2>2. CASE a \in DOMAIN streams /\ p.from = target
    BY <1>1, <1>2, <1>3, <1>4, <1>5, <2>2, EndedOk
  <2>3. CASE a \in DOMAIN streams /\ p.from # target /\ (page = <<>> \/ r.res # "ok")
    <3>1. p.from < m
      BY <1>1, <1>4, <1>6, <2>3
    <3>2. Len(page) > 0
      BY <1>1, <1>7, <3>1
    <3>3. page # <<>>
      BY <3>2, EmptySeq
    <3> QED
      BY <1>1, <1>2, <1>5, <1>7, <2>3, <3>3, EndedOk
  <2>4. CASE a \in DOMAIN streams /\ p.from # target /\ page # <<>> /\ r.res = "ok"
    <3>1. q = Advanced(p, r, page, target)
      BY <2>4
    <3>2. /\ CoreOk(setup, q, streams) /\ q.pc = "fold" /\ q.agg = r.agg
          /\ q.from = p.from + Len(page) /\ q.target = target /\ q.start = p.start
          /\ q.res = None
      <4> HIDE DEF q
      <4>1. /\ InstanceOk(r.agg, StreamOf(streams, p.agg.addr)) /\ CoreOk(setup, p, streams)
            /\ page \in Seq(Events) /\ target \in Nat /\ r.agg \in Aggregates
            /\ r.agg.addr = p.agg.addr
        BY <1>1, <1>4, <1>7
      <4>2. FoldedIn(setup, q, p, r, page, target, streams)
        BY <3>1, <4>1, AdvancedOk, Zenon
      <4> QED
        BY <1>2, <1>3, <4>2 DEF FoldedIn
    <3> HIDE DEF q
    <3>3. q.from = m /\ m <= target /\ target <= Len(s)
      BY <1>1, <1>4, <1>6, <1>7, <3>2
    <3>4. LoadOk(q, s)
      BY <1>3, <1>4, <1>7, <2>4, <3>2, <3>3 DEF LoadOk
    <3>5. ResultOk(setup, w, q, s)
      BY <3>2 DEF ResultOk, None
    <3> QED
      BY <1>1, <1>7, <3>2, <3>4, <3>5 DEF ProcOk
  <2> QED
    BY <2>1, <2>2, <2>3, <2>4
<1> QED
  BY <1>1, <1>2, <1>8, PutSafe

\* What a page behind a snapshot makes of a load: the end, a refold, or the
\* next page.
LEMMA TailOutcomeOk ==
  ASSUME NEW d, NEW w, NEW p, NEW r, NEW page \in Seq(Events), NEW target \in Nat, NEW str,
         \A a : StreamOf(str, a) \in Seq(Events), CoreOk(d, p, str),
         p.pc \in {"tail", "catchup"}, p.res = None,
         NEW s, s = StreamOf(str, p.agg.addr),
         p.from + Len(page) <= target, target <= Len(s), p.start <= target,
         r.res = "throw" => \E i \in 1..Len(s) : Blamed(d, s[i], w),
         r.res \notin {"throw", "err", "mismatch"} =>
            /\ r.agg \in Aggregates /\ r.agg.addr = p.agg.addr /\ InstanceOk(r.agg, s)
            /\ r.agg.pending = <<>> /\ r.agg.persisted = p.from + Len(page),
         NEW q, q = TailOutcome(p, r, page, target)
  PROVE  ProcOk(d, w, q, str)
<1>1. /\ p \in Procs /\ p.start \in Nat /\ p.from \in Nat /\ s \in Seq(Events)
      /\ p.agg.addr \in Addresses /\ Len(s) \in Nat /\ Len(page) \in Nat
  BY LenProperties DEF CoreOk, Procs
<1>2. CASE r.res = "throw"
  <2>1. q = Ended(p, "failed")
    BY <1>2 DEF TailOutcome
  <2> QED
    BY <1>2, <2>1, EndedOk
<1>3. CASE r.res \in {"err", "mismatch"}
  <2>1. q = Refold(p)
    BY <1>3 DEF TailOutcome
  <2>2. p.start <= Len(StreamOf(str, p.agg.addr)) /\ p.pc # "none"
    BY <1>1
  <2> QED
    BY <2>1, <2>2, RefoldOk
<1>4. CASE r.res \notin {"throw", "err", "mismatch"}
  <2>1. PICK m : m = Advanced(p, r, page, target)
    OBVIOUS
  <2>2. q = IF m.from < target THEN [m EXCEPT !.pc = "catchup"] ELSE Ended(m, "found")
    BY <1>4, <2>1 DEF TailOutcome
  <2>3. /\ r.agg \in Aggregates /\ r.agg.addr = p.agg.addr
        /\ InstanceOk(r.agg, StreamOf(str, p.agg.addr))
    BY <1>4
  <2>4. FoldedIn(d, m, p, r, page, target, str)
    BY <2>1, <2>3, AdvancedOk, Zenon
  <2>5. /\ CoreOk(d, m, str) /\ m.pc = p.pc /\ m.agg = r.agg /\ m.from = p.from + Len(page)
        /\ m.target = target /\ m.pinned = TRUE /\ m.start = p.start /\ m.res = p.res
    BY <2>4 DEF FoldedIn
  <2>6. m \in Procs /\ m.agg.addr = p.agg.addr /\ InstanceOk(m.agg, s)
    BY <2>3, <2>5 DEF CoreOk
  <2>7. CASE m.from < target
    <3>1. q = [m EXCEPT !.pc = "catchup"]
      BY <2>2, <2>7
    <3>2. /\ q \in Procs /\ q.pc = "catchup" /\ q.agg = m.agg /\ q.from = m.from
          /\ q.target = target /\ q.pinned = TRUE /\ q.start = p.start /\ q.res = None
          /\ q.snap = m.snap /\ q.made = m.made /\ q.age = m.age
      BY <2>5, <2>6, <3>1 DEF Procs
    <3>3. CoreOk(d, q, str)
      BY <1>1, <2>5, <2>6, <3>2 DEF CoreOk
    <3>4. q.agg.pending = <<>> /\ q.agg.persisted = q.from /\ q.from <= target
      BY <1>1, <1>4, <2>5, <2>7, <3>2
    <3>5. LoadOk(q, s)
      BY <1>1, <3>2, <3>4 DEF LoadOk
    <3>6. ResultOk(d, w, q, s)
      BY <3>2 DEF ResultOk, None
    <3> QED
      BY <2>6, <3>2, <3>3, <3>5, <3>6 DEF ProcOk
  <2>8. CASE ~(m.from < target)
    <3>1. q = Ended(m, "found")
      BY <2>2, <2>8
    <3>2. m.start <= m.agg.persisted /\ m.pc # "none"
      BY <1>1, <1>4, <2>5, <2>8
    <3> QED
      BY <2>5, <3>1, <3>2, EndedOk
  <2> QED
    BY <2>7, <2>8
<1> QED
  BY <1>2, <1>3, <1>4

\* A restore folds the events behind the snapshot into its state.
LEMMA RestoreOk ==
  ASSUME setup \in Setups, NEW w \in Running, NEW s, NEW agg \in Aggregates,
         History(s, agg.addr), InstanceOk(agg, s), agg.pending = <<>>,
         NEW snapshot \in Snapshots, Derived(snapshot, s),
         snapshot.version <= Len(s), NEW m \in snapshot.version..Len(s),
         NEW page, page = Between(s, snapshot.version, m),
         NEW r, r = RestoreFromSnapshotWithEvents(w, agg, snapshot, page)
  PROVE  /\ page \in Seq(Events) /\ Len(page) = m - snapshot.version
         /\ r.res = "throw" => \E i \in 1..Len(s) : Blamed(setup, s[i], w)
         /\ r.res \notin {"throw", "err", "mismatch"} =>
               /\ r.agg \in Aggregates /\ r.agg.addr = agg.addr /\ InstanceOk(r.agg, s)
               /\ r.agg.pending = <<>> /\ r.agg.persisted = m
<1> DEFINE n == snapshot.version
           out == Restored(agg, snapshot.state \o page, n + Len(page))
<1>1. /\ s \in Seq(Events) /\ Len(s) \in Nat /\ n \in Nat /\ m \in Nat /\ n <= m /\ m <= Len(s)
      /\ n \in 0..Len(s) /\ m \in n..Len(s) /\ m \in 0..Len(s)
  BY LenProperties DEF History, Snapshots
<1>2. /\ page \in Seq(Events) /\ Len(page) = m - n
      /\ Stem(s, n) \o page = Stem(s, m)
  BY <1>1, PrefixThenPage
<1>3. Handled(w, agg, page) # "ok" => \E i \in 1..Len(s) : Blamed(setup, s[i], w)
  BY <1>1, FailedReplay
<1>4. SnapshotOutcome(w, snapshot) \in {"mismatch", "err", "ok"}
  BY DEF SnapshotOutcome
<1>5. CASE SnapshotOutcome(w, snapshot) # "ok"
  <2>1. r = [res |-> SnapshotOutcome(w, snapshot), agg |-> agg]
    BY <1>5 DEF RestoreFromSnapshotWithEvents
  <2>2. r.res \in {"mismatch", "err"}
    BY <1>4, <1>5, <2>1
  <2> QED
    BY <1>2, <2>2
<1>6. CASE SnapshotOutcome(w, snapshot) = "ok" /\ Handled(w, agg, page) # "ok"
  <2>1. r = [res |-> Handled(w, agg, page), agg |-> agg]
    BY <1>6 DEF RestoreFromSnapshotWithEvents
  <2>2. r.res \in {"throw", "err"}
    BY <1>2, <1>6, <2>1, HandledBad
  <2> QED
    BY <1>2, <1>3, <1>6, <2>2
<1>7. CASE SnapshotOutcome(w, snapshot) = "ok" /\ Handled(w, agg, page) = "ok"
  <2>1. r = [res |-> "ok", agg |-> out]
    BY <1>7 DEF RestoreFromSnapshotWithEvents
  <2>2. snapshot.intact
    BY <1>7 DEF SnapshotOutcome
  <2>3. snapshot.state \o page = Stem(s, m)
    BY <1>2, <2>2 DEF Derived
  <2>4. n + Len(page) = m
    BY <1>1, <1>2
  <2>5. out = Restored(agg, Stem(s, m), m)
    BY <2>3, <2>4
  <2> HIDE DEF out
  <2>6. /\ out \in Aggregates /\ InstanceOk(out, s) /\ out.addr = agg.addr
        /\ out.persisted = m /\ out.pending = <<>>
    BY <1>1, <2>5, RestoredOk
  <2> QED
    BY <1>2, <2>1, <2>6
<1> QED
  BY <1>4, <1>5, <1>6, <1>7

\* The first page behind a snapshot (restoreFromSnapshotWithEvents).
LEMMA SafeTailPage ==
  ASSUME IInv, setup' = setup, NEW w \in Running, TailPage(w)
  PROVE  IInv'
<1>0. PICK o, snapshot, p, page, r :
           /\ o = proc[w] /\ snapshot = CHOOSE s \in o.snap : TRUE
           /\ p = [o EXCEPT !.from = snapshot.version]
           /\ page = Page(p.agg.addr, p.from, Len(Stream(p.agg.addr)))
           /\ r = RestoreFromSnapshotWithEvents(w, p.agg, snapshot, page)
  OBVIOUS
<1> DEFINE a == o.agg.addr
           s == Stream(a)
           q == IF Behind(a, snapshot.version) THEN Refold(p)
                ELSE TailOutcome(p, r, page, Len(s))
<1>1. /\ setup \in Setups /\ w \in Writers /\ o \in Procs /\ o.agg \in Aggregates
      /\ s = StreamOf(streams, a) /\ s \in Seq(Events) /\ Len(s) \in Nat /\ History(s, a)
      /\ CoreOk(setup, o, streams) /\ LoadOk(o, s) /\ InstanceOk(o.agg, s)
      /\ SnapsOk(setup, snaps, streams, now) /\ faults \in 0..MaxFaults
  BY <1>0, WriterFacts
<1>2. p.agg = o.agg /\ p.snap = o.snap
  BY <1>0, <1>1 DEF Procs
<1>3. o.pc = "tail" /\ Set(w, q) /\ UNCHANGED <<streams, total, snaps, now, faults>>
  <2>1. snapshot = CHOOSE u \in p.snap : TRUE
    BY <1>0, <1>2
  <2> QED
    BY <1>0, <1>2, <2>1 DEF TailPage
<1>4. /\ o.agg.pending = <<>> /\ o.start <= Len(s) /\ o.res = None /\ o.snap # {}
  BY <1>1, <1>3 DEF LoadOk
<1>5. \A b : StreamOf(streams, b) \in Seq(Events)
  BY StreamHistory DEF IInv
<1>6. snapshot \in o.snap /\ o.snap \subseteq Snapshots /\ \A n \in o.snap : Derived(n, s)
  BY <1>0, <1>1, <1>4 DEF CoreOk, Procs
<1>7. snapshot \in Snapshots /\ snapshot.version \in Nat /\ Derived(snapshot, s)
  BY <1>6 DEF Snapshots
<1>8. /\ p \in Procs /\ p.pc = "tail" /\ p.agg = o.agg /\ p.from = snapshot.version
      /\ p.start = o.start /\ p.res = None /\ p.snap = o.snap /\ p.made = o.made
      /\ p.age = o.age /\ p.start \in Nat
  BY <1>0, <1>1, <1>3, <1>4, <1>7 DEF Procs
<1>9. CoreOk(setup, p, streams)
  <2>1. CoreOk(setup, o, streams) /\ o.pc = "tail"
    BY <1>1, <1>3
  <2> HIDE DEF s, q
  <2> QED
    BY <1>8, <2>1 DEF CoreOk
<1>10. ProcOk(setup, w, q, streams)
  <2>1. CASE Behind(a, snapshot.version)
    <3>1. q = Refold(p)
      BY <2>1
    <3>2. p.pc # "none" /\ p.start <= Len(StreamOf(streams, p.agg.addr))
      BY <1>1, <1>4, <1>8
    <3> HIDE DEF q
    <3> QED
      BY <1>5, <1>8, <1>9, <3>1, <3>2, RefoldOk
  <2>2. CASE ~Behind(a, snapshot.version)
    <3>1. q = TailOutcome(p, r, page, Len(s)) /\ snapshot.version <= Len(s)
      BY <1>1, <1>7, <2>2 DEF Behind
    <3>2. /\ snapshot.version \in 0..Len(s) /\ Len(s) \in snapshot.version..Len(s)
          /\ page = Page(a, snapshot.version, Len(s))
      BY <1>0, <1>1, <1>2, <1>7, <1>8, <3>1
    <3>3. PICK m \in snapshot.version..Len(s) : page = Between(s, snapshot.version, m)
      BY <1>1, <3>2, PageIs
    <3>4. /\ page \in Seq(Events) /\ Len(page) = m - snapshot.version
          /\ r.res = "throw" => \E i \in 1..Len(s) : Blamed(setup, s[i], w)
          /\ r.res \notin {"throw", "err", "mismatch"} =>
               /\ r.agg \in Aggregates /\ r.agg.addr = a /\ InstanceOk(r.agg, s)
               /\ r.agg.pending = <<>> /\ r.agg.persisted = m
      <4>1. r = RestoreFromSnapshotWithEvents(w, o.agg, snapshot, page)
        BY <1>0, <1>2
      <4> HIDE DEF s
      <4> QED
        BY <1>1, <1>4, <1>7, <3>1, <3>3, <4>1, RestoreOk, SMTT(30)
    <3>5. p.from + Len(page) = m
      BY <1>1, <1>7, <1>8, <3>4
    <3>6. /\ p.from + Len(page) <= Len(s) /\ Len(s) <= Len(s) /\ p.start <= Len(s)
          /\ r.res \notin {"throw", "err", "mismatch"} =>
               /\ r.agg \in Aggregates /\ r.agg.addr = p.agg.addr /\ InstanceOk(r.agg, s)
               /\ r.agg.pending = <<>> /\ r.agg.persisted = p.from + Len(page)
          /\ s = StreamOf(streams, p.agg.addr) /\ Len(s) \in Nat
      BY <1>1, <1>4, <1>8, <3>4, <3>5
    <3> HIDE DEF q, s
    <3> QED
      BY <1>5, <1>8, <1>9, <3>1, <3>4, <3>6, TailOutcomeOk
  <2> QED
    BY <2>1, <2>2
<1> HIDE DEF q
<1> QED
  BY <1>1, <1>3, <1>10, PutSafe

\* A later page behind a snapshot, up to the pinned head.
LEMMA SafeCatchUpPage ==
  ASSUME IInv, setup' = setup, NEW w \in Running, CatchUpPage(w)
  PROVE  IInv'
<1>0. PICK p, page, r :
           /\ p = proc[w] /\ page = Page(p.agg.addr, p.from, p.target)
           /\ r = LoadFromHistory(w, p.agg, page)
  OBVIOUS
<1> DEFINE a == p.agg.addr
           s == Stream(a)
           q == IF Behind(a, p.target) \/ page = <<>> THEN Refold(p)
                ELSE TailOutcome(p, r, page, p.target)
<1>1. /\ setup \in Setups /\ w \in Writers /\ p \in Procs /\ p.agg \in Aggregates
      /\ p.agg.persisted \in Nat /\ p.from \in Nat /\ p.target \in Nat /\ p.start \in Nat
      /\ s = StreamOf(streams, a) /\ s \in Seq(Events) /\ Len(s) \in Nat /\ History(s, a)
      /\ CoreOk(setup, p, streams) /\ LoadOk(p, s) /\ InstanceOk(p.agg, s)
      /\ SnapsOk(setup, snaps, streams, now) /\ faults \in 0..MaxFaults
  BY <1>0, WriterFacts
<1>2. p.pc = "catchup" /\ Set(w, q) /\ UNCHANGED <<streams, total, snaps, now, faults>>
  BY <1>0 DEF CatchUpPage
<1>3. /\ p.agg.pending = <<>> /\ p.start <= Len(s) /\ p.from = p.agg.persisted /\ p.res = None
      /\ p.from <= p.target /\ p.target <= Len(s) /\ p.start <= p.target
  BY <1>1, <1>2 DEF LoadOk
<1>4. \A b : StreamOf(streams, b) \in Seq(Events)
  BY StreamHistory DEF IInv
<1>5. PICK m \in p.from..p.target : page = Between(s, p.from, m)
  <2>1. p.from \in 0..Len(s) /\ p.target \in p.from..Len(s)
    BY <1>1, <1>3
  <2> QED
    BY <1>0, <1>1, <2>1, PageIs
<1>6. /\ page \in Seq(Events) /\ Len(page) = m - p.from
      /\ r.res # "ok" => \E i \in 1..Len(s) : Blamed(setup, s[i], w)
      /\ r.res \in {"ok", "throw", "err"}
      /\ r.agg \in Aggregates /\ r.agg.addr = a /\ InstanceOk(r.agg, s)
      /\ r.agg.pending = <<>>
      /\ r.res = "ok" => r.agg.persisted = m
  <2>1. m \in p.agg.persisted..Len(s) /\ page = Between(s, p.agg.persisted, m)
    BY <1>1, <1>3, <1>5
  <2>2. r = LoadFromHistory(w, p.agg, page)
    BY <1>0
  <2>3. /\ setup \in Setups /\ w \in Running /\ p.agg \in Aggregates /\ History(s, p.agg.addr)
        /\ InstanceOk(p.agg, s) /\ p.agg.pending = <<>>
    BY <1>1, <1>3
  <2>4. /\ page \in Seq(Events) /\ Len(page) = m - p.agg.persisted
        /\ r.res # "ok" => \E i \in 1..Len(s) : Blamed(setup, s[i], w)
        /\ r.res \in {"ok", "throw", "err"}
        /\ r.agg \in Aggregates /\ r.agg.addr = a /\ InstanceOk(r.agg, s)
        /\ r.agg.pending = <<>>
        /\ r.res = "ok" => r.agg.persisted = m
    <3> HIDE DEF s
    <3> QED
      BY <2>1, <2>2, <2>3, ReplayOk, SMTT(30)
  <2> QED
    BY <1>3, <2>4
<1>7. ProcOk(setup, w, q, streams)
  <2>1. CASE Behind(a, p.target) \/ page = <<>>
    <3>1. q = Refold(p)
      BY <2>1
    <3>2. p.pc # "none" /\ p.start <= Len(StreamOf(streams, p.agg.addr))
      BY <1>1, <1>2, <1>3
    <3> HIDE DEF q
    <3> QED
      BY <1>1, <1>3, <1>4, <3>1, <3>2, RefoldOk
  <2>2. CASE ~(Behind(a, p.target) \/ page = <<>>)
    <3>1. q = TailOutcome(p, r, page, p.target)
      BY <2>2
    <3>2. p.from + Len(page) = m
      BY <1>1, <1>6
    <3>3. /\ p.from + Len(page) <= p.target
          /\ r.res = "throw" => \E i \in 1..Len(s) : Blamed(setup, s[i], w)
          /\ r.res \notin {"throw", "err", "mismatch"} =>
               /\ r.agg \in Aggregates /\ r.agg.addr = p.agg.addr /\ InstanceOk(r.agg, s)
               /\ r.agg.pending = <<>> /\ r.agg.persisted = p.from + Len(page)
      BY SMTT(40), <1>1, <1>6, <3>2
    <3> HIDE DEF q, s
    <3> QED
      BY <1>1, <1>2, <1>3, <1>4, <1>6, <3>1, <3>3, TailOutcomeOk
  <2> QED
    BY <2>1, <2>2
<1> HIDE DEF q
<1> QED
  BY <1>1, <1>2, <1>7, PutSafe

-----------------------------------------------------------------------------
(* The snapshot store *)

\* Keeping some of the snapshots.
LEMMA SnapsKept ==
  ASSUME NEW d, NEW sns, NEW str, NEW t, SnapsOk(d, sns, str, t), d.maxEntries \in Nat,
         NEW S, NEW out, out = Only(sns, S)
  PROVE  /\ SnapsOk(d, out, str, t) /\ Len(out) <= Len(sns)
         /\ \A h \in 1..Len(sns) : sns[h] \notin S => Len(out) < Len(sns)
         /\ \A i \in 1..Len(out) : out[i] \in S /\ \E h \in 1..Len(sns) : out[i] = sns[h]
<1>1. /\ sns \in Seq(SnapEntries) /\ Len(sns) \in Nat /\ Len(sns) <= d.maxEntries
      /\ \A i \in 1..Len(sns) : EntryOk(d, sns[i], str, t)
      /\ \A i, j \in 1..Len(sns) : sns[i].addr = sns[j].addr => i = j
  BY LenProperties DEF SnapsOk
<1>2. /\ out \in Seq(SnapEntries) /\ Len(out) <= Len(sns)
      /\ \A h \in 1..Len(sns) : sns[h] \notin S => Len(out) < Len(sns)
  BY <1>1, OnlyLists
<1>3. PICK ix : Lists(out, sns, S, Len(sns), ix)
  BY <1>1, OnlyLists
<1>4. Len(out) \in Nat
  BY <1>2, LenProperties
<1>5. \A i \in 1..Len(out) : ix[i] \in 1..Len(sns) /\ out[i] = sns[ix[i]] /\ out[i] \in S
  BY <1>3, <1>4 DEF Lists
<1>6. \A i, j \in 1..Len(out) : ix[i] = ix[j] => i = j
  BY <1>1, <1>3, <1>4, <1>5 DEF Lists
<1>7. \A i \in 1..Len(out) : EntryOk(d, out[i], str, t)
  BY <1>1, <1>5
<1>8. ASSUME NEW i \in 1..Len(out), NEW j \in 1..Len(out), out[i].addr = out[j].addr
      PROVE  i = j
  <2>1. ix[i] = ix[j]
    BY SMTT(40), <1>1, <1>5, <1>8
  <2> QED
    BY <1>6, <2>1
<1>9. Len(out) <= d.maxEntries
  BY <1>1, <1>2, <1>4
<1> QED
  BY <1>2, <1>5, <1>7, <1>8, <1>9 DEF SnapsOk

\* A new entry behind the others, when there is room for it.
LEMMA SnapsAppended ==
  ASSUME NEW d, NEW sns, NEW str, NEW t, SnapsOk(d, sns, str, t), d.maxEntries \in Nat,
         NEW e \in SnapEntries, EntryOk(d, e, str, t), Len(sns) < d.maxEntries,
         \A i \in 1..Len(sns) : sns[i].addr # e.addr,
         NEW out, out = Append(sns, e)
  PROVE  SnapsOk(d, out, str, t)
<1>1. /\ sns \in Seq(SnapEntries) /\ Len(sns) \in Nat
      /\ \A i \in 1..Len(sns) : EntryOk(d, sns[i], str, t)
      /\ \A i, j \in 1..Len(sns) : sns[i].addr = sns[j].addr => i = j
  BY LenProperties DEF SnapsOk
<1>2. /\ out \in Seq(SnapEntries) /\ Len(out) = Len(sns) + 1
      /\ \A i \in 1..Len(sns) : out[i] = sns[i]
      /\ out[Len(sns) + 1] = e
  BY <1>1, AppendProperties
<1>3. \A i \in 1..Len(out) : EntryOk(d, out[i], str, t)
  BY <1>1, <1>2
<1>4. \A i, j \in 1..Len(out) : out[i].addr = out[j].addr => i = j
  BY <1>1, <1>2
<1> QED
  BY <1>1, <1>2, <1>3, <1>4 DEF SnapsOk

\* Evicting the oldest.
LEMMA SnapsTail ==
  ASSUME NEW d, NEW sns, NEW str, NEW t, SnapsOk(d, sns, str, t), d.maxEntries \in Nat,
         NEW out \in Seq(SnapEntries), Len(out) < Len(sns),
         \A i \in 1..Len(out) : out[i] = sns[i + 1]
  PROVE  SnapsOk(d, out, str, t)
<1>1. /\ sns \in Seq(SnapEntries) /\ Len(sns) \in Nat /\ Len(sns) <= d.maxEntries
      /\ \A i \in 1..Len(sns) : EntryOk(d, sns[i], str, t)
      /\ \A i, j \in 1..Len(sns) : sns[i].addr = sns[j].addr => i = j
      /\ Len(out) \in Nat
  BY LenProperties DEF SnapsOk
<1>2. \A i \in 1..Len(out) : i + 1 \in 1..Len(sns) /\ out[i] = sns[i + 1]
  BY <1>1
<1>3. \A i, j \in 1..Len(out) : out[i].addr = out[j].addr => i = j
  BY SMTT(40), <1>1, <1>2
<1>4. \A i \in 1..Len(out) : EntryOk(d, out[i], str, t)
  BY <1>1, <1>2
<1> QED
  BY <1>1, <1>3, <1>4 DEF SnapsOk

\* Range lists the entries.
LEMMA InRange == ASSUME NEW T, NEW s \in Seq(T), NEW i \in 1..Len(s) PROVE s[i] \in Range(s)
<1>1. i \in DOMAIN s
  BY LenProperties
<1> QED
  BY <1>1 DEF Range

\* Without(a) holds no entry of a, and fewer entries if there was one.
LEMMA OthersOk ==
  ASSUME NEW d, NEW sns, NEW str, NEW t, SnapsOk(d, sns, str, t), d.maxEntries \in Nat,
         NEW a, NEW out, out = OthersThan(a, sns)
  PROVE  /\ SnapsOk(d, out, str, t) /\ Len(out) <= Len(sns)
         /\ \A h \in 1..Len(sns) : sns[h].addr = a => Len(out) < Len(sns)
         /\ \A i \in 1..Len(out) : out[i].addr # a
<1> DEFINE S == {e \in Range(sns) : e.addr # a}
<1>1. out = Only(sns, S)
  BY DEF OthersThan
<1>2. \A h \in 1..Len(sns) : sns[h].addr = a => sns[h] \notin S
  OBVIOUS
<1>3. \A e \in S : e.addr # a
  OBVIOUS
<1> HIDE DEF S
<1>4. /\ SnapsOk(d, out, str, t) /\ Len(out) <= Len(sns)
      /\ \A h \in 1..Len(sns) : sns[h] \notin S => Len(out) < Len(sns)
      /\ \A i \in 1..Len(out) : out[i] \in S
  BY <1>1, SnapsKept
<1> QED
  BY <1>2, <1>3, <1>4

\* The entry that load() finds is one of the stored ones, for that address.
LEMMA EntryFound ==
  ASSUME NEW d, NEW str, NEW t, SnapsOk(d, snaps, str, t), d.maxEntries \in Nat,
         NEW a, EntryOf(a) # <<>>
  PROVE  LET e == EntryOf(a)[1]
         IN  /\ e \in SnapEntries /\ e.addr = a /\ EntryOk(d, e, str, t)
             /\ \E h \in 1..Len(snaps) : snaps[h].addr = a
<1> DEFINE S == {e \in Range(snaps) : e.addr = a}
           out == EntryOf(a)
<1>1. out = Only(snaps, S) /\ \A e \in S : e.addr = a
  BY DEF EntryOf
<1> HIDE DEF S, out
<1>2. /\ SnapsOk(d, out, str, t)
      /\ \A i \in 1..Len(out) : out[i] \in S /\ \E h \in 1..Len(snaps) : out[i] = snaps[h]
  BY <1>1, SnapsKept
<1>3. out \in Seq(SnapEntries) /\ Len(out) \in Nat
  BY <1>2, LenProperties DEF SnapsOk
<1>4. 1 \in 1..Len(out)
  BY <1>3, EmptySeq DEF out
<1>5. out[1] \in SnapEntries /\ EntryOk(d, out[1], str, t)
  BY <1>2, <1>3, <1>4, ElementOfSeq DEF SnapsOk
<1> QED
  BY <1>1, <1>2, <1>4, <1>5 DEF out

\* A load leaves the store sound and finds a snapshot younger than its ttl.
LEMMA LoadedOk ==
  ASSUME NEW str, SnapsOk(setup, snaps, str, now), MaxEntries \in Nat, Ttl \in Nat, now \in Nat,
         NEW a
  PROVE  /\ SnapsOk(setup, AfterLoad(a), str, now)
         /\ SnapshotLoad(a) # {} =>
               LET e == EntryOf(a)[1]
               IN  /\ SnapshotLoad(a) = {e} /\ e.addr = a /\ e \in SnapEntries
                   /\ EntryOk(setup, e, str, now) /\ now - e.saved \in Nat /\ now - e.saved < Ttl
<1> DEFINE e == EntryOf(a)[1]
           rest == Without(a)
<1>1. setup.maxEntries \in Nat /\ setup.ttl = Ttl
  BY DEF MaxEntries, Ttl
<1>2. /\ SnapsOk(setup, rest, str, now)
      /\ \A h \in 1..Len(snaps) : snaps[h].addr = a => Len(rest) < Len(snaps)
      /\ \A i \in 1..Len(rest) : rest[i].addr # a
  BY <1>1, OthersOk DEF Without
<1>3. CASE SnapshotLoad(a) = {}
  BY <1>2, <1>3 DEF AfterLoad
<1>4. CASE SnapshotLoad(a) # {}
  <2>1. EntryOf(a) # <<>> /\ ~Expired(e) /\ SnapshotLoad(a) = {e}
    BY <1>4 DEF SnapshotLoad
  <2>2. /\ e \in SnapEntries /\ e.addr = a /\ EntryOk(setup, e, str, now)
        /\ \E h \in 1..Len(snaps) : snaps[h].addr = a
    BY <1>1, <2>1, EntryFound
  <2>3. now - e.saved \in Nat /\ now - e.saved < Ttl
    BY <1>1, <2>1, <2>2 DEF EntryOk, SnapEntries, Expired
  <2>4. AfterLoad(a) = Append(rest, e)
    BY <1>4 DEF AfterLoad, Touched
  <2>5. Len(rest) < setup.maxEntries
    <3>1. Len(rest) < Len(snaps) /\ Len(snaps) <= setup.maxEntries
      BY <1>2, <2>2 DEF SnapsOk
    <3>2. Len(rest) \in Nat /\ Len(snaps) \in Nat
      BY <1>2, LenProperties DEF SnapsOk
    <3> QED
      BY <1>1, <3>1, <3>2
  <2> HIDE DEF e, rest
  <2>6. SnapsOk(setup, AfterLoad(a), str, now)
    BY <1>1, <1>2, <2>2, <2>4, <2>5, SnapsAppended
  <2> QED
    BY <2>1, <2>2, <2>3, <2>6 DEF e
<1> QED
  BY <1>3, <1>4

\* A save leaves the store sound: expired entries go, and the oldest one if
\* there is no room.
LEMMA SavedOk ==
  ASSUME NEW str, SnapsOk(setup, snaps, str, now), MaxEntries \in Nat \ {0}, Ttl \in Nat,
         now \in Nat, NEW a \in Addresses, NEW n \in Snapshots, Derived(n, StreamOf(str, a))
  PROVE  SnapsOk(setup, AfterSave(a, n), str, now)
<1> DEFINE live == Only(snaps, {e \in Range(snaps) : ~Expired(e)})
           rest == Evicted(live, a)
           e == [addr |-> a, snapshot |-> n, saved |-> now, expires |-> now + Ttl]
<1>1. setup.maxEntries \in Nat /\ setup.maxEntries > 0 /\ setup.ttl = Ttl
  BY DEF MaxEntries, Ttl
<1>2. SnapsOk(setup, live, str, now)
  BY <1>1, SnapsKept
<1>3. e \in SnapEntries /\ e.addr = a /\ EntryOk(setup, e, str, now)
  BY <1>1 DEF SnapEntries, EntryOk
<1>4. AfterSave(a, n) = Append(rest, e)
  BY DEF AfterSave
<1> HIDE DEF live, e
<1>5. /\ live \in Seq(SnapEntries) /\ Len(live) \in Nat /\ Len(live) <= setup.maxEntries
      /\ DOMAIN live = 1..Len(live)
  BY <1>2, LenProperties DEF SnapsOk
<1>6. /\ SnapsOk(setup, rest, str, now) /\ Len(rest) < setup.maxEntries
      /\ \A i \in 1..Len(rest) : rest[i].addr # a
  <2>1. CASE \E i \in 1..Len(live) : live[i].addr = a
    <3>1. rest = OthersThan(a, live)
      BY <1>5, <2>1 DEF Evicted
    <3>2. /\ SnapsOk(setup, rest, str, now) /\ Len(rest) < Len(live)
          /\ \A i \in 1..Len(rest) : rest[i].addr # a
      BY <1>1, <1>2, <2>1, <3>1, OthersOk
    <3>3. Len(rest) \in Nat
      BY <3>2, LenProperties DEF SnapsOk
    <3> QED
      BY <1>1, <1>5, <3>2, <3>3
  <2>2. CASE (\A i \in 1..Len(live) : live[i].addr # a) /\ Len(live) >= setup.maxEntries
    <3>1. rest = Tail(live)
      BY <1>5, <2>2 DEF Evicted, MaxEntries
    <3>2. live # <<>>
      BY <1>1, <2>2, EmptySeq
    <3>3. /\ rest \in Seq(SnapEntries) /\ Len(rest) = Len(live) - 1
          /\ \A i \in 1..Len(rest) : rest[i] = live[i + 1]
      BY <1>5, <3>1, <3>2, HeadTailProperties
    <3>4. /\ Len(rest) < Len(live) /\ Len(rest) < setup.maxEntries
          /\ \A i \in 1..Len(rest) : i + 1 \in 1..Len(live)
      BY <1>1, <1>5, <2>2, <3>3
    <3>5. SnapsOk(setup, rest, str, now)
      BY <1>1, <1>2, <3>3, <3>4, SnapsTail
    <3>6. \A i \in 1..Len(rest) : rest[i].addr # a
      BY <2>2, <3>3, <3>4
    <3> QED
      BY SMTT(40), <3>4, <3>5, <3>6
  <2>3. CASE (\A i \in 1..Len(live) : live[i].addr # a) /\ ~(Len(live) >= setup.maxEntries)
    <3>1. rest = live
      BY <1>5, <2>3 DEF Evicted, MaxEntries
    <3> QED
      BY SMTT(40), <1>1, <1>2, <1>5, <2>3, <3>1
  <2> QED
    BY <2>1, <2>2, <2>3
<1> HIDE DEF rest
<1> QED
  BY <1>1, <1>3, <1>4, <1>6, SnapsAppended

\* Clean-up of a snapshot that could not be used.
LEMMA SafeDiscard ==
  ASSUME IInv, setup' = setup, NEW w \in Running, Discard(w)
  PROVE  IInv'
<1>0. PICK p, o, q : p = proc[w] /\ o = [p EXCEPT !.discard = FALSE] /\ q = Ended(o, p.res)
  OBVIOUS
<1> DEFINE a == p.agg.addr
           s == Stream(a)
<1>1. /\ setup \in Setups /\ w \in Writers /\ p \in Procs /\ s = StreamOf(streams, a)
      /\ CoreOk(setup, p, streams) /\ LoadOk(p, s) /\ ResultOk(setup, w, p, s)
      /\ SnapsOk(setup, snaps, streams, now) /\ faults \in 0..MaxFaults
  BY <1>0, WriterFacts
<1>2. /\ p.pc = "discard" /\ Set(w, q) /\ snaps' = Without(a)
      /\ UNCHANGED <<streams, total, now, faults>>
  BY <1>0 DEF Discard
<1>3. p.res \in {"found", "absent"}
  BY <1>1, <1>2 DEF LoadOk
<1>4. \A b : StreamOf(streams, b) \in Seq(Events)
  BY StreamHistory DEF IInv
<1>5. /\ o \in Procs /\ o.pc = "discard" /\ o.agg = p.agg /\ o.snap = p.snap /\ o.made = p.made
      /\ o.age = p.age /\ o.start = p.start
  BY <1>0, <1>1, <1>2 DEF Procs
<1>6. CoreOk(setup, o, streams)
  <2>1. CoreOk(setup, p, streams)
    BY <1>1
  <2> QED
    BY <1>2, <1>5, <2>1 DEF CoreOk
<1>7. /\ p.res = "absent" => o.start = 0
      /\ p.res = "found" => o.start <= o.agg.persisted
  BY <1>1, <1>5 DEF ResultOk
<1>8. ProcOk(setup, w, q, streams)
  BY <1>0, <1>3, <1>4, <1>5, <1>6, <1>7, EndedOk
<1>9. SnapsOk(setup, snaps', streams, now)
  <2>1. setup.maxEntries \in Nat
    BY <1>1, SetupTypes DEF MaxEntries
  <2> QED
    BY <1>1, <1>2, <2>1, OthersOk DEF Without
<1> QED
  BY <1>1, <1>2, <1>8, <1>9, PutSafe

\* findById begins: the snapshot store is read first.
LEMMA SafeLoad ==
  ASSUME IInv, setup' = setup, NEW w \in Running, NEW a \in Addresses, Load(w, a)
  PROVE  IInv'
<1>a. PICK p, found, s : p = proc[w] /\ found = SnapshotLoad(a) /\ s = Stream(a)
  OBVIOUS
<1>b. PICK q :
              q = [Fresh EXCEPT !.pc = IF found = {} THEN "fold" ELSE "tail",
                     !.agg = Bare(a), !.made = p.made, !.start = Len(s),
                     !.snap = {e.snapshot : e \in found},
                     !.age = IF found = {} THEN 0 ELSE now - EntryOf(a)[1].saved]
  OBVIOUS
<1>1. /\ setup \in Setups /\ w \in Writers /\ p \in Procs
      /\ CoreOk(setup, p, streams)
      /\ SnapsOk(setup, snaps, streams, now) /\ faults \in 0..MaxFaults
  BY <1>a, WriterFacts
<1>2. Set(w, q) /\ snaps' = AfterLoad(a) /\ UNCHANGED <<streams, total, now, faults>>
  BY <1>a, <1>b DEF Load
<1>3. /\ s = StreamOf(streams, a) /\ s \in Seq(Events) /\ Len(s) \in Nat
  BY <1>a, StreamHistory, LenProperties DEF IInv, Stream, StreamOf
<1>4. /\ Ttl \in Nat \ {0} /\ MaxEntries \in Nat /\ now \in Nat
      /\ Ttl = setup.ttl
  BY <1>1, SetupTypes DEF IInv, Ttl
<1>5. /\ SnapsOk(setup, snaps', streams, now)
      /\ found # {} =>
            LET e == EntryOf(a)[1]
            IN  /\ found = {e} /\ e.addr = a /\ e \in SnapEntries
                /\ EntryOk(setup, e, streams, now) /\ now - e.saved \in Nat
                /\ now - e.saved < Ttl
  BY <1>a, <1>1, <1>2, <1>4, LoadedOk
<1>6. /\ {e.snapshot : e \in found} \subseteq Snapshots
      /\ \A n \in {e.snapshot : e \in found} : Derived(n, s)
      /\ (found = {}) <=> ({e.snapshot : e \in found} = {})
  BY ZenonT(60), <1>3, <1>5 DEF EntryOk, SnapEntries
<1>7. PICK age : /\ age = IF found = {} THEN 0 ELSE now - EntryOf(a)[1].saved
                 /\ age \in Nat /\ age < setup.ttl
  BY <1>4, <1>5
<1>8. /\ Bare(a) \in Aggregates /\ InstanceOk(Bare(a), s)
      /\ Bare(a).addr = a /\ Bare(a).pending = <<>> /\ Bare(a).persisted = 0
  BY <1>3, BareOk
<1>9. /\ q.pc = (IF found = {} THEN "fold" ELSE "tail") /\ q.agg = Bare(a)
      /\ q.made = p.made /\ q.start = Len(s) /\ q.snap = {e.snapshot : e \in found}
      /\ q.age = age /\ q.from = 0 /\ q.target = 0 /\ q.pinned = FALSE /\ q.discard = FALSE
      /\ q.res = None
  BY <1>b, <1>7 DEF Fresh
<1>10. p.made \subseteq Made /\ \A m \in p.made : Derived(m.snapshot, StreamOf(streams, m.addr))
  BY <1>1 DEF CoreOk, Procs
<1>11. q \in Procs
  <2>0. PICK pc, bare, sn : pc = q.pc /\ bare = Bare(a) /\ sn = q.snap
    OBVIOUS
  <2>1. q = [pc |-> pc, agg |-> bare, from |-> 0, target |-> 0, pinned |-> FALSE,
             snap |-> sn, discard |-> FALSE, made |-> p.made, age |-> age,
             start |-> Len(s), res |-> None]
    BY ZenonT(60), <1>b, <1>7, <2>0 DEF Fresh
  <2>2. /\ pc \in {"tail", "fold"} /\ sn \in SUBSET Snapshots /\ bare \in Aggregates
        /\ p.made \in SUBSET Made /\ age \in Nat /\ Len(s) \in Nat
    BY <1>3, <1>6, <1>7, <1>8, <1>9, <1>10, <2>0
  <2> QED
    BY <2>1, <2>2 DEF Procs, Outcomes
<1>12. CoreOk(setup, q, streams)
  <2>1. \A n \in q.snap : Derived(n, StreamOf(streams, q.agg.addr))
    BY <1>3, <1>6, <1>8, <1>9
  <2>2. InstanceOk(q.agg, StreamOf(streams, q.agg.addr)) /\ q.agg.addr \in Addresses
    BY <1>3, <1>8, <1>9
  <2> QED
    BY <1>7, <1>9, <1>10, <1>11, <2>1, <2>2 DEF CoreOk
<1>13. LoadOk(q, s)
  BY <1>3, <1>6, <1>8, <1>9 DEF LoadOk
<1>14. ResultOk(setup, w, q, s)
  BY <1>9 DEF ResultOk, None
<1>15. ProcOk(setup, w, q, streams)
  BY <1>3, <1>8, <1>9, <1>12, <1>13, <1>14 DEF ProcOk
<1> QED
  BY <1>1, <1>2, <1>5, <1>15, PutSafe

-----------------------------------------------------------------------------
(* The steps of a writer that holds an instance *)

\* A new state of a held instance.
LEMMA HeldOk ==
  ASSUME NEW d, NEW w, NEW p, NEW str, CoreOk(d, p, str),
         NEW s, s = StreamOf(str, p.agg.addr), ResultOk(d, w, p, s), p.pc # "none",
         NEW agg \in Aggregates, agg.addr = p.agg.addr, InstanceOk(agg, s),
         p.res = "found" => p.start <= agg.persisted,
         NEW q, q = [p EXCEPT !.pc = "held", !.agg = agg]
  PROVE  ProcOk(d, w, q, str)
<1>1. p \in Procs
  BY DEF CoreOk
<1>2. /\ q \in Procs /\ q.pc = "held" /\ q.agg = agg /\ q.snap = p.snap /\ q.made = p.made
      /\ q.age = p.age /\ q.start = p.start /\ q.res = p.res
  BY <1>1 DEF Procs
<1>3. CoreOk(d, q, str)
  BY <1>2 DEF CoreOk
<1>4. LoadOk(q, s)
  BY <1>2 DEF LoadOk
<1>5. ResultOk(d, w, q, s)
  BY <1>2 DEF ResultOk
<1> QED
  BY <1>2, <1>3, <1>4, <1>5 DEF ProcOk

\* A new instance, which nothing is stored of.
LEMMA SafeCreate ==
  ASSUME IInv, setup' = setup, NEW w \in Running, NEW a \in Addresses, Create(w, a)
  PROVE  IInv'
<1>0. PICK p, q : p = proc[w] /\ q = [Fresh EXCEPT !.pc = "held", !.agg = Bare(a), !.made = p.made]
  OBVIOUS
<1>1. /\ setup \in Setups /\ w \in Writers /\ p \in Procs /\ CoreOk(setup, p, streams)
      /\ SnapsOk(setup, snaps, streams, now) /\ faults \in 0..MaxFaults
  BY <1>0, WriterFacts
<1>2. Set(w, q) /\ UNCHANGED <<streams, total, snaps, now, faults>>
  BY <1>0 DEF Create
<1>3. StreamOf(streams, a) \in Seq(Events)
  BY StreamHistory DEF IInv
<1>4. /\ Bare(a) \in Aggregates /\ InstanceOk(Bare(a), StreamOf(streams, a))
      /\ Bare(a).addr = a
  BY <1>3, BareOk
<1>5. p.made \subseteq Made /\ \A m \in p.made : Derived(m.snapshot, StreamOf(streams, m.addr))
  BY <1>1 DEF CoreOk, Procs
<1>6. q = [pc |-> "held", agg |-> Bare(a), from |-> 0, target |-> 0, pinned |-> FALSE,
           snap |-> {}, discard |-> FALSE, made |-> p.made, age |-> 0, start |-> 0,
           res |-> None]
  BY <1>0 DEF Fresh
<1>7. q \in Procs
  BY <1>4, <1>5, <1>6 DEF Procs, Outcomes
<1>8. 0 < setup.ttl
  BY <1>1, SetupTypes DEF Ttl
<1>9. CoreOk(setup, q, streams)
  BY <1>4, <1>5, <1>6, <1>7, <1>8 DEF CoreOk
<1>10. /\ LoadOk(q, StreamOf(streams, q.agg.addr))
       /\ ResultOk(setup, w, q, StreamOf(streams, q.agg.addr))
  BY <1>6 DEF LoadOk, ResultOk, None
<1>11. ProcOk(setup, w, q, streams)
  BY <1>6, <1>9, <1>10 DEF ProcOk
<1> QED
  BY <1>1, <1>2, <1>11, PutSafe

\* One more pending event behind a prefix.
LEMMA PendingGrows ==
  ASSUME NEW s \in Seq(Events), NEW t \in Seq(Events), NEW e \in Events
  PROVE  /\ Append(s \o t, e) = s \o Append(t, e)
         /\ Append(t, e) \in Seq(Events) /\ Len(Append(t, e)) = Len(t) + 1
         /\ \A i \in 1..Len(t) : Append(t, e)[i] = t[i]
         /\ Append(t, e)[Len(t) + 1] = e
<1>1. s \o t \in Seq(Events) /\ <<e>> \in Seq(Events)
  BY ConcatProperties
<1>2. Append(s \o t, e) = (s \o t) \o <<e>> /\ Append(t, e) = t \o <<e>>
  BY <1>1, AppendIsConcat
<1>3. (s \o t) \o <<e>> = s \o (t \o <<e>>)
  BY <1>1, ConcatAssociative
<1>4. Append(s \o t, e) = s \o Append(t, e)
  BY <1>2, <1>3
<1> QED
  BY <1>4, AppendProperties

\* The event that apply() makes of an input is one decided at its place.
LEMMA StampedOk ==
  ASSUME NEW w \in Writers, None \notin Writers, NEW agg \in Aggregates, agg.addr \in Addresses,
         NEW input \in Inputs, Accepts(w, agg, input), NEW i \in Nat, agg.version = i - 1,
         NEW e, e = Stamped(w, agg, input)
  PROVE  e \in Events /\ e.by \in Writers /\ Decided(e, agg.addr, i)
<1>1. /\ e.kind = input.kind /\ e.by = w /\ e.base = agg.version
      /\ e.addr = IF input.addr = None THEN agg.addr ELSE input.addr
      /\ e = [kind |-> e.kind, by |-> e.by, base |-> e.base, addr |-> e.addr]
  BY DEF Stamped
<1>2. input.kind \in {"v1", "v2"} /\ input.addr \in {None, agg.addr}
  <2>1. CASE input \in [kind : {"v1", "v2"}, addr : Addresses \cup {None, Elsewhere},
                        minted : {TRUE}, valid : {TRUE}]
    BY <2>1 DEF Accepts
  <2>2. CASE \E m \in BOOLEAN : input = [kind |-> "v1", addr |-> None, minted |-> m, valid |-> ~m]
    BY <2>2
  <2> QED
    BY <2>1, <2>2 DEF Inputs
<1>3. e.addr = agg.addr /\ e.kind \in {"v1", "v2"} /\ agg.version \in Nat
  BY <1>1, <1>2 DEF Aggregates
<1>4. PICK kind, addr : kind = e.kind /\ addr = e.addr
  OBVIOUS
<1>5. e = [kind |-> kind, by |-> w, base |-> agg.version, addr |-> addr]
  BY <1>1, <1>4
<1>6. e \in Events
  BY <1>3, <1>4, <1>5 DEF Events
<1> QED
  BY <1>1, <1>3, <1>6 DEF Decided

\* apply(): state, pending events and version move together.
LEMMA ApplyOk ==
  ASSUME NEW w \in Writers, None \notin Writers, NEW agg \in Aggregates, agg.addr \in Addresses,
         NEW s \in Seq(Events), InstanceOk(agg, s), NEW input \in Inputs,
         NEW out, out = Apply(w, agg, input)
  PROVE  /\ out \in Aggregates /\ InstanceOk(out, s) /\ out.addr = agg.addr
         /\ out.persisted = agg.persisted
<1>1. PICK e : e = Stamped(w, agg, input)
  OBVIOUS
<1>2. CASE ~Accepts(w, agg, input)
  BY <1>2 DEF Apply
<1>3. CASE Accepts(w, agg, input)
  <2> DEFINE t == agg.pending
             n == agg.persisted
  <2>1. /\ agg.state \in Seq(Events) /\ t \in Seq(Events) /\ agg.version \in Nat /\ n \in Nat
        /\ agg.stored \in BOOLEAN /\ Len(t) \in Nat /\ Len(s) \in Nat
    BY LenProperties DEF Aggregates
  <2>2. /\ n <= Len(s) /\ agg.state = Stem(s, n) \o t /\ agg.version = n + Len(t)
        /\ \A k \in 1..Len(t) : t[k].by \in Writers /\ Decided(t[k], agg.addr, n + k)
        /\ n > 0 => agg.stored
    BY DEF InstanceOk
  <2>3. Stem(s, n) \in Seq(Events)
    BY <2>1, <2>2, PrefixIs
  <2>4. n + (Len(t) + 1) \in Nat /\ agg.version = (n + (Len(t) + 1)) - 1
        /\ agg.version + 1 = n + (Len(t) + 1) /\ agg.version + 1 \in Nat
    BY SMTT(40), <2>1, <2>2
  <2>5. PICK last \in Nat : last = n + (Len(t) + 1) /\ agg.version = last - 1
    BY <2>4, Zenon
  <2>51. e \in Events /\ e.by \in Writers /\ Decided(e, agg.addr, last)
    <3> QED
      BY <1>1, <1>3, <2>5, StampedOk
  <2>6. PICK more : more = Append(t, e)
    OBVIOUS
  <2>7. /\ Append(agg.state, e) = Stem(s, n) \o more
        /\ more \in Seq(Events) /\ Len(more) = Len(t) + 1
        /\ \A i \in 1..Len(t) : more[i] = t[i]
        /\ more[Len(t) + 1] = e
    <3>1. PICK stem \in Seq(Events) : stem = Stem(s, n)
      BY <2>3
    <3> HIDE DEF t, n
    <3>2. agg.state = stem \o t
      BY <2>2, <3>1
    <3>3. /\ Append(stem \o t, e) = stem \o Append(t, e)
          /\ Append(t, e) \in Seq(Events) /\ Len(Append(t, e)) = Len(t) + 1
          /\ \A i \in 1..Len(t) : Append(t, e)[i] = t[i]
          /\ Append(t, e)[Len(t) + 1] = e
      <4>1. t \in Seq(Events) /\ e \in Events
        BY <2>1, <2>51
      <4> QED
        BY <4>1, PendingGrows, Zenon
    <3>4. Append(agg.state, e) = stem \o more
      BY <2>6, <3>2, <3>3, Zenon
    <3> QED
      BY <2>6, <3>1, <3>3, <3>4
  <2>8. Append(agg.state, e) \in Seq(Events)
    BY <2>1, <2>51, AppendProperties
  <2>9. out = [agg EXCEPT !.state = Append(agg.state, e), !.pending = more,
                          !.version = agg.version + 1]
    BY <1>1, <1>3, <2>6 DEF Apply
  <2>10. /\ out \in Aggregates /\ out.addr = agg.addr /\ out.persisted = n
         /\ out.stored = agg.stored /\ out.state = Append(agg.state, e)
         /\ out.pending = more /\ out.version = agg.version + 1
    BY <2>4, <2>7, <2>8, <2>9 DEF Aggregates
  <2>11. \A k \in 1..Len(more) : more[k].by \in Writers /\ Decided(more[k], agg.addr, n + k)
    <3>1. ASSUME NEW k \in 1..Len(t)
          PROVE  more[k].by \in Writers /\ Decided(more[k], agg.addr, n + k)
      BY <2>2, <2>7
    <3>2. more[Len(t) + 1].by \in Writers /\ Decided(more[Len(t) + 1], agg.addr, n + (Len(t) + 1))
      BY <2>5, <2>51, <2>7
    <3>3. \A k \in 1..Len(more) : k \in 1..Len(t) \/ k = Len(t) + 1
      BY <2>1, <2>7
    <3> QED
      BY <3>1, <3>2, <3>3, Zenon
  <2>12. InstanceOk(out, s)
    BY <2>2, <2>4, <2>7, <2>10, <2>11 DEF InstanceOk
  <2> QED
    BY <2>10, <2>12
<1> QED
  BY <1>2, <1>3

\* A command decides an event, or is refused.
LEMMA SafeDecide ==
  ASSUME IInv, setup' = setup, NEW w \in Running, NEW input \in Inputs, Decide(w, input)
  PROVE  IInv'
<1>0. PICK p, agg, s : p = proc[w] /\ agg = Apply(w, p.agg, input) /\ s = Stream(p.agg.addr)
  OBVIOUS
<1>00. PICK q : q = [p EXCEPT !.pc = "held", !.agg = agg]
  OBVIOUS
<1>1. /\ setup \in Setups /\ w \in Writers /\ p \in Procs /\ p.agg \in Aggregates
      /\ s = StreamOf(streams, p.agg.addr) /\ s \in Seq(Events)
      /\ CoreOk(setup, p, streams) /\ ResultOk(setup, w, p, s) /\ InstanceOk(p.agg, s)
      /\ SnapsOk(setup, snaps, streams, now) /\ faults \in 0..MaxFaults
  BY <1>0, WriterFacts
<1>2. /\ p.pc = "held" /\ Set(w, [p EXCEPT !.agg = agg])
      /\ UNCHANGED <<streams, total, snaps, now, faults>>
  BY <1>0 DEF Decide
<1>3. q = [p EXCEPT !.agg = agg]
  BY <1>00, <1>1, <1>2 DEF Procs
<1>4. p.agg.addr \in Addresses /\ None \notin Writers
  BY <1>1, <1>2, SetupTypes DEF CoreOk
<1>5. /\ agg \in Aggregates /\ InstanceOk(agg, s) /\ agg.addr = p.agg.addr
      /\ agg.persisted = p.agg.persisted
  BY <1>0, <1>1, <1>4, ApplyOk
<1>6. p.res = "found" => p.start <= agg.persisted
  BY <1>1, <1>5 DEF ResultOk
<1>7. ProcOk(setup, w, q, streams)
  <2>1. p.pc # "none"
    BY <1>2
  <2> QED
    BY <1>00, <1>1, <1>5, <1>6, <2>1, HeldOk
<1> QED
  BY <1>1, <1>2, <1>3, <1>7, PutSafe

\* A held instance catches up (loadFromHistory on a live instance).
LEMMA SafeCatchUpHeld ==
  ASSUME IInv, setup' = setup, NEW w \in Running, CatchUpHeld(w)
  PROVE  IInv'
<1>0. PICK p, s, page, r :
           /\ p = proc[w] /\ s = Stream(p.agg.addr)
           /\ page = Page(p.agg.addr, p.agg.persisted, Len(s))
           /\ r = LoadFromHistory(w, p.agg, page)
  OBVIOUS
<1>00. PICK q : q = [p EXCEPT !.pc = "held", !.agg = r.agg]
  OBVIOUS
<1>1. /\ setup \in Setups /\ w \in Writers /\ p \in Procs /\ p.agg \in Aggregates
      /\ p.agg.persisted \in Nat /\ p.start \in Nat
      /\ s = StreamOf(streams, p.agg.addr) /\ s \in Seq(Events) /\ Len(s) \in Nat
      /\ History(s, p.agg.addr) /\ p.agg.persisted <= Len(s)
      /\ CoreOk(setup, p, streams) /\ ResultOk(setup, w, p, s) /\ InstanceOk(p.agg, s)
      /\ SnapsOk(setup, snaps, streams, now) /\ faults \in 0..MaxFaults
  BY <1>0, WriterFacts
<1>2. /\ p.pc = "held" /\ Set(w, [p EXCEPT !.agg = r.agg])
      /\ UNCHANGED <<streams, total, snaps, now, faults>>
  BY <1>0 DEF CatchUpHeld
<1>3. q = [p EXCEPT !.agg = r.agg]
  BY <1>00, <1>1, <1>2 DEF Procs
<1>4. /\ r.agg \in Aggregates /\ InstanceOk(r.agg, s) /\ r.agg.addr = p.agg.addr
      /\ r.agg.persisted \in Nat /\ p.agg.persisted <= r.agg.persisted
  <2>1. CASE p.agg.pending # <<>>
    <3>1. r = [res |-> "throw", agg |-> p.agg]
      BY <1>0, <2>1 DEF LoadFromHistory, Unreplayable
    <3> QED
      BY <1>1, <3>1
  <2>2. CASE p.agg.pending = <<>>
    <3>1. p.agg.persisted \in 0..Len(s) /\ Len(s) \in p.agg.persisted..Len(s)
      BY <1>1
    <3>2. PICK m \in p.agg.persisted..Len(s) : page = Between(s, p.agg.persisted, m)
      <4>1. PICK a : a = p.agg.addr /\ s = Stream(a)
        BY <1>0
      <4>2. page = Page(a, p.agg.persisted, Len(s))
        BY <1>0, <4>1
      <4> QED
        BY ZenonT(60), <1>1, <3>1, <4>1, <4>2, PageIs
    <3>3. /\ r.agg \in Aggregates /\ r.agg.addr = p.agg.addr /\ InstanceOk(r.agg, s)
          /\ p.agg.persisted <= r.agg.persisted
      BY SMTT(40), <1>0, <1>1, <2>2, <3>2, ReplayOk
    <3> QED
      BY <3>3 DEF Aggregates
  <2> QED
    BY <2>1, <2>2
<1>5. p.res = "found" => p.start <= r.agg.persisted
  BY <1>1, <1>4 DEF ResultOk
<1>6. ProcOk(setup, w, q, streams)
  <2>1. p.pc # "none"
    BY <1>2
  <2> QED
    BY <1>00, <1>1, <1>4, <1>5, <2>1, HeldOk
<1> QED
  BY <1>1, <1>2, <1>3, <1>6, PutSafe

\* The committed events are acknowledged.
LEMMA SafeAcknowledge ==
  ASSUME IInv, setup' = setup, NEW w \in Running, Acknowledge(w)
  PROVE  IInv'
<1>0. PICK p, agg, s : p = proc[w] /\ agg = Acknowledged(p.agg) /\ s = Stream(p.agg.addr)
  OBVIOUS
<1>00. PICK q : q = [p EXCEPT !.pc = "held", !.agg = agg]
  OBVIOUS
<1>1. /\ setup \in Setups /\ w \in Writers /\ p \in Procs /\ p.agg \in Aggregates
      /\ p.agg.persisted \in Nat /\ p.agg.version \in Nat /\ p.start \in Nat
      /\ s = StreamOf(streams, p.agg.addr) /\ s \in Seq(Events) /\ Len(s) \in Nat
      /\ CoreOk(setup, p, streams) /\ ResultOk(setup, w, p, s) /\ InstanceOk(p.agg, s)
      /\ p.pc = "appended" => p.agg.version <= Len(s) /\ p.agg.state = Stem(s, p.agg.version)
      /\ SnapsOk(setup, snaps, streams, now) /\ faults \in 0..MaxFaults
  BY <1>0, WriterFacts
<1>2. /\ p.pc = "appended" /\ Set(w, q) /\ UNCHANGED <<streams, total, snaps, now, faults>>
  BY <1>0, <1>00 DEF Acknowledge
<1>3. /\ agg \in Aggregates /\ agg.addr = p.agg.addr /\ agg.persisted = p.agg.version
      /\ agg.state = p.agg.state /\ agg.version = p.agg.version /\ agg.pending = <<>>
      /\ agg.stored = TRUE
  BY <1>0, <1>1, EmptySeq DEF Acknowledged, Aggregates
<1>4. InstanceOk(agg, s)
  <2>1. Stem(s, agg.persisted) \in Seq(Events) /\ agg.state = Stem(s, agg.persisted)
    BY <1>1, <1>2, <1>3, PrefixIs
  <2>2. agg.state = Stem(s, agg.persisted) \o agg.pending
    BY <1>3, <2>1, ConcatEmptySeq
  <2>3. Len(agg.pending) = 0
    BY <1>3
  <2> QED
    BY <1>1, <1>2, <1>3, <2>2, <2>3 DEF InstanceOk
<1>5. p.res = "found" => p.start <= agg.persisted
  <2>1. p.agg.version = p.agg.persisted + Len(p.agg.pending) /\ Len(p.agg.pending) \in Nat
    BY <1>1, LenProperties DEF InstanceOk, Aggregates
  <2> QED
    BY SMTT(40), <1>1, <1>3, <2>1 DEF ResultOk
<1>6. ProcOk(setup, w, q, streams)
  <2>1. p.pc # "none"
    BY <1>2
  <2> QED
    BY <1>00, <1>1, <1>3, <1>4, <1>5, <2>1, HeldOk
<1> QED
  BY <1>1, <1>2, <1>6, PutSafe

\* A snapshot is made of an instance without pending events.
LEMMA SafeTakeSnapshot ==
  ASSUME IInv, setup' = setup, NEW w \in Running, TakeSnapshot(w)
  PROVE  IInv'
<1>0. PICK p, s, n : p = proc[w] /\ s = Stream(p.agg.addr) /\ n = CreateSnapshot(w, p.agg)
  OBVIOUS
<1>00. PICK m, q : m = [addr |-> p.agg.addr, snapshot |-> n] /\ q = [p EXCEPT !.made = {m}]
  OBVIOUS
<1>1. /\ setup \in Setups /\ w \in Writers /\ p \in Procs /\ p.agg \in Aggregates
      /\ p.agg.persisted \in Nat /\ s = StreamOf(streams, p.agg.addr) /\ s \in Seq(Events)
      /\ Len(s) \in Nat /\ p.agg.persisted <= Len(s)
      /\ CoreOk(setup, p, streams) /\ LoadOk(p, s) /\ ResultOk(setup, w, p, s)
      /\ InstanceOk(p.agg, s)
      /\ SnapsOk(setup, snaps, streams, now) /\ faults \in 0..MaxFaults
  BY <1>0, WriterFacts
<1>2. /\ p.pc = "held" /\ p.agg.pending = <<>> /\ Set(w, q)
      /\ UNCHANGED <<streams, total, snaps, now, faults>>
  BY <1>0, <1>00 DEF TakeSnapshot
<1>3. p.agg.addr \in Addresses /\ Generation[w] \in 1..2
  BY <1>1, <1>2, SetupTypes DEF CoreOk
<1>4. p.agg.state = Stem(s, p.agg.persisted) /\ p.agg.version = p.agg.persisted
  <2>1. /\ p.agg.state = Stem(s, p.agg.persisted) \o <<>>
        /\ p.agg.version = p.agg.persisted + Len(<<>>)
    BY <1>1, <1>2 DEF InstanceOk
  <2>2. Stem(s, p.agg.persisted) \in Seq(Events) /\ Len(<<>>) = 0
    BY <1>1, PrefixIs
  <2> QED
    BY <1>1, <2>1, <2>2, ConcatEmptySeq
<1>5. /\ n \in Snapshots /\ n.version = p.agg.version /\ n.state = p.agg.state
  BY <1>0, <1>1, <1>3 DEF CreateSnapshot, Snapshots, Aggregates
<1>6. m \in Made /\ m.snapshot = n /\ m.addr = p.agg.addr /\ Derived(n, s)
  BY <1>00, <1>1, <1>3, <1>4, <1>5 DEF Made, Derived
<1>7. /\ q \in Procs /\ q.pc = "held" /\ q.agg = p.agg /\ q.snap = p.snap /\ q.made = {m}
      /\ q.age = p.age /\ q.start = p.start /\ q.res = p.res
  BY <1>00, <1>1, <1>2, <1>6 DEF Procs
<1>8. CoreOk(setup, q, streams)
  <2>1. \A x \in q.made : Derived(x.snapshot, StreamOf(streams, x.addr))
    BY <1>1, <1>6, <1>7
  <2>2. CoreOk(setup, p, streams) /\ p.pc = "held"
    BY <1>1, <1>2
  <2> QED
    BY <1>7, <2>1, <2>2 DEF CoreOk
<1>9. LoadOk(q, s) /\ ResultOk(setup, w, q, s)
  BY <1>1, <1>7 DEF LoadOk, ResultOk
<1>10. ProcOk(setup, w, q, streams)
  BY <1>1, <1>7, <1>8, <1>9 DEF ProcOk
<1> QED
  BY <1>1, <1>2, <1>10, PutSafe

\* A snapshot made earlier is stored.
LEMMA SafeSaveSnapshot ==
  ASSUME IInv, setup' = setup, NEW w \in Running, SaveSnapshot(w)
  PROVE  IInv'
<1>0. PICK p, s, q : p = proc[w] /\ s = Stream(p.agg.addr) /\ q = [p EXCEPT !.made = {}]
  OBVIOUS
<1>1. /\ setup \in Setups /\ w \in Writers /\ p \in Procs
      /\ s = StreamOf(streams, p.agg.addr)
      /\ CoreOk(setup, p, streams) /\ LoadOk(p, s) /\ ResultOk(setup, w, p, s)
      /\ p.pc = "appended" => p.agg.version <= Len(s) /\ p.agg.state = Stem(s, p.agg.version)
      /\ SnapsOk(setup, snaps, streams, now) /\ faults \in 0..MaxFaults
  BY <1>0, WriterFacts
<1>2. Set(w, q) /\ UNCHANGED <<streams, total, now, faults>>
  BY <1>0 DEF SaveSnapshot
<1>3. PICK m \in p.made : snaps' = AfterSave(m.addr, m.snapshot)
  BY <1>0 DEF SaveSnapshot
<1>4. m.addr \in Addresses /\ m.snapshot \in Snapshots
      /\ Derived(m.snapshot, StreamOf(streams, m.addr))
  BY <1>1 DEF CoreOk, Procs, Made
<1>5. SnapsOk(setup, snaps', streams, now)
  <2>1. MaxEntries \in Nat \ {0} /\ Ttl \in Nat /\ now \in Nat
    BY <1>1, SetupTypes DEF IInv
  <2> QED
    BY <1>1, <1>3, <1>4, <2>1, SavedOk
<1>6. /\ q \in Procs /\ q.pc = p.pc /\ q.agg = p.agg /\ q.snap = p.snap /\ q.made = {}
      /\ q.age = p.age /\ q.start = p.start /\ q.res = p.res /\ q.from = p.from
      /\ q.target = p.target /\ q.pinned = p.pinned
  BY <1>0, <1>1 DEF Procs
<1>7. CoreOk(setup, q, streams)
  BY <1>1, <1>6 DEF CoreOk
<1>8. LoadOk(q, s) /\ ResultOk(setup, w, q, s)
  BY <1>1, <1>6 DEF LoadOk, ResultOk
<1>9. ProcOk(setup, w, q, streams)
  BY <1>1, <1>6, <1>7, <1>8 DEF ProcOk
<1> QED
  BY <1>1, <1>2, <1>5, <1>9, PutSafe

-----------------------------------------------------------------------------
(* The environment *)

\* A fault stays within its bound.
LEMMA FaultStays ==
  ASSUME setup \in Setups, faults \in 0..MaxFaults, Fault PROVE faults' \in 0..MaxFaults
BY SetupTypes DEF Fault

\* A writer that holds nothing is sound.
LEMMA FreshOk ==
  ASSUME setup \in Setups, NEW w \in Writers, NEW str, \A b : StreamOf(str, b) \in Seq(Events)
  PROVE  ProcOk(setup, w, Fresh, str)
<1> DEFINE s == StreamOf(str, None)
<1>1. /\ Bare(None) \in Aggregates /\ InstanceOk(Bare(None), s) /\ Bare(None).addr = None
  BY BareOk
<1>2. PICK bare : bare = Bare(None)
  OBVIOUS
<1>3. Fresh = [pc |-> "none", agg |-> bare, from |-> 0, target |-> 0, pinned |-> FALSE,
               snap |-> {}, discard |-> FALSE, made |-> {}, age |-> 0, start |-> 0,
               res |-> None]
  BY <1>2 DEF Fresh
<1>4. PICK q : q = Fresh
  OBVIOUS
<1>5. q \in Procs /\ q.pc = "none" /\ q.agg = bare /\ q.snap = {} /\ q.made = {} /\ q.age = 0
      /\ q.start = 0 /\ q.res = None
  BY <1>1, <1>2, <1>3, <1>4 DEF Procs, Outcomes
<1>6. 0 < setup.ttl
  BY SetupTypes DEF Ttl
<1>7. CoreOk(setup, q, str)
  BY <1>1, <1>2, <1>5, <1>6 DEF CoreOk
<1>8. LoadOk(q, s) /\ ResultOk(setup, w, q, s)
  BY <1>5 DEF LoadOk, ResultOk, None
<1> QED
  BY <1>1, <1>2, <1>4, <1>5, <1>7, <1>8 DEF ProcOk

\* The process of a writer dies.
LEMMA SafeCrash ==
  ASSUME IInv, setup' = setup, NEW w \in Running, Crash(w)
  PROVE  IInv'
<1>1. /\ setup \in Setups /\ w \in Writers /\ SnapsOk(setup, snaps, streams, now)
      /\ faults \in 0..MaxFaults
  BY SetupTypes DEF IInv
<1>2. Fault /\ Set(w, Fresh) /\ UNCHANGED <<streams, total, snaps, now>>
  BY DEF Crash
<1>3. \A b : StreamOf(streams, b) \in Seq(Events)
  BY StreamHistory DEF IInv
<1>4. ProcOk(setup, w, Fresh, streams) /\ faults' \in 0..MaxFaults
  BY <1>1, <1>2, <1>3, FreshOk, FaultStays
<1> QED
  BY <1>1, <1>2, <1>4, PutSafe

\* A stored snapshot is damaged: it promises nothing any more.
LEMMA SafeDamageSnapshot ==
  ASSUME IInv, setup' = setup, NEW i \in DOMAIN snaps, DamageSnapshot(i)
  PROVE  IInv'
<1>1. /\ setup \in Setups /\ SnapsOk(setup, snaps, streams, now) /\ now \in 0..MaxTime
      /\ faults \in 0..MaxFaults /\ StreamsOk(setup, streams, total)
      /\ proc = [w \in Writers |-> proc[w]]
  BY DEF IInv
<1>2. /\ Fault /\ UNCHANGED <<streams, total, proc, now>>
      /\ snaps' = [snaps EXCEPT ![i].snapshot.intact = FALSE]
  BY DEF DamageSnapshot
<1>3. PICK e, x : e = snaps[i] /\ x = [e EXCEPT !.snapshot.intact = FALSE]
  OBVIOUS
<1>4. /\ snaps \in Seq(SnapEntries) /\ Len(snaps) \in Nat /\ i \in 1..Len(snaps)
      /\ EntryOk(setup, e, streams, now) /\ e \in SnapEntries
      /\ Len(snaps) <= setup.maxEntries
      /\ \A j \in 1..Len(snaps) : EntryOk(setup, snaps[j], streams, now)
      /\ \A j, k \in 1..Len(snaps) : snaps[j].addr = snaps[k].addr => j = k
  BY <1>1, <1>3, LenProperties, ElementOfSeq DEF SnapsOk
<1>5. /\ x \in SnapEntries /\ x.addr = e.addr /\ x.saved = e.saved /\ x.expires = e.expires
      /\ x.snapshot.intact = FALSE
  BY <1>3, <1>4 DEF SnapEntries, Snapshots
<1>6. EntryOk(setup, x, streams, now)
  BY <1>4, <1>5 DEF EntryOk, Derived
<1>7. snaps' = [snaps EXCEPT ![i] = x]
  BY <1>2, <1>3
<1>8. /\ snaps' \in Seq(SnapEntries) /\ Len(snaps') = Len(snaps) /\ snaps'[i] = x
      /\ \A j \in 1..Len(snaps) \ {i} : snaps'[j] = snaps[j]
  BY <1>4, <1>5, <1>7, ExceptSeq
<1>9. SnapsOk(setup, snaps', streams, now)
  <2>1. \A j \in 1..Len(snaps) : snaps'[j].addr = snaps[j].addr
    BY <1>3, <1>5, <1>8
  <2>2. \A j \in 1..Len(snaps) : EntryOk(setup, snaps'[j], streams, now)
    BY <1>4, <1>6, <1>8
  <2> QED
    BY <1>4, <1>8, <2>1, <2>2 DEF SnapsOk
<1>10. /\ faults' \in 0..MaxFaults /\ now' \in 0..MaxTime /\ now <= now'
       /\ Grows(streams, streams') /\ StreamsOk(setup, streams', total')
       /\ proc' = [w \in Writers |-> proc'[w]]
  BY <1>1, <1>2, FaultStays, GrowsSelf, SetupTypes
<1> QED
  BY <1>2, <1>9, <1>10, StepSafe

\* The clock runs.
LEMMA SafeTick ==
  ASSUME IInv, setup' = setup, Tick
  PROVE  IInv'
<1>1. /\ setup \in Setups /\ SnapsOk(setup, snaps, streams, now) /\ now \in 0..MaxTime
      /\ faults \in 0..MaxFaults /\ StreamsOk(setup, streams, total)
      /\ proc = [w \in Writers |-> proc[w]] /\ MaxTime \in Nat
  BY SetupTypes DEF IInv
<1>2. /\ now < MaxTime /\ now' = now + 1 /\ UNCHANGED <<streams, total, snaps, proc, faults>>
  BY DEF Tick
<1>3. now' \in 0..MaxTime /\ now <= now' /\ now \in Nat /\ now' \in Nat
  BY <1>1, <1>2
<1>4. Grows(streams, streams') /\ StreamsOk(setup, streams', total')
      /\ Grows(streams, streams) /\ \A b : StreamOf(streams, b) \in Seq(Events)
  BY <1>1, <1>2, GrowsSelf, StreamHistory
<1>5. SnapsOk(setup, snaps', streams', now')
  BY <1>1, <1>2, <1>3, <1>4, SnapsGrow
<1>6. /\ proc' = [w \in Writers |-> proc'[w]] /\ faults' \in 0..MaxFaults
      /\ \A w \in Writers : proc'[w] = proc[w]
  BY <1>1, <1>2
<1> QED
  BY <1>3, <1>4, <1>5, <1>6, StepSafe

-----------------------------------------------------------------------------
(* The event counter *)

\* One step of the recursion that counts the events of the streams in s.
CountStep(f, str, s) ==
    IF s = {} THEN 0
    ELSE f[s \ {CHOOSE x \in s : TRUE}] + Len(str[CHOOSE x \in s : TRUE])

\* A function on the subsets of S with at most n members that satisfies it.
Small(S, n) == {s \in SUBSET S : Cardinality(s) <= n}
Counts(f, str, S, n) == f = [s \in Small(S, n) |-> CountStep(f, str, s)]

\* Taking a chosen member away.
LEMMA Smaller ==
  ASSUME NEW S, IsFiniteSet(S), NEW s \in SUBSET S, s # {}, NEW y \in s
  PROVE  /\ s \ {y} \in SUBSET S /\ Cardinality(s) \in Nat /\ Cardinality(s \ {y}) \in Nat
         /\ Cardinality(s) = Cardinality(s \ {y}) + 1 /\ (CHOOSE x \in s : TRUE) \in s
<1>1. IsFiniteSet(s) /\ Cardinality(s) \in Nat
  BY FS_Subset, FS_CardinalityType
<1>2. Cardinality(s \ {y}) = Cardinality(s) - 1 /\ IsFiniteSet(s \ {y})
  BY <1>1, FS_RemoveElement
<1>3. Cardinality(s \ {y}) \in Nat
  BY <1>2, FS_CardinalityType
<1> QED
  BY <1>1, <1>2, <1>3

\* There is one.
LEMMA CountsExist ==
  ASSUME NEW str, NEW S, IsFiniteSet(S), NEW m \in Nat
  PROVE  \E f : Counts(f, str, S, m)
<1> DEFINE D == {n \in Nat : \E f : Counts(f, str, S, n)}
<1>1. 0 \in D
  <2> DEFINE f == [s \in Small(S, 0) |-> 0]
  <2>1. ASSUME NEW s \in Small(S, 0) PROVE CountStep(f, str, s) = 0
    <3>1. s = {}
      <4>1. s \in SUBSET S /\ Cardinality(s) <= 0
        BY DEF Small
      <4>2. IsFiniteSet(s) /\ Cardinality(s) \in Nat
        BY <4>1, FS_Subset, FS_CardinalityType
      <4>3. Cardinality(s) = 0
        BY <4>1, <4>2
      <4> QED
        BY <4>2, <4>3, FS_EmptySet
    <3> QED
      BY <3>1 DEF CountStep
  <2>2. f = [s \in Small(S, 0) |-> CountStep(f, str, s)]
    BY <2>1
  <2>3. Counts(f, str, S, 0)
    BY <2>2 DEF Counts
  <2> QED
    BY <2>3
<1>2. ASSUME NEW n \in D PROVE n + 1 \in D
  <2>1. n \in Nat /\ \E f : Counts(f, str, S, n)
    OBVIOUS
  <2>2. PICK f : Counts(f, str, S, n)
    BY <2>1
  <2> DEFINE g == [s \in Small(S, n + 1) |-> CountStep(f, str, s)]
  <2>3. ASSUME NEW s \in Small(S, n + 1) PROVE CountStep(g, str, s) = CountStep(f, str, s)
    <3>1. CASE s = {}
      BY <3>1 DEF CountStep
    <3>2. CASE s # {}
      <4>1. PICK x : x = CHOOSE y \in s : TRUE
        OBVIOUS
      <4>2. x \in s /\ s \in SUBSET S /\ Cardinality(s) <= n + 1
        BY <3>2, <4>1 DEF Small
      <4>3. /\ s \ {x} \in SUBSET S /\ Cardinality(s) \in Nat /\ Cardinality(s \ {x}) \in Nat
            /\ Cardinality(s) = Cardinality(s \ {x}) + 1
        BY <3>2, <4>2, Smaller
      <4>4. Cardinality(s \ {x}) <= n /\ Cardinality(s \ {x}) <= n + 1
        BY <2>1, <4>2, <4>3
      <4>5. s \ {x} \in Small(S, n) /\ s \ {x} \in Small(S, n + 1)
        BY <4>3, <4>4 DEF Small
      <4>6. f[s \ {x}] = CountStep(f, str, s \ {x})
        BY <2>2, <4>5 DEF Counts
      <4>7. g[s \ {x}] = f[s \ {x}]
        BY <4>5, <4>6
      <4> HIDE DEF g
      <4> QED
        BY <3>2, <4>1, <4>7 DEF CountStep
    <3> QED
      BY <3>1, <3>2
  <2>4. g = [s \in Small(S, n + 1) |-> CountStep(g, str, s)]
    <3> HIDE DEF g
    <3>1. g = [s \in Small(S, n + 1) |-> CountStep(f, str, s)]
      BY DEF g
    <3> QED
      BY <2>3, <3>1
  <2>5. Counts(g, str, S, n + 1)
    BY <2>4 DEF Counts
  <2> QED
    BY <2>1, <2>5
<1> HIDE DEF D
<1>3. D = Nat
  BY <1>1, <1>2, SetInduction DEF D
<1> QED
  BY <1>3 DEF D

\* One that covers all subsets of S.
CountsAll(f, str, S) == f = [s \in SUBSET S |-> CountStep(f, str, s)]

\* The function that the fold is defined by.
LEMMA FoldCounts ==
  ASSUME NEW str, NEW S, IsFiniteSet(S)
  PROVE  \E f : /\ CountsAll(f, str, S)
                /\ EventCount(str, S) = f[S]
<1>1. PICK n \in Nat : n = Cardinality(S)
  BY FS_CardinalityType
<1>2. Small(S, n) = SUBSET S
  <2>1. ASSUME NEW s \in SUBSET S PROVE s \in Small(S, n)
    BY <1>1, FS_Subset DEF Small
  <2> QED
    BY <2>1 DEF Small
<1>3. \E f : CountsAll(f, str, S)
  <2>1. PICK f : Counts(f, str, S, n)
    BY CountsExist
  <2>2. CountsAll(f, str, S)
    BY <1>2, <2>1, Zenon DEF Counts, CountsAll
  <2> QED
    BY <2>2
<1> DEFINE f == CHOOSE g : g = [s \in SUBSET S |->
                    IF s = {} THEN 0
                    ELSE g[s \ {CHOOSE x \in s : TRUE}] + Len(str[CHOOSE x \in s : TRUE])]
<1>4. CountsAll(f, str, S)
  BY <1>3 DEF CountsAll, CountStep
<1>5. EventCount(str, S) = f[S]
  BY DEF EventCount, FoldSet, MapThenFoldSet
<1> QED
  BY <1>4, <1>5

\* The count of s, whichever stream is taken first.
Sums(f, str, s) == f[s] \in Nat /\ \A y \in s : f[s] = f[s \ {y}] + Len(str[y])

\* A fold is one.
LEMMA CountsAny ==
  ASSUME NEW str, NEW S, IsFiniteSet(S), NEW f, CountsAll(f, str, S),
         \A x \in S : Len(str[x]) \in Nat,
         NEW s \in SUBSET S
  PROVE  Sums(f, str, s)
<1> DEFINE P(t) == f[t] \in Nat /\ \A y \in t : f[t] = f[t \ {y}] + Len(str[y])
           D == {n \in Nat : \A t \in SUBSET S : Cardinality(t) <= n => P(t)}
<1>0. \A t \in SUBSET S : f[t] = CountStep(f, str, t)
  BY DEF CountsAll
<1>00. \A t \in SUBSET S : IsFiniteSet(t) /\ Cardinality(t) \in Nat
  BY FS_Subset, FS_CardinalityType
<1>1. 0 \in D
  <2>1. ASSUME NEW t \in SUBSET S, Cardinality(t) <= 0 PROVE P(t)
    <3>1. IsFiniteSet(t) /\ Cardinality(t) = 0
      BY <1>00, <2>1
    <3>2. t = {}
      BY <3>1, FS_EmptySet
    <3>3. f[t] = 0
      BY <1>0, <3>2 DEF CountStep
    <3> QED
      BY <3>2, <3>3
  <2> QED
    BY <2>1
<1>2. ASSUME NEW n \in D PROVE n + 1 \in D
  <2>1. n \in Nat /\ \A t \in SUBSET S : Cardinality(t) <= n => P(t)
    OBVIOUS
  <2>2. ASSUME NEW t \in SUBSET S, Cardinality(t) <= n + 1 PROVE P(t)
    <3>1. CASE t = {}
      BY <1>0, <3>1 DEF CountStep
    <3>2. CASE t # {}
      <4>1. PICK x : x = CHOOSE y \in t : TRUE
        OBVIOUS
      <4>2. x \in t /\ f[t] = f[t \ {x}] + Len(str[x])
        BY <1>0, <3>2, <4>1 DEF CountStep
      <4>3. \A y \in t : t \ {y} \in SUBSET S /\ Cardinality(t \ {y}) <= n
        <5>1. ASSUME NEW y \in t PROVE t \ {y} \in SUBSET S /\ Cardinality(t \ {y}) <= n
          <6>1. /\ t \ {y} \in SUBSET S /\ Cardinality(t) \in Nat /\ Cardinality(t \ {y}) \in Nat
                /\ Cardinality(t) = Cardinality(t \ {y}) + 1
            BY <3>2, Smaller
          <6> QED
            BY <2>1, <2>2, <6>1
        <5> QED
          BY <5>1
      <4>4. \A y \in t : P(t \ {y})
        BY <2>1, <4>3
      <4>5. f[t] \in Nat
        <5>1. f[t \ {x}] \in Nat /\ Len(str[x]) \in Nat
          BY <4>2, <4>4
        <5> QED
          BY <4>2, <5>1
      <4>6. ASSUME NEW y \in t PROVE f[t] = f[t \ {y}] + Len(str[y])
        <5>1. CASE y = x
          BY <4>2, <5>1
        <5>2. CASE y # x
          <6>1. y \in t \ {x} /\ x \in t \ {y} /\ (t \ {x}) \ {y} = (t \ {y}) \ {x}
            BY <4>2, <5>2
          <6>2. PICK u : u = (t \ {x}) \ {y} /\ u = (t \ {y}) \ {x}
            BY <6>1
          <6>3. f[t \ {x}] = f[u] + Len(str[y]) /\ f[t \ {y}] = f[u] + Len(str[x])
            <7>1. P(t \ {x}) /\ P(t \ {y})
              BY <4>2, <4>4
            <7>2. /\ f[t \ {x}] = f[(t \ {x}) \ {y}] + Len(str[y])
                  /\ f[t \ {y}] = f[(t \ {y}) \ {x}] + Len(str[x])
              BY <6>1, <7>1
            <7> QED
              BY <6>2, <7>2, Zenon
          <6>4. f[u] \in Nat /\ Len(str[x]) \in Nat /\ Len(str[y]) \in Nat
            <7>1. u \in SUBSET S /\ Cardinality(u) <= n
              <8>1. t \ {x} \in SUBSET S /\ Cardinality(t \ {x}) <= n
                BY <4>2, <4>3
              <8>2. Cardinality(t \ {x}) \in Nat /\ Cardinality(u) \in Nat
                    /\ Cardinality(t \ {x}) = Cardinality(u) + 1
                <9>1. PICK v : v = t \ {x}
                  OBVIOUS
                <9>2. v \in SUBSET S /\ v # {} /\ y \in v /\ u = v \ {y}
                  BY <6>1, <6>2, <8>1, <9>1
                <9>3. Cardinality(v) \in Nat /\ Cardinality(v \ {y}) \in Nat
                      /\ Cardinality(v) = Cardinality(v \ {y}) + 1
                  BY ZenonT(60), <9>2, Smaller
                <9> QED
                  BY <9>1, <9>2, <9>3
              <8> QED
                BY <2>1, <6>2, <8>1, <8>2
            <7> QED
              BY <2>1, <4>2, <7>1
          <6>5. (f[u] + Len(str[y])) + Len(str[x]) = (f[u] + Len(str[x])) + Len(str[y])
            BY <6>4
          <6> QED
            BY <4>2, <6>3, <6>5, Zenon
        <5> QED
          BY <5>1, <5>2
      <4> QED
        BY <4>5, <4>6
    <3> QED
      BY <3>1, <3>2
  <2> HIDE DEF P
  <2> QED
    BY <2>1, <2>2
<1> HIDE DEF D
<1>3. D = Nat
  BY <1>1, <1>2, SetInduction DEF D
<1>4. Cardinality(s) \in D
  BY <1>00, <1>3
<1>5. \A t \in SUBSET S : Cardinality(t) <= Cardinality(s) => P(t)
  BY <1>4 DEF D
<1>6. Cardinality(s) <= Cardinality(s)
  BY <1>00
<1> QED
  BY <1>5, <1>6 DEF Sums

\* Two counts agree on streams that have not changed.
LEMMA CountsAgree ==
  ASSUME NEW str, NEW S, IsFiniteSet(S), NEW f, CountsAll(f, str, S),
         NEW str2, NEW S2, NEW g, CountsAll(g, str2, S2),
         NEW s \in SUBSET S, s \in SUBSET S2, \A x \in s : str[x] = str2[x]
  PROVE  f[s] = g[s]
<1> DEFINE D == {n \in Nat : \A t \in SUBSET s : Cardinality(t) <= n => f[t] = g[t]}
<1>0. \A t \in SUBSET s : f[t] = CountStep(f, str, t) /\ g[t] = CountStep(g, str2, t)
  BY DEF CountsAll
<1>00. IsFiniteSet(s) /\ \A t \in SUBSET s : IsFiniteSet(t) /\ Cardinality(t) \in Nat
  BY FS_Subset, FS_CardinalityType
<1>1. 0 \in D
  <2>1. ASSUME NEW t \in SUBSET s, Cardinality(t) <= 0 PROVE f[t] = g[t]
    <3>1. IsFiniteSet(t) /\ Cardinality(t) = 0
      BY <1>00, <2>1
    <3>2. t = {}
      BY <3>1, FS_EmptySet
    <3> QED
      BY <1>0, <3>2 DEF CountStep
  <2> QED
    BY <2>1
<1>2. ASSUME NEW n \in D PROVE n + 1 \in D
  <2>1. n \in Nat /\ \A t \in SUBSET s : Cardinality(t) <= n => f[t] = g[t]
    OBVIOUS
  <2>2. ASSUME NEW t \in SUBSET s, Cardinality(t) <= n + 1 PROVE f[t] = g[t]
    <3>1. CASE t = {}
      BY <1>0, <3>1 DEF CountStep
    <3>2. CASE t # {}
      <4>1. PICK x : x = CHOOSE y \in t : TRUE
        OBVIOUS
      <4>2. /\ x \in t /\ f[t] = f[t \ {x}] + Len(str[x]) /\ g[t] = g[t \ {x}] + Len(str2[x])
            /\ str[x] = str2[x]
        BY <1>0, <3>2, <4>1 DEF CountStep
      <4>3. /\ t \ {x} \in SUBSET s /\ Cardinality(t) \in Nat /\ Cardinality(t \ {x}) \in Nat
            /\ Cardinality(t) = Cardinality(t \ {x}) + 1
        BY <1>00, <3>2, <4>2, Smaller
      <4>4. Cardinality(t \ {x}) <= n
        BY <2>1, <2>2, <4>3
      <4>5. f[t \ {x}] = g[t \ {x}]
        BY <2>1, <4>3, <4>4
      <4> QED
        BY <4>2, <4>5
    <3> QED
      BY <3>1, <3>2
  <2> QED
    BY <2>1, <2>2
<1> HIDE DEF D
<1>3. D = Nat
  BY <1>1, <1>2, SetInduction DEF D
<1>4. Cardinality(s) \in D /\ Cardinality(s) <= Cardinality(s)
  BY <1>00, <1>3
<1> QED
  BY <1>4 DEF D

\* An append adds the number of its events to the count.
LEMMA CountGrows ==
  ASSUME NEW str, NEW S, IsFiniteSet(S), NEW a, NEW str2, NEW k \in Nat,
         \A x \in S : Len(str[x]) \in Nat, Len(str2[a]) \in Nat,
         \A x \in S \ {a} : str2[x] = str[x],
         Len(str2[a]) = (IF a \in S THEN Len(str[a]) ELSE 0) + k,
         NEW n, n = EventCount(str, S),
         NEW n2, n2 = EventCount(str2, S \cup {a})
  PROVE  n \in Nat /\ n2 = n + k
<1> DEFINE S2 == S \cup {a}
           r == S \ {a}
<1>1. IsFiniteSet(S2)
  BY FS_AddElement
<1>2. PICK f : CountsAll(f, str, S) /\ n = f[S]
  <2>1. \E f : CountsAll(f, str, S) /\ EventCount(str, S) = f[S]
    BY FoldCounts
  <2> QED
    BY <2>1
<1>3. PICK g : CountsAll(g, str2, S2) /\ n2 = g[S2]
  <2>1. \E g : CountsAll(g, str2, S2) /\ EventCount(str2, S2) = g[S2]
    BY <1>1, FoldCounts
  <2> QED
    BY <2>1
<1>4. \A x \in S2 : Len(str2[x]) \in Nat
  OBVIOUS
<1>5. g[S2] = g[r] + Len(str2[a]) /\ g[r] \in Nat
  <2>1. S2 \in SUBSET S2 /\ r \in SUBSET S2 /\ a \in S2 /\ S2 \ {a} = r
    OBVIOUS
  <2> HIDE DEF S2, r
  <2>2. Sums(g, str2, S2) /\ Sums(g, str2, r)
    BY <1>1, <1>3, <1>4, <2>1, CountsAny
  <2> QED
    BY <2>1, <2>2 DEF Sums
<1>6. f[r] = g[r]
  <2>1. r \in SUBSET S /\ r \in SUBSET S2 /\ \A x \in r : str[x] = str2[x]
    OBVIOUS
  <2> HIDE DEF S2, r
  <2> QED
    BY <1>2, <1>3, <2>1, CountsAgree
<1>7. f[S] \in Nat /\ \A y \in S : f[S] = f[S \ {y}] + Len(str[y])
  <2>1. S \in SUBSET S
    OBVIOUS
  <2>2. Sums(f, str, S)
    BY <1>2, <2>1, CountsAny
  <2> QED
    BY <2>2 DEF Sums
<1>8. CASE a \in S
  <2>1. f[S] = f[r] + Len(str[a]) /\ Len(str[a]) \in Nat /\ Len(str2[a]) = Len(str[a]) + k
    BY <1>7, <1>8
  <2> HIDE DEF S2, r
  <2> QED
    BY <1>2, <1>3, <1>5, <1>6, <1>7, <2>1
<1>9. CASE a \notin S
  <2>1. r = S /\ Len(str2[a]) = k
    BY <1>9
  <2> HIDE DEF S2, r
  <2> QED
    BY <1>2, <1>3, <1>5, <1>6, <1>7, <2>1
<1> QED
  BY <1>8, <1>9

-----------------------------------------------------------------------------
(* The event store *)

\* t is the history s with the rows of u behind it.
Joined(a, s, u, t) ==
    /\ History(t, a) /\ Extends(s, t) /\ Len(s) \in Nat /\ Len(u) \in Nat
    /\ Len(t) = Len(s) + Len(u) /\ (u # <<>> => t # <<>>)

\* A history with decided rows behind it is a history.
LEMMA HistoryGrows ==
  ASSUME NEW a, NEW s, History(s, a), NEW u \in Seq(Events),
         \A i \in 1..Len(u) : Decided(u[i], a, Len(s) + i),
         NEW t, t = s \o u
  PROVE  Joined(a, s, u, t)
<1>1. s \in Seq(Events) /\ \A i \in 1..Len(s) : Decided(s[i], a, i)
  BY DEF History
<1>2. /\ t \in Seq(Events) /\ Len(t) = Len(s) + Len(u)
      /\ \A i \in 1..Len(s) + Len(u) : t[i] = IF i <= Len(s) THEN s[i] ELSE u[i - Len(s)]
      /\ Len(s) \in Nat /\ Len(u) \in Nat
  BY <1>1, ConcatProperties, LenProperties
<1>3. ASSUME NEW i \in 1..Len(t) PROVE Decided(t[i], a, i)
  <2>1. CASE i \in 1..Len(s)
    BY <1>1, <1>2, <2>1
  <2>2. CASE i \notin 1..Len(s)
    <3>1. PICK j \in 1..Len(u) : j = i - Len(s) /\ i = Len(s) + j
      BY <1>2, <2>2
    <3>2. t[i] = u[j]
      BY <1>2, <2>2, <3>1
    <3> QED
      BY <3>1, <3>2
  <2> QED
    BY <2>1, <2>2
<1>4. u # <<>> => t # <<>>
  <2>1. u # <<>> => Len(u) # 0
    BY EmptySeq
  <2>2. u # <<>> => Len(t) # 0
    BY <1>2, <2>1
  <2> QED
    BY <2>2, EmptySeq
<1>5. Extends(s, t)
  BY DEF Extends
<1> QED
  BY <1>2, <1>3, <1>4, <1>5 DEF History, Joined

\* An append is refused, or adds the whole batch behind the stream.
LEMMA AppendOk ==
  ASSUME setup \in Setups, StreamsOk(setup, streams, total), NEW a \in Addresses,
         NEW events \in Seq(Events), NEW expected,
         Admitted(a, events, expected) =>
            \A i \in 1..Len(events) : Decided(events[i], a, Len(Stream(a)) + i),
         AppendEvents(a, events, expected)
  PROVE  /\ StreamsOk(setup, streams', total') /\ Grows(streams, streams')
         /\ Admitted(a, events, expected) => StreamOf(streams', a) = Stream(a) \o events
<1>1. PICK str, n, str2, n2, s, t :
           /\ str = streams /\ n = total /\ str2 = streams' /\ n2 = total'
           /\ s = Stream(a) /\ t = s \o events
  OBVIOUS
<1>2. CASE ~Admitted(a, events, expected)
  <2>1. streams' = streams /\ total' = total
    BY <1>2 DEF AppendEvents
  <2> QED
    BY <1>2, <2>1, GrowsSelf
<1>3. CASE Admitted(a, events, expected)
  <2> DEFINE D == DOMAIN str
  <2>1. /\ str = [b \in D |-> str[b]] /\ D \subseteq Addresses /\ IsFiniteSet(D)
        /\ \A b \in D : History(str[b], b) /\ str[b] # <<>>
        /\ n = EventCount(str, D)
    BY <1>1 DEF StreamsOk
  <2>2. /\ str2 = [b \in D \cup {a} |-> IF b = a THEN t ELSE str[b]]
        /\ n2 = n + Len(events)
    BY <1>1, <1>3 DEF AppendEvents
  <2>3. /\ events # <<>> /\ a \notin D => ~(Cardinality(D) >= setup.maxStreams)
        /\ ~(n + Len(events) > setup.maxEvents)
    BY <1>1, <1>3 DEF Admitted, Full, MaxStreams, MaxEvents
  <2>4. /\ s = IF a \in D THEN str[a] ELSE <<>>
        /\ s = StreamOf(str, a) /\ History(s, a) /\ s \in Seq(Events)
    BY <1>1, StreamHistory DEF Stream, StreamOf
  <2>5. /\ History(t, a) /\ Extends(s, t) /\ Len(s) \in Nat /\ Len(events) \in Nat
        /\ Len(t) = Len(s) + Len(events) /\ t # <<>> /\ events # <<>>
    <3>1. \A i \in 1..Len(events) : Decided(events[i], a, Len(s) + i)
      BY <1>1, <1>3
    <3>2. /\ History(t, a) /\ Extends(s, t) /\ Len(s) \in Nat /\ Len(events) \in Nat
          /\ Len(t) = Len(s) + Len(events) /\ (events # <<>> => t # <<>>)
      <4>1. t = s \o events /\ History(s, a)
        BY <1>1, <2>4
      <4>2. Joined(a, s, events, t)
        BY <3>1, <4>1, HistoryGrows, Zenon
      <4> QED
        BY <4>2 DEF Joined
    <3>3. events # <<>>
      BY <1>3 DEF Admitted
    <3> QED
      BY <3>2, <3>3
  <2>6. /\ DOMAIN str2 = D \cup {a} /\ str2[a] = t /\ \A b \in D \ {a} : str2[b] = str[b]
        /\ str2 = [b \in DOMAIN str2 |-> str2[b]]
    BY <2>2
  <2>7. /\ setup.maxStreams \in Nat /\ setup.maxEvents \in Nat
    BY SetupTypes DEF MaxStreams, MaxEvents
  <2>8. IsFiniteSet(D \cup {a}) /\ Cardinality(D \cup {a}) <= setup.maxStreams
    <3>1. /\ Cardinality(D \cup {a}) = IF a \in D THEN Cardinality(D) ELSE Cardinality(D) + 1
          /\ IsFiniteSet(D \cup {a}) /\ Cardinality(D) \in Nat
      BY <2>1, FS_AddElement, FS_CardinalityType
    <3>2. Cardinality(D) <= setup.maxStreams
      BY <1>1 DEF StreamsOk
    <3>3. a \notin D => Cardinality(D) < setup.maxStreams
      BY <1>1, <1>3, <2>7, <3>1 DEF Admitted, Full, MaxStreams
    <3> QED
      BY <2>7, <3>1, <3>2, <3>3
  <2>9. n \in Nat /\ n2 = EventCount(str2, D \cup {a}) /\ n2 \in Nat /\ n2 <= setup.maxEvents
    <3>1. PICK k \in Nat : k = Len(events)
      BY <2>5
    <3>2. /\ \A x \in D : Len(str[x]) \in Nat
          /\ Len(str2[a]) \in Nat /\ Len(str2[a]) = (IF a \in D THEN Len(str[a]) ELSE 0) + k
      <4>1. \A x \in D : str[x] \in Seq(Events)
        BY <2>1 DEF History
      <4>2. \A x \in D : Len(str[x]) \in Nat
        BY <4>1, LenProperties
      <4>3. Len(s) = IF a \in D THEN Len(str[a]) ELSE 0
        BY <2>4, EmptySeq
      <4> QED
        BY <2>5, <2>6, <3>1, <4>2, <4>3
    <3>3. PICK m2 : m2 = EventCount(str2, D \cup {a})
      OBVIOUS
    <3> HIDE DEF D
    <3>4. n \in Nat /\ m2 = n + k
      BY SMTT(40), <2>1, <2>6, <3>2, <3>3, CountGrows
    <3>5. ~(n + Len(events) > setup.maxEvents) /\ n2 = n + Len(events)
      BY <2>2, <2>3
    <3> QED
      BY <2>7, <3>1, <3>3, <3>4, <3>5
  <2>10. \A b \in D \cup {a} : History(str2[b], b) /\ str2[b] # <<>>
    BY <2>1, <2>5, <2>6
  <2>11. StreamsOk(setup, str2, n2)
    BY <2>1, <2>6, <2>8, <2>9, <2>10 DEF StreamsOk
  <2>12. Grows(str, str2)
    <3>1. ASSUME NEW b PROVE Extends(StreamOf(str, b), StreamOf(str2, b))
      <4>1. CASE b = a
        BY <2>4, <2>5, <2>6, <4>1 DEF StreamOf
      <4>2. CASE b # a
        <5>1. StreamOf(str2, b) = StreamOf(str, b)
          BY <2>6, <4>2 DEF StreamOf
        <5>2. StreamOf(str, b) \in Seq(Events)
          BY <1>1, StreamHistory
        <5> QED
          BY <5>1, <5>2, ExtendsSelf
      <4> QED
        BY <4>1, <4>2
    <3> QED
      BY <3>1 DEF Grows
  <2>13. StreamOf(str2, a) = t
    BY <2>6 DEF StreamOf
  <2> QED
    BY <1>1, <2>11, <2>12, <2>13
<1> QED
  BY <1>2, <1>3

\* save(): the append is the commit.
LEMMA SafeSave ==
  ASSUME IInv, setup' = setup, NEW w \in Running, Save(w)
  PROVE  IInv'
<1>0. PICK p, agg, a, s : p = proc[w] /\ agg = p.agg /\ a = agg.addr /\ s = Stream(a)
  OBVIOUS
<1>1. /\ setup \in Setups /\ w \in Writers /\ p \in Procs /\ agg \in Aggregates
      /\ agg.persisted \in Nat /\ agg.version \in Nat
      /\ s = StreamOf(streams, a) /\ s \in Seq(Events) /\ Len(s) \in Nat
      /\ InstanceOk(agg, s) /\ CoreOk(setup, p, streams)
      /\ SnapsOk(setup, snaps, streams, now) /\ faults \in 0..MaxFaults
  BY <1>0, WriterFacts
<1>2. /\ p.pc \in {"held", "appended"} /\ UNCHANGED <<snaps, now, faults>>
      /\ AppendEvents(a, agg.pending, agg.persisted)
      /\ Set(w, IF Admitted(a, agg.pending, agg.persisted)
                THEN [p EXCEPT !.pc = "appended"] ELSE p)
  BY <1>0 DEF Save
<1>3. /\ a \in Addresses /\ agg.pending \in Seq(Events) /\ Len(agg.pending) \in Nat
      /\ StreamsOk(setup, streams, total) /\ now \in 0..MaxTime /\ now \in Nat /\ now <= now
      /\ proc = [v \in Writers |-> proc[v]]
      /\ \A v \in Writers : ProcOk(setup, v, proc[v], streams)
  BY SMTT(40), <1>0, <1>1, <1>2, SetupTypes, LenProperties DEF IInv, CoreOk, Aggregates
<1>4. Admitted(a, agg.pending, agg.persisted) =>
         Len(s) = agg.persisted
  BY <1>0 DEF Admitted, Conflicts
<1>5. /\ StreamsOk(setup, streams', total') /\ Grows(streams, streams')
      /\ Admitted(a, agg.pending, agg.persisted) => StreamOf(streams', a) = s \o agg.pending
  <2>1. Admitted(a, agg.pending, agg.persisted) =>
           \A i \in 1..Len(agg.pending) : Decided(agg.pending[i], a, Len(Stream(a)) + i)
    BY <1>0, <1>1, <1>4 DEF InstanceOk
  <2> QED
    BY <1>0, <1>1, <1>2, <1>3, <2>1, AppendOk
<1>6. \A b : StreamOf(streams, b) \in Seq(Events)
  BY <1>3, StreamHistory
<1>7. SnapsOk(setup, snaps', streams', now')
  <2>1. SnapsOk(setup, snaps, streams', now)
    BY <1>1, <1>3, <1>5, <1>6, SnapsGrow
  <2> QED
    BY <1>2, <2>1
<1>8. PICK str2, t, n : str2 = streams' /\ t = StreamOf(str2, a) /\ n = agg.version
  OBVIOUS
<1>9. ProcOk(setup, w, p, str2)
  BY <1>0, <1>1, <1>3, <1>5, <1>6, <1>8, ProcGrows
<1>10. proc' = [v \in Writers |-> proc'[v]] /\ \A v \in Writers \ {w} : proc'[v] = proc[v]
  BY <1>1, <1>2, <1>3 DEF Set
<1>11. CASE ~Admitted(a, agg.pending, agg.persisted)
  <2>1. proc'[w] = proc[w]
    BY <1>0, <1>1, <1>2, <1>3, <1>11 DEF Set
  <2>2. \A v \in Writers : proc'[v] = proc[v]
    BY <1>10, <2>1
  <2> QED
    BY <1>1, <1>2, <1>3, <1>5, <1>7, <1>10, <2>2, StepSafe
<1>12. CASE Admitted(a, agg.pending, agg.persisted)
  <2>1. PICK q : q = [p EXCEPT !.pc = "appended"]
    OBVIOUS
  <2>2. proc'[w] = q
    BY <1>1, <1>2, <1>3, <1>12, <2>1 DEF Set
  <2>3. /\ q \in Procs /\ q.pc = "appended" /\ q.agg = agg /\ q.snap = p.snap /\ q.made = p.made
        /\ q.age = p.age /\ q.start = p.start /\ q.res = p.res
    BY <1>0, <1>1, <2>1 DEF Procs
  <2>4. /\ CoreOk(setup, p, str2) /\ ResultOk(setup, w, p, t) /\ p.pc # "none"
    BY <1>0, <1>2, <1>8, <1>9 DEF ProcOk
  <2>5. CoreOk(setup, q, str2)
    BY <1>0, <2>3, <2>4 DEF CoreOk
  <2>6. LoadOk(q, t) /\ ResultOk(setup, w, q, t)
    BY <1>0, <2>3, <2>4 DEF LoadOk, ResultOk
  <2>7. /\ agg.state = Stem(s, agg.persisted) \o agg.pending
        /\ n = agg.persisted + Len(agg.pending)
        /\ Len(s) = agg.persisted /\ t = s \o agg.pending
    BY <1>1, <1>4, <1>5, <1>8, <1>12 DEF InstanceOk
  <2>8. Stem(s, Len(s)) = s
    BY <1>1, SubSeqFull DEF Stem
  <2>9. agg.state = t /\ t \in Seq(Events) /\ Len(t) = n /\ n <= Len(t)
    <3>1. Stem(s, agg.persisted) = s
      BY <2>7, <2>8
    <3>2. t \in Seq(Events) /\ Len(t) = Len(s) + Len(agg.pending)
      BY <1>1, <1>3, <2>7, ConcatProperties
    <3>3. agg.state = t /\ Len(t) = n
      BY <2>7, <3>1, <3>2
    <3> QED
      BY <1>1, <1>8, <3>2, <3>3
  <2>10. Stem(t, n) = t
    BY <2>9, SubSeqFull DEF Stem
  <2>11. ProcOk(setup, w, q, str2)
    BY <1>0, <1>8, <2>3, <2>5, <2>6, <2>9, <2>10 DEF ProcOk
  <2>12. \A v \in Writers : proc'[v] = proc[v] \/ ProcOk(setup, v, proc'[v], streams')
    BY <1>8, <1>10, <2>2, <2>11
  <2> QED
    BY <1>1, <1>2, <1>3, <1>5, <1>7, <1>10, <2>12, StepSafe
<1> QED
  BY <1>11, <1>12

\* Another program appends a row.
LEMMA SafeRogue ==
  ASSUME IInv, setup' = setup, NEW a \in Addresses, NEW kind \in {"v1", "poison"},
         NEW addr \in {None, Elsewhere}, Rogue(a, kind, addr)
  PROVE  IInv'
<1>1. /\ setup \in Setups /\ SnapsOk(setup, snaps, streams, now) /\ now \in 0..MaxTime
      /\ now \in Nat /\ now <= now
      /\ faults \in 0..MaxFaults /\ StreamsOk(setup, streams, total)
      /\ proc = [w \in Writers |-> proc[w]] /\ None \notin Writers
  BY SetupTypes DEF IInv
<1>2. PICK e, row : e = [kind |-> kind, by |-> None, base |-> 0, addr |-> addr] /\ row = <<e>>
  OBVIOUS
<1>3. /\ Fault /\ UNCHANGED <<snaps, proc, now>> /\ AppendEvents(a, row, Len(Stream(a)))
  BY <1>2 DEF Rogue
<1>4. e \in Events /\ e.by = None
  BY <1>2 DEF Events
<1>5. row \in Seq(Events) /\ Len(row) = 1 /\ row[1] = e
  BY <1>2, <1>4
<1>6. \A i \in 1..Len(row) : Decided(row[i], a, Len(Stream(a)) + i)
  BY <1>1, <1>4, <1>5 DEF Decided
<1>7. StreamsOk(setup, streams', total') /\ Grows(streams, streams')
  BY <1>1, <1>3, <1>5, <1>6, AppendOk
<1>8. \A b : StreamOf(streams, b) \in Seq(Events)
  BY <1>1, StreamHistory
<1>9. SnapsOk(setup, snaps', streams', now')
  <2>1. SnapsOk(setup, snaps, streams', now)
    BY <1>1, <1>7, <1>8, SnapsGrow
  <2> QED
    BY <1>3, <2>1
<1>10. /\ faults' \in 0..MaxFaults /\ now' \in 0..MaxTime /\ now <= now'
       /\ proc' = [w \in Writers |-> proc'[w]] /\ \A w \in Writers : proc'[w] = proc[w]
  BY <1>1, <1>3, FaultStays
<1> QED
  BY <1>7, <1>9, <1>10, StepSafe

-----------------------------------------------------------------------------
(* The invariant *)

\* It holds at the start.
LEMMA InitSafe == ASSUME Init PROVE IInv
<1>1. /\ setup \in Setups /\ streams = <<>> /\ total = 0 /\ snaps = <<>> /\ now = 0 /\ faults = 0
      /\ proc = [w \in Writers |-> Fresh]
  BY DEF Init
<1>2. /\ MaxTime \in Nat /\ MaxFaults \in Nat /\ setup.maxStreams \in Nat
      /\ setup.maxEvents \in Nat /\ setup.maxEntries \in Nat
  BY <1>1, SetupTypes DEF MaxStreams, MaxEvents, MaxEntries
<1>3. DOMAIN streams = {} /\ streams = [a \in {} |-> streams[a]]
  BY <1>1
<1>4. EventCount(streams, {}) = 0
  <2>1. IsFiniteSet({})
    BY FS_EmptySet
  <2>2. PICK f : CountsAll(f, streams, {}) /\ EventCount(streams, {}) = f[{}]
    BY <2>1, FoldCounts
  <2>3. f[{}] = CountStep(f, streams, {})
    BY <2>2 DEF CountsAll
  <2> QED
    BY <2>2, <2>3 DEF CountStep
<1>5. StreamsOk(setup, streams, total)
  BY <1>1, <1>2, <1>3, <1>4, FS_EmptySet DEF StreamsOk
<1>6. SnapsOk(setup, snaps, streams, now)
  <2>1. <<>> \in Seq(SnapEntries) /\ Len(<<>>) = 0
    BY EmptySeq
  <2> QED
    BY <1>1, <1>2, <2>1 DEF SnapsOk
<1>7. \A b : StreamOf(streams, b) \in Seq(Events)
  BY <1>5, StreamHistory
<1>8. \A w \in Writers : ProcOk(setup, w, proc[w], streams)
  <2>1. ASSUME NEW w \in Writers PROVE ProcOk(setup, w, proc[w], streams)
    <3>1. ProcOk(setup, w, Fresh, streams) /\ proc[w] = Fresh
      BY <1>1, <1>7, FreshOk
    <3> QED
      BY <3>1
  <2> QED
    BY <2>1
<1>9. proc = [w \in Writers |-> proc[w]]
  BY <1>1
<1>10. now \in 0..MaxTime /\ faults \in 0..MaxFaults
  BY <1>1, <1>2
<1> QED
  BY <1>1, <1>5, <1>6, <1>8, <1>9, <1>10 DEF IInv

\* Every step keeps it.
LEMMA StepKeeps == ASSUME IInv, [Next]_<<vars, setup>> PROVE IInv'
<1>0. setup \in Setups /\ setup.addresses \subseteq Addresses
  BY SetupTypes DEF IInv
<1>1. CASE UNCHANGED <<vars, setup>>
  BY <1>1 DEF IInv, vars, MaxTime, MaxFaults
<1>2. CASE Next
  <2>0. setup' = setup
    BY <1>2 DEF Next
  <2>1. CASE \E w \in Running : LoadStep(w)
    BY <2>0, <2>1, SafeFoldPage, SafeTailPage, SafeCatchUpPage, SafeDiscard DEF LoadStep
  <2>2. CASE \E w \in Running : CatchUpHeld(w) \/ Save(w) \/ Acknowledge(w)
    BY <2>0, <2>2, SafeCatchUpHeld, SafeSave, SafeAcknowledge
  <2>3. CASE \E w \in Running : TakeSnapshot(w) \/ SaveSnapshot(w) \/ Crash(w)
    BY <2>0, <2>3, SafeTakeSnapshot, SafeSaveSnapshot, SafeCrash
  <2>4. CASE \E w \in Running : \E a \in setup.addresses : Load(w, a) \/ Create(w, a)
    BY <1>0, <2>0, <2>4, SafeLoad, SafeCreate
  <2>5. CASE \E w \in Running : \E input \in Inputs : Decide(w, input)
    BY <2>0, <2>5, SafeDecide
  <2>6. CASE \E a \in setup.addresses : \/ Rogue(a, "poison", None) \/ Rogue(a, "v1", Elsewhere)
                                        \/ Rogue(a, "v1", None)
    BY <1>0, <2>0, <2>6, SafeRogue
  <2>7. CASE \E i \in DOMAIN snaps : DamageSnapshot(i)
    BY <2>0, <2>7, SafeDamageSnapshot
  <2>8. CASE Tick
    BY <2>0, <2>8, SafeTick
  <2> QED
    BY <1>2, <2>1, <2>2, <2>3, <2>4, <2>5, <2>6, <2>7, <2>8 DEF Next
<1> QED
  BY <1>1, <1>2

\* The inductive invariant holds throughout.
THEOREM Invariant == Spec => []IInv
<1>1. Init => IInv
  BY InitSafe
<1>2. IInv /\ [Next]_<<vars, setup>> => IInv'
  BY StepKeeps
<1> QED
  BY <1>1, <1>2, PTL DEF Spec

-----------------------------------------------------------------------------
(* What it implies *)

\* The two notations of a stream agree.
LEMMA Sources == ASSUME NEW a PROVE Stream(a) = StreamOf(streams, a)
BY DEF Stream, StreamOf

\* The stores and the instances have their types.
LEMMA TypesHold == ASSUME IInv PROVE TypeOK
<1>1. /\ StreamsOk(setup, streams, total) /\ SnapsOk(setup, snaps, streams, now)
      /\ \A w \in Writers : ProcOk(setup, w, proc[w], streams)
      /\ now \in 0..MaxTime /\ faults \in 0..MaxFaults
  BY DEF IInv
<1>2. /\ DOMAIN streams \subseteq Addresses /\ total \in Nat
      /\ \A a \in DOMAIN streams : streams[a] \in Seq(Events) \ {<<>>}
  BY <1>1 DEF StreamsOk, History
<1>3. snaps \in Seq([addr : Addresses, snapshot : Snapshots, saved : Nat, expires : Nat])
  BY <1>1 DEF SnapsOk, SnapEntries
<1>4. ASSUME NEW w \in Writers
      PROVE  /\ proc[w].pc \in {"none", "held", "appended", "tail", "catchup", "fold", "discard"}
             /\ proc[w].agg \in Aggregates
             /\ proc[w].snap \subseteq Snapshots
             /\ (proc[w].pc = "tail") => (proc[w].snap # {})
             /\ \A s \in proc[w].made : s.addr \in Addresses /\ s.snapshot \in Snapshots
             /\ proc[w].res \in {None, "found", "absent", "failed"}
  <2>1. PICK p : p = proc[w]
    OBVIOUS
  <2>2. p \in Procs /\ LoadOk(p, StreamOf(streams, p.agg.addr))
    BY <1>1, <2>1 DEF ProcOk, CoreOk
  <2>3. p.made \subseteq Made
    BY <2>2 DEF Procs
  <2>4. \A s \in p.made : s.addr \in Addresses /\ s.snapshot \in Snapshots
    BY <2>3 DEF Made
  <2>5. (p.pc = "tail") => (p.snap # {})
    BY <2>2 DEF LoadOk
  <2>6. /\ p.pc \in {"none", "held", "appended", "tail", "catchup", "fold", "discard"}
        /\ p.agg \in Aggregates /\ p.snap \subseteq Snapshots
        /\ p.res \in {None, "found", "absent", "failed"}
    BY <2>2 DEF Procs, Outcomes
  <2> QED
    BY <2>1, <2>4, <2>5, <2>6
<1> QED
  BY <1>1, <1>2, <1>3, <1>4 DEF TypeOK

\* The stores stay within their capacities, and the counter counts.
LEMMA CapacityHolds == ASSUME IInv PROVE WithinCapacity
<1>1. /\ StreamsOk(setup, streams, total) /\ SnapsOk(setup, snaps, streams, now)
  BY DEF IInv
<1>2. total = FoldSet(LAMBDA a, n : n + Len(streams[a]), 0, DOMAIN streams)
  BY <1>1 DEF StreamsOk, EventCount, FoldSet, MapThenFoldSet
<1>3. total <= MaxEvents /\ Cardinality(DOMAIN streams) <= MaxStreams
  BY <1>1 DEF StreamsOk, MaxEvents, MaxStreams
<1>4. /\ Len(snaps) <= MaxEntries
      /\ \A i, j \in DOMAIN snaps : snaps[i].addr = snaps[j].addr => i = j
  <2>1. DOMAIN snaps = 1..Len(snaps)
    BY <1>1, LenProperties DEF SnapsOk
  <2> QED
    BY <1>1, <2>1 DEF SnapsOk, MaxEntries
<1> QED
  BY <1>2, <1>3, <1>4 DEF WithinCapacity

\* What an instance and a snapshot say is what the stream says.
LEMMA FaithfulHolds == ASSUME IInv PROVE StatesFaithful
<1>1. /\ StreamsOk(setup, streams, total) /\ SnapsOk(setup, snaps, streams, now)
      /\ \A w \in Writers : ProcOk(setup, w, proc[w], streams)
  BY DEF IInv
<1>2. ASSUME NEW w \in Writers
      PROVE  LET agg == proc[w].agg
             IN  /\ agg.persisted <= Len(Stream(agg.addr))
                 /\ agg.state = SubSeq(Stream(agg.addr), 1, agg.persisted) \o agg.pending
                 /\ agg.version = agg.persisted + Len(agg.pending)
  <2>1. InstanceOk(proc[w].agg, Stream(proc[w].agg.addr))
    BY <1>1, Sources DEF ProcOk, CoreOk
  <2> QED
    BY <2>1 DEF InstanceOk, Stem
<1>3. NoStaleDecision
  <2>1. ASSUME NEW a \in DOMAIN streams, NEW i \in DOMAIN streams[a], streams[a][i].by \in Writers
        PROVE  streams[a][i].base = i - 1
    <3>1. History(streams[a], a)
      BY <1>1 DEF StreamsOk
    <3>2. i \in 1..Len(streams[a])
      BY <3>1, LenProperties DEF History
    <3> QED
      BY <2>1, <3>1, <3>2 DEF History, Decided
  <2> QED
    BY <2>1 DEF NoStaleDecision
<1>4. ASSUME NEW a, NEW s, Derived(s, StreamOf(streams, a))
      PROVE  ~s.intact \/ (/\ s.version <= Len(Stream(a))
                           /\ s.state = SubSeq(Stream(a), 1, s.version))
  BY <1>4, Sources DEF Derived, Stem
<1>5. \A i \in DOMAIN snaps : Derived(snaps[i].snapshot, StreamOf(streams, snaps[i].addr))
  <2>1. DOMAIN snaps = 1..Len(snaps)
    BY <1>1, LenProperties DEF SnapsOk
  <2> QED
    BY <1>1, <2>1 DEF SnapsOk, EntryOk
<1>6. \A w \in Writers : \A s \in proc[w].made :
         Derived(s.snapshot, StreamOf(streams, s.addr))
  BY <1>1 DEF ProcOk, CoreOk
<1>7. SnapshotsDerived
  BY <1>4, <1>5, <1>6 DEF SnapshotsDerived
<1> QED
  BY <1>2, <1>3, <1>7 DEF StatesFaithful, FaithfulState

\* What a load returned is what it promised.
LEMMA HonestHolds == ASSUME IInv PROVE LoadsHonest
<1>1. /\ setup \in Setups /\ StreamsOk(setup, streams, total)
      /\ \A w \in Writers : ProcOk(setup, w, proc[w], streams)
  BY DEF IInv
<1>2. ASSUME NEW w \in Writers
      PROVE  /\ ResultOk(setup, w, proc[w], Stream(proc[w].agg.addr))
             /\ proc[w].age < setup.ttl
  BY <1>1, Sources DEF ProcOk, CoreOk
<1>3. ASSUME NEW w \in Writers
      PROVE  /\ (proc[w].pc = "none" /\ proc[w].res = "absent") => proc[w].start = 0
             /\ (proc[w].pc = "held" /\ proc[w].res = "found") =>
                   proc[w].agg.persisted >= proc[w].start
  <2>1. ProcOk(setup, w, proc[w], streams)
    BY <1>1
  <2>2. proc[w].start \in Nat /\ proc[w].agg.persisted \in Nat
    BY <2>1 DEF ProcOk, CoreOk, Procs, Aggregates
  <2>3. proc[w].res = "absent" => proc[w].start = 0
    BY <1>2 DEF ResultOk
  <2>4. proc[w].res = "found" => proc[w].start <= proc[w].agg.persisted
    BY <1>2 DEF ResultOk
  <2> QED
    BY <2>2, <2>3, <2>4
<1>4. ASSUME NEW w \in Writers, proc[w].res = "failed"
      PROVE  \E i \in DOMAIN Stream(proc[w].agg.addr) :
                LET e == Stream(proc[w].agg.addr)[i]
                IN  e.by = None \/ (e.kind = "v2" /\ Generation[w] = 1)
  <2>1. PICK s : s = Stream(proc[w].agg.addr)
    OBVIOUS
  <2>2. s \in Seq(Events) /\ DOMAIN s = 1..Len(s)
    BY <1>1, <2>1, StreamHistory, Sources, LenProperties
  <2>3. PICK i \in 1..Len(s) : Blamed(setup, s[i], w)
    BY <1>2, <1>4, <2>1 DEF ResultOk
  <2> QED
    BY <2>1, <2>2, <2>3 DEF Blamed, Generation
<1> QED
  BY <1>2, <1>3, <1>4 DEF LoadsHonest, LoadsFresh, FailuresExplained, NoExpiredSnapshot, Ttl

\* Both stores keep their types and their capacities, and the event counter
\* agrees with the streams: a refused append leaves no empty stream behind.
THEOREM EventSourcingWellFormed == Spec => []WellFormed
<1>1. IInv => WellFormed
  BY TypesHold, CapacityHolds DEF WellFormed
<1> QED
  BY <1>1, Invariant, PTL

\* States in memory, snapshots and streams tell one history, and every event of
\* it was decided on the state before it.
THEOREM StatesAreFaithful == Spec => []StatesFaithful
<1>1. IInv => StatesFaithful
  BY FaithfulHolds
<1> QED
  BY <1>1, Invariant, PTL

\* A load returns what is current, uses no expired snapshot, and fails only for
\* a reason in the stream.
THEOREM LoadsAreHonest == Spec => []LoadsHonest
<1>1. IInv => LoadsHonest
  BY HonestHolds
<1> QED
  BY <1>1, Invariant, PTL
=============================================================================
