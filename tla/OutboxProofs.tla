---------------------------- MODULE OutboxProofs ----------------------------
(***************************************************************************)
(* The outbox and its dispatcher lose nothing, keep their limits and       *)
(* deliver every source's chain in order, at the positions it committed.   *)
(* Four layers, each proved with the help of the ones before it:          *)
(*   Safe   what is stored, delivered and acknowledged, and how much;      *)
(*   Order  what comes before each event that is queued or handed out;     *)
(*   Chains the versions that records, envelopes and source heads carry;   *)
(*   Once   what is delivered while nothing fails and nothing is re-added. *)
(***************************************************************************)
EXTENDS OutboxDelivery, OrderedFilterProofs, FiniteSetTheorems

-----------------------------------------------------------------------------
(* Safe: nothing is lost *)

Candidate == [id : EventIds, version : 0..MaxVersion, size : 0..MaxSize]
Envelopes == [id : EventIds, version : 0..MaxVersion, previous : 0..MaxVersion]
Commits == [version : 0..MaxVersion, size : 1..MaxSize]

\* The shapes that TypeOK leaves open.
Shapes ==
    /\ queue \in Seq(EventIds)
    /\ adding \in Seq(Candidate) /\ receipts \in Seq(Candidate)
    /\ batch \in Seq(Envelopes) /\ seen \subseteq Envelopes
    /\ log \in [Sources -> Seq(Commits)]
    /\ rejections \in [EventIds -> Nat]
    /\ \A s \in Sources : /\ Len(log[s]) <= MaxCommits
                          /\ agg[s].phase # "clean" => /\ Len(log[s]) < MaxCommits
                                                       /\ agg[s].size \in 1..MaxSize

\* A transaction holds its sources until it settles, and no two the same one.
Transactions ==
    /\ client # {} => ~Quiet
    /\ \A s \in client : agg[s].phase = "dirty"
    /\ \A g \in open : \A s \in g : agg[s].phase = "added"
    /\ \A g, h \in open : g \cap h # {} => g = h

\* The outbox stores the event, or the sink has received it.
Kept(e) == Pending(e) \/ Dead(e) \/ e \in Published

Adding == {adding[i].id : i \in DOMAIN adding}

\* What is committed or about to commit is kept; add() drops nothing it was given.
AllKept ==
    /\ NoEventLost
    /\ \A s \in Sources : agg[s].phase = "added" => \A e \in InHand(s) : Kept(e)
    /\ \A s \in client : \A e \in InHand(s) :
          /\ addResult = "running" => Kept(e) \/ e \in Adding
          /\ addResult = "added" => Kept(e)

\* The dispatcher acknowledges only what it delivered: the prefix of its batch.
Dispatching ==
    /\ dpc = "idle" => batch = <<>> /\ sent = 0 /\ failure = "none"
    /\ dpc = "publishing" => sent < Len(batch) /\ failure = "none"
    /\ dpc = "marking" => failure = "counted"
    /\ failure # "none" => sent < Len(batch)
    /\ \A i \in 1..sent : batch[i] \in seen
    /\ \A i \in (sent + 1)..Len(batch) : Pending(batch[i].id)
    /\ \A i, j \in 1..Len(batch) : batch[i].id = batch[j].id => i = j
    /\ \A i \in DOMAIN receipts : receipts[i].id \in Published

\* Every attempt that is recorded was a rejection, the one in hand included.
AttemptsEarned ==
    /\ \A e \in EventIds : rec[e].place = "none" => rec[e].attempts = 0
    /\ \A e \in EventIds : Pending(e) => /\ rec[e].attempts < MaxDeliveryAttempts
                                         /\ rec[e].attempts <= rejections[e]
    /\ failure = "counted" => rec[FailedId].attempts < rejections[FailedId]
    /\ DeadOnlyIfPoison

Stored == {e \in EventIds : Pending(e) \/ Dead(e)}
Heads == {s \in Sources : cursors[s] # NoCursor}

\* What the rest of the running add() may store.
Fresh == {e \in Adding : ~Dispatched(e)}
FreshHeads == {e.src : e \in {e \in Fresh : ~Pending(e) /\ ~Dead(e)}}

\* The limits hold with what the running add() will still store.
Bounded ==
    /\ IsFiniteSet(Stored) /\ IsFiniteSet(Heads) /\ WithinBounds
    /\ \A e \in Stored : cursors[e.src] # NoCursor
    /\ addResult = "running" => /\ Cardinality(Stored \cup Fresh) <= MaxRecords
                                /\ Cardinality(Heads \cup FreshHeads) <= MaxSources

\* The outbox and the dispatcher deal with events that a source has recorded.
Genuine == Stored \cup Published \cup everDead \cup Adding \subseteq Recorded

Safe == /\ TypeOK /\ Shapes /\ Transactions /\ AllKept /\ Dispatching
        /\ AttemptsEarned /\ Bounded /\ Genuine

-----------------------------------------------------------------------------
(* Order: what comes before *)

\* The event has arrived, or head-of-line blocking gave it up.
Settled(d) == d \in Published \cup everDead

\* Every event of the source before e is settled or in ahead.
Preceded(e, ahead) == \A d \in Recorded : Before(d, e) => Settled(d) \/ d \in ahead

SettledInOrder == \A e \in Published \cup everDead : Preceded(e, {})

QueueInOrder == \A p \in DOMAIN queue : Preceded(queue[p], {queue[q] : q \in 1..(p - 1)})

BatchInOrder ==
    \A p \in DOMAIN batch : Preceded(batch[p].id, {batch[q].id : q \in 1..(p - 1)})

\* add() puts its candidates behind what is pending.
AddingInOrder ==
    \A p \in DOMAIN adding :
        Preceded(adding[p].id, Entries(queue) \cup {adding[q].id : q \in 1..(p - 1)})

Ordered == /\ {e \in EventIds : Dead(e)} \subseteq everDead
           /\ SettledInOrder /\ QueueInOrder /\ BatchInOrder /\ AddingInOrder

-----------------------------------------------------------------------------
(* Chains: versions and predecessors *)

\* The version of the last commit, and of the commit an event belongs to.
LastVersion(s) == IF log[s] = <<>> THEN NoVersion ELSE log[s][Len(log[s])].version
VersionOf(e) == IF Committed(e) THEN log[e.src][e.commit].version ELSE agg[e.src].version

\* The first event of the last commit, and of the commit in hand.
LastFirst(s) == Id(s, Len(log[s]), 0)
First(s) == Id(s, Len(log[s]) + 1, 0)

\* Aggregate versions only grow; a commit in hand is ahead of the log.
Versioned(s) ==
    /\ IF agg[s].phase = "clean" THEN agg[s].version = LastVersion(s)
       ELSE agg[s].version > LastVersion(s)
    /\ \A j, k \in DOMAIN log[s] : j < k => log[s][j].version < log[s][k].version
    /\ \A j \in DOMAIN log[s] : log[s][j].version > NoVersion

\* A commit is noted as moved as a whole.
MovedWhole(s) ==
    \A e \in moved : e.src = s => /\ e \in Recorded
                                  /\ \A d \in Recorded : d.src = s /\ d.commit = e.commit
                                                         => d \in moved

\* What was handed out, under the version that the event has.
HandedOut == seen \cup {batch[i] : i \in DOMAIN batch}

Exactly(r) == r.id \in moved \/ (r.version = VersionOf(r.id) /\ r.previous = Predecessor(r.id))

\* The source head: at the last commit, or at a leaked attempt of the one in hand.
AtLastCommit(s) == /\ cursors[s].version = LastVersion(s)
                   /\ \/ log[s] = <<>>
                      \/ cursors[s].previous = Predecessor(LastFirst(s))
                      \/ LastFirst(s) \in moved

AtAttempt(s) == /\ agg[s].phase # "clean"
                /\ LastVersion(s) < cursors[s].version /\ cursors[s].version <= agg[s].version
                /\ cursors[s].previous = LastVersion(s) \/ First(s) \in moved
                /\ Kept(First(s))
                /\ First(s) \in Stored => rec[First(s)].version = cursors[s].version

\* A stored record of the source: exact once it is committed.
Positioned(e) ==
    /\ e \in moved \/ rec[e].previous = Predecessor(e)
    /\ rec[e].version <= cursors[e.src].version
    /\ Committed(e) => rec[e].version = VersionOf(e)
    /\ ~Committed(e) => /\ LastVersion(e.src) < rec[e].version
                        /\ rec[e].version <= agg[e.src].version

\* add() brought the source head, and every record, to the version it was given.
Refreshed(s) == /\ cursors[s].version = agg[s].version
                /\ \A e \in Stored \cap InHand(s) : rec[e].version = agg[s].version

Linked(s) ==
    /\ \A r \in HandedOut : r.id.src = s => Exactly(r) /\ r.version <= cursors[s].version
    /\ \A e \in Stored : e.src = s => Positioned(e)
    /\ \A r \in Entries(receipts) : r.id.src = s => /\ r.version <= cursors[s].version
                                                    /\ r.id \notin Stored
    /\ AtLastCommit(s) \/ AtAttempt(s)
    /\ agg[s].phase = "added" => Refreshed(s)

Chained(s) == Versioned(s) /\ MovedWhole(s) /\ Linked(s)

\* The candidates of a running add(), distinct and those of an aggregate in
\* order, agree with what the outbox holds of dead and dispatched events.
Exacting(c) == /\ c.version = VersionOf(c.id)
               /\ (c.id.src \in client) <=> ~Committed(c.id)
               /\ Dead(c.id) /\ ~Dispatched(c.id) => rec[c.id].version = c.version
               /\ \A r \in Receipt(c.id) : r.version = c.version

Refreshing ==
    /\ addResult # "running" => adding = <<>>
    /\ \A i \in DOMAIN adding : Exacting(adding[i])
    /\ \A i \in DOMAIN adding : \A j \in 1..(i - 1) :
          /\ adding[j].id # adding[i].id
          /\ adding[j].id.src = adding[i].id.src /\ adding[i].id.src \in client
                => adding[j].id.seq < adding[i].id.seq
    /\ \A s \in client :
          /\ addResult = "running" =>
                /\ First(s) \notin Adding => cursors[s].version = agg[s].version
                /\ \A e \in (Stored \cap InHand(s)) \ Adding : rec[e].version = agg[s].version
          /\ addResult = "added" => Refreshed(s)

Chains == (\A s \in Sources : Chained(s)) /\ Refreshing

-----------------------------------------------------------------------------
(* The operators of the outbox *)

\* What appending and concatenating do to the entries.
LEMMA EntriesConcat ==
  ASSUME NEW T, NEW s \in Seq(T), NEW t \in Seq(T)
  PROVE  /\ s \o t \in Seq(T) /\ Len(s \o t) = Len(s) + Len(t)
         /\ Entries(s \o t) = Entries(s) \cup Entries(t)
<1>1. /\ s \o t \in Seq(T) /\ Len(s \o t) = Len(s) + Len(t)
      /\ \A i \in 1..Len(s) : (s \o t)[i] = s[i]
      /\ \A i \in 1..Len(t) : (s \o t)[Len(s) + i] = t[i]
      /\ Len(s) \in Nat /\ Len(t) \in Nat
      /\ DOMAIN s = 1..Len(s) /\ DOMAIN t = 1..Len(t)
  BY ConcatProperties, LenProperties
<1>2. DOMAIN (s \o t) = 1..(Len(s) + Len(t))
  BY <1>1, LenProperties
<1> DEFINE u == s \o t
           m == Len(s)
           n == Len(t)
<1> HIDE DEF u, m, n
<1>3. Entries(u) \subseteq Entries(s) \cup Entries(t)
  <2> SUFFICES ASSUME NEW k \in 1..(m + n) PROVE u[k] \in Entries(s) \cup Entries(t)
    BY <1>2 DEF Entries, u, m, n
  <2>1. CASE k \in 1..m
    BY <2>1, <1>1 DEF Entries, u, m, n
  <2>2. CASE k \notin 1..m
    <3>1. m \in Nat /\ n \in Nat
      BY <1>1 DEF m, n
    <3>2. PICK i \in 1..n : k = m + i
      <4>1. k - m \in 1..n /\ k = m + (k - m)
        BY <2>2, <3>1
      <4> QED BY <4>1
    <3>3. u[m + i] = t[i]
      BY <1>1 DEF u, m, n
    <3> QED BY <1>1, <3>2, <3>3 DEF Entries, n
  <2> QED BY <2>1, <2>2
<1>4. Entries(s) \cup Entries(t) \subseteq Entries(u)
  <2>0. m \in Nat /\ n \in Nat /\ DOMAIN u = 1..(m + n) /\ DOMAIN s = 1..m /\ DOMAIN t = 1..n
    BY <1>1, <1>2 DEF u, m, n
  <2>1. \A i \in 1..m : i \in 1..(m + n)
    BY <2>0
  <2>2. \A i \in 1..n : m + i \in 1..(m + n)
    BY <2>0
  <2>3. (\A i \in 1..m : u[i] = s[i]) /\ (\A i \in 1..n : u[m + i] = t[i])
    BY <1>1 DEF u, m, n
  <2> QED BY <2>0, <2>1, <2>2, <2>3 DEF Entries
<1> QED BY <1>1, <1>3, <1>4 DEF u

\* Last drops only from the front, and nothing while there is room.
LEMMA LastKeeps ==
  ASSUME NEW T, NEW s \in Seq(T), NEW n \in Nat \ {0}
  PROVE  /\ Last(s, n) \in Seq(T) /\ Len(Last(s, n)) <= n
         /\ Entries(Last(s, n)) \subseteq Entries(s)
         /\ Len(s) <= n => Last(s, n) = s
<1>1. Len(s) \in Nat /\ DOMAIN s = 1..Len(s)
  BY LenProperties
<1>2. CASE Len(s) <= n
  BY <1>1, <1>2 DEF Last
<1>3. CASE ~(Len(s) <= n)
  <2> DEFINE l == Len(s)
             m == l - n + 1
             u == SubSeq(s, m, l)
  <2>1. m \in 1..(l + 1) /\ l \in 1..l /\ l \in Nat
    BY <1>1, <1>3
  <2>2. /\ u \in Seq(T) /\ Len(u) = l - m + 1
        /\ \A i \in 1..(l - m + 1) : u[i] = s[m + i - 1]
    BY <2>1, SubSeqProperties
  <2>3. l - m + 1 = n /\ \A i \in 1..n : m + i - 1 \in 1..l
    BY <2>1
  <2>4. DOMAIN u = 1..n
    BY <2>2, <2>3, LenProperties
  <2>5. Last(s, n) = u
    BY <1>3 DEF Last
  <2> HIDE DEF u, m, l
  <2>6. Entries(u) \subseteq Entries(s)
    BY <2>2, <2>3, <2>4, <1>1 DEF Entries, l
  <2> QED BY <1>3, <2>2, <2>3, <2>5, <2>6
<1> QED BY <1>2, <1>3

\* The receipts are bounded, and are old ones or new ones; to renew the receipt
\* of a dispatched event evicts none.
LEMMA RememberKeeps ==
  ASSUME receipts \in Seq(Candidate), NEW new \in Seq(Candidate), Remember(new)
  PROVE  /\ receipts' \in Seq(Candidate) /\ Len(receipts') <= MaxRetained
         /\ Entries(receipts') \subseteq Entries(receipts) \cup Entries(new)
         /\ \A r : new = <<r>> /\ Dispatched(r.id) /\ Len(receipts) <= MaxRetained
               => Entries(receipts') = {x \in Entries(receipts) : x.id # r.id} \cup {r}
<1> DEFINE renewed == {new[i].id : i \in DOMAIN new}
           older == {r \in {receipts[i] : i \in DOMAIN receipts} : r.id \notin renewed}
           left == Only(receipts, older)
<1>1. receipts' = Last(left \o new, MaxRetained)
  BY DEF Remember
<1>2. /\ left \in Seq(Candidate) /\ Len(left) <= Len(receipts)
      /\ \A h \in 1..Len(receipts) : receipts[h] \notin older => Len(left) < Len(receipts)
      /\ Entries(left) = Entries(receipts) \cap older
  <2> HIDE DEF older
  <2> QED BY OnlyKeeps
<1>3. /\ left \o new \in Seq(Candidate) /\ Len(left \o new) = Len(left) + Len(new)
      /\ Entries(left \o new) = Entries(left) \cup Entries(new)
  <2>1. left \in Seq(Candidate) /\ new \in Seq(Candidate)
    BY <1>2
  <2> HIDE DEF left
  <2> QED BY <2>1, EntriesConcat
<1>4. Entries(receipts) \cap older = older /\ MaxRetained \in Nat \ {0}
  BY OutboxAssumption DEF Entries
<1>5. /\ receipts' \in Seq(Candidate) /\ Len(receipts') <= MaxRetained
      /\ Entries(receipts') \subseteq Entries(left \o new)
      /\ Len(left \o new) <= MaxRetained => receipts' = left \o new
  <2> HIDE DEF left, renewed
  <2> QED BY <1>1, <1>3, <1>4, LastKeeps
<1>6. ASSUME NEW r, new = <<r>>, Dispatched(r.id), Len(receipts) <= MaxRetained
      PROVE  Entries(receipts') = {x \in Entries(receipts) : x.id # r.id} \cup {r}
  <2>1. Len(new) = 1 /\ DOMAIN new = 1..1 /\ new[1] = r
    BY <1>6
  <2>2. renewed = {r.id} /\ Entries(new) = {r}
    BY <2>1 DEF Entries
  <2>3. PICK h \in 1..Len(receipts) : receipts[h].id = r.id
    BY <1>6, LenProperties DEF Dispatched, Receipt
  <2>4. receipts[h] \notin older
    BY <2>2, <2>3
  <2>5. Len(left) < Len(receipts) /\ Len(left) \in Nat /\ Len(receipts) \in Nat
    BY <1>2, <2>4, LenProperties
  <2>6. Len(left \o new) <= MaxRetained
    <3> HIDE DEF left
    <3> QED BY <1>3, <1>4, <1>6, <2>1, <2>5
  <2>7. Entries(receipts') = older \cup {r}
    <3> HIDE DEF left, older
    <3> QED BY <1>2, <1>3, <1>4, <1>5, <2>2, <2>6
  <2>8. older = {x \in Entries(receipts) : x.id # r.id}
    BY <2>2 DEF Entries
  <2> QED BY <2>7, <2>8
<1>7. Entries(receipts') \subseteq Entries(receipts) \cup Entries(new)
  <2> HIDE DEF left, older
  <2> QED BY <1>2, <1>3, <1>5
<1> QED BY <1>5, <1>6, <1>7

-----------------------------------------------------------------------------
(* Safe: the steps *)

\* The bounds are the naturals they are meant to be.
LEMMA Options ==
  /\ MaxCommits \in Nat \ {0} /\ MaxSize \in Nat \ {0} /\ MaxDeliveryAttempts \in Nat \ {0}
  /\ MaxRetained \in Nat \ {0} /\ MaxRecords \in Nat \ {0} /\ MaxSources \in Nat \ {0}
  /\ BatchSize \in Nat \ {0} /\ MaxVersion \in Nat \ {0}
  BY OutboxAssumption, DeliveryAssumption

\* The events of a commit in hand are events of its source, not yet committed.
LEMMA InHandEvents ==
  ASSUME TypeOK, Shapes, NEW s \in Sources, agg[s].phase # "clean"
  PROVE  \A e \in InHand(s) : /\ e \in EventIds /\ e.src = s
                              /\ e.commit = Len(log[s]) + 1 /\ e.seq < agg[s].size
                              /\ ~Committed(e)
<1>1. /\ Len(log[s]) \in Nat /\ Len(log[s]) < MaxCommits /\ agg[s].size \in 1..MaxSize
  BY LenProperties DEF Shapes
<1>2. ASSUME NEW n \in 0..(agg[s].size - 1)
      PROVE  /\ Id(s, Len(log[s]) + 1, n) \in EventIds
             /\ n < agg[s].size /\ ~Committed(Id(s, Len(log[s]) + 1, n))
  BY SMTT(40), <1>1, Options DEF Id, EventIds, Committed
<1> QED BY <1>2 DEF InHand, Id

\* The invariant holds initially.
LEMMA SafeInit == Init => Safe
<1> SUFFICES ASSUME Init PROVE Safe
  OBVIOUS
<1> USE DEF Init, OutboxInit, NoRecord, NoCursor, NoVersion
<1>0. \A S : <<>> \in Seq(S) /\ Len(<<>>) = 0
  BY EmptySeq
<1>1. TypeOK
  <2>1. DOMAIN queue = {} /\ Len(batch) = 0
    BY <1>0
  <2>2. {queue[i] : i \in DOMAIN queue} = {e \in EventIds : Pending(e)}
    BY <2>1 DEF Pending
  <2>3. /\ rec \in [EventIds -> [place : {"none", "pending", "dead"}, version : 0..MaxVersion,
                             previous : 0..MaxVersion, size : 0..MaxSize,
                             attempts : 0..MaxDeliveryAttempts]]
        /\ cursors \in [Sources -> [version : 0..MaxVersion, previous : 0..MaxVersion,
                                size : 0..MaxSize, owners : SUBSET EventIds]]
        /\ agg \in [Sources -> [phase : {"clean", "dirty", "added"}, version : 0..MaxVersion,
                            size : 0..MaxSize]]
    BY Options
  <2>4. sent \in 0..Len(batch)
    BY <2>1
  <2>5. \A i, j \in DOMAIN queue : queue[i] = queue[j] => i = j
    BY <2>1
  <2>6. everDead \subseteq EventIds /\ moved \subseteq EventIds /\ client \subseteq Sources
        /\ open \subseteq SUBSET Sources
    OBVIOUS
  <2>7. /\ addResult \in {"none", "running", "added", "rejected"} /\ mutated \in BOOLEAN
        /\ dpc \in {"idle", "publishing", "acking", "marking"}
        /\ failure \in {"none", "transient", "counted"}
    OBVIOUS
  <2> HIDE DEF Init, OutboxInit
  <2> QED BY <2>2, <2>3, <2>4, <2>5, <2>6, <2>7 DEF TypeOK
<1>2. Shapes
  BY <1>0, Options DEF Shapes
<1>3. Transactions
  BY DEF Transactions
<1>4. AllKept
  <2>1. \A e \in EventIds : ~Committed(e)
    BY <1>0 DEF Committed, EventIds
  <2> QED BY <2>1 DEF AllKept, NoEventLost
<1>5. Dispatching
  BY <1>0 DEF Dispatching
<1>6. AttemptsEarned
  BY Options DEF AttemptsEarned, DeadOnlyIfPoison, Pending, Dead
<1>7. Bounded
  <2>1. Stored = {} /\ Heads = {} /\ {e \in EventIds : Pending(e) \/ Dead(e)} = {}
        /\ {s \in Sources : cursors[s] # NoCursor} = {}
    BY DEF Stored, Heads, Pending, Dead
  <2> HIDE DEF Init, OutboxInit, NoRecord, NoCursor
  <2>2. IsFiniteSet(Stored) /\ IsFiniteSet(Heads) /\ \A e \in Stored : cursors[e.src] # NoCursor
    BY <2>1, FS_EmptySet
  <2>3. WithinBounds
    <3>1. Cardinality({}) = 0 /\ Len(receipts) = 0
      BY <1>0, FS_EmptySet DEF Init, OutboxInit
    <3>2. Cardinality(Stored) <= MaxRecords /\ Cardinality(Heads) <= MaxSources
      BY <2>1, <3>1, Options
    <3> QED BY <3>1, <3>2, Options DEF WithinBounds, Stored, Heads
  <2>4. addResult # "running"
    BY DEF Init, OutboxInit
  <2> QED BY <2>2, <2>3, <2>4 DEF Bounded
<1>8. Genuine
  <2>1. Stored = {} /\ Published = {} /\ everDead = {} /\ Adding = {}
    BY <1>0 DEF Stored, Pending, Dead, Published, Adding
  <2> QED BY <2>1 DEF Genuine
<1> QED BY <1>1, <1>2, <1>3, <1>4, <1>5, <1>6, <1>7, <1>8 DEF Safe

\* Recorded events stay recorded.
LEMMA RecordedSame ==
  ASSUME UNCHANGED log,
         \A s \in Sources : /\ agg'[s].size = agg[s].size
                            /\ agg'[s].phase = "clean" <=> agg[s].phase = "clean"
  PROVE  Recorded' = Recorded
<1>1. \A e \in EventIds : /\ e.src \in Sources
                          /\ Committed(e)' <=> Committed(e)
                          /\ InHand(e.src)' = InHand(e.src)
  BY DEF EventIds, Committed, InHand
<1> QED BY <1>1 DEF Recorded

\* A step that brings the outbox nothing new.
LEMMA GenuineStays ==
  ASSUME Genuine, Recorded \subseteq Recorded', Published' \subseteq Stored \cup Published,
         Stored' \subseteq Stored \cup Adding, Adding' \subseteq Adding,
         everDead' \subseteq everDead \cup Stored
  PROVE  Genuine'
  BY DEF Genuine

\* What only the outbox and the dispatcher change.
LEMMA Frame ==
  /\ Dispatching /\ UNCHANGED <<rec, receipts, dispatchVars, seen>> => Dispatching'
  /\ AttemptsEarned /\ UNCHANGED <<rec, dispatchVars, rejections>> => AttemptsEarned'
  /\ Bounded /\ UNCHANGED outboxVars => Bounded'
  /\ Bounded /\ UNCHANGED <<rec, cursors, receipts>> /\ addResult' # "running" => Bounded'
  /\ \A e : UNCHANGED <<rec, seen>> => (Kept(e) <=> Kept(e)')
  /\ \A e : UNCHANGED log => (Committed(e) <=> Committed(e)')
<1> USE DEF Pending, Dead, Published, Committed
<1>1. Dispatching /\ UNCHANGED <<rec, receipts, dispatchVars, seen>> => Dispatching'
  BY DEF Dispatching, dispatchVars
<1>2. AttemptsEarned /\ UNCHANGED <<rec, dispatchVars, rejections>> => AttemptsEarned'
  BY DEF AttemptsEarned, dispatchVars, FailedId, DeadOnlyIfPoison
<1>3. Bounded /\ UNCHANGED outboxVars => Bounded'
  BY DEF Bounded, outboxVars, Stored, Heads, Fresh, FreshHeads, WithinBounds, Dispatched,
         Receipt, Adding
<1>6. Bounded /\ UNCHANGED <<rec, cursors, receipts>> /\ addResult' # "running" => Bounded'
  BY DEF Bounded, Stored, Heads, WithinBounds
<1>4. \A e : UNCHANGED <<rec, seen>> => (Kept(e) <=> Kept(e)')
  BY DEF Kept
<1>5. \A e : UNCHANGED log => (Committed(e) <=> Committed(e)')
  OBVIOUS
<1> QED BY <1>1, <1>2, <1>3, <1>4, <1>5, <1>6

\* A domain method records events: a new commit is in hand.
LEMMA SafeRecord ==
  ASSUME Safe, NEW s \in Sources, NEW n \in 1..MaxSize, Record(s, n)
  PROVE  Safe'
<1> USE DEF Safe
<1>1. /\ UNCHANGED <<outboxVars, log, client, open, dispatchVars, faults, readds, historyVars>>
      /\ Quiet /\ agg[s].phase = "clean" /\ Len(log[s]) < MaxCommits
      /\ agg[s].version < MaxVersion
      /\ agg' = [agg EXCEPT ![s] = [phase |-> "dirty", version |-> agg[s].version + 1,
                                    size |-> n]]
  BY DEF Record
<1>2. /\ rec' = rec /\ queue' = queue /\ cursors' = cursors /\ receipts' = receipts
      /\ adding' = adding /\ addResult' = addResult /\ mutated' = mutated
      /\ dpc' = dpc /\ batch' = batch /\ sent' = sent /\ failure' = failure
      /\ seen' = seen /\ everDead' = everDead /\ rejections' = rejections /\ moved' = moved
      /\ log' = log /\ client' = client /\ open' = open
  BY <1>1 DEF outboxVars, dispatchVars, historyVars
<1>3. /\ \A t \in Sources \ {s} : agg'[t] = agg[t]
      /\ agg'[s] = [phase |-> "dirty", version |-> agg[s].version + 1, size |-> n]
      /\ agg' \in [Sources -> [phase : {"clean", "dirty", "added"}, version : 0..MaxVersion,
                               size : 0..MaxSize]]
  BY SMTT(40), <1>1, Options DEF TypeOK
<1>4. client = {}
  BY <1>1 DEF Transactions
<1>5. TypeOK'
  BY <1>2, <1>3 DEF TypeOK, Pending
<1>6. Shapes'
  BY <1>1, <1>2, <1>3 DEF Shapes
<1>7. Transactions'
  BY <1>1, <1>2, <1>3, <1>4 DEF Transactions, TypeOK
<1>8. AllKept'
  <2>1. NoEventLost'
    BY <1>2, Frame DEF AllKept, NoEventLost, Pending, Dead, Published
  <2>2. \A t \in Sources : agg'[t].phase = "added" => \A e \in InHand(t)' : Kept(e)'
    BY <1>2, <1>3, Frame DEF AllKept, InHand
  <2> QED BY <1>2, <1>4, <2>1, <2>2 DEF AllKept
<1>9. Dispatching' /\ AttemptsEarned' /\ Bounded'
  BY <1>1, <1>2, Frame DEF dispatchVars, outboxVars
<1>10. Genuine'
  <2>1. ASSUME NEW e \in Recorded PROVE e \in Recorded'
    <3>1. e \in EventIds /\ e.src \in Sources
      BY DEF Recorded, EventIds
    <3>2. CASE Committed(e)
      BY <1>2, <3>1, <3>2, Frame DEF Recorded
    <3>3. CASE ~Committed(e)
      <4>1. agg'[e.src] = agg[e.src] /\ agg[e.src].phase # "clean" /\ e \in InHand(e.src)
        BY <1>1, <1>3, <3>1, <3>3 DEF Recorded
      <4>2. InHand(e.src)' = InHand(e.src)
        BY <1>2, <4>1 DEF InHand
      <4> QED BY <3>1, <4>1, <4>2 DEF Recorded
    <3> QED BY <3>2, <3>3
  <2>2. Stored' = Stored /\ Published' = Published /\ Adding' = Adding
    BY <1>2 DEF Stored, Pending, Dead, Published, Adding
  <2> QED BY <1>2, <2>1, <2>2, GenuineStays
<1> QED BY <1>5, <1>6, <1>7, <1>8, <1>9, <1>10

\* A state-only change: only a version moves.
LEMMA SafeBump ==
  ASSUME Safe, NEW s \in Sources, Bump(s)
  PROVE  Safe'
<1> USE DEF Safe
<1>1. /\ UNCHANGED <<outboxVars, log, client, open, dispatchVars, faults, readds,
                     seen, everDead, rejections>>
      /\ Quiet /\ agg[s].phase = "dirty" /\ agg[s].version < MaxVersion
      /\ agg' = [agg EXCEPT ![s].version = @ + 1]
      /\ moved' = moved \/ moved' = moved \cup InHand(s)
  BY DEF Bump
<1>2. /\ rec' = rec /\ queue' = queue /\ cursors' = cursors /\ receipts' = receipts
      /\ adding' = adding /\ addResult' = addResult /\ mutated' = mutated
      /\ dpc' = dpc /\ batch' = batch /\ sent' = sent /\ failure' = failure
      /\ seen' = seen /\ everDead' = everDead /\ rejections' = rejections
      /\ log' = log /\ client' = client /\ open' = open
  BY <1>1 DEF outboxVars, dispatchVars
<1>3. /\ \A t \in Sources : agg'[t].phase = agg[t].phase /\ agg'[t].size = agg[t].size
      /\ agg' \in [Sources -> [phase : {"clean", "dirty", "added"}, version : 0..MaxVersion,
                               size : 0..MaxSize]]
  <2>1. agg[s] \in [phase : {"clean", "dirty", "added"}, version : 0..MaxVersion,
                    size : 0..MaxSize] /\ agg[s].version + 1 \in 0..MaxVersion
    BY SMTT(40), <1>1, Options DEF TypeOK
  <2> QED BY <1>1, <2>1 DEF TypeOK
<1>4. client = {}
  BY <1>1 DEF Transactions
<1>5. TypeOK'
  <2>1. moved' \subseteq EventIds
    BY <1>1, InHandEvents DEF TypeOK
  <2> QED BY SMTT(40), <1>2, <1>3, <2>1 DEF TypeOK, Pending
<1>6. Shapes'
  BY <1>1, <1>2, <1>3 DEF Shapes
<1>7. Transactions'
  BY SMTT(40), <1>1, <1>2, <1>3, <1>4 DEF Transactions, TypeOK
<1>8. AllKept'
  <2>1. NoEventLost'
    BY <1>2, Frame DEF AllKept, NoEventLost, Pending, Dead, Published
  <2>2. \A t \in Sources : agg'[t].phase = "added" => \A e \in InHand(t)' : Kept(e)'
    BY <1>2, <1>3, Frame DEF AllKept, InHand
  <2> QED BY <1>2, <1>4, <2>1, <2>2 DEF AllKept
<1>9. Dispatching' /\ AttemptsEarned' /\ Bounded'
  BY <1>1, <1>2, Frame DEF dispatchVars, outboxVars
<1>10. Genuine'
  <2>1. Recorded' = Recorded
    BY <1>2, <1>3, RecordedSame
  <2>2. Stored' = Stored /\ Published' = Published /\ Adding' = Adding
    BY <1>2 DEF Stored, Pending, Dead, Published, Adding
  <2> QED BY <1>2, <2>1, <2>2, GenuineStays
<1> QED BY <1>5, <1>6, <1>7, <1>8, <1>9, <1>10

\* An event is in hand exactly if its source is about to commit it.
LEMMA InHandIs ==
  ASSUME NEW e \in EventIds, e.commit = Len(log[e.src]) + 1, agg[e.src].size \in Nat,
         e.seq < agg[e.src].size
  PROVE  e \in InHand(e.src)
<1>1. e.seq \in 0..(agg[e.src].size - 1) /\ e = Id(e.src, Len(log[e.src]) + 1, e.seq)
  BY Options DEF EventIds, Id
<1> QED BY <1>1 DEF InHand

\* A transaction settles: its group leaves, the others stay as they are.
LEMMA Settles ==
  ASSUME Safe, NEW g \in open, NEW phase \in {"clean", "dirty"}, SettleTx(g, phase)
  PROVE  /\ rec' = rec /\ queue' = queue /\ cursors' = cursors /\ receipts' = receipts
         /\ adding' = adding /\ addResult' = addResult /\ mutated' = mutated
         /\ dpc' = dpc /\ batch' = batch /\ sent' = sent /\ failure' = failure
         /\ seen' = seen /\ everDead' = everDead /\ rejections' = rejections
         /\ moved' = moved /\ client' = {} /\ client = {} /\ Quiet
         /\ open' = open \ {g} /\ g \subseteq Sources
         /\ \A s \in g : /\ agg[s].phase = "added" /\ agg'[s].phase = phase
                         /\ agg'[s].version = agg[s].version /\ agg'[s].size = agg[s].size
         /\ \A s \in Sources \ g : agg'[s] = agg[s]
         /\ agg' \in [Sources -> [phase : {"clean", "dirty", "added"}, version : 0..MaxVersion,
                                  size : 0..MaxSize]]
         /\ Transactions' /\ Dispatching' /\ AttemptsEarned' /\ Bounded'
<1> USE DEF Safe
<1>1. /\ UNCHANGED <<outboxVars, client, dispatchVars, readds, historyVars>>
      /\ Quiet /\ open' = open \ {g}
      /\ agg' = [s \in Sources |-> IF s \in g THEN [agg[s] EXCEPT !.phase = phase] ELSE agg[s]]
  BY DEF SettleTx
<1>2. /\ rec' = rec /\ queue' = queue /\ cursors' = cursors /\ receipts' = receipts
      /\ adding' = adding /\ addResult' = addResult /\ mutated' = mutated
      /\ dpc' = dpc /\ batch' = batch /\ sent' = sent /\ failure' = failure
      /\ seen' = seen /\ everDead' = everDead /\ rejections' = rejections
      /\ moved' = moved /\ client' = client
  BY <1>1 DEF outboxVars, dispatchVars, historyVars
<1>3. client = {} /\ g \subseteq Sources
  BY <1>1 DEF Transactions, TypeOK
<1>4. \A s \in g : /\ agg[s].phase = "added" /\ agg'[s].phase = phase
                   /\ agg'[s].version = agg[s].version /\ agg'[s].size = agg[s].size
  BY <1>1, <1>3 DEF Transactions, TypeOK
<1>5. \A s \in Sources \ g : agg'[s] = agg[s]
  BY <1>1
<1>6. agg' \in [Sources -> [phase : {"clean", "dirty", "added"}, version : 0..MaxVersion,
                            size : 0..MaxSize]]
  <2>1. ASSUME NEW s \in Sources
        PROVE  [agg[s] EXCEPT !.phase = phase]
                  \in [phase : {"clean", "dirty", "added"}, version : 0..MaxVersion,
                       size : 0..MaxSize]
    <3>1. agg[s] \in [phase : {"clean", "dirty", "added"}, version : 0..MaxVersion,
                      size : 0..MaxSize]
      BY DEF TypeOK
    <3> QED BY <3>1
  <2> QED BY <1>1, <2>1 DEF TypeOK
<1>7. Transactions'
  <2>1. \A h \in open' : \A s \in h : agg'[s].phase = "added"
    <3> SUFFICES ASSUME NEW h \in open', NEW s \in h PROVE agg'[s].phase = "added"
      OBVIOUS
    <3>1. h \in open /\ h # g /\ s \in Sources /\ agg[s].phase = "added"
      BY <1>1 DEF Transactions, TypeOK
    <3>2. s \notin g
      BY <3>1 DEF Transactions
    <3> QED BY <3>1, <3>2, <1>5
  <2> QED BY <1>1, <1>2, <1>3, <2>1 DEF Transactions
<1>8. Dispatching' /\ AttemptsEarned' /\ Bounded'
  BY <1>1, <1>2, Frame DEF dispatchVars, outboxVars
<1> QED BY <1>1, <1>2, <1>3, <1>4, <1>5, <1>6, <1>7, <1>8

\* The log after a commit: one commit more for each source of the transaction.
LEMMA CommitLogs ==
  ASSUME Safe, NEW g \in open, CommitTx(g)
  PROVE  /\ DOMAIN log' = Sources /\ log' = [s \in Sources |-> log'[s]] /\ g \subseteq Sources
         /\ \A s \in Sources \ g : log'[s] = log[s] /\ agg'[s] = agg[s]
         /\ \A s \in g : /\ agg[s].phase = "added" /\ agg'[s].phase = "clean"
                         /\ agg'[s].version = agg[s].version /\ agg'[s].size = agg[s].size
         /\ \A s \in g : /\ [version |-> agg[s].version, size |-> agg[s].size] \in Commits
                         /\ log'[s] \in Seq(Commits) /\ Len(log'[s]) = Len(log[s]) + 1
                         /\ log'[s][Len(log[s]) + 1] = [version |-> agg[s].version,
                                                        size |-> agg[s].size]
                         /\ \A k \in 1..Len(log[s]) : log'[s][k] = log[s][k]
                         /\ Len(log[s]) \in Nat /\ Len(log[s]) < MaxCommits
<1> USE DEF Safe
<1>0. SettleTx(g, "clean")
  BY DEF CommitTx
<1>1. /\ rec' = rec /\ queue' = queue /\ cursors' = cursors /\ receipts' = receipts
      /\ adding' = adding /\ addResult' = addResult /\ mutated' = mutated
      /\ dpc' = dpc /\ batch' = batch /\ sent' = sent /\ failure' = failure
      /\ seen' = seen /\ everDead' = everDead /\ rejections' = rejections
      /\ moved' = moved /\ client' = {} /\ g \subseteq Sources
      /\ \A s \in g : /\ agg[s].phase = "added" /\ agg'[s].phase = "clean"
                      /\ agg'[s].version = agg[s].version /\ agg'[s].size = agg[s].size
      /\ \A s \in Sources \ g : agg'[s] = agg[s]
      /\ agg' \in [Sources -> [phase : {"clean", "dirty", "added"}, version : 0..MaxVersion,
                               size : 0..MaxSize]]
      /\ open' = open \ {g}
  BY <1>0, Settles
<1>2. Transactions' /\ Dispatching' /\ AttemptsEarned' /\ Bounded'
  BY <1>0, Settles
<1>3. /\ \A s \in g : log'[s] = Append(log[s], [version |-> agg[s].version,
                                                 size |-> agg[s].size])
      /\ \A s \in Sources \ g : log'[s] = log[s]
      /\ DOMAIN log' = Sources /\ log' = [s \in Sources |-> log'[s]]
  BY <1>1 DEF CommitTx
<1>4. \A s \in g : /\ [version |-> agg[s].version, size |-> agg[s].size] \in Commits
                   /\ log'[s] \in Seq(Commits) /\ Len(log'[s]) = Len(log[s]) + 1
                   /\ log'[s][Len(log[s]) + 1] = [version |-> agg[s].version,
                                                  size |-> agg[s].size]
                   /\ \A k \in 1..Len(log[s]) : log'[s][k] = log[s][k]
                   /\ Len(log[s]) \in Nat /\ Len(log[s]) < MaxCommits
  <2> SUFFICES ASSUME NEW s \in g
               PROVE  /\ [version |-> agg[s].version, size |-> agg[s].size] \in Commits
                      /\ log'[s] \in Seq(Commits) /\ Len(log'[s]) = Len(log[s]) + 1
                      /\ log'[s][Len(log[s]) + 1] = [version |-> agg[s].version,
                                                     size |-> agg[s].size]
                      /\ \A k \in 1..Len(log[s]) : log'[s][k] = log[s][k]
                      /\ Len(log[s]) \in Nat /\ Len(log[s]) < MaxCommits
    OBVIOUS
  <2> DEFINE c == [version |-> agg[s].version, size |-> agg[s].size]
  <2>1. c \in Commits /\ log[s] \in Seq(Commits) /\ Len(log[s]) < MaxCommits
    BY <1>1 DEF Commits, Shapes, TypeOK
  <2>2. log'[s] = Append(log[s], c)
    BY <1>3
  <2> HIDE DEF c
  <2>3. /\ log'[s] \in Seq(Commits) /\ Len(log'[s]) = Len(log[s]) + 1
        /\ log'[s][Len(log[s]) + 1] = c
        /\ \A k \in 1..Len(log[s]) : log'[s][k] = log[s][k]
        /\ Len(log[s]) \in Nat
    BY <2>1, <2>2, AppendProperties, LenProperties
  <2> QED BY <2>1, <2>3 DEF c
<1> QED BY <1>1, <1>3, <1>4

\* To commit makes no event unrecorded: what was in hand is committed now.
LEMMA CommitKeepsRecorded ==
  ASSUME Safe, NEW g \in open, CommitTx(g)
  PROVE  Recorded \subseteq Recorded'
<1> SUFFICES ASSUME NEW e \in Recorded PROVE e \in Recorded'
  OBVIOUS
<1>1. /\ e \in EventIds /\ e.src \in Sources /\ e.commit \in Nat /\ e.commit >= 1
      /\ Committed(e) \/ (agg[e.src].phase # "clean" /\ e \in InHand(e.src))
  BY Options DEF Recorded, EventIds
<1>2. CASE e.src \notin g
  <2>1. log'[e.src] = log[e.src] /\ agg'[e.src] = agg[e.src]
    BY <1>1, <1>2, CommitLogs
  <2>2. (Committed(e)' <=> Committed(e)) /\ InHand(e.src)' = InHand(e.src)
    BY <2>1 DEF Committed, InHand
  <2> QED BY <1>1, <2>1, <2>2 DEF Recorded
<1>3. CASE e.src \in g
  <2> DEFINE s == e.src
             n == Len(log[s])
  <2>1. /\ Len(log'[s]) = n + 1 /\ n \in Nat
        /\ \A k \in 1..n : log'[s][k] = log[s][k]
        /\ log'[s][n + 1] = [version |-> agg[s].version, size |-> agg[s].size]
        /\ agg[s].phase # "clean"
    BY <1>3, CommitLogs
  <2>2. CASE Committed(e)
    <3>1. e.commit \in 1..n /\ e.seq < log[s][e.commit].size
      BY <1>1, <2>1, <2>2 DEF Committed
    <3>2. e.commit <= n + 1 /\ e.seq < log'[s][e.commit].size
      BY <2>1, <3>1
    <3> QED BY <1>1, <2>1, <3>2 DEF Recorded, Committed
  <2>3. CASE e \in InHand(e.src)
    <3>1. e.commit = n + 1 /\ e.seq < agg[s].size
      BY <1>1, <2>1, <2>3, InHandEvents DEF Safe
    <3>2. log'[s][n + 1].size = agg[s].size
      BY <2>1
    <3>3. e.commit <= Len(log'[s]) /\ e.seq < log'[s][e.commit].size
      BY <2>1, <3>1, <3>2
    <3> QED BY <1>1, <3>3 DEF Recorded, Committed
  <2> QED BY <1>1, <2>2, <2>3
<1> QED BY <1>2, <1>3

\* The transaction commits: what was in hand was kept, and is committed now.
LEMMA SafeCommit ==
  ASSUME Safe, NEW g \in open, CommitTx(g)
  PROVE  Safe'
<1> USE DEF Safe
<1>0. SettleTx(g, "clean")
  BY DEF CommitTx
<1>1. /\ rec' = rec /\ queue' = queue /\ cursors' = cursors /\ receipts' = receipts
      /\ adding' = adding /\ addResult' = addResult /\ mutated' = mutated
      /\ dpc' = dpc /\ batch' = batch /\ sent' = sent /\ failure' = failure
      /\ seen' = seen /\ everDead' = everDead /\ rejections' = rejections
      /\ moved' = moved /\ client' = {} /\ g \subseteq Sources
      /\ \A s \in g : /\ agg[s].phase = "added" /\ agg'[s].phase = "clean"
                      /\ agg'[s].version = agg[s].version /\ agg'[s].size = agg[s].size
      /\ \A s \in Sources \ g : agg'[s] = agg[s]
      /\ agg' \in [Sources -> [phase : {"clean", "dirty", "added"}, version : 0..MaxVersion,
                               size : 0..MaxSize]]
      /\ open' = open \ {g}
  BY <1>0, Settles
<1>2. Transactions' /\ Dispatching' /\ AttemptsEarned' /\ Bounded'
  BY <1>0, Settles
<1>3. /\ \A s \in Sources \ g : log'[s] = log[s]
      /\ DOMAIN log' = Sources /\ log' = [s \in Sources |-> log'[s]]
  BY CommitLogs
<1>4. \A s \in g : /\ [version |-> agg[s].version, size |-> agg[s].size] \in Commits
                   /\ log'[s] \in Seq(Commits) /\ Len(log'[s]) = Len(log[s]) + 1
                   /\ log'[s][Len(log[s]) + 1] = [version |-> agg[s].version,
                                                  size |-> agg[s].size]
                   /\ \A k \in 1..Len(log[s]) : log'[s][k] = log[s][k]
                   /\ Len(log[s]) \in Nat /\ Len(log[s]) < MaxCommits
  BY CommitLogs
<1>5. TypeOK'
  BY <1>1 DEF TypeOK, Pending
<1>6. Shapes'
  <2>1. log' \in [Sources -> Seq(Commits)]
    <3>1. \A s \in Sources : log'[s] \in Seq(Commits)
      BY <1>3, <1>4 DEF Shapes
    <3> QED BY <1>3, <3>1
  <2>2. \A s \in Sources : /\ Len(log'[s]) <= MaxCommits
                           /\ agg'[s].phase # "clean" => /\ Len(log'[s]) < MaxCommits
                                                         /\ agg'[s].size \in 1..MaxSize
    <3> SUFFICES ASSUME NEW s \in Sources
                 PROVE  /\ Len(log'[s]) <= MaxCommits
                        /\ agg'[s].phase # "clean" => /\ Len(log'[s]) < MaxCommits
                                                      /\ agg'[s].size \in 1..MaxSize
      OBVIOUS
    <3>1. CASE s \in g
      <4>1. Len(log'[s]) = Len(log[s]) + 1 /\ Len(log[s]) \in Nat /\ Len(log[s]) < MaxCommits
        BY <1>4, <3>1
      <4> QED BY <1>1, <3>1, <4>1, Options
    <3>2. CASE s \notin g
      BY <1>1, <1>3, <3>2 DEF Shapes
    <3> QED BY <3>1, <3>2
  <2> QED BY <1>1, <2>1, <2>2 DEF Shapes
<1>7. AllKept'
  <2>1. ASSUME NEW e \in EventIds, Committed(e)' PROVE Kept(e)
    <3>1. CASE Committed(e)
      BY <3>1 DEF AllKept, NoEventLost, Kept
    <3>2. CASE ~Committed(e)
      <4>1. e.src \in g /\ e.commit \in Nat /\ e.src \in Sources
        BY <1>3, <2>1, <3>2 DEF Committed, EventIds
      <4>0. /\ e.commit <= Len(log'[e.src]) /\ e.seq < log'[e.src][e.commit].size
            /\ ~(e.commit <= Len(log[e.src]) /\ e.seq < log[e.src][e.commit].size)
            /\ e.commit \in Nat /\ e.commit >= 1
        BY <2>1, <3>2, Options DEF Committed, EventIds
      <4>2. e.commit = Len(log[e.src]) + 1
        <5>1. Len(log'[e.src]) = Len(log[e.src]) + 1 /\ Len(log[e.src]) \in Nat
          BY <1>4, <4>1
        <5>2. e.commit \in 1..Len(log[e.src]) => log'[e.src][e.commit] = log[e.src][e.commit]
          BY <1>4, <4>1
        <5> QED BY <4>0, <5>1, <5>2
      <4>3. e.seq < agg[e.src].size
        <5>1. log'[e.src][Len(log[e.src]) + 1].size = agg[e.src].size
          <6>1. log'[e.src][Len(log[e.src]) + 1] = [version |-> agg[e.src].version,
                                                    size |-> agg[e.src].size]
            BY <1>4, <4>1
          <6> QED BY <6>1
        <5> QED BY <4>0, <4>2, <5>1
      <4>4. e \in InHand(e.src)
        BY <4>1, <4>2, <4>3, InHandIs, Options DEF TypeOK
      <4> QED BY <1>1, <4>1, <4>4 DEF AllKept
    <3> QED BY <3>1, <3>2
  <2>2. NoEventLost'
    BY <1>1, <2>1 DEF NoEventLost, Kept, Pending, Dead, Published
  <2>3. \A s \in Sources : agg'[s].phase = "added" => \A e \in InHand(s)' : Kept(e)'
    <3> SUFFICES ASSUME NEW s \in Sources, agg'[s].phase = "added", NEW e \in InHand(s)'
                 PROVE  Kept(e)'
      OBVIOUS
    <3>1. s \notin g
      BY <1>1
    <3>2. agg[s].phase = "added" /\ e \in InHand(s)
      <4>1. agg'[s] = agg[s] /\ log'[s] = log[s]
        BY <1>1, <1>3, <3>1
      <4> QED BY <4>1 DEF InHand
    <3> QED BY <1>1, <3>2, Frame DEF AllKept
  <2> QED BY <1>1, <2>2, <2>3 DEF AllKept
<1>8. Genuine'
  <2>1. Recorded \subseteq Recorded'
    BY CommitKeepsRecorded
  <2>2. Stored' = Stored /\ Published' = Published /\ Adding' = Adding
    BY <1>1 DEF Stored, Pending, Dead, Published, Adding
  <2> QED BY <1>1, <2>1, <2>2, GenuineStays
<1> QED BY <1>2, <1>5, <1>6, <1>7, <1>8

\* It rolls back: the outbox keeps the records, the aggregates their events.
LEMMA SafeRollback ==
  ASSUME Safe, NEW g \in open, RollbackTx(g)
  PROVE  Safe'
<1> USE DEF Safe
<1>0. SettleTx(g, "dirty") /\ log' = log
  BY DEF RollbackTx
<1>1. /\ rec' = rec /\ queue' = queue /\ cursors' = cursors /\ receipts' = receipts
      /\ adding' = adding /\ addResult' = addResult /\ mutated' = mutated
      /\ dpc' = dpc /\ batch' = batch /\ sent' = sent /\ failure' = failure
      /\ seen' = seen /\ everDead' = everDead /\ rejections' = rejections
      /\ moved' = moved /\ client' = {} /\ g \subseteq Sources
      /\ \A s \in g : /\ agg[s].phase = "added" /\ agg'[s].phase = "dirty"
                      /\ agg'[s].version = agg[s].version /\ agg'[s].size = agg[s].size
      /\ \A s \in Sources \ g : agg'[s] = agg[s]
      /\ agg' \in [Sources -> [phase : {"clean", "dirty", "added"}, version : 0..MaxVersion,
                               size : 0..MaxSize]]
      /\ open' = open \ {g}
  BY <1>0, Settles
<1>2. Transactions' /\ Dispatching' /\ AttemptsEarned' /\ Bounded'
  BY <1>0, Settles
<1>3. TypeOK'
  BY <1>1 DEF TypeOK, Pending
<1>4. Shapes'
  BY <1>0, <1>1 DEF Shapes
<1>5. AllKept'
  <2>1. NoEventLost'
    BY <1>0, <1>1, Frame DEF AllKept, NoEventLost, Pending, Dead, Published
  <2>2. \A s \in Sources : agg'[s].phase = "added" => \A e \in InHand(s)' : Kept(e)'
    <3> SUFFICES ASSUME NEW s \in Sources, agg'[s].phase = "added", NEW e \in InHand(s)'
                 PROVE  Kept(e)'
      OBVIOUS
    <3>1. s \notin g
      BY <1>1
    <3>2. agg[s].phase = "added" /\ e \in InHand(s)
      BY <1>0, <1>1, <3>1 DEF InHand
    <3> QED BY <1>1, <3>2, Frame DEF AllKept
  <2> QED BY <1>1, <2>1, <2>2 DEF AllKept
<1>6. Genuine'
  <2>1. Recorded' = Recorded
    <3>1. \A s \in Sources : /\ agg'[s].size = agg[s].size
                             /\ agg'[s].phase = "clean" <=> agg[s].phase = "clean"
      BY <1>1
    <3> QED BY <1>0, <3>1, RecordedSame
  <2>2. Stored' = Stored /\ Published' = Published /\ Adding' = Adding
    BY <1>1 DEF Stored, Pending, Dead, Published, Adding
  <2> QED BY <1>1, <2>1, <2>2, GenuineStays
<1> QED BY <1>2, <1>3, <1>4, <1>5, <1>6

\* The caller of add() resumes: it may commit only what was added.
LEMMA SafeAddSettles ==
  ASSUME Safe, AddSettles
  PROVE  Safe'
<1> USE DEF Safe
<1>1. /\ addResult \in {"added", "rejected"} /\ addResult' = "none" /\ mutated' = FALSE
      /\ client' = {}
      /\ rec' = rec /\ queue' = queue /\ cursors' = cursors /\ receipts' = receipts
      /\ adding' = adding /\ log' = log
      /\ dpc' = dpc /\ batch' = batch /\ sent' = sent /\ failure' = failure
      /\ seen' = seen /\ everDead' = everDead /\ rejections' = rejections /\ moved' = moved
  BY DEF AddSettles, dispatchVars, historyVars
<1>2. Dispatching' /\ AttemptsEarned' /\ Bounded'
  BY <1>1, Frame DEF dispatchVars
<1>5. Stored' = Stored /\ Published' = Published /\ Adding' = Adding
  BY <1>1 DEF Stored, Pending, Dead, Published, Adding
<1>3. CASE client # {} /\ addResult = "added"
  <2>1. /\ open' = open \cup {client}
        /\ agg' = [s \in Sources |-> IF s \in client
                                     THEN [agg[s] EXCEPT !.phase = "added"] ELSE agg[s]]
    BY <1>3 DEF AddSettles
  <2>2. client \subseteq Sources /\ \A s \in client : agg[s].phase = "dirty"
    BY DEF TypeOK, Transactions
  <2>3. /\ agg' \in [Sources -> [phase : {"clean", "dirty", "added"}, version : 0..MaxVersion,
                                 size : 0..MaxSize]]
        /\ \A s \in client : /\ agg'[s].phase = "added" /\ agg'[s].size = agg[s].size
                             /\ agg'[s].version = agg[s].version
        /\ \A s \in Sources \ client : agg'[s] = agg[s]
    <3>1. ASSUME NEW s \in Sources
          PROVE  /\ [agg[s] EXCEPT !.phase = "added"]
                       \in [phase : {"clean", "dirty", "added"}, version : 0..MaxVersion,
                            size : 0..MaxSize]
                 /\ [agg[s] EXCEPT !.phase = "added"].phase = "added"
                 /\ [agg[s] EXCEPT !.phase = "added"].size = agg[s].size
                 /\ [agg[s] EXCEPT !.phase = "added"].version = agg[s].version
      <4>1. agg[s] \in [phase : {"clean", "dirty", "added"}, version : 0..MaxVersion,
                        size : 0..MaxSize]
        BY DEF TypeOK
      <4> QED BY <4>1
    <3> QED BY <2>1, <2>2, <3>1 DEF TypeOK
  <2>4. TypeOK'
    <3>1. client' \subseteq Sources /\ open' \subseteq SUBSET Sources /\ mutated' \in BOOLEAN
      <4>1. open \subseteq SUBSET Sources
        BY DEF TypeOK
      <4>2. open' \subseteq SUBSET Sources
        BY <2>1, <2>2, <4>1
      <4> QED BY <1>1, <4>2
    <3>2. \A e : Pending(e) <=> Pending(e)'
      BY <1>1 DEF Pending
    <3> QED BY <1>1, <2>3, <3>1, <3>2 DEF TypeOK
  <2>5. Shapes'
    BY <1>1, <2>2, <2>3 DEF Shapes
  <2>6. Transactions'
    <3>1. \A g \in open' : \A s \in g : agg'[s].phase = "added"
      BY <2>1, <2>2, <2>3 DEF Transactions, TypeOK
    <3>2. \A g, h \in open' : g \cap h # {} => g = h
      <4>1. \A g \in open : g \cap client = {}
        BY <2>2 DEF Transactions
      <4> QED BY <2>1, <4>1 DEF Transactions
    <3> QED BY <1>1, <3>1, <3>2 DEF Transactions
  <2>7. AllKept'
    <3>1. NoEventLost'
      BY <1>1, Frame DEF AllKept, NoEventLost, Pending, Dead, Published
    <3>2. \A s \in Sources : agg'[s].phase = "added" => \A e \in InHand(s)' : Kept(e)'
      <4> SUFFICES ASSUME NEW s \in Sources, agg'[s].phase = "added", NEW e \in InHand(s)'
                   PROVE  Kept(e)'
        OBVIOUS
      <4>1. e \in InHand(s)
        BY <1>1, <2>3 DEF InHand
      <4>2. Kept(e)
        BY <1>3, <2>3, <4>1 DEF AllKept
      <4> QED BY <1>1, <4>2, Frame
    <3> QED BY <1>1, <3>1, <3>2 DEF AllKept
  <2>8. Genuine'
    <3>1. \A s \in Sources : /\ agg'[s].size = agg[s].size
                             /\ agg'[s].phase = "clean" <=> agg[s].phase = "clean"
      BY <2>2, <2>3
    <3>2. Recorded' = Recorded
      BY <1>1, <3>1, RecordedSame
    <3> QED BY <1>1, <1>5, <3>2, GenuineStays
  <2> QED BY <1>2, <2>4, <2>5, <2>6, <2>7, <2>8
<1>4. CASE ~(client # {} /\ addResult = "added")
  <2>1. open' = open /\ agg' = agg
    BY <1>4 DEF AddSettles
  <2>2. TypeOK' /\ Shapes' /\ Transactions'
    <3>1. client' \subseteq Sources /\ mutated' \in BOOLEAN
      BY <1>1
    <3>2. \A e : Pending(e) <=> Pending(e)'
      BY <1>1 DEF Pending
    <3>3. TypeOK'
      BY <1>1, <2>1, <3>1, <3>2 DEF TypeOK
    <3>4. Shapes' /\ Transactions'
      BY <1>1, <2>1 DEF Shapes, Transactions
    <3> QED BY <3>3, <3>4
  <2>3. AllKept'
    <3>1. NoEventLost'
      BY <1>1, Frame DEF AllKept, NoEventLost, Pending, Dead, Published
    <3>2. \A s \in Sources : agg'[s].phase = "added" => \A e \in InHand(s)' : Kept(e)'
      BY <1>1, <2>1, Frame DEF AllKept, InHand
    <3> QED BY <1>1, <3>1, <3>2 DEF AllKept
  <2>4. Genuine'
    <3>1. Recorded' = Recorded
      BY <1>1, <2>1, RecordedSame
    <3> QED BY <1>1, <1>5, <3>1, GenuineStays
  <2> QED BY <1>2, <2>2, <2>3, <2>4
<1> QED BY <1>3, <1>4

\* What a finite set is mapped to is finite.
LEMMA ImageFinite ==
  ASSUME NEW D, IsFiniteSet(D), NEW f, DOMAIN f = D, NEW S, S \subseteq {f[x] : x \in D},
         f = [x \in D |-> f[x]]
  PROVE  IsFiniteSet(S)
<1> DEFINE T == {f[x] : x \in D}
<1>1. f \in Surjection(D, T)
  BY DEF Surjection
<1>2. IsFiniteSet(T)
  <2> HIDE DEF T
  <2> QED BY <1>1, FS_Surjection
<1> HIDE DEF T
<1>3. S \in SUBSET T
  BY DEF T
<1> QED BY <1>2, <1>3, FS_Subset

\* The capacity check of add() covers all that its loop may store.
LEMMA Begins ==
  ASSUME Safe, NEW b \in Seq(Candidate), BeginAdd(b)
  PROVE  /\ mutated' = FALSE
         /\ \/ addResult' = "running" /\ adding' = b
            \/ addResult' = "rejected" /\ adding' = <<>>
         /\ adding' \in Seq(Candidate)
         /\ rec' = rec /\ queue' = queue /\ cursors' = cursors /\ receipts' = receipts
         /\ Bounded'
<1> USE DEF Safe
<1>1. /\ mutated' = FALSE
      /\ IF ReceiptIntegrity(b) /\ PositionIntegrity(b) /\ WithinLimits(b)
         THEN adding' = b /\ addResult' = "running"
         ELSE adding' = <<>> /\ addResult' = "rejected"
      /\ rec' = rec /\ queue' = queue /\ cursors' = cursors /\ receipts' = receipts
  BY DEF BeginAdd
<1>2. adding' \in Seq(Candidate)
  BY <1>1, EmptySeq
<1>3. CASE addResult' # "running"
  BY <1>1, <1>2, <1>3, Frame
<1>4. CASE addResult' = "running"
  <2> DEFINE fresh == {c \in {b[i] : i \in DOMAIN b} :
                          ~Pending(c.id) /\ ~Dead(c.id) /\ ~Dispatched(c.id)}
             ids == {c.id : c \in fresh}
             heads == {s \in {c.id.src : c \in fresh} : cursors[s] = NoCursor}
  <2>1. adding' = b /\ WithinLimits(b)
    BY <1>1, <1>4
  <2>2. /\ Cardinality(Stored) + Cardinality(ids) <= MaxRecords
        /\ Cardinality(Heads) + Cardinality(heads) <= MaxSources
    BY <2>1 DEF WithinLimits, Stored, Heads
  <2>3. DOMAIN b = 1..Len(b) /\ Len(b) \in Nat /\ IsFiniteSet(DOMAIN b)
        /\ \A i \in DOMAIN b : b[i] \in Candidate
    <3>1. DOMAIN b = 1..Len(b) /\ Len(b) \in Nat /\ \A i \in DOMAIN b : b[i] \in Candidate
      BY LenProperties, ElementOfSeq
    <3> QED BY <3>1, FS_Interval
  <2>4. IsFiniteSet(ids)
    <3> DEFINE f == [i \in DOMAIN b |-> b[i].id]
    <3>1. ids \subseteq {f[i] : i \in DOMAIN b}
      OBVIOUS
    <3> HIDE DEF ids
    <3> QED BY <2>3, <3>1, ImageFinite
  <2>5. IsFiniteSet(heads)
    <3> DEFINE f == [i \in DOMAIN b |-> b[i].id.src]
    <3>1. heads \subseteq {f[i] : i \in DOMAIN b}
      OBVIOUS
    <3> HIDE DEF heads
    <3> QED BY ZenonT(60), <2>3, <3>1, ImageFinite
  <2>6. /\ Stored' = Stored /\ Heads' = Heads
        /\ Adding' = {b[i].id : i \in DOMAIN b}
        /\ \A e : Dispatched(e)' <=> Dispatched(e)
        /\ \A e : (Pending(e)' <=> Pending(e)) /\ (Dead(e)' <=> Dead(e))
    BY <1>1, <2>1 DEF Stored, Heads, Pending, Dead, Adding, Dispatched, Receipt
  <2>7. Stored \cup Fresh' = Stored \cup ids
    <3>1. Fresh' = {e \in {b[i].id : i \in DOMAIN b} : ~Dispatched(e)}
      BY <2>6 DEF Fresh
    <3>2. \A i \in DOMAIN b : b[i].id \in EventIds
      BY <2>3 DEF Candidate
    <3> QED BY <3>1, <3>2 DEF Stored
  <2>8. Heads \cup FreshHeads' = Heads \cup heads
    <3>1. FreshHeads' = {e.src : e \in {e \in Fresh' : ~Pending(e) /\ ~Dead(e)}}
      BY <2>6 DEF FreshHeads
    <3>2. {e \in Fresh' : ~Pending(e) /\ ~Dead(e)} = ids
      BY <2>6 DEF Fresh
    <3>3. \A i \in DOMAIN b : b[i].id.src \in Sources
      BY <2>3 DEF Candidate, EventIds
    <3>4. FreshHeads' = {c.id.src : c \in fresh}
      BY <3>1, <3>2
    <3> QED BY <3>3, <3>4 DEF Heads
  <2>9. Cardinality(Stored \cup ids) <= MaxRecords
    <3> HIDE DEF ids
    <3>1. /\ Cardinality(Stored \cup ids)
               = Cardinality(Stored) + Cardinality(ids) - Cardinality(Stored \cap ids)
      BY <2>4, FS_Union DEF Bounded
    <3>2. IsFiniteSet(Stored \cap ids)
      BY FS_Subset DEF Bounded
    <3>3. /\ Cardinality(Stored) \in Nat /\ Cardinality(ids) \in Nat
          /\ Cardinality(Stored \cap ids) \in Nat
      BY <2>4, <3>2, FS_CardinalityType DEF Bounded
    <3> QED BY <2>2, <3>1, <3>3, Options
  <2>10. Cardinality(Heads \cup heads) <= MaxSources
    <3> HIDE DEF heads
    <3>1. /\ Cardinality(Heads \cup heads)
               = Cardinality(Heads) + Cardinality(heads) - Cardinality(Heads \cap heads)
      BY <2>5, FS_Union DEF Bounded
    <3>2. IsFiniteSet(Heads \cap heads)
      BY FS_Subset DEF Bounded
    <3>3. /\ Cardinality(Heads) \in Nat /\ Cardinality(heads) \in Nat
          /\ Cardinality(Heads \cap heads) \in Nat
      BY <2>5, <3>2, FS_CardinalityType DEF Bounded
    <3> QED BY <2>2, <3>1, <3>3, Options
  <2> HIDE DEF fresh, ids, heads
  <2>11. WithinBounds' /\ \A e \in Stored' : cursors'[e.src] # NoCursor
    BY <1>1, <2>6 DEF Bounded, WithinBounds, Stored, Heads
  <2>12. Bounded'
    BY <2>6, <2>7, <2>8, <2>9, <2>10, <2>11 DEF Bounded
  <2> QED BY <1>1, <1>2, <2>12
<1> QED BY <1>3, <1>4

\* The candidates of a source are its events in hand.
LEMMA CandidatesAre ==
  ASSUME TypeOK, Shapes, NEW s \in Sources, agg[s].phase # "clean"
  PROVE  /\ Candidates(s) \in Seq(Candidate) /\ Len(Candidates(s)) = agg[s].size
         /\ \A i \in 1..agg[s].size :
               Candidates(s)[i] = [id |-> Id(s, Len(log[s]) + 1, i - 1),
                                   version |-> agg[s].version, size |-> agg[s].size]
         /\ {c.id : c \in Entries(Candidates(s))} = InHand(s)
<1> DEFINE c(i) == [id |-> Id(s, Len(log[s]) + 1, i - 1),
                    version |-> agg[s].version, size |-> agg[s].size]
           n == agg[s].size
<1>1. /\ n \in Nat /\ n \in 1..MaxSize /\ agg[s].version \in 0..MaxVersion
      /\ Len(log[s]) + 1 \in 1..MaxCommits
  BY SMTT(40), LenProperties, Options DEF TypeOK, Shapes
<1>2. \A i \in 1..n : c(i) \in Candidate
  BY <1>1, Options DEF Candidate, EventIds, Id
<1>3. Candidates(s) = [i \in 1..n |-> c(i)]
  BY DEF Candidates
<1> HIDE DEF n
<1>4. Candidates(s) \in [1..n -> Candidate]
  <2> HIDE DEF c
  <2> QED BY <1>2, <1>3
<1>5. Candidates(s) \in Seq(Candidate) /\ Len(Candidates(s)) = n /\ DOMAIN Candidates(s) = 1..n
  BY <1>1, <1>4
<1>6. {x.id : x \in Entries(Candidates(s))} = InHand(s)
  <2>1. \A i \in 1..n : Candidates(s)[i].id = Id(s, Len(log[s]) + 1, i - 1)
    BY <1>3
  <2>2. \A i \in 1..n : i - 1 \in 0..(n - 1)
    BY <1>1
  <2>3. \A k \in 0..(n - 1) : k + 1 \in 1..n /\ (k + 1) - 1 = k
    BY <1>1
  <2>4. InHand(s) = {Id(s, Len(log[s]) + 1, k) : k \in 0..(n - 1)}
    BY DEF InHand, n
  <2> HIDE DEF c
  <2>5. {x.id : x \in Entries(Candidates(s))} = {Candidates(s)[i].id : i \in 1..n}
    BY <1>5 DEF Entries
  <2>6. ASSUME NEW k \in 0..(n - 1)
        PROVE  Id(s, Len(log[s]) + 1, k) \in {Candidates(s)[i].id : i \in 1..n}
    BY <2>1, <2>3
  <2> QED BY <2>1, <2>2, <2>4, <2>5, <2>6
<1> QED BY <1>3, <1>5, <1>6 DEF n

\* withCommit hands the events of its aggregates to add().
LEMMA SafeHarvest ==
  ASSUME Safe, NEW s \in Sources, NEW t \in Sources, Harvest(s, t)
  PROVE  Safe'
<1> USE DEF Safe
<1> DEFINE b == Candidates(s) \o (IF s = t THEN <<>> ELSE Candidates(t))
<1>1. /\ Quiet /\ client = {} /\ agg[s].phase = "dirty" /\ agg[t].phase = "dirty"
      /\ BeginAdd(b) /\ client' = {s, t}
      /\ agg' = agg /\ log' = log /\ open' = open
      /\ dpc' = dpc /\ batch' = batch /\ sent' = sent /\ failure' = failure
      /\ seen' = seen /\ everDead' = everDead /\ rejections' = rejections /\ moved' = moved
  BY DEF Harvest, dispatchVars, historyVars
<1>2. b \in Seq(Candidate) /\ {c.id : c \in Entries(b)} = InHand(s) \cup InHand(t)
  <2>1. /\ Candidates(s) \in Seq(Candidate) /\ {c.id : c \in Entries(Candidates(s))} = InHand(s)
        /\ Candidates(t) \in Seq(Candidate) /\ {c.id : c \in Entries(Candidates(t))} = InHand(t)
    BY <1>1, CandidatesAre
  <2>2. CASE s = t
    <3>1. b = Candidates(s)
      BY <2>1, <2>2, ConcatEmptySeq
    <3> HIDE DEF b
    <3> QED BY <2>1, <2>2, <3>1
  <2>3. CASE s # t
    <3>1. b = Candidates(s) \o Candidates(t)
      BY <2>3
    <3> HIDE DEF b
    <3>2. b \in Seq(Candidate) /\ Entries(b) = Entries(Candidates(s)) \cup Entries(Candidates(t))
      BY <2>1, <3>1, EntriesConcat
    <3> QED BY <2>1, <3>2
  <2> QED BY <2>2, <2>3
<1> HIDE DEF b
<1>3. /\ mutated' = FALSE
      /\ \/ addResult' = "running" /\ adding' = b
         \/ addResult' = "rejected" /\ adding' = <<>>
      /\ adding' \in Seq(Candidate)
      /\ rec' = rec /\ queue' = queue /\ cursors' = cursors /\ receipts' = receipts
      /\ Bounded'
  BY <1>1, <1>2, Begins
<1>4. Dispatching' /\ AttemptsEarned'
  BY <1>1, <1>3, Frame DEF dispatchVars
<1>5. TypeOK'
  <2>1. client' \subseteq Sources /\ mutated' \in BOOLEAN
        /\ addResult' \in {"none", "running", "added", "rejected"}
    BY <1>1, <1>3
  <2>2. \A e : Pending(e) <=> Pending(e)'
    BY <1>3 DEF Pending
  <2> QED BY <1>1, <1>3, <2>1, <2>2 DEF TypeOK
<1>6. Shapes' /\ Transactions'
  BY <1>1, <1>3 DEF Shapes, Transactions, Quiet
<1>7. AllKept'
  <2>1. NoEventLost'
    BY <1>1, <1>3, Frame DEF AllKept, NoEventLost, Pending, Dead, Published
  <2>2. \A u \in Sources : agg'[u].phase = "added" => \A e \in InHand(u)' : Kept(e)'
    BY <1>1, <1>3, Frame DEF AllKept, InHand
  <2>3. ASSUME NEW u \in client', NEW e \in InHand(u)', addResult' = "running"
        PROVE  e \in Adding'
    <3>1. e \in InHand(s) \cup InHand(t)
      BY <1>1, <2>3 DEF InHand
    <3>2. adding' = b
      BY <1>3, <2>3
    <3> QED BY <1>2, <3>1, <3>2 DEF Adding, Entries
  <2>4. addResult' # "added"
    BY <1>3
  <2> QED BY <2>1, <2>2, <2>3, <2>4 DEF AllKept
<1>8. Genuine'
  <2>1. Recorded' = Recorded
    BY <1>1, RecordedSame
  <2>2. Stored' = Stored /\ Published' = Published
    BY <1>1, <1>3 DEF Stored, Pending, Dead, Published
  <2>3. Adding' \subseteq InHand(s) \cup InHand(t)
    <3>1. CASE adding' = b
      BY <1>2, <3>1 DEF Adding, Entries
    <3>2. CASE adding' = <<>>
      BY <3>2, EmptySeq DEF Adding
    <3> QED BY <1>3, <3>1, <3>2
  <2>4. InHand(s) \cup InHand(t) \subseteq Recorded
    BY <1>1, InHandEvents DEF Recorded
  <2> QED BY <1>1, <2>1, <2>2, <2>3, <2>4 DEF Genuine
<1> QED BY <1>3, <1>4, <1>5, <1>6, <1>7, <1>8

\* A batch of at most two candidates.
LEMMA ReaddBatch ==
  ASSUME NEW d, NEW e, NEW x, NEW y
  PROVE  Entries(<<x>> \o (IF d = e THEN <<>> ELSE <<y>>)) \subseteq {x, y}
<1>1. /\ <<x>> \in Seq({x, y}) /\ <<y>> \in Seq({x, y}) /\ <<>> \in Seq({x, y})
  BY EmptySeq
<1>2. \A z : Entries(<<z>>) = {z}
  <2> TAKE z
  <2>1. DOMAIN <<z>> = {1} /\ <<z>>[1] = z
    OBVIOUS
  <2> QED BY <2>1 DEF Entries
<1>4. CASE d = e
  <2>1. <<x>> \o <<>> = <<x>>
    BY <1>1, ConcatEmptySeq
  <2> QED BY <1>2, <1>4, <2>1
<1>5. CASE d # e
  <2>1. Entries(<<x>> \o <<y>>) = Entries(<<x>>) \cup Entries(<<y>>)
    BY ZenonT(60), <1>1, EntriesConcat
  <2> QED BY <1>2, <1>5, <2>1
<1> QED BY <1>4, <1>5

\* The exact candidates of committed events.
LEMMA ExactTypes ==
  ASSUME Shapes, NEW d \in EventIds, NEW e \in EventIds, Committed(d), Committed(e)
  PROVE  /\ Exact(d) \in Candidate /\ Exact(e) \in Candidate
         /\ <<Exact(d)>> \o (IF d = e THEN <<>> ELSE <<Exact(e)>>) \in Seq(Candidate)
<1>1. ASSUME NEW f \in EventIds, Committed(f) PROVE Exact(f) \in Candidate
  <2>1. f.commit \in 1..Len(log[f.src]) /\ log[f.src] \in Seq(Commits)
    BY <1>1, Options, LenProperties DEF Committed, EventIds, Shapes
  <2>2. log[f.src][f.commit] \in Commits
    BY <2>1, ElementOfSeq
  <2> QED BY <1>1, <2>2, Options DEF Exact, Candidate, Commits
<1> DEFINE x == Exact(d)
           y == Exact(e)
<1>2. x \in Candidate /\ y \in Candidate
  BY <1>1
<1> HIDE DEF x, y
<1>3. <<x>> \in Seq(Candidate) /\ <<y>> \in Seq(Candidate) /\ <<>> \in Seq(Candidate)
  BY <1>2, EmptySeq
<1>4. <<x>> \o (IF d = e THEN <<>> ELSE <<y>>) \in Seq(Candidate)
  BY <1>3, ConcatProperties
<1> QED BY <1>4 DEF x, y

\* The operator adds committed events again.
LEMMA SafeReadd ==
  ASSUME Safe, NEW d \in EventIds, NEW e \in EventIds, Readd(d, e)
  PROVE  Safe'
<1> USE DEF Safe
<1> DEFINE b == <<Exact(d)>> \o (IF d = e THEN <<>> ELSE <<Exact(e)>>)
<1>1. /\ Quiet /\ client = {} /\ Committed(d) /\ Committed(e)
      /\ BeginAdd(b) /\ client' = {}
      /\ agg' = agg /\ log' = log /\ open' = open
      /\ dpc' = dpc /\ batch' = batch /\ sent' = sent /\ failure' = failure
      /\ seen' = seen /\ everDead' = everDead /\ rejections' = rejections /\ moved' = moved
  BY DEF Readd, writeVars, dispatchVars, historyVars
<1>3. b \in Seq(Candidate)
  BY <1>1, ExactTypes
<1> HIDE DEF b
<1>4. /\ mutated' = FALSE /\ addResult' \in {"running", "rejected"}
      /\ adding' \in Seq(Candidate)
      /\ rec' = rec /\ queue' = queue /\ cursors' = cursors /\ receipts' = receipts
      /\ Bounded'
  BY <1>1, <1>3, Begins
<1>5. Dispatching' /\ AttemptsEarned'
  BY <1>1, <1>4, Frame DEF dispatchVars
<1>6. TypeOK'
  <2>1. client' \subseteq Sources /\ mutated' \in BOOLEAN
        /\ addResult' \in {"none", "running", "added", "rejected"}
    BY <1>1, <1>4
  <2>2. \A x : Pending(x) <=> Pending(x)'
    BY <1>4 DEF Pending
  <2> QED BY SMTT(40), <1>1, <1>4, <2>1, <2>2 DEF TypeOK
<1>7. Shapes' /\ Transactions'
  BY <1>1, <1>4 DEF Shapes, Transactions, Quiet
<1>8. AllKept'
  <2>1. NoEventLost'
    BY <1>1, <1>4, Frame DEF AllKept, NoEventLost, Pending, Dead, Published
  <2>2. \A u \in Sources : agg'[u].phase = "added" => \A x \in InHand(u)' : Kept(x)'
    BY <1>1, <1>4, Frame DEF AllKept, InHand
  <2> QED BY <1>1, <2>1, <2>2 DEF AllKept
<1>9. Genuine'
  <2>1. Recorded' = Recorded
    BY <1>1, RecordedSame
  <2>2. Stored' = Stored /\ Published' = Published
    BY <1>1, <1>4 DEF Stored, Pending, Dead, Published
  <2>3. Adding' \subseteq {d, e}
    <3>1. CASE adding' = b
      <4>1. Entries(b) \subseteq {Exact(d), Exact(e)}
        <5> DEFINE x == Exact(d)
                   y == Exact(e)
        <5>1. b = <<x>> \o (IF d = e THEN <<>> ELSE <<y>>)
          BY DEF b
        <5> HIDE DEF x, y
        <5>2. Entries(b) \subseteq {x, y}
          BY <5>1, ReaddBatch
        <5> QED BY <5>2 DEF x, y
      <4> QED BY <3>1, <4>1 DEF Adding, Entries, Exact
    <3>2. CASE adding' = <<>>
      BY <3>2, EmptySeq DEF Adding
    <3> QED BY <1>1, <1>3, <3>1, <3>2, Begins
  <2>4. {d, e} \subseteq Recorded
    BY <1>1 DEF Recorded
  <2> QED BY <1>1, <2>1, <2>2, <2>3, <2>4 DEF Genuine
<1> QED BY <1>4, <1>5, <1>6, <1>7, <1>8, <1>9

\* What is kept stays kept, if nothing that is stored is dropped unpublished.
LEMMA AllKeptStays ==
  ASSUME Safe, UNCHANGED <<log, agg, client>>,
         \A e \in EventIds : Kept(e) => Kept(e)',
         addResult' = "running" => /\ addResult = "running"
                                   /\ \A e \in Adding : e \in Adding' \/ Kept(e)',
         addResult' = "added" => addResult = "added" \/ (addResult = "running" /\ Adding = {})
  PROVE  AllKept'
<1> USE DEF Safe
<1>1. /\ \A s \in Sources : InHand(s)' = InHand(s)
      /\ \A e : Committed(e)' <=> Committed(e)
  BY DEF InHand, Committed
<1>2. \A s \in Sources : agg[s].phase # "clean" => InHand(s) \subseteq EventIds
  BY InHandEvents
<1>3. NoEventLost'
  <2>1. \A e \in EventIds : Committed(e)' => Kept(e)'
    BY <1>1 DEF AllKept, NoEventLost, Kept
  <2> QED BY <2>1 DEF NoEventLost, Kept, Pending, Dead, Published
<1>4. \A s \in Sources : agg'[s].phase = "added" => \A e \in InHand(s)' : Kept(e)'
  BY <1>1, <1>2 DEF AllKept
<1>5. \A s \in client : \A e \in InHand(s) : e \in EventIds
  BY <1>2 DEF Transactions, TypeOK
<1>6. ASSUME NEW s \in client', NEW e \in InHand(s)', addResult' = "running"
      PROVE  Kept(e)' \/ e \in Adding'
  <2>1. s \in client /\ e \in InHand(s) /\ e \in EventIds /\ addResult = "running"
    BY <1>1, <1>5, <1>6 DEF TypeOK
  <2>2. Kept(e) \/ e \in Adding
    BY <2>1 DEF AllKept
  <2> QED BY <1>6, <2>1, <2>2
<1>7. ASSUME NEW s \in client', NEW e \in InHand(s)', addResult' = "added"
      PROVE  Kept(e)'
  <2>1. s \in client /\ e \in InHand(s) /\ e \in EventIds
    BY <1>1, <1>5, <1>7 DEF TypeOK
  <2>2. Kept(e)
    BY <2>1, <1>7 DEF AllKept
  <2> QED BY <2>1, <2>2
<1> QED BY <1>3, <1>4, <1>6, <1>7 DEF AllKept

\* add() takes the candidates one by one.
LEMMA TakesOne ==
  ASSUME adding \in Seq(Candidate), adding # <<>>
  PROVE  /\ Head(adding) \in Candidate /\ Head(adding) = adding[1]
         /\ Tail(adding) \in Seq(Candidate) /\ Len(Tail(adding)) = Len(adding) - 1
         /\ Len(adding) \in Nat \ {0} /\ DOMAIN adding = 1..Len(adding)
         /\ \A i \in 1..(Len(adding) - 1) : Tail(adding)[i] = adding[i + 1]
         /\ adding' = Tail(adding) => Adding = {Head(adding).id} \cup Adding'
<1>1. /\ Tail(adding) \in Seq(Candidate) /\ Len(Tail(adding)) = Len(adding) - 1
      /\ Head(adding) \in Candidate /\ Head(adding) = adding[1]
      /\ \A i \in 1..(Len(adding) - 1) : Tail(adding)[i] = adding[i + 1]
  BY HeadTailProperties
<1>2. Len(adding) \in Nat \ {0} /\ DOMAIN adding = 1..Len(adding)
  BY EmptySeq, LenProperties
<1>3. ASSUME adding' = Tail(adding) PROVE Adding = {Head(adding).id} \cup Adding'
  <2> DEFINE n == Len(adding)
             t == Tail(adding)
  <2>1. DOMAIN t = 1..(n - 1)
    BY <1>1, <1>2, LenProperties
  <2>2. /\ \A i \in 1..(n - 1) : i + 1 \in 1..n
        /\ \A i \in 1..n : i = 1 \/ (i - 1 \in 1..(n - 1) /\ (i - 1) + 1 = i)
        /\ 1 \in 1..n
    BY <1>2
  <2> HIDE DEF n, t
  <2>3. Adding = {adding[i].id : i \in 1..n} /\ Adding' = {t[i].id : i \in 1..(n - 1)}
    BY <1>2, <1>3, <2>1 DEF Adding, n, t
  <2>4. \A i \in 1..(n - 1) : t[i] = adding[i + 1]
    BY <1>1 DEF t, n
  <2>5. Adding' \subseteq Adding
    BY <2>2, <2>3, <2>4
  <2>6. Head(adding).id \in Adding
    BY <1>1, <2>2, <2>3
  <2>7. \A i \in 1..n : adding[i].id = Head(adding).id \/ adding[i].id \in Adding'
    BY <1>1, <2>2, <2>3, <2>4
  <2> QED BY <2>3, <2>5, <2>6, <2>7
<1> QED BY <1>1, <1>2, <1>3

\* A record that was not pending joins the end of the queue.
LEMMA EnqueueKeeps ==
  ASSUME TypeOK, Shapes, NEW e \in EventIds, Enqueue(e)
  PROVE  /\ queue' \in Seq(EventIds)
         /\ Entries(queue') = {d \in EventIds : Pending(d)} \cup {e}
         /\ \A i, j \in DOMAIN queue' : queue'[i] = queue'[j] => i = j
         /\ DOMAIN queue = 1..Len(queue) /\ DOMAIN queue' = 1..Len(queue')
         /\ Len(queue) \in Nat /\ \A i \in 1..Len(queue) : queue'[i] = queue[i]
         /\ IF Pending(e) THEN Len(queue') = Len(queue)
            ELSE Len(queue') = Len(queue) + 1 /\ queue'[Len(queue) + 1] = e
<1>1. /\ queue \in Seq(EventIds) /\ DOMAIN queue = 1..Len(queue) /\ Len(queue) \in Nat
      /\ Entries(queue) = {d \in EventIds : Pending(d)}
      /\ \A i, j \in DOMAIN queue : queue[i] = queue[j] => i = j
  BY LenProperties DEF TypeOK, Shapes, Entries
<1>2. CASE Pending(e)
  BY <1>1, <1>2 DEF Enqueue
<1>3. CASE ~Pending(e)
  <2> DEFINE n == Len(queue)
  <2>1. queue' = Append(queue, e)
    BY <1>3 DEF Enqueue
  <2>2. /\ queue' \in Seq(EventIds) /\ Len(queue') = n + 1 /\ queue'[n + 1] = e
        /\ \A i \in 1..n : queue'[i] = queue[i]
    BY <1>1, <2>1, AppendProperties
  <2>3. DOMAIN queue' = 1..(n + 1)
    BY <2>2, LenProperties
  <2> HIDE DEF n
  <2>4. n \in Nat /\ DOMAIN queue = 1..n
    BY <1>1 DEF n
  <2>5. \A i \in 1..(n + 1) : i \in 1..n \/ i = n + 1
    BY <2>4
  <2>6. n + 1 \in 1..(n + 1) /\ \A i \in 1..n : i \in 1..(n + 1)
    BY <2>4
  <2>7. Entries(queue') = Entries(queue) \cup {e}
    BY <2>2, <2>3, <2>4, <2>5, <2>6 DEF Entries
  <2>8. \A i \in 1..n : queue[i] # e
    BY <1>1, <1>3, <2>4 DEF Entries
  <2>9. \A i, j \in DOMAIN queue' : queue'[i] = queue'[j] => i = j
    BY <1>1, <2>2, <2>3, <2>4, <2>5, <2>8
  <2> QED BY <1>1, <1>3, <2>2, <2>3, <2>7, <2>9 DEF n
<1> QED BY <1>2, <1>3

\* add() leaves everybody else's state alone.
LEMMA AddFrame ==
  ASSUME Safe, AddStep
  PROVE  /\ agg' = agg /\ log' = log /\ client' = client /\ open' = open
         /\ dpc' = dpc /\ batch' = batch /\ sent' = sent /\ failure' = failure
         /\ seen' = seen /\ everDead' = everDead /\ moved' = moved
         /\ rejections' = [e \in EventIds |->
               IF Dead(e) /\ rec'[e].place = "pending" THEN 0 ELSE rejections[e]]
         /\ addResult = "running"
         /\ addResult' = "running" => adding # <<>>
         /\ addResult' \in {"running", "added", "rejected"}
         /\ Transactions'
<1>1. /\ agg' = agg /\ log' = log /\ client' = client /\ open' = open
      /\ dpc' = dpc /\ batch' = batch /\ sent' = sent /\ failure' = failure
      /\ seen' = seen /\ everDead' = everDead /\ moved' = moved
      /\ rejections' = [e \in EventIds |->
            IF Dead(e) /\ rec'[e].place = "pending" THEN 0 ELSE rejections[e]]
      /\ AddMessage \/ AddReturns
  BY DEF AddStep, writeVars, dispatchVars, Budgets
<1>2. /\ addResult = "running"
      /\ addResult' = "running" => adding # <<>>
      /\ addResult' \in {"running", "added", "rejected"}
  <2>1. CASE AddReturns
    BY <2>1 DEF AddReturns
  <2>2. CASE AddMessage
    <3> DEFINE c == Head(adding)
    <3>1. /\ addResult = "running" /\ adding # <<>>
          /\ AddRefreshesReceipt(c) \/ AddRequeues(c) \/ AddThrows(c) \/ AddRecords(c)
      BY <2>2 DEF AddMessage
    <3> HIDE DEF c
    <3> QED BY <3>1 DEF AddRefreshesReceipt, AddRequeues, AddThrows, AddRecords
  <2> QED BY <1>1, <2>1, <2>2
<1>3. Transactions'
  <2>1. Transactions
    BY DEF Safe
  <2> QED BY <1>1, <1>2, <2>1 DEF Transactions, Quiet
<1> QED BY <1>1, <1>2, <1>3

\* add() has dealt with everything it was given.
LEMMA SafeAddReturns ==
  ASSUME Safe, AddStep, AddReturns
  PROVE  Safe'
<1> USE DEF Safe
<1>1. /\ adding = <<>> /\ addResult = "running" /\ addResult' = "added"
      /\ rec' = rec /\ queue' = queue /\ cursors' = cursors /\ receipts' = receipts
      /\ adding' = adding /\ mutated' = mutated
  BY DEF AddReturns
<1>2. /\ agg' = agg /\ log' = log /\ client' = client /\ open' = open
      /\ dpc' = dpc /\ batch' = batch /\ sent' = sent /\ failure' = failure
      /\ seen' = seen /\ everDead' = everDead /\ moved' = moved
      /\ Transactions'
  BY AddFrame
<1>3. rejections' = rejections
  <2>1. rejections' = [e \in EventIds |-> rejections[e]]
    BY <1>1, AddFrame DEF Dead
  <2> QED BY <2>1 DEF Shapes
<1>4. Dispatching' /\ AttemptsEarned' /\ Bounded'
  BY <1>1, <1>2, <1>3, Frame DEF dispatchVars
<1>5. TypeOK'
  <2>1. \A e : Pending(e) <=> Pending(e)'
    BY <1>1 DEF Pending
  <2>2. addResult' \in {"none", "running", "added", "rejected"}
    BY <1>1
  <2> QED BY <1>1, <1>2, <2>1, <2>2 DEF TypeOK
<1>6. Shapes'
  BY <1>1, <1>2, <1>3 DEF Shapes
<1>7. AllKept'
  <2>1. Adding = {}
    BY <1>1, EmptySeq DEF Adding
  <2>2. \A e \in EventIds : Kept(e) => Kept(e)'
    BY <1>1, <1>2, Frame
  <2>3. addResult' # "running" /\ addResult = "running"
    BY <1>1
  <2> QED BY <1>2, <2>1, <2>2, <2>3, AllKeptStays
<1>8. Genuine'
  <2>1. Stored' = Stored /\ Published' = Published /\ Adding' = Adding
    BY <1>1, <1>2 DEF Stored, Pending, Dead, Published, Adding
  <2> QED BY <1>1, <1>2, <2>1, RecordedSame, GenuineStays
<1> QED BY <1>2, <1>4, <1>5, <1>6, <1>7, <1>8

\* add() gives up: what it has not reached stays out.
LEMMA SafeAddThrows ==
  ASSUME Safe, AddStep, AddThrows(Head(adding)), mutated' \in BOOLEAN
  PROVE  Safe'
<1> USE DEF Safe
<1>1. /\ adding' = <<>> /\ addResult' = "rejected"
      /\ rec' = rec /\ queue' = queue /\ cursors' = cursors /\ receipts' = receipts
  BY DEF AddThrows
<1>2. /\ agg' = agg /\ log' = log /\ client' = client /\ open' = open
      /\ dpc' = dpc /\ batch' = batch /\ sent' = sent /\ failure' = failure
      /\ seen' = seen /\ everDead' = everDead /\ moved' = moved
      /\ Transactions'
  BY AddFrame
<1>3. rejections' = rejections
  <2>1. rejections' = [e \in EventIds |-> rejections[e]]
    BY <1>1, AddFrame DEF Dead
  <2> QED BY <2>1 DEF Shapes
<1>4. Dispatching' /\ AttemptsEarned' /\ Bounded'
  BY <1>1, <1>2, <1>3, Frame DEF dispatchVars
<1>5. TypeOK'
  <2>1. \A e : Pending(e) <=> Pending(e)'
    BY <1>1 DEF Pending
  <2>2. addResult' \in {"none", "running", "added", "rejected"}
    BY <1>1
  <2> QED BY <1>1, <1>2, <2>1, <2>2 DEF TypeOK
<1>6. Shapes'
  <2>1. adding' \in Seq(Candidate)
    BY <1>1, EmptySeq
  <2> QED BY <1>1, <1>2, <1>3, <2>1 DEF Shapes
<1>7. AllKept'
  <2>2. \A e \in EventIds : Kept(e) => Kept(e)'
    BY <1>1, <1>2, Frame
  <2>3. addResult' # "running" /\ addResult' # "added"
    BY <1>1
  <2> QED BY <1>2, <2>2, <2>3, AllKeptStays
<1>8. Genuine'
  <2>1. Stored' = Stored /\ Published' = Published
    BY <1>1, <1>2 DEF Stored, Pending, Dead, Published
  <2>2. Adding' = {}
    BY <1>1, EmptySeq DEF Adding
  <2> QED BY <1>1, <1>2, <2>1, <2>2, RecordedSame, GenuineStays
<1> QED BY <1>2, <1>4, <1>5, <1>6, <1>7, <1>8

\* The candidates are about events.
LEMMA AddingEvents ==
  ASSUME Shapes
  PROVE  \A i \in DOMAIN adding : adding[i] \in Candidate /\ adding[i].id \in EventIds
<1>1. \A i \in DOMAIN adding : adding[i] \in Candidate
  BY LenProperties, ElementOfSeq DEF Shapes
<1> QED BY <1>1 DEF Candidate

\* So are the records of a batch.
LEMMA BatchEvents ==
  ASSUME Shapes
  PROVE  /\ DOMAIN batch = 1..Len(batch) /\ Len(batch) \in Nat
         /\ \A i \in 1..Len(batch) : batch[i] \in Envelopes /\ batch[i].id \in EventIds
<1>1. /\ DOMAIN batch = 1..Len(batch) /\ Len(batch) \in Nat
      /\ \A i \in 1..Len(batch) : batch[i] \in Envelopes
  BY LenProperties, ElementOfSeq DEF Shapes
<1> QED BY <1>1 DEF Envelopes

\* The record whose publication failed is pending, and was not delivered.
LEMMA FailedIsPending ==
  ASSUME TypeOK, Shapes, Dispatching, failure # "none" \/ dpc = "publishing"
  PROVE  /\ FailedId \in EventIds /\ Pending(FailedId) /\ sent + 1 \in 1..Len(batch)
         /\ sent \in Nat /\ \A i \in 1..sent : batch[i].id # FailedId
<1>1. sent \in Nat /\ sent + 1 \in (sent + 1)..Len(batch) /\ sent + 1 \in 1..Len(batch)
  BY BatchEvents DEF TypeOK, Dispatching
<1>2. Pending(FailedId) /\ FailedId \in EventIds
  BY <1>1, BatchEvents DEF Dispatching, FailedId
<1>3. \A i \in 1..sent : i \in 1..Len(batch) /\ i # sent + 1
  BY <1>1
<1> QED BY <1>1, <1>2, <1>3 DEF Dispatching, FailedId

\* What add() may still store can be counted.
LEMMA FreshFinite ==
  ASSUME Safe
  PROVE  IsFiniteSet(Stored \cup Fresh) /\ IsFiniteSet(Heads \cup FreshHeads)
<1>1. /\ DOMAIN adding = 1..Len(adding) /\ Len(adding) \in Nat
      /\ IsFiniteSet(Stored) /\ IsFiniteSet(Heads)
  BY LenProperties DEF Safe, Shapes, Bounded
<1>2. IsFiniteSet(DOMAIN adding)
  BY <1>1, FS_Interval
<1>3. IsFiniteSet(Fresh)
  <2> DEFINE f == [i \in DOMAIN adding |-> adding[i].id]
  <2>1. Fresh \subseteq {f[i] : i \in DOMAIN adding}
    BY DEF Fresh, Adding
  <2> QED BY <1>2, <2>1, ImageFinite
<1>4. IsFiniteSet(FreshHeads)
  <2> DEFINE f == [i \in DOMAIN adding |-> adding[i].id.src]
  <2>1. FreshHeads \subseteq {f[i] : i \in DOMAIN adding}
    BY DEF FreshHeads, Fresh, Adding
  <2> QED BY <1>2, <2>1, ImageFinite
<1> QED BY <1>1, <1>3, <1>4, FS_Union

\* A step of add() that stores no more than it was admitted for.
LEMMA BoundedShrinks ==
  ASSUME Safe, addResult = "running",
         Stored' \cup Fresh' \subseteq Stored \cup Fresh,
         Heads' \cup FreshHeads' \subseteq Heads \cup FreshHeads,
         \A e \in Stored' : cursors'[e.src] # NoCursor,
         Len(receipts') <= MaxRetained
  PROVE  Bounded'
<1>1. /\ Cardinality(Stored \cup Fresh) <= MaxRecords
      /\ Cardinality(Heads \cup FreshHeads) <= MaxSources
  BY DEF Safe, Bounded
<1>2. \A S, T : S \subseteq T /\ IsFiniteSet(T) =>
                 /\ IsFiniteSet(S) /\ Cardinality(S) <= Cardinality(T)
                 /\ Cardinality(S) \in Nat /\ Cardinality(T) \in Nat
  BY FS_Subset, FS_CardinalityType
<1>3. ASSUME NEW S, S \subseteq Stored \cup Fresh
      PROVE  IsFiniteSet(S) /\ Cardinality(S) <= MaxRecords
  <2> DEFINE T == Stored \cup Fresh
  <2>1. IsFiniteSet(T) /\ S \subseteq T /\ Cardinality(T) <= MaxRecords
    BY <1>1, <1>3, FreshFinite
  <2> HIDE DEF T
  <2>2. IsFiniteSet(S) /\ Cardinality(S) <= Cardinality(T)
        /\ Cardinality(S) \in Nat /\ Cardinality(T) \in Nat
    BY <1>2, <2>1
  <2> QED BY <2>1, <2>2, Options
<1>4. ASSUME NEW S, S \subseteq Heads \cup FreshHeads
      PROVE  IsFiniteSet(S) /\ Cardinality(S) <= MaxSources
  <2> DEFINE T == Heads \cup FreshHeads
  <2>1. IsFiniteSet(T) /\ S \subseteq T /\ Cardinality(T) <= MaxSources
    BY <1>1, <1>4, FreshFinite
  <2> HIDE DEF T
  <2>2. IsFiniteSet(S) /\ Cardinality(S) <= Cardinality(T)
        /\ Cardinality(S) \in Nat /\ Cardinality(T) \in Nat
    BY <1>2, <2>1
  <2> QED BY <2>1, <2>2, Options
<1>5. /\ IsFiniteSet(Stored') /\ Cardinality(Stored') <= MaxRecords
      /\ Cardinality(Stored' \cup Fresh') <= MaxRecords
  BY <1>3
<1>6. /\ IsFiniteSet(Heads') /\ Cardinality(Heads') <= MaxSources
      /\ Cardinality(Heads' \cup FreshHeads') <= MaxSources
  BY <1>4
<1>7. WithinBounds'
  BY <1>5, <1>6 DEF WithinBounds, Stored, Heads
<1> QED BY <1>5, <1>6, <1>7 DEF Bounded

\* The event was dispatched before: its receipt becomes the most recent one.
LEMMA SafeAddRefreshes ==
  ASSUME Safe, AddStep, adding # <<>>, AddRefreshesReceipt(Head(adding)), mutated' \in BOOLEAN
  PROVE  /\ Safe'
         /\ \A e : Dispatched(e)' <=> Dispatched(e)
         /\ Entries(receipts') = {r \in Entries(receipts) : r.id # Head(adding).id}
                                    \cup {ReceiptOf(Head(adding))}
<1> USE DEF Safe
<1> DEFINE c == Head(adding)
           r == ReceiptOf(c)
<1>1. /\ Dispatched(c.id) /\ Remember(<<r>>) /\ adding' = Tail(adding)
      /\ rec' = rec /\ queue' = queue /\ cursors' = cursors /\ addResult' = addResult
  BY DEF AddRefreshesReceipt
<1>2. /\ agg' = agg /\ log' = log /\ client' = client /\ open' = open
      /\ dpc' = dpc /\ batch' = batch /\ sent' = sent /\ failure' = failure
      /\ seen' = seen /\ everDead' = everDead /\ moved' = moved
      /\ Transactions' /\ addResult = "running"
  BY AddFrame
<1>3. rejections' = rejections
  <2>1. rejections' = [e \in EventIds |-> rejections[e]]
    BY <1>1, AddFrame DEF Dead
  <2> QED BY <2>1 DEF Shapes
<1>4. /\ c \in Candidate /\ adding' \in Seq(Candidate) /\ Adding = {c.id} \cup Adding'
  BY <1>1, TakesOne DEF Shapes
<1>5. r \in Candidate /\ r.id = c.id
  BY <1>4 DEF ReceiptOf, Candidate
<1> HIDE DEF c, r
<1>6. /\ receipts' \in Seq(Candidate) /\ Len(receipts') <= MaxRetained
      /\ Entries(receipts') = {x \in Entries(receipts) : x.id # c.id} \cup {r}
  <2>1. <<r>> \in Seq(Candidate) /\ receipts \in Seq(Candidate) /\ Len(receipts) <= MaxRetained
    BY <1>5 DEF Shapes, Bounded, WithinBounds
  <2>2. receipts' \in Seq(Candidate) /\ Len(receipts') <= MaxRetained
    BY <1>1, <2>1, RememberKeeps
  <2>3. Entries(receipts') = {x \in Entries(receipts) : x.id # r.id} \cup {r}
    BY <1>1, <1>5, <2>1, RememberKeeps
  <2> QED BY <1>5, <2>2, <2>3
<1>7. c.id \in {x.id : x \in Entries(receipts)}
  BY <1>1 DEF Dispatched, Receipt, Entries
<1>8. \A e : Dispatched(e)' <=> Dispatched(e)
  <2>1. /\ \A e : Dispatched(e) <=> \E x \in Entries(receipts) : x.id = e
        /\ \A e : Dispatched(e)' <=> \E x \in Entries(receipts') : x.id = e
    BY DEF Dispatched, Receipt, Entries
  <2> QED BY <1>5, <1>6, <1>7, <2>1
<1>9. Dispatching'
  <2>1. \A x \in Entries(receipts) : x.id \in Published
    BY DEF Dispatching, Entries
  <2>2. \A x \in Entries(receipts') : x.id \in Published
    BY <1>5, <1>6, <1>7, <2>1
  <2>3. \A i \in DOMAIN receipts' : receipts'[i].id \in Published'
    BY <1>2, <2>2 DEF Entries, Published
  <2> QED BY <1>1, <1>2, <2>3 DEF Dispatching, Pending
<1>10. AttemptsEarned'
  BY <1>1, <1>2, <1>3, Frame DEF dispatchVars
<1>11. TypeOK'
  <2>1. \A e : Pending(e) <=> Pending(e)'
    BY <1>1 DEF Pending
  <2> QED BY <1>1, <1>2, <2>1 DEF TypeOK
<1>12. Shapes'
  BY <1>1, <1>2, <1>3, <1>4, <1>6 DEF Shapes
<1>13. AllKept'
  <2>1. \A e \in EventIds : Kept(e) => Kept(e)'
    BY <1>1, <1>2, Frame
  <2>2. \A e : e = c.id => Kept(e)'
    <3>1. c.id \in Published
      BY <1>7 DEF Dispatching, Entries
    <3> QED BY <1>2, <3>1 DEF Kept, Published
  <2>3. addResult' = "running" /\ addResult = "running"
    BY <1>1, <1>2
  <2> QED BY <1>2, <1>4, <2>1, <2>2, <2>3, AllKeptStays
<1>14. Bounded'
  <2>1. Stored' = Stored /\ Heads' = Heads
        /\ \A e : (Pending(e)' <=> Pending(e)) /\ (Dead(e)' <=> Dead(e))
    BY <1>1 DEF Stored, Heads, Pending, Dead
  <2>2. Fresh' \subseteq Fresh /\ FreshHeads' \subseteq FreshHeads
    BY <1>4, <1>8, <2>1 DEF Fresh, FreshHeads
  <2>3. \A e \in Stored' : cursors'[e.src] # NoCursor
    BY <1>1, <2>1 DEF Bounded
  <2> QED BY <1>2, <1>6, <2>1, <2>2, <2>3, BoundedShrinks
<1>15. Genuine'
  <2>1. Stored' = Stored /\ Published' = Published
    BY <1>1, <1>2 DEF Stored, Pending, Dead, Published
  <2> QED BY <1>2, <1>4, <2>1, RecordedSame, GenuineStays
<1> QED BY <1>2, <1>6, <1>8, <1>9, <1>10, <1>11, <1>12, <1>13, <1>14, <1>15 DEF c, r

\* An event that the sink refused is queued again, with a new budget.
LEMMA SafeAddRequeues ==
  ASSUME Safe, AddStep, adding # <<>>, AddRequeues(Head(adding)), mutated' \in BOOLEAN
  PROVE  Safe'
<1> USE DEF Safe
<1> DEFINE c == Head(adding)
           e == c.id
<1>0. /\ c \in Candidate /\ Tail(adding) \in Seq(Candidate)
      /\ adding' = Tail(adding) => Adding = {e} \cup Adding'
      /\ e \in EventIds
  <2>1. /\ c \in Candidate /\ Tail(adding) \in Seq(Candidate)
        /\ adding' = Tail(adding) => Adding = {e} \cup Adding'
    BY TakesOne DEF Shapes
  <2> QED BY <2>1 DEF Candidate
<1>1. /\ Dead(e) /\ Enqueue(e) /\ adding' = Tail(adding)
      /\ rec' = [rec EXCEPT ![e].place = "pending", ![e].attempts = 0]
      /\ cursors' = cursors /\ receipts' = receipts /\ addResult' = addResult
  BY DEF AddRequeues
<1> HIDE DEF c, e
<1>2. /\ agg' = agg /\ log' = log /\ client' = client /\ open' = open
      /\ dpc' = dpc /\ batch' = batch /\ sent' = sent /\ failure' = failure
      /\ seen' = seen /\ everDead' = everDead /\ moved' = moved
      /\ Transactions' /\ addResult = "running"
      /\ rejections' = [d \in EventIds |->
            IF Dead(d) /\ rec'[d].place = "pending" THEN 0 ELSE rejections[d]]
  BY AddFrame
<1>3. /\ rec' \in [EventIds -> [place : {"none", "pending", "dead"}, version : 0..MaxVersion,
                                previous : 0..MaxVersion, size : 0..MaxSize,
                                attempts : 0..MaxDeliveryAttempts]]
      /\ \A d \in EventIds : d # e => rec'[d] = rec[d]
      /\ rec'[e].place = "pending" /\ rec'[e].attempts = 0
      /\ rec'[e].version = rec[e].version /\ rec'[e].previous = rec[e].previous
  <2>1. rec[e] \in [place : {"none", "pending", "dead"}, version : 0..MaxVersion,
                    previous : 0..MaxVersion, size : 0..MaxSize,
                    attempts : 0..MaxDeliveryAttempts]
    BY <1>0 DEF TypeOK
  <2> DEFINE y == [rec[e] EXCEPT !.place = "pending"]
             x == [y EXCEPT !.attempts = 0]
  <2>2. rec' = [rec EXCEPT ![e] = x]
    BY <1>1
  <2>3. /\ y \in [place : {"none", "pending", "dead"}, version : 0..MaxVersion,
                  previous : 0..MaxVersion, size : 0..MaxSize,
                  attempts : 0..MaxDeliveryAttempts]
        /\ y.place = "pending" /\ y.version = rec[e].version /\ y.previous = rec[e].previous
    BY <2>1
  <2> HIDE DEF y
  <2>4. /\ x \in [place : {"none", "pending", "dead"}, version : 0..MaxVersion,
                  previous : 0..MaxVersion, size : 0..MaxSize,
                  attempts : 0..MaxDeliveryAttempts]
        /\ x.place = "pending" /\ x.attempts = 0
        /\ x.version = rec[e].version /\ x.previous = rec[e].previous
    BY SMTT(40), <2>3, Options
  <2> HIDE DEF x
  <2> QED BY <1>0, <2>2, <2>4 DEF TypeOK
<1>4. /\ \A d \in EventIds : Pending(d)' <=> Pending(d) \/ d = e
      /\ \A d \in EventIds : Dead(d)' <=> Dead(d) /\ d # e
      /\ \A d : Dispatched(d)' <=> Dispatched(d)
      /\ ~Pending(e)
  BY <1>0, <1>1, <1>3 DEF Pending, Dead, Dispatched, Receipt
<1>5. /\ queue' \in Seq(EventIds)
      /\ Entries(queue') = {d \in EventIds : Pending(d)} \cup {e}
      /\ \A i, j \in DOMAIN queue' : queue'[i] = queue'[j] => i = j
  BY <1>0, <1>1, EnqueueKeeps
<1>6. /\ rejections'[e] = 0 /\ \A d \in EventIds : d # e => rejections'[d] = rejections[d]
      /\ rejections' \in [EventIds -> Nat]
  <2>1. \A d \in EventIds : d # e => (~Dead(d) \/ rec'[d].place # "pending")
    BY <1>3 DEF Dead
  <2> QED BY <1>0, <1>1, <1>2, <1>3, <2>1 DEF Shapes
<1>7. TypeOK'
  <2>1. Entries(queue') = {d \in EventIds : Pending(d)'}
    BY <1>0, <1>4, <1>5
  <2>2. {queue'[i] : i \in DOMAIN queue'} = {d \in EventIds : Pending(d)'}
    BY <2>1 DEF Entries
  <2> QED BY <1>1, <1>2, <1>3, <1>5, <2>2 DEF TypeOK
<1>8. Shapes'
  BY <1>0, <1>1, <1>2, <1>5, <1>6 DEF Shapes
<1>9. \A d \in EventIds : Kept(d) => Kept(d)'
  BY <1>2, <1>4 DEF Kept, Published
<1>10. AllKept'
  <2>1. \A d : d = e => Kept(d)'
    BY <1>0, <1>4 DEF Kept
  <2>2. \A d \in Adding : d \in Adding' \/ Kept(d)'
    BY <1>0, <1>1, <2>1
  <2> QED BY <1>1, <1>2, <1>9, <2>2, AllKeptStays
<1>11. Dispatching'
  <2>1. \A i \in 1..Len(batch) : batch[i].id \in EventIds
    BY ElementOfSeq DEF Shapes, Envelopes
  <2>2. \A i \in (sent + 1)..Len(batch) : i \in 1..Len(batch)
    BY LenProperties DEF TypeOK, Shapes
  <2>3. \A i \in (sent + 1)..Len(batch) : Pending(batch[i].id)'
    BY <1>2, <1>4, <2>1, <2>2 DEF Dispatching
  <2> QED BY <1>1, <1>2, <2>3 DEF Dispatching, Published
<1>12. AttemptsEarned'
  <2>1. \A d \in EventIds : rec'[d].place = "none" => rec'[d].attempts = 0
    BY <1>3 DEF AttemptsEarned
  <2>2. \A d \in EventIds : Pending(d)' => /\ rec'[d].attempts < MaxDeliveryAttempts
                                           /\ rec'[d].attempts <= rejections'[d]
    <3> SUFFICES ASSUME NEW d \in EventIds, Pending(d)'
                 PROVE  /\ rec'[d].attempts < MaxDeliveryAttempts
                        /\ rec'[d].attempts <= rejections'[d]
      OBVIOUS
    <3>1. CASE d = e
      BY <1>3, <1>6, <3>1, Options
    <3>2. CASE d # e
      BY <1>3, <1>4, <1>6, <3>2 DEF AttemptsEarned
    <3> QED BY <3>1, <3>2
  <2>3. failure' = "counted" => rec'[FailedId'].attempts < rejections'[FailedId']
    <3> SUFFICES ASSUME failure = "counted"
                 PROVE  rec'[FailedId].attempts < rejections'[FailedId]
      BY <1>2 DEF FailedId
    <3>1. Pending(FailedId) /\ FailedId \in EventIds
      BY FailedIsPending
    <3> QED BY <1>3, <1>4, <1>6, <3>1 DEF AttemptsEarned
  <2>4. DeadOnlyIfPoison'
    BY <1>4, <1>6 DEF AttemptsEarned, DeadOnlyIfPoison
  <2> QED BY <2>1, <2>2, <2>3, <2>4 DEF AttemptsEarned, Pending
<1>13. Bounded'
  <2>1. Stored' = Stored /\ Heads' = Heads
    BY <1>0, <1>1, <1>4 DEF Stored, Heads
  <2>2. Fresh' \subseteq Fresh
    BY <1>0, <1>1, <1>4 DEF Fresh
  <2>3. FreshHeads' \subseteq FreshHeads
    <3>1. \A d \in Fresh : d \in EventIds
      BY AddingEvents DEF Fresh, Adding
    <3> QED BY <1>4, <2>2, <3>1 DEF FreshHeads
  <2>4. \A d \in Stored' : cursors'[d.src] # NoCursor
    BY <1>1, <2>1 DEF Bounded
  <2>5. Len(receipts') <= MaxRetained
    BY <1>1 DEF Bounded, WithinBounds
  <2> QED BY <1>2, <2>1, <2>2, <2>3, <2>4, <2>5, BoundedShrinks
<1>14. Genuine'
  <2>1. Stored' = Stored /\ Published' = Published
    BY <1>1, <1>2, <1>4 DEF Stored, Published
  <2> QED BY <1>0, <1>1, <1>2, <2>1, RecordedSame, GenuineStays
<1> QED BY <1>2, <1>7, <1>8, <1>10, <1>11, <1>12, <1>13, <1>14

\* The head a recorded message leaves behind is well typed, and is a head.
LEMMA CursorTypes ==
  ASSUME TypeOK, NEW c \in Candidate, NEW l, l = PreviousOf(c), NEW k, k = CursorAfter(c)
  PROVE  /\ l \in 0..MaxVersion
         /\ k \in [version : 0..MaxVersion, previous : 0..MaxVersion,
                   size : 0..MaxSize, owners : SUBSET EventIds]
         /\ ~Pending(c.id) \/ cursors[c.id.src] # NoCursor => k # NoCursor
<1>1. /\ c.id \in EventIds /\ c.id.src \in Sources /\ c.version \in 0..MaxVersion
      /\ c.size \in 0..MaxSize
  BY DEF Candidate, EventIds
<1> DEFINE cursor == cursors[c.id.src]
           y == [cursor EXCEPT !.owners = @ \cup {c.id}]
           z == [version |-> c.version, previous |-> l, size |-> c.size, owners |-> {c.id}]
           T == [version : 0..MaxVersion, previous : 0..MaxVersion,
                 size : 0..MaxSize, owners : SUBSET EventIds]
<1>2. cursor \in T
  BY <1>1 DEF TypeOK
<1>3. rec[c.id].previous \in 0..MaxVersion
  BY <1>1 DEF TypeOK
<1>4. l \in 0..MaxVersion
  BY <1>2, <1>3 DEF PreviousOf
<1>5. z \in T /\ z # NoCursor
  <2>1. z.owners # NoCursor.owners
    BY DEF NoCursor
  <2>2. z \in T
    BY <1>1, <1>4
  <2> QED BY <2>1, <2>2
<1>6. y \in T /\ y # NoCursor
  <2>1. y \in T /\ y.owners = cursor.owners \cup {c.id}
    BY <1>1, <1>2
  <2>2. NoCursor.owners = {}
    BY DEF NoCursor
  <2> HIDE DEF y
  <2> QED BY <2>1, <2>2
<1>7. \/ k = cursor /\ Pending(c.id)
      \/ k = y
      \/ k = z
  BY DEF CursorAfter
<1> HIDE DEF y, z, T
<1> QED BY <1>2, <1>4, <1>5, <1>6, <1>7 DEF T

\* A message is recorded: the record is pending, its source has a head.
LEMMA SafeAddRecords ==
  ASSUME Safe, AddStep, adding # <<>>, AddRecords(Head(adding)), mutated' \in BOOLEAN
  PROVE  Safe'
<1> USE DEF Safe
<1> DEFINE c == Head(adding)
           e == c.id
           l == PreviousOf(c)
           k == CursorAfter(c)
           x == [place |-> "pending", version |-> c.version, previous |-> l,
                 size |-> c.size, attempts |-> rec[e].attempts]
<1>0. /\ c \in Candidate /\ Tail(adding) \in Seq(Candidate)
      /\ adding' = Tail(adding) => Adding = {e} \cup Adding'
      /\ e \in EventIds /\ e.src \in Sources /\ e \in Adding
  <2>1. /\ c \in Candidate /\ Tail(adding) \in Seq(Candidate)
        /\ adding' = Tail(adding) => Adding = {e} \cup Adding'
        /\ c = adding[1] /\ Len(adding) \in Nat \ {0} /\ DOMAIN adding = 1..Len(adding)
    BY TakesOne DEF Shapes
  <2>2. e \in Adding
    BY <2>1 DEF Adding
  <2> QED BY <2>1, <2>2 DEF Candidate, EventIds
<1>1. /\ ~Dispatched(e) /\ ~Dead(e) /\ Enqueue(e) /\ adding' = Tail(adding)
      /\ rec' = [rec EXCEPT ![e] = x] /\ cursors' = [cursors EXCEPT ![e.src] = k]
      /\ receipts' = receipts /\ addResult' = addResult
  BY DEF AddRecords
<1> HIDE DEF c, e, l, k
<1>2. /\ agg' = agg /\ log' = log /\ client' = client /\ open' = open
      /\ dpc' = dpc /\ batch' = batch /\ sent' = sent /\ failure' = failure
      /\ seen' = seen /\ everDead' = everDead /\ moved' = moved
      /\ Transactions' /\ addResult = "running"
      /\ rejections' = [d \in EventIds |->
            IF Dead(d) /\ rec'[d].place = "pending" THEN 0 ELSE rejections[d]]
  BY AddFrame
<1>3. /\ l \in 0..MaxVersion
      /\ k \in [version : 0..MaxVersion, previous : 0..MaxVersion,
                size : 0..MaxSize, owners : SUBSET EventIds]
      /\ k # NoCursor
  <2>1. Pending(e) => cursors[e.src] # NoCursor
    BY <1>0 DEF Bounded, Stored
  <2> QED BY <1>0, <2>1, CursorTypes DEF l, k, e
<1>4. /\ rec' \in [EventIds -> [place : {"none", "pending", "dead"}, version : 0..MaxVersion,
                                previous : 0..MaxVersion, size : 0..MaxSize,
                                attempts : 0..MaxDeliveryAttempts]]
      /\ \A d \in EventIds : d # e => rec'[d] = rec[d]
      /\ rec'[e].place = "pending" /\ rec'[e].attempts = rec[e].attempts
  <2>1. rec[e].attempts \in 0..MaxDeliveryAttempts /\ c.version \in 0..MaxVersion
        /\ c.size \in 0..MaxSize
    BY <1>0 DEF TypeOK, Candidate
  <2>2. /\ x \in [place : {"none", "pending", "dead"}, version : 0..MaxVersion,
                  previous : 0..MaxVersion, size : 0..MaxSize,
                  attempts : 0..MaxDeliveryAttempts]
        /\ x.place = "pending" /\ x.attempts = rec[e].attempts
    BY <1>3, <2>1
  <2> HIDE DEF x
  <2> QED BY <1>0, <1>1, <2>2 DEF TypeOK
<1>5. /\ \A d \in EventIds : Pending(d)' <=> Pending(d) \/ d = e
      /\ \A d \in EventIds : Dead(d)' <=> Dead(d)
      /\ \A d : Dispatched(d)' <=> Dispatched(d)
  BY <1>0, <1>1, <1>4 DEF Pending, Dead, Dispatched, Receipt
<1>6. /\ cursors' \in [Sources -> [version : 0..MaxVersion, previous : 0..MaxVersion,
                                   size : 0..MaxSize, owners : SUBSET EventIds]]
      /\ cursors'[e.src] = k
      /\ \A s \in Sources : s # e.src => cursors'[s] = cursors[s]
  BY <1>0, <1>1, <1>3 DEF TypeOK
<1> HIDE DEF x
<1>7. /\ queue' \in Seq(EventIds)
      /\ Entries(queue') = {d \in EventIds : Pending(d)} \cup {e}
      /\ \A i, j \in DOMAIN queue' : queue'[i] = queue'[j] => i = j
  BY <1>0, <1>1, EnqueueKeeps
<1>8. rejections' = rejections
  <2>1. \A d \in EventIds : ~(Dead(d) /\ rec'[d].place = "pending")
    BY <1>1, <1>4 DEF Dead
  <2>2. rejections' = [d \in EventIds |-> rejections[d]]
    BY <1>2, <2>1
  <2> QED BY <2>2 DEF Shapes
<1>9. TypeOK'
  <2>1. Entries(queue') = {d \in EventIds : Pending(d)'}
    BY <1>0, <1>5, <1>7
  <2>2. {queue'[i] : i \in DOMAIN queue'} = {d \in EventIds : Pending(d)'}
    BY <2>1 DEF Entries
  <2> QED BY <1>1, <1>2, <1>4, <1>6, <1>7, <2>2 DEF TypeOK
<1>10. Shapes'
  BY <1>0, <1>1, <1>2, <1>7, <1>8 DEF Shapes
<1>11. \A d \in EventIds : Kept(d) => Kept(d)'
  BY <1>2, <1>5 DEF Kept, Published
<1>12. AllKept'
  <2>1. \A d : d = e => Kept(d)'
    BY <1>0, <1>5 DEF Kept
  <2>2. \A d \in Adding : d \in Adding' \/ Kept(d)'
    BY <1>0, <1>1, <2>1
  <2> QED BY <1>1, <1>2, <1>11, <2>2, AllKeptStays
<1>13. Dispatching'
  <2>1. \A i \in (sent + 1)..Len(batch) : i \in 1..Len(batch)
    BY BatchEvents DEF TypeOK
  <2>2. \A i \in (sent + 1)..Len(batch) : Pending(batch[i].id)'
    <3>1. \A i \in (sent + 1)..Len(batch) : Pending(batch[i].id) /\ batch[i].id \in EventIds
      BY <2>1, BatchEvents DEF Dispatching
    <3>2. \A i \in (sent + 1)..Len(batch) : \A d : d = batch[i].id => Pending(d)'
      BY <1>5, <3>1
    <3> QED BY <1>2, <3>2 DEF Pending
  <2> QED BY <1>1, <1>2, <2>2 DEF Dispatching, Published
<1>14. AttemptsEarned'
  <2>1. \A d \in EventIds : rec'[d].place = "none" => rec'[d].attempts = 0
    BY <1>4 DEF AttemptsEarned
  <2>2. \A d \in EventIds : Pending(d)' => /\ rec'[d].attempts < MaxDeliveryAttempts
                                           /\ rec'[d].attempts <= rejections'[d]
    <3> SUFFICES ASSUME NEW d \in EventIds, Pending(d)'
                 PROVE  /\ rec'[d].attempts < MaxDeliveryAttempts
                        /\ rec'[d].attempts <= rejections'[d]
      OBVIOUS
    <3>0. rejections[d] \in Nat
      BY DEF Shapes
    <3>1. CASE Pending(d)
      BY <1>4, <1>8, <3>1 DEF AttemptsEarned
    <3>2. CASE ~Pending(d)
      <4>1. d = e /\ rec[d].place = "none"
        BY <1>1, <1>5, <3>2 DEF TypeOK, Pending, Dead
      <4>2. rec'[d].attempts = 0
        BY <1>4, <4>1 DEF AttemptsEarned
      <4> QED BY <1>8, <3>0, <4>2, Options
    <3> QED BY <3>1, <3>2
  <2>3. failure' = "counted" => rec'[FailedId'].attempts < rejections'[FailedId']
    <3> SUFFICES ASSUME failure = "counted"
                 PROVE  rec'[FailedId].attempts < rejections'[FailedId]
      BY <1>2 DEF FailedId
    <3>1. FailedId \in EventIds
      BY FailedIsPending
    <3> QED BY <1>4, <1>8, <3>1 DEF AttemptsEarned
  <2>4. DeadOnlyIfPoison'
    BY <1>5, <1>8 DEF AttemptsEarned, DeadOnlyIfPoison
  <2> QED BY <2>1, <2>2, <2>3, <2>4 DEF AttemptsEarned, Pending
<1>15. Bounded'
  <2>0. \A d \in Fresh : d \in EventIds
    BY AddingEvents DEF Fresh, Adding
  <2>1. e \in Fresh
    BY <1>0, <1>1 DEF Fresh
  <2>2. Stored' \subseteq Stored \cup Fresh /\ Fresh' \subseteq Fresh
    BY <1>0, <1>1, <1>5, <2>1 DEF Stored, Fresh
  <2>3. e.src \in Heads \cup FreshHeads
    <3>1. CASE Pending(e)
      BY <1>0, <3>1 DEF Bounded, Stored, Heads
    <3>2. CASE ~Pending(e)
      BY <1>1, <2>1, <3>2 DEF FreshHeads
    <3> QED BY <3>1, <3>2
  <2>4. Heads' \subseteq Heads \cup FreshHeads
    BY <1>6, <2>3 DEF Heads
  <2>5. FreshHeads' \subseteq FreshHeads
    BY <1>5, <2>0, <2>2 DEF FreshHeads
  <2>6. \A d \in Stored' : cursors'[d.src] # NoCursor
    <3> SUFFICES ASSUME NEW d \in Stored' PROVE cursors'[d.src] # NoCursor
      OBVIOUS
    <3>1. d \in EventIds /\ d.src \in Sources
      BY DEF Stored, EventIds
    <3>2. d = e \/ d \in Stored
      BY <1>5, <3>1 DEF Stored
    <3> QED BY <1>3, <1>6, <3>1, <3>2 DEF Bounded
  <2>7. Len(receipts') <= MaxRetained
    BY <1>1 DEF Bounded, WithinBounds
  <2> QED BY <1>2, <2>2, <2>4, <2>5, <2>6, <2>7, BoundedShrinks
<1>16. Genuine'
  <2>1. Stored' \subseteq Stored \cup Adding /\ Published' = Published
    BY <1>0, <1>2, <1>5 DEF Stored, Published
  <2> QED BY <1>0, <1>1, <1>2, <2>1, RecordedSame, GenuineStays
<1> QED BY <1>2, <1>9, <1>10, <1>12, <1>13, <1>14, <1>15, <1>16

\* One step of a running add().
LEMMA SafeAdd ==
  ASSUME Safe, AddStep
  PROVE  Safe'
<1>1. CASE AddReturns
  BY <1>1, SafeAddReturns
<1>2. CASE AddMessage
  <2>1. /\ adding # <<>>
        /\ \/ AddRefreshesReceipt(Head(adding)) \/ AddRequeues(Head(adding))
           \/ AddThrows(Head(adding)) \/ AddRecords(Head(adding))
        /\ mutated' = (mutated \/ rec' # rec \/ cursors' # cursors)
    BY <1>2 DEF AddMessage
  <2>2. mutated' \in BOOLEAN
    BY <2>1 DEF Safe, TypeOK
  <2> QED BY <2>1, <2>2, SafeAddRefreshes, SafeAddRequeues, SafeAddThrows, SafeAddRecords
<1> QED BY <1>1, <1>2 DEF AddStep

\* Leaving ids out of the queue.
LEMMA DequeueKeeps ==
  ASSUME TypeOK, Shapes, NEW ids, Dequeue(ids)
  PROVE  /\ queue' \in Seq(EventIds)
         /\ Entries(queue') = {d \in EventIds : Pending(d)} \ ids
         /\ \A i, j \in DOMAIN queue' : queue'[i] = queue'[j] => i = j
<1> DEFINE S == EventIds \ ids
<1>1. queue' = Only(queue, S) /\ queue \in Seq(EventIds)
  BY DEF Dequeue, Shapes
<1>2. /\ Entries(queue) = {d \in EventIds : Pending(d)}
      /\ \A i, j \in DOMAIN queue : queue[i] = queue[j] => i = j
  BY DEF TypeOK, Entries
<1> HIDE DEF S
<1>3. /\ queue' \in Seq(EventIds)
      /\ Entries(queue') = Entries(queue) \cap S
      /\ \A i, j \in DOMAIN queue' : queue'[i] = queue'[j] => i = j
  BY <1>1, <1>2, OnlyKeeps
<1>4. Entries(queue) \cap S = {d \in EventIds : Pending(d)} \ ids
  BY <1>2 DEF S
<1> QED BY <1>3, <1>4

\* Acknowledging ids: their records go, and their receipts are remembered.
LEMMA MarkKeeps ==
  ASSUME TypeOK, Shapes, NEW ids \in Seq(EventIds), MarkDispatched(ids)
  PROVE  /\ rec' \in [EventIds -> [place : {"none", "pending", "dead"}, version : 0..MaxVersion,
                                   previous : 0..MaxVersion, size : 0..MaxSize,
                                   attempts : 0..MaxDeliveryAttempts]]
         /\ \A e \in EventIds : rec'[e] = IF e \in Entries(ids) THEN NoRecord ELSE rec[e]
         /\ \A e \in EventIds : Pending(e)' <=> Pending(e) /\ e \notin Entries(ids)
         /\ \A e \in EventIds : Dead(e)' <=> Dead(e) /\ e \notin Entries(ids)
         /\ Dequeue(Entries(ids))
         /\ receipts' \in Seq(Candidate) /\ Len(receipts') <= MaxRetained
         /\ \A r \in Entries(receipts') :
               \/ r \in Entries(receipts)
               \/ r.id \in Entries(ids) /\ r.id \in Stored /\ r.version = rec[r.id].version
         /\ cursors' = cursors /\ adding' = adding /\ addResult' = addResult
         /\ mutated' = mutated
<1> DEFINE known == Only(ids, {e \in Entries(ids) : Pending(e) \/ Dead(e)})
           new == [i \in DOMAIN known |-> [id |-> known[i], version |-> rec[known[i]].version,
                                           size |-> rec[known[i]].size]]
<1>1. /\ Remember(new)
      /\ rec' = [e \in EventIds |-> IF e \in Entries(ids) THEN NoRecord ELSE rec[e]]
      /\ Dequeue(Entries(ids))
      /\ cursors' = cursors /\ adding' = adding /\ addResult' = addResult
      /\ mutated' = mutated
  BY DEF MarkDispatched, Entries, addVars
<1>2. /\ known \in Seq(EventIds)
      /\ Entries(known) = Entries(ids) \cap {e \in Entries(ids) : Pending(e) \/ Dead(e)}
  <2> DEFINE S == {e \in Entries(ids) : Pending(e) \/ Dead(e)}
  <2> HIDE DEF S
  <2> QED BY OnlyKeeps
<1> HIDE DEF known
<1>3. /\ DOMAIN known = 1..Len(known) /\ Len(known) \in Nat
      /\ \A i \in DOMAIN known : known[i] \in EventIds /\ known[i] \in Entries(known)
    BY <1>2, LenProperties, ElementOfSeq DEF Entries
<1>4. \A i \in DOMAIN known : new[i] \in Candidate
  <2> SUFFICES ASSUME NEW i \in DOMAIN known PROVE new[i] \in Candidate
    OBVIOUS
  <2>1. rec[known[i]].version \in 0..MaxVersion /\ rec[known[i]].size \in 0..MaxSize
    BY <1>3 DEF TypeOK
  <2> QED BY <1>3, <2>1 DEF Candidate
<1>5. new \in Seq(Candidate)
  <2> DEFINE n == Len(known)
  <2>1. new = [i \in 1..n |-> new[i]] /\ \A i \in 1..n : new[i] \in Candidate
    BY <1>3, <1>4
  <2> HIDE DEF new
  <2>2. new \in [1..n -> Candidate] /\ n \in Nat
    BY <1>3, <2>1
  <2> QED BY <2>2
<1>6. \A r \in Entries(new) : r.id \in Entries(ids) /\ r.id \in Stored
                              /\ r.version = rec[r.id].version
  <2>1. \A r \in Entries(new) : \E i \in DOMAIN known : r = new[i]
    BY DEF Entries
  <2>2. \A i \in DOMAIN known : /\ new[i].id = known[i]
                                /\ new[i].version = rec[known[i]].version
    OBVIOUS
  <2> HIDE DEF new
  <2> QED BY <1>2, <1>3, <2>1, <2>2 DEF Stored
<1> HIDE DEF new
<1>7. /\ receipts' \in Seq(Candidate) /\ Len(receipts') <= MaxRetained
      /\ Entries(receipts') \subseteq Entries(receipts) \cup Entries(new)
  BY <1>1, <1>5, RememberKeeps DEF Shapes
<1>8. NoRecord \in [place : {"none", "pending", "dead"}, version : 0..MaxVersion,
                    previous : 0..MaxVersion, size : 0..MaxSize,
                    attempts : 0..MaxDeliveryAttempts]
  BY Options DEF NoRecord, NoVersion
<1>9. NoRecord.place = "none"
  BY DEF NoRecord
<1>10. /\ rec' \in [EventIds -> [place : {"none", "pending", "dead"}, version : 0..MaxVersion,
                                 previous : 0..MaxVersion, size : 0..MaxSize,
                                 attempts : 0..MaxDeliveryAttempts]]
       /\ \A e \in EventIds : rec'[e] = IF e \in Entries(ids) THEN NoRecord ELSE rec[e]
  BY <1>1, <1>8 DEF TypeOK
<1>11. \A e \in EventIds : /\ Pending(e)' <=> Pending(e) /\ e \notin Entries(ids)
                           /\ Dead(e)' <=> Dead(e) /\ e \notin Entries(ids)
  BY <1>9, <1>10 DEF Pending, Dead
<1> QED BY <1>1, <1>6, <1>7, <1>10, <1>11

\* The dispatcher keeps its batch, or its pass ends.
Continues ==
    \/ /\ UNCHANGED <<batch, sent, failure>>
       /\ dpc' = dpc \/ (failure = "counted" /\ dpc' = "marking")
    \/ PassEnds

\* Both leave the dispatcher well formed, up to the records it still holds.
LEMMA ContinuesWell ==
  ASSUME Safe, Continues, seen \subseteq seen'
  PROVE  /\ dpc' \in {"idle", "publishing", "acking", "marking"}
         /\ sent' \in 0..Len(batch') /\ failure' \in {"none", "transient", "counted"}
         /\ batch' \in Seq(Envelopes)
         /\ dpc' = "idle" => batch' = <<>> /\ sent' = 0 /\ failure' = "none"
         /\ dpc' = "publishing" => sent' < Len(batch') /\ failure' = "none"
         /\ dpc' = "marking" => failure' = "counted"
         /\ failure' # "none" => /\ sent' < Len(batch') /\ failure' = failure
                                 /\ sent' = sent /\ batch' = batch
         /\ \A i \in 1..sent' : batch'[i] \in seen'
         /\ \A i \in (sent' + 1)..Len(batch') : /\ batch' = batch /\ sent' = sent
                                                /\ i \in 1..Len(batch)
         /\ \A i, j \in 1..Len(batch') : batch'[i].id = batch'[j].id => i = j
<1>1. CASE PassEnds
  <2>1. /\ dpc' = "idle" /\ batch' = <<>> /\ sent' = 0 /\ failure' = "none"
        /\ batch' \in Seq(Envelopes) /\ Len(batch') = 0
    BY <1>1, EmptySeq DEF PassEnds
  <2> QED BY <2>1
<1>2. CASE ~PassEnds
  <2>1. /\ batch' = batch /\ sent' = sent /\ failure' = failure
        /\ dpc' = dpc \/ (failure = "counted" /\ dpc' = "marking")
    BY <1>2 DEF Continues
  <2>2. \A i \in (sent + 1)..Len(batch) : i \in 1..Len(batch)
    BY BatchEvents DEF Safe, TypeOK
  <2> QED BY <2>1, <2>2 DEF Safe, TypeOK, Dispatching, Shapes
<1> QED BY <1>1, <1>2

\* Delivered records are acknowledged: they leave the outbox, nothing else does.
LEMMA SafeMarked ==
  ASSUME Safe, Quiet, NEW ids \in Seq(EventIds), MarkDispatched(ids),
         UNCHANGED <<writeVars, everDead>>,
         seen \subseteq seen', seen' \subseteq Envelopes, moved' \subseteq EventIds,
         Entries(ids) \subseteq Published', Published' \subseteq Stored \cup Published,
         rejections' = [e \in EventIds |-> IF e \in Entries(ids) THEN 0 ELSE rejections[e]],
         Continues, \A i \in (sent + 1)..Len(batch) : batch[i].id \notin Entries(ids)
  PROVE  Safe'
<1> USE DEF Safe
<1>1. /\ agg' = agg /\ log' = log /\ client' = client /\ open' = open /\ everDead' = everDead
      /\ addResult' = "none" /\ client = {} /\ addResult = "none"
      /\ cursors' = cursors /\ adding' = adding /\ mutated' = mutated
  BY MarkKeeps DEF writeVars, Quiet, Transactions
<1>2. /\ rec' \in [EventIds -> [place : {"none", "pending", "dead"}, version : 0..MaxVersion,
                                previous : 0..MaxVersion, size : 0..MaxSize,
                                attempts : 0..MaxDeliveryAttempts]]
      /\ \A e \in EventIds : rec'[e] = IF e \in Entries(ids) THEN NoRecord ELSE rec[e]
  BY MarkKeeps
<1>3. /\ \A e \in EventIds : Pending(e)' <=> Pending(e) /\ e \notin Entries(ids)
      /\ \A e \in EventIds : Dead(e)' <=> Dead(e) /\ e \notin Entries(ids)
  BY MarkKeeps
<1>4. /\ queue' \in Seq(EventIds)
      /\ Entries(queue') = {d \in EventIds : Pending(d)} \ Entries(ids)
      /\ \A i, j \in DOMAIN queue' : queue'[i] = queue'[j] => i = j
  BY MarkKeeps, DequeueKeeps
<1>5. /\ receipts' \in Seq(Candidate) /\ Len(receipts') <= MaxRetained
      /\ \A r \in Entries(receipts') : r \in Entries(receipts) \/ r.id \in Entries(ids)
  BY MarkKeeps
<1>6. Published \subseteq Published'
  BY DEF Published
<1>7. /\ dpc' \in {"idle", "publishing", "acking", "marking"}
      /\ sent' \in 0..Len(batch') /\ failure' \in {"none", "transient", "counted"}
      /\ batch' \in Seq(Envelopes)
  BY ContinuesWell
<1>8. TypeOK'
  <2>1. Entries(queue') = {d \in EventIds : Pending(d)'}
    BY <1>3, <1>4
  <2>2. {queue'[i] : i \in DOMAIN queue'} = {d \in EventIds : Pending(d)'}
    BY <2>1 DEF Entries
  <2>3. addResult' \in {"none", "running", "added", "rejected"}
    BY <1>1
  <2> QED BY <1>1, <1>2, <1>4, <1>7, <2>2, <2>3 DEF TypeOK
<1>9. Shapes'
  <2>1. rejections' \in [EventIds -> Nat]
    BY DEF Shapes
  <2> QED BY <1>1, <1>4, <1>5, <1>7, <2>1 DEF Shapes
<1>10. Transactions'
  BY <1>1 DEF Transactions
<1>11. AllKept'
  <2>1. \A e \in EventIds : Kept(e) => Kept(e)'
    BY <1>3, <1>6 DEF Kept
  <2>2. addResult' # "running" /\ addResult' # "added"
    BY <1>1
  <2> QED BY <1>1, <2>1, <2>2, AllKeptStays
<1>12. Dispatching'
  <2>1. (\A i \in (sent + 1)..Len(batch) : Pending(batch[i].id))'
    <3> SUFFICES ASSUME NEW i \in (sent' + 1)..Len(batch') PROVE rec'[batch'[i].id].place = "pending"
      BY DEF Pending
    <3>1. batch' = batch /\ sent' = sent /\ i \in 1..Len(batch)
      BY ContinuesWell
    <3>2. batch[i].id \in EventIds /\ Pending(batch[i].id) /\ batch[i].id \notin Entries(ids)
      BY <3>1, BatchEvents DEF Dispatching
    <3> QED BY <1>2, <3>1, <3>2 DEF Pending
  <2>2. \A i \in DOMAIN receipts' : receipts'[i].id \in Published'
    <3>1. \A r \in Entries(receipts) : r.id \in Published
      BY DEF Dispatching, Entries
    <3>2. \A r \in Entries(receipts') : r.id \in Published'
      BY <1>5, <1>6, <3>1
    <3> QED BY <3>2 DEF Entries
  <2>3. /\ dpc' = "idle" => batch' = <<>> /\ sent' = 0 /\ failure' = "none"
        /\ dpc' = "publishing" => sent' < Len(batch') /\ failure' = "none"
        /\ dpc' = "marking" => failure' = "counted"
        /\ failure' # "none" => sent' < Len(batch')
        /\ \A i \in 1..sent' : batch'[i] \in seen'
        /\ \A i, j \in 1..Len(batch') : batch'[i].id = batch'[j].id => i = j
    BY ContinuesWell
  <2> QED BY <2>1, <2>2, <2>3 DEF Dispatching
<1>13. AttemptsEarned'
  <2>1. \A e \in EventIds : e \in Entries(ids) => rec'[e].attempts = 0
    BY <1>2 DEF NoRecord
  <2>2. \A e \in EventIds : e \notin Entries(ids) =>
           rec'[e] = rec[e] /\ rejections'[e] = rejections[e]
    BY <1>2
  <2>3. \A e \in EventIds : rec'[e].place = "none" => rec'[e].attempts = 0
    BY <2>1, <2>2 DEF AttemptsEarned
  <2>4. \A e \in EventIds : Pending(e)' => /\ rec'[e].attempts < MaxDeliveryAttempts
                                           /\ rec'[e].attempts <= rejections'[e]
    BY <1>3, <2>2 DEF AttemptsEarned
  <2>5. failure' = "counted" => rec'[FailedId'].attempts < rejections'[FailedId']
    <3> SUFFICES ASSUME failure' = "counted"
                 PROVE  rec'[FailedId'].attempts < rejections'[FailedId']
      OBVIOUS
    <3>1. failure = "counted" /\ FailedId' = FailedId
      BY ContinuesWell DEF FailedId
    <3>2. /\ FailedId \in EventIds /\ sent \in Nat /\ sent + 1 \in 1..Len(batch)
      BY <3>1, FailedIsPending
    <3>3. FailedId \notin Entries(ids)
      BY <3>2, BatchEvents DEF FailedId
    <3> QED BY <2>2, <3>1, <3>2, <3>3 DEF AttemptsEarned
  <2>6. DeadOnlyIfPoison'
    BY <1>3, <2>2 DEF AttemptsEarned, DeadOnlyIfPoison
  <2> QED BY <2>3, <2>4, <2>5, <2>6 DEF AttemptsEarned, Pending
<1>14. Bounded'
  <2>1. Stored' \subseteq Stored /\ Heads' = Heads
    BY <1>1, <1>3 DEF Stored, Heads
  <2>2. IsFiniteSet(Stored') /\ Cardinality(Stored') <= MaxRecords
    <3>1. /\ IsFiniteSet(Stored') /\ Cardinality(Stored') <= Cardinality(Stored)
      BY <2>1, FS_Subset DEF Bounded
    <3>2. /\ Cardinality(Stored') \in Nat /\ Cardinality(Stored) \in Nat
          /\ Cardinality(Stored) <= MaxRecords
      BY <3>1, FS_CardinalityType DEF Bounded, WithinBounds, Stored
    <3> QED BY <3>1, <3>2, Options
  <2>3. Cardinality(Heads') <= MaxSources
    BY <2>1 DEF Bounded, WithinBounds, Heads
  <2>4. WithinBounds'
    BY <1>5, <2>2, <2>3 DEF WithinBounds, Stored, Heads
  <2> QED BY <1>1, <2>1, <2>2, <2>4 DEF Bounded
<1>15. Genuine'
  <2>1. Stored' \subseteq Stored /\ Adding' = Adding
    BY <1>1, <1>3 DEF Stored, Adding
  <2> QED BY <1>1, <2>1, RecordedSame, GenuineStays
<1> QED BY <1>8, <1>9, <1>10, <1>11, <1>12, <1>13, <1>14, <1>15

\* A step of the dispatcher that leaves the outbox as it is.
LEMMA SafeDispatch ==
  ASSUME Safe, Quiet, UNCHANGED <<outboxVars, writeVars, everDead>>,
         seen \subseteq seen', seen' \subseteq Envelopes, moved' \subseteq EventIds,
         Published' \subseteq Stored \cup Published,
         rejections' \in [EventIds -> Nat],
         \A e \in EventIds : rejections[e] <= rejections'[e],
         dpc' \in {"idle", "publishing", "acking", "marking"},
         sent' \in 0..Len(batch'), failure' \in {"none", "transient", "counted"},
         batch' \in Seq(Envelopes),
         dpc' = "idle" => batch' = <<>> /\ sent' = 0 /\ failure' = "none",
         dpc' = "publishing" => sent' < Len(batch') /\ failure' = "none",
         dpc' = "marking" => failure' = "counted",
         failure' # "none" => sent' < Len(batch'),
         \A i \in 1..sent' : batch'[i] \in seen',
         \A i \in (sent' + 1)..Len(batch') : Pending(batch'[i].id),
         \A i, j \in 1..Len(batch') : batch'[i].id = batch'[j].id => i = j,
         failure' = "counted" => rec[FailedId'].attempts < rejections'[FailedId']
  PROVE  Safe'
<1> USE DEF Safe
<1>1. /\ rec' = rec /\ queue' = queue /\ cursors' = cursors /\ receipts' = receipts
      /\ adding' = adding /\ addResult' = addResult /\ mutated' = mutated
      /\ agg' = agg /\ log' = log /\ client' = client /\ open' = open /\ everDead' = everDead
      /\ addResult = "none"
  BY DEF outboxVars, writeVars, Quiet
<1>2. Published \subseteq Published'
  BY DEF Published
<1>3. TypeOK'
  <2>1. \A e : Pending(e) <=> Pending(e)'
    BY <1>1 DEF Pending
  <2> QED BY <1>1, <2>1 DEF TypeOK
<1>4. Shapes' /\ Transactions'
  BY <1>1 DEF Shapes, Transactions, Quiet
<1>5. AllKept'
  <2>1. \A e \in EventIds : Kept(e) => Kept(e)'
    BY <1>1, <1>2 DEF Kept, Pending, Dead
  <2> QED BY <1>1, <2>1, AllKeptStays
<1>6. Dispatching'
  <2>1. (\A i \in (sent + 1)..Len(batch) : Pending(batch[i].id))'
    <3> SUFFICES ASSUME NEW i \in (sent' + 1)..Len(batch') PROVE rec'[batch'[i].id].place = "pending"
      BY DEF Pending
    <3> QED BY <1>1 DEF Pending
  <2>2. \A i \in DOMAIN receipts' : receipts'[i].id \in Published'
    BY <1>1, <1>2 DEF Dispatching
  <2> QED BY <2>1, <2>2 DEF Dispatching
<1>7. AttemptsEarned'
  <2>1. \A e \in EventIds : rec'[e].place = "none" => rec'[e].attempts = 0
    BY <1>1 DEF AttemptsEarned
  <2>2. \A e \in EventIds : Pending(e)' => /\ rec'[e].attempts < MaxDeliveryAttempts
                                           /\ rec'[e].attempts <= rejections'[e]
    <3> SUFFICES ASSUME NEW e \in EventIds, Pending(e)'
                 PROVE  /\ rec'[e].attempts < MaxDeliveryAttempts
                        /\ rec'[e].attempts <= rejections'[e]
      OBVIOUS
    <3>1. /\ Pending(e) /\ rec[e].attempts \in Nat /\ rejections[e] \in Nat
          /\ rejections'[e] \in Nat
      BY <1>1, Options DEF Pending, TypeOK, Shapes
    <3> QED BY <1>1, <3>1 DEF AttemptsEarned
  <2>3. DeadOnlyIfPoison'
    <3> SUFFICES ASSUME NEW e \in EventIds, Dead(e)'
                 PROVE  rejections'[e] >= MaxDeliveryAttempts
      BY DEF DeadOnlyIfPoison
    <3>1. Dead(e) /\ rejections[e] \in Nat /\ rejections'[e] \in Nat
      BY <1>1 DEF Dead, Shapes
    <3> QED BY <3>1, Options DEF AttemptsEarned, DeadOnlyIfPoison
  <2> QED BY <1>1, <2>1, <2>2, <2>3 DEF AttemptsEarned
<1>8. Bounded'
  BY Frame
<1>9. Genuine'
  <2>1. Stored' = Stored /\ Adding' = Adding
    BY <1>1 DEF Stored, Pending, Dead, Adding
  <2> QED BY <1>1, <2>1, RecordedSame, GenuineStays
<1> QED BY <1>3, <1>4, <1>5, <1>6, <1>7, <1>8, <1>9

\* Only events of a commit in hand are noted as moved.
LEMMA HandOutEvents ==
  ASSUME Safe, NEW envelopes, HandOut(envelopes), \A r \in envelopes : r.id \in Stored
  PROVE  moved' \subseteq EventIds
<1> SUFFICES ASSUME NEW r \in envelopes, Outdated(r) PROVE InHand(r.id.src) \subseteq EventIds
  BY DEF HandOut, Safe, TypeOK
<1>1. r.id \in Recorded /\ ~Committed(r.id)
  BY DEF Safe, Genuine, Outdated
<1>2. agg[r.id.src].phase # "clean" /\ r.id.src \in Sources
  BY <1>1 DEF Recorded, EventIds
<1> QED BY <1>2, InHandEvents DEF Safe

\* What getPending returns.
LEMMA GetPendingIs ==
  ASSUME Safe, NEW b, b = GetPending(BatchSize), queue # <<>>
  PROVE  /\ b \in Seq(Envelopes) /\ Len(b) > 0 /\ Len(b) <= Len(queue) /\ Len(b) \in Nat
         /\ Len(queue) \in Nat
         /\ \A i \in 1..Len(b) : /\ b[i] = Envelope(queue[i]) /\ queue[i] \in EventIds
                                 /\ b[i].id = queue[i] /\ Pending(queue[i]) /\ i \in DOMAIN queue
         /\ \A i, j \in 1..Len(b) : b[i].id = b[j].id => i = j
<1> DEFINE n == IF Len(queue) < BatchSize THEN Len(queue) ELSE BatchSize
<1>1. /\ Len(queue) \in Nat /\ Len(queue) > 0 /\ DOMAIN queue = 1..Len(queue)
      /\ \A i \in DOMAIN queue : queue[i] \in EventIds
  BY LenProperties, ElementOfSeq, EmptySeq DEF Safe, Shapes
<1>2. n \in Nat /\ n > 0 /\ n <= Len(queue)
  BY <1>1, Options
<1>3. b = [i \in 1..n |-> Envelope(queue[i])]
  BY DEF GetPending, Envelope
<1> HIDE DEF n
<1>4. \A i \in 1..n : /\ i \in DOMAIN queue /\ queue[i] \in EventIds
                      /\ Pending(queue[i]) /\ Envelope(queue[i]) \in Envelopes
  <2> SUFFICES ASSUME NEW i \in 1..n
               PROVE  /\ i \in DOMAIN queue /\ queue[i] \in EventIds
                      /\ Pending(queue[i]) /\ Envelope(queue[i]) \in Envelopes
    OBVIOUS
  <2>1. i \in DOMAIN queue /\ queue[i] \in EventIds
    BY <1>1, <1>2
  <2>2. Pending(queue[i])
    BY <2>1 DEF Safe, TypeOK
  <2>3. rec[queue[i]].version \in 0..MaxVersion /\ rec[queue[i]].previous \in 0..MaxVersion
    BY <2>1 DEF Safe, TypeOK
  <2> QED BY <2>1, <2>2, <2>3 DEF Envelope, Envelopes
<1>5. b \in [1..n -> Envelopes]
  BY <1>3, <1>4
<1>6. b \in Seq(Envelopes) /\ Len(b) = n
  BY <1>2, <1>5
<1>7. \A i \in 1..n : b[i] = Envelope(queue[i]) /\ b[i].id = queue[i]
  BY <1>3 DEF Envelope
<1>8. \A i, j \in 1..n : b[i].id = b[j].id => i = j
  BY <1>4, <1>7 DEF Safe, TypeOK
<1> QED BY <1>1, <1>2, <1>4, <1>6, <1>7, <1>8

\* The delivered prefix reached the sink; the rest of the batch is not in it.
LEMMA DeliveredIs ==
  ASSUME Safe
  PROVE  /\ Delivered \in Seq(EventIds)
         /\ \A e : e \in Entries(Delivered) <=> \E i \in 1..sent : batch[i].id = e
         /\ Entries(Delivered) \subseteq Published
         /\ \A i \in (sent + 1)..Len(batch) : batch[i].id \notin Entries(Delivered)
<1> USE DEF Safe
<1>1. /\ sent \in Nat /\ sent <= Len(batch) /\ Len(batch) \in Nat
      /\ \A i \in 1..sent : i \in 1..Len(batch)
      /\ \A i \in (sent + 1)..Len(batch) : i \in 1..Len(batch) /\ i \notin 1..sent
  BY BatchEvents DEF TypeOK
<1>2. Delivered \in [1..sent -> EventIds] /\ Delivered = [i \in 1..sent |-> batch[i].id]
  BY <1>1, BatchEvents DEF Delivered
<1> DEFINE d == Delivered
<1> HIDE DEF d
<1>3. d \in Seq(EventIds) /\ DOMAIN d = 1..sent /\ \A i \in 1..sent : d[i] = batch[i].id
  BY <1>1, <1>2 DEF d
<1>4. \A e : e \in Entries(d) <=> \E i \in 1..sent : batch[i].id = e
  BY <1>3 DEF Entries
<1>5. \A e \in Entries(d) : e \in Published
  BY <1>4 DEF Dispatching, Published
<1>6. \A i \in (sent + 1)..Len(batch) : batch[i].id \notin Entries(d)
  BY <1>1, <1>4 DEF Dispatching
<1> QED BY <1>3, <1>4, <1>5, <1>6 DEF d

\* The delivered prefix is acknowledged, whatever becomes of the answer.
LEMMA SafeAcked ==
  ASSUME Safe, Quiet, MarkDispatched(Delivered), AfterAck,
         rejections' = [e \in EventIds |-> IF \E i \in 1..sent : batch[i].id = e
                                           THEN 0 ELSE rejections[e]],
         UNCHANGED <<writeVars, seen, everDead, moved>>
  PROVE  Safe'
<1>1. /\ Delivered \in Seq(EventIds) /\ Entries(Delivered) \subseteq Published
      /\ \A i \in (sent + 1)..Len(batch) : batch[i].id \notin Entries(Delivered)
      /\ \A e : e \in Entries(Delivered) <=> \E i \in 1..sent : batch[i].id = e
  BY DeliveredIs
<1>2. Continues
  BY DEF AfterAck, Continues
<1>3. rejections' = [e \in EventIds |-> IF e \in Entries(Delivered) THEN 0 ELSE rejections[e]]
  BY <1>1
<1>4. /\ seen \subseteq seen' /\ seen' \subseteq Envelopes /\ moved' \subseteq EventIds
      /\ Published' = Published
  BY DEF Safe, Shapes, TypeOK, Published
<1> QED BY <1>1, <1>2, <1>3, <1>4, SafeMarked

\* markDispatched takes effect.
LEMMA SafeAck ==
  ASSUME Safe, Ack
  PROVE  Safe'
  BY SafeAcked DEF Ack

\* A step that only lets the dispatcher go on, or end its pass.
LEMMA SafeContinues ==
  ASSUME Safe, Quiet, Continues, UNCHANGED <<outboxVars, writeVars, historyVars>>
  PROVE  Safe'
<1> USE DEF Safe
<1>1. /\ seen' = seen /\ everDead' = everDead /\ rejections' = rejections /\ moved' = moved
      /\ Published' = Published /\ rec' = rec
  BY DEF historyVars, outboxVars, Published
<1>2. /\ seen' \subseteq Envelopes /\ moved' \subseteq EventIds
      /\ rejections' \in [EventIds -> Nat]
      /\ \A e \in EventIds : rejections[e] <= rejections'[e]
  BY <1>1 DEF Shapes, TypeOK
<1>3. \A i \in (sent' + 1)..Len(batch') : Pending(batch'[i].id)
  <2> SUFFICES ASSUME NEW i \in (sent' + 1)..Len(batch') PROVE Pending(batch'[i].id)
    OBVIOUS
  <2>1. batch' = batch /\ sent' = sent
    BY <1>1, ContinuesWell
  <2> QED BY <2>1 DEF Dispatching
<1>4. failure' = "counted" => rec[FailedId'].attempts < rejections'[FailedId']
  <2> SUFFICES ASSUME failure' = "counted"
               PROVE  rec[FailedId'].attempts < rejections'[FailedId']
    OBVIOUS
  <2>1. failure = "counted" /\ FailedId' = FailedId
    BY <1>1, ContinuesWell DEF FailedId
  <2> QED BY <1>1, <2>1 DEF AttemptsEarned
<1>5. /\ dpc' \in {"idle", "publishing", "acking", "marking"}
      /\ sent' \in 0..Len(batch') /\ failure' \in {"none", "transient", "counted"}
      /\ batch' \in Seq(Envelopes)
      /\ dpc' = "idle" => batch' = <<>> /\ sent' = 0 /\ failure' = "none"
      /\ dpc' = "publishing" => sent' < Len(batch') /\ failure' = "none"
      /\ dpc' = "marking" => failure' = "counted"
      /\ failure' # "none" => sent' < Len(batch')
      /\ \A i \in 1..sent' : batch'[i] \in seen'
      /\ \A i, j \in 1..Len(batch') : batch'[i].id = batch'[j].id => i = j
  BY <1>1, ContinuesWell
<1> QED BY <1>1, <1>2, <1>3, <1>4, <1>5, SafeDispatch

\* It fails, or its answer is lost.
LEMMA SafeAckFails ==
  ASSUME Safe, NEW applied \in BOOLEAN, AckFails(applied)
  PROVE  Safe'
<1>1. CASE applied
  BY <1>1, SafeAcked DEF AckFails
<1>2. CASE ~applied
  <2>1. /\ Quiet /\ AfterAck /\ UNCHANGED <<outboxVars, writeVars, historyVars>>
    BY <1>2 DEF AckFails, historyVars
  <2>2. Continues
    BY <2>1 DEF AfterAck, Continues
  <2> QED BY <2>1, <2>2, SafeContinues
<1> QED BY <1>1, <1>2

\* markFailed fails: the pass ends all the same.
LEMMA SafeMarkFails ==
  ASSUME Safe, MarkFails
  PROVE  Safe'
<1>1. Quiet /\ Continues /\ UNCHANGED <<outboxVars, writeVars, historyVars>>
  BY DEF MarkFails, Continues
<1> QED BY <1>1, SafeContinues

\* An operator delivers a dead letter by hand.
LEMMA SafeManualRedeliver ==
  ASSUME Safe, NEW e \in EventIds, ManualRedeliver(e)
  PROVE  Safe'
<1> USE DEF Safe
<1>1. /\ Quiet /\ Dead(e) /\ seen' = seen \cup {Envelope(e)} /\ HandOut({Envelope(e)})
      /\ rejections' = [rejections EXCEPT ![e] = 0] /\ MarkDispatched(<<e>>)
      /\ UNCHANGED <<writeVars, dispatchVars, everDead>>
  BY DEF ManualRedeliver
<1>2. Envelope(e) \in Envelopes /\ Envelope(e).id = e
  <2>1. rec[e].version \in 0..MaxVersion /\ rec[e].previous \in 0..MaxVersion
    BY DEF TypeOK
  <2> QED BY <2>1 DEF Envelope, Envelopes
<1>3. <<e>> \in Seq(EventIds) /\ Entries(<<e>>) = {e}
  <2>1. DOMAIN <<e>> = {1} /\ <<e>>[1] = e /\ <<e>> \in Seq(EventIds)
    OBVIOUS
  <2> QED BY <2>1 DEF Entries
<1>4. rejections' = [d \in EventIds |-> IF d \in {e} THEN 0 ELSE rejections[d]]
  BY <1>1 DEF Shapes
<1>5. moved' \subseteq EventIds
  BY <1>1, <1>2, HandOutEvents DEF Stored
<1>6. Continues
  BY <1>1 DEF Continues, dispatchVars
<1>7. \A i \in (sent + 1)..Len(batch) : batch[i].id \notin {e}
  BY <1>1 DEF Dispatching, Pending, Dead
<1>8. /\ seen \subseteq seen' /\ seen' \subseteq Envelopes
      /\ {e} \subseteq Published' /\ Published' \subseteq Stored \cup Published
  BY <1>1, <1>2 DEF Published, Shapes, Stored
<1>9. UNCHANGED <<writeVars, everDead>>
  BY <1>1
<1> QED BY <1>1, <1>3, <1>4, <1>5, <1>6, <1>7, <1>8, <1>9, SafeMarked

\* A pass begins with copies of the oldest pending records.
LEMMA SafePoll ==
  ASSUME Safe, Poll
  PROVE  Safe'
<1> USE DEF Safe
<1>1. /\ Quiet /\ queue # <<>> /\ dpc' = "publishing" /\ batch' = GetPending(BatchSize)
      /\ sent' = 0 /\ failure' = "none" /\ HandOut({batch'[i] : i \in DOMAIN batch'})
      /\ UNCHANGED <<outboxVars, writeVars, seen, everDead, rejections>>
      /\ seen' = seen /\ rejections' = rejections
  BY DEF Poll
<1>2. /\ batch' \in Seq(Envelopes) /\ Len(batch') > 0 /\ Len(batch') \in Nat
      /\ \A i \in 1..Len(batch') : batch'[i].id = queue[i] /\ Pending(queue[i])
                                   /\ queue[i] \in EventIds
      /\ \A i, j \in 1..Len(batch') : batch'[i].id = batch'[j].id => i = j
  BY <1>1, GetPendingIs
<1>3. moved' \subseteq EventIds
  <2>1. \A r \in {batch'[i] : i \in DOMAIN batch'} : r.id \in Stored
    BY <1>2, LenProperties DEF Stored
  <2> QED BY <1>1, <2>1, HandOutEvents
<1>4. /\ sent' \in 0..Len(batch') /\ sent' < Len(batch')
      /\ \A i \in (sent' + 1)..Len(batch') : Pending(batch'[i].id)
      /\ \A i \in 1..sent' : batch'[i] \in seen'
  BY <1>1, <1>2
<1>5. /\ rejections' \in [EventIds -> Nat]
      /\ \A e \in EventIds : rejections[e] <= rejections'[e]
      /\ seen \subseteq seen' /\ seen' \subseteq Envelopes
      /\ Published' \subseteq Stored \cup Published
  BY <1>1 DEF Shapes, Published
<1>6. UNCHANGED <<outboxVars, writeVars, everDead>>
  BY <1>1
<1>7. /\ dpc' \in {"idle", "publishing", "acking", "marking"}
      /\ failure' \in {"none", "transient", "counted"}
      /\ dpc' # "idle" /\ dpc' # "marking" /\ failure' = "none"
  BY <1>1
<1> QED BY <1>1, <1>2, <1>3, <1>4, <1>5, <1>6, <1>7, SafeDispatch

\* While it publishes, the dispatcher is at a record that is stored.
LEMMA NextIsPending ==
  ASSUME Safe, dpc = "publishing"
  PROVE  /\ sent \in Nat /\ Len(batch) \in Nat /\ sent + 1 \in 1..Len(batch)
         /\ batch[sent + 1] \in Envelopes /\ batch[sent + 1].id \in Stored
         /\ batch[sent + 1].id \in EventIds /\ failure = "none"
         /\ Pending(batch[sent + 1].id)
<1>1. /\ sent \in Nat /\ Len(batch) \in Nat /\ sent + 1 \in 1..Len(batch)
      /\ sent + 1 \in (sent + 1)..Len(batch)
  BY BatchEvents DEF Safe, TypeOK, Dispatching
<1>2. batch[sent + 1] \in Envelopes /\ batch[sent + 1].id \in EventIds
  BY <1>1, BatchEvents, ElementOfSeq, LenProperties DEF Safe, Shapes
<1>3. Pending(batch[sent + 1].id) /\ failure = "none"
  BY <1>1 DEF Safe, Dispatching
<1> QED BY <1>1, <1>2, <1>3 DEF Stored

\* The sink takes the record.
LEMMA SafePublishSucceeds ==
  ASSUME Safe, PublishSucceeds
  PROVE  Safe'
<1> USE DEF Safe
<1>1. /\ Quiet /\ dpc = "publishing" /\ seen' = seen \cup {batch[sent + 1]}
      /\ sent' = sent + 1 /\ dpc' = IF sent + 1 = Len(batch) THEN "acking" ELSE "publishing"
      /\ batch' = batch /\ failure' = failure /\ rejections' = rejections /\ moved' = moved
      /\ UNCHANGED <<outboxVars, writeVars, everDead>>
  BY DEF PublishSucceeds
<1>2. /\ sent \in Nat /\ Len(batch) \in Nat /\ sent + 1 \in 1..Len(batch)
      /\ batch[sent + 1] \in Envelopes /\ batch[sent + 1].id \in Stored /\ failure = "none"
  BY <1>1, NextIsPending
<1>3. /\ sent' \in 0..Len(batch')
      /\ dpc' = "publishing" => sent' < Len(batch')
      /\ \A i \in (sent' + 1)..Len(batch') : i \in (sent + 1)..Len(batch)
      /\ \A i \in 1..sent' : i \in 1..sent \/ i = sent + 1
  BY <1>1, <1>2
<1>4. \A i \in (sent' + 1)..Len(batch') : Pending(batch'[i].id)
  BY <1>1, <1>3 DEF Dispatching
<1>5. \A i \in 1..sent' : batch'[i] \in seen'
  BY <1>1, <1>3 DEF Dispatching
<1>6. /\ seen \subseteq seen' /\ seen' \subseteq Envelopes
      /\ Published' \subseteq Stored \cup Published
      /\ rejections' \in [EventIds -> Nat]
      /\ \A e \in EventIds : rejections[e] <= rejections'[e]
      /\ moved' \subseteq EventIds /\ batch' \in Seq(Envelopes)
      /\ \A i, j \in 1..Len(batch') : batch'[i].id = batch'[j].id => i = j
  BY <1>1, <1>2 DEF Shapes, Published, TypeOK, Dispatching
<1>7. /\ dpc' \in {"idle", "publishing", "acking", "marking"} /\ dpc' # "idle"
      /\ dpc' # "marking" /\ failure' = "none" /\ failure' \in {"none", "transient", "counted"}
  BY <1>1, <1>2
<1>8. Quiet /\ UNCHANGED <<outboxVars, writeVars, everDead>> /\ Safe
  BY <1>1
<1>9. /\ dpc' = "idle" => batch' = <<>> /\ sent' = 0 /\ failure' = "none"
      /\ dpc' = "publishing" => sent' < Len(batch') /\ failure' = "none"
      /\ dpc' = "marking" => failure' = "counted"
      /\ failure' # "none" => sent' < Len(batch')
      /\ failure' = "counted" => rec[FailedId'].attempts < rejections'[FailedId']
  BY <1>3, <1>7
<1> HIDE DEF Safe
<1> QED BY ONLY <1>3, <1>4, <1>5, <1>6, <1>7, <1>8, <1>9, SafeDispatch

\* Publishing stops: the record in hand counts as rejected, or not at all.
LEMMA SafeStops ==
  ASSUME Safe, NEW kind \in {"counted", "transient"}, StopPublishing(kind),
         seen' = seen \/ seen' = seen \cup {batch[sent + 1]},
         IF kind = "counted"
         THEN rejections' = [rejections EXCEPT ![batch[sent + 1].id] = @ + 1]
         ELSE rejections' = rejections
  PROVE  Safe'
<1> USE DEF Safe
<1>1. /\ Quiet /\ dpc = "publishing"
      /\ \/ /\ batch' = batch /\ sent' = sent /\ failure' = kind
            /\ dpc' = "acking" \/ (dpc' = "marking" /\ kind = "counted")
         \/ dpc' = "idle" /\ batch' = <<>> /\ sent' = 0 /\ failure' = "none"
      /\ UNCHANGED <<outboxVars, writeVars, everDead>> /\ moved' = moved
  BY DEF StopPublishing, PassEnds
<1>2. /\ sent \in Nat /\ Len(batch) \in Nat /\ sent + 1 \in 1..Len(batch)
      /\ batch[sent + 1] \in Envelopes /\ batch[sent + 1].id \in Stored /\ failure = "none"
      /\ batch[sent + 1].id \in EventIds /\ Pending(batch[sent + 1].id)
  BY <1>1, NextIsPending
<1>3. /\ seen \subseteq seen' /\ seen' \subseteq Envelopes /\ moved' \subseteq EventIds
      /\ Published' \subseteq Stored \cup Published
  BY <1>1, <1>2 DEF Shapes, Published, TypeOK
<1>4. /\ rejections' \in [EventIds -> Nat]
      /\ \A e \in EventIds : rejections[e] <= rejections'[e]
      /\ kind = "counted" => rejections'[batch[sent + 1].id] = rejections[batch[sent + 1].id] + 1
  <2> DEFINE e == batch[sent + 1].id
  <2>1. e \in EventIds /\ rejections \in [EventIds -> Nat]
    BY <1>2 DEF Shapes
  <2>2. \A d \in EventIds : rejections[d] \in Nat
    BY <2>1
  <2>3. CASE kind = "counted"
    <3>1. rejections' = [rejections EXCEPT ![e] = @ + 1]
      BY <2>3
    <3> HIDE DEF e
    <3>2. /\ rejections' \in [EventIds -> Nat] /\ rejections'[e] = rejections[e] + 1
          /\ \A d \in EventIds : rejections[d] <= rejections'[d]
      BY <2>1, <2>2, <3>1
    <3> QED BY <3>2 DEF e
  <2>4. CASE kind # "counted"
    BY <2>1, <2>2, <2>4
  <2> QED BY <2>3, <2>4
<1>5. CASE batch' = batch
  <2>1. /\ sent' = sent /\ failure' = kind /\ dpc' \in {"acking", "marking"}
        /\ dpc' = "marking" => kind = "counted"
    <3>1. batch # <<>>
      BY <1>2, EmptySeq
    <3> QED BY <1>1, <1>5, <3>1
  <2>2. failure' = "counted" => rec[FailedId'].attempts < rejections'[FailedId']
    <3>1. FailedId' = batch[sent + 1].id
      BY <1>5, <2>1 DEF FailedId
    <3> DEFINE e == batch[sent + 1].id
    <3>2. rec[e].attempts \in Nat /\ rejections[e] \in Nat /\ rec[e].attempts <= rejections[e]
      BY <1>2, Options DEF AttemptsEarned, Shapes, TypeOK
    <3> QED BY <1>4, <2>1, <3>1, <3>2
  <2>3. /\ \A i \in (sent' + 1)..Len(batch') : Pending(batch'[i].id)
        /\ \A i \in 1..sent' : batch'[i] \in seen'
        /\ \A i, j \in 1..Len(batch') : batch'[i].id = batch'[j].id => i = j
        /\ batch' \in Seq(Envelopes)
    BY <1>3, <1>5, <2>1 DEF Dispatching, Shapes
  <2>4. sent' \in 0..Len(batch') /\ sent' < Len(batch')
    BY <1>2, <1>5, <2>1
  <2>5. /\ dpc' \in {"idle", "publishing", "acking", "marking"} /\ dpc' # "idle"
        /\ dpc' # "publishing" /\ failure' \in {"none", "transient", "counted"}
        /\ dpc' = "marking" => failure' = "counted"
    BY <2>1
  <2>6. Quiet /\ UNCHANGED <<outboxVars, writeVars, everDead>>
    BY <1>1
  <2> QED BY <1>3, <1>4, <2>2, <2>3, <2>4, <2>5, <2>6, SafeDispatch
<1>6. CASE batch' # batch
  <2>1. dpc' = "idle" /\ batch' = <<>> /\ sent' = 0 /\ failure' = "none"
        /\ Len(batch') = 0 /\ batch' \in Seq(Envelopes)
    BY <1>1, <1>6, EmptySeq
  <2>2. /\ dpc' \in {"idle", "publishing", "acking", "marking"} /\ batch' \in Seq(Envelopes)
        /\ failure' \in {"none", "transient", "counted"}
        /\ sent' \in 0..Len(batch') /\ (\A i \in 1..sent' : batch'[i] \in seen')
        /\ \A i \in (sent' + 1)..Len(batch') : Pending(batch'[i].id)
        /\ \A i, j \in 1..Len(batch') : batch'[i].id = batch'[j].id => i = j
    BY <2>1
  <2>3. Quiet /\ UNCHANGED <<outboxVars, writeVars, everDead>> /\ Safe
    BY <1>1
  <2>4. /\ dpc' = "idle" => batch' = <<>> /\ sent' = 0 /\ failure' = "none"
        /\ dpc' = "publishing" => sent' < Len(batch') /\ failure' = "none"
        /\ dpc' = "marking" => failure' = "counted"
        /\ failure' # "none" => sent' < Len(batch')
        /\ failure' = "counted" => rec[FailedId'].attempts < rejections'[FailedId']
    BY <2>1
  <2> HIDE DEF Safe
  <2> QED BY ONLY <1>3, <1>4, <2>2, <2>3, <2>4, SafeDispatch
<1> QED BY <1>5, <1>6

\* The sink rejects it, or does not answer.
LEMMA SafePublishRejected ==
  ASSUME Safe, PublishRejected
  PROVE  Safe'
  BY SafeStops DEF PublishRejected

\* A failure that does not count, or an answer that is lost.
LEMMA SafePublishInterrupted ==
  ASSUME Safe, NEW reached \in BOOLEAN, PublishInterrupted(reached)
  PROVE  Safe'
<1>1. /\ StopPublishing("transient") /\ rejections' = rejections
      /\ seen' = seen \/ seen' = seen \cup {batch[sent + 1]}
  BY DEF PublishInterrupted
<1> QED BY <1>1, SafeStops

\* markFailed counts a rejection, and dead-letters only what was rejected
\* often enough.
LEMMA SafeMark ==
  ASSUME Safe, Mark
  PROVE  Safe'
<1> USE DEF Safe
<1> DEFINE e == FailedId
<1>1. /\ Quiet /\ dpc = "marking" /\ MarkFailed(e)
      /\ everDead' = IF rec'[e].place = "dead" THEN everDead \cup {e} ELSE everDead
      /\ dpc' = "idle" /\ batch' = <<>> /\ sent' = 0 /\ failure' = "none"
      /\ agg' = agg /\ log' = log /\ client' = client /\ open' = open
      /\ seen' = seen /\ rejections' = rejections /\ moved' = moved
      /\ receipts' = receipts /\ cursors' = cursors /\ adding' = adding
      /\ addResult' = addResult /\ mutated' = mutated /\ addResult = "none"
  BY DEF Mark, PassEnds, MarkFailed, addVars, writeVars, Quiet
<1>2. failure = "counted" /\ e \in EventIds /\ Pending(e)
  BY <1>1, FailedIsPending DEF Dispatching
<1>3. /\ rec[e].attempts \in 0..MaxDeliveryAttempts /\ rejections[e] \in Nat
      /\ rec[e].attempts < MaxDeliveryAttempts /\ rec[e].attempts < rejections[e]
      /\ rec[e] \in [place : {"none", "pending", "dead"}, version : 0..MaxVersion,
                     previous : 0..MaxVersion, size : 0..MaxSize,
                     attempts : 0..MaxDeliveryAttempts]
  BY <1>2 DEF AttemptsEarned, Shapes, TypeOK
<1>4. rec[e].attempts + 1 \in 0..MaxDeliveryAttempts /\ rec[e].attempts + 1 <= rejections[e]
  BY <1>3, Options
<1> HIDE DEF e
\* What becomes of the record, of the queue and of everDead.
<1>5. /\ rec' \in [EventIds -> [place : {"none", "pending", "dead"}, version : 0..MaxVersion,
                                previous : 0..MaxVersion, size : 0..MaxSize,
                                attempts : 0..MaxDeliveryAttempts]]
      /\ \A d \in EventIds : d # e => rec'[d] = rec[d]
      /\ rec'[e].attempts = rec[e].attempts + 1
      /\ queue' \in Seq(EventIds)
      /\ Entries(queue') = {d \in EventIds : Pending(d)'}
      /\ \A i, j \in DOMAIN queue' : queue'[i] = queue'[j] => i = j
      /\ \/ rec'[e].place = "pending" /\ rec[e].attempts + 1 < MaxDeliveryAttempts
         \/ rec'[e].place = "dead" /\ rec[e].attempts + 1 >= MaxDeliveryAttempts
  <2>1. CASE rec[e].attempts + 1 >= MaxDeliveryAttempts
    <3>1. /\ rec' = [rec EXCEPT ![e].place = "dead", ![e].attempts = @ + 1]
          /\ Dequeue({e})
      BY <1>1, <1>2, <2>1 DEF MarkFailed
    <3> DEFINE r1 == [rec[e] EXCEPT !.place = "dead"]
               r2 == [r1 EXCEPT !.attempts = rec[e].attempts + 1]
    <3>2. /\ r1 \in [place : {"none", "pending", "dead"}, version : 0..MaxVersion,
                     previous : 0..MaxVersion, size : 0..MaxSize,
                     attempts : 0..MaxDeliveryAttempts]
          /\ r1.place = "dead" /\ r1.attempts = rec[e].attempts
      BY <1>3
    <3>3. rec' = [rec EXCEPT ![e] = r2]
      BY <3>1, <1>2, <1>3 DEF TypeOK
    <3> HIDE DEF r1
    <3>4. /\ r2 \in [place : {"none", "pending", "dead"}, version : 0..MaxVersion,
                     previous : 0..MaxVersion, size : 0..MaxSize,
                     attempts : 0..MaxDeliveryAttempts]
          /\ r2.place = "dead" /\ r2.attempts = rec[e].attempts + 1
      BY <1>4, <3>2
    <3> HIDE DEF r2
    <3>5. /\ rec' \in [EventIds -> [place : {"none", "pending", "dead"}, version : 0..MaxVersion,
                                    previous : 0..MaxVersion, size : 0..MaxSize,
                                    attempts : 0..MaxDeliveryAttempts]]
          /\ \A d \in EventIds : d # e => rec'[d] = rec[d]
          /\ rec'[e] = r2
      BY <1>2, <3>3, <3>4 DEF TypeOK
    <3>6. /\ queue' \in Seq(EventIds)
          /\ Entries(queue') = {d \in EventIds : Pending(d)} \ {e}
          /\ \A i, j \in DOMAIN queue' : queue'[i] = queue'[j] => i = j
      BY <3>1, DequeueKeeps
    <3>7. \A d \in EventIds : Pending(d)' <=> Pending(d) /\ d # e
      BY <3>4, <3>5 DEF Pending
    <3> QED BY <2>1, <3>4, <3>5, <3>6, <3>7
  <2>2. CASE ~(rec[e].attempts + 1 >= MaxDeliveryAttempts)
    <3>1. /\ rec' = [rec EXCEPT ![e].attempts = @ + 1]
          /\ queue' = queue
      BY <1>1, <1>2, <2>2 DEF MarkFailed
    <3> DEFINE r1 == [rec[e] EXCEPT !.attempts = rec[e].attempts + 1]
    <3>2. /\ r1 \in [place : {"none", "pending", "dead"}, version : 0..MaxVersion,
                     previous : 0..MaxVersion, size : 0..MaxSize,
                     attempts : 0..MaxDeliveryAttempts]
          /\ r1.place = "pending" /\ r1.attempts = rec[e].attempts + 1
      BY <1>2, <1>3, <1>4 DEF Pending
    <3>3. rec' = [rec EXCEPT ![e] = r1]
      BY <3>1, <1>2 DEF TypeOK
    <3> HIDE DEF r1
    <3>5. /\ rec' \in [EventIds -> [place : {"none", "pending", "dead"}, version : 0..MaxVersion,
                                    previous : 0..MaxVersion, size : 0..MaxSize,
                                    attempts : 0..MaxDeliveryAttempts]]
          /\ \A d \in EventIds : d # e => rec'[d] = rec[d]
          /\ rec'[e] = r1
      BY <1>2, <3>2, <3>3 DEF TypeOK
    <3>6. \A d \in EventIds : Pending(d)' <=> Pending(d)
      BY <1>2, <3>2, <3>5 DEF Pending
    <3>7. /\ queue' \in Seq(EventIds)
          /\ Entries(queue') = {d \in EventIds : Pending(d)}
          /\ \A i, j \in DOMAIN queue' : queue'[i] = queue'[j] => i = j
      BY <3>1 DEF Shapes, TypeOK, Entries
    <3>8. rec[e].attempts + 1 < MaxDeliveryAttempts
      BY <2>2, <1>3, Options
    <3> QED BY <3>2, <3>5, <3>6, <3>7, <3>8
  <2> QED BY <2>1, <2>2
<1>6. \A d \in EventIds : Pending(d) \/ Dead(d) <=> Pending(d)' \/ Dead(d)'
  BY <1>2, <1>5 DEF Pending, Dead
<1>7. /\ everDead' \subseteq everDead \cup {e} /\ Stored' = Stored /\ e \in Stored
      /\ Published' = Published /\ Adding' = Adding
  BY <1>1, <1>2, <1>6 DEF Stored, Published, Adding
<1>8. TypeOK'
  <2>1. {queue'[i] : i \in DOMAIN queue'} = {d \in EventIds : Pending(d)'}
    BY <1>5 DEF Entries
  <2>2. everDead' \subseteq EventIds
    BY <1>2, <1>7 DEF TypeOK
  <2>3. Len(batch') = 0 /\ sent' \in 0..Len(batch')
    BY <1>1, EmptySeq
  <2>4. /\ rec' \in [EventIds -> [place : {"none", "pending", "dead"}, version : 0..MaxVersion,
                                  previous : 0..MaxVersion, size : 0..MaxSize,
                                  attempts : 0..MaxDeliveryAttempts]]
        /\ \A i, j \in DOMAIN queue' : queue'[i] = queue'[j] => i = j
    BY <1>5
  <2>5. /\ dpc' \in {"idle", "publishing", "acking", "marking"}
        /\ failure' \in {"none", "transient", "counted"}
        /\ addResult' \in {"none", "running", "added", "rejected"} /\ mutated' \in BOOLEAN
    BY <1>1 DEF TypeOK
  <2> QED BY <1>1, <2>1, <2>2, <2>3, <2>4, <2>5 DEF TypeOK
<1>9. Shapes'
  <2>1. batch' \in Seq(Envelopes)
    BY <1>1, EmptySeq
  <2> QED BY <1>1, <1>5, <2>1 DEF Shapes
<1>10. Transactions'
  BY <1>1 DEF Transactions, Quiet
<1>11. AllKept'
  <2>1. \A d \in EventIds : Kept(d) => Kept(d)'
    BY <1>6, <1>7 DEF Kept
  <2>2. addResult' # "running" /\ addResult' # "added"
    BY <1>1
  <2> QED BY <1>1, <2>1, <2>2, AllKeptStays
<1>12. Dispatching'
  <2>1. Len(batch') = 0
    BY <1>1, EmptySeq
  <2>2. \A i \in DOMAIN receipts' : receipts'[i].id \in Published'
    BY <1>1, <1>7 DEF Dispatching
  <2> QED BY <1>1, <2>1, <2>2 DEF Dispatching
<1>13. AttemptsEarned'
  <2>1. \A d \in EventIds : rec'[d].place = "none" => rec'[d].attempts = 0
    BY <1>5 DEF AttemptsEarned
  <2>2. \A d \in EventIds : Pending(d)' => /\ rec'[d].attempts < MaxDeliveryAttempts
                                           /\ rec'[d].attempts <= rejections'[d]
    <3> SUFFICES ASSUME NEW d \in EventIds, Pending(d)'
                 PROVE  /\ rec'[d].attempts < MaxDeliveryAttempts
                        /\ rec'[d].attempts <= rejections'[d]
      OBVIOUS
    <3>1. CASE d = e
      BY <1>1, <1>4, <1>5, <3>1 DEF Pending
    <3>2. CASE d # e
      BY <1>1, <1>5, <3>2 DEF Pending, AttemptsEarned
    <3> QED BY <3>1, <3>2
  <2>3. DeadOnlyIfPoison'
    <3> SUFFICES ASSUME NEW d \in EventIds, Dead(d)'
                 PROVE  rejections'[d] >= MaxDeliveryAttempts
      BY DEF DeadOnlyIfPoison
    <3>1. CASE d = e
      BY <1>1, <1>3, <1>4, <1>5, <3>1, Options DEF Dead
    <3>2. CASE d # e
      BY <1>1, <1>5, <3>2 DEF Dead, AttemptsEarned, DeadOnlyIfPoison
    <3> QED BY <3>1, <3>2
  <2> QED BY <1>1, <2>1, <2>2, <2>3 DEF AttemptsEarned
<1>14. Bounded'
  <2>1. Stored' = Stored /\ Heads' = Heads /\ receipts' = receipts /\ cursors' = cursors
    BY <1>1, <1>7 DEF Heads
  <2>2. WithinBounds'
    BY <2>1 DEF Bounded, WithinBounds, Stored, Heads
  <2>3. addResult' # "running"
    BY <1>1
  <2> QED BY <2>1, <2>2, <2>3 DEF Bounded
<1>15. Genuine'
  <2>1. Recorded' = Recorded
    BY <1>1, RecordedSame
  <2> QED BY <1>7, <2>1, GenuineStays
<1> QED BY <1>8, <1>9, <1>10, <1>11, <1>12, <1>13, <1>14, <1>15

\* Nothing changes.
LEMMA SafeStutters ==
  ASSUME Safe, UNCHANGED vars
  PROVE  Safe'
<1> USE DEF Safe
<1>1. /\ UNCHANGED <<outboxVars, writeVars, dispatchVars, historyVars>>
  BY DEF vars
<1>2. /\ rec' = rec /\ queue' = queue /\ cursors' = cursors /\ receipts' = receipts
      /\ adding' = adding /\ addResult' = addResult /\ mutated' = mutated
      /\ dpc' = dpc /\ batch' = batch /\ sent' = sent /\ failure' = failure
      /\ agg' = agg /\ log' = log /\ client' = client /\ open' = open
      /\ seen' = seen /\ everDead' = everDead /\ rejections' = rejections /\ moved' = moved
  BY <1>1 DEF outboxVars, writeVars, dispatchVars, historyVars
<1>3. TypeOK' /\ Shapes'
  <2>1. \A e : Pending(e) <=> Pending(e)'
    BY <1>2 DEF Pending
  <2>2. {e \in EventIds : Pending(e)} = {e \in EventIds : Pending(e)'}
    BY <2>1
  <2>3. TypeOK'
    BY ZenonT(60), <1>2, <2>2 DEF TypeOK
  <2> QED BY <1>2, <2>3 DEF Shapes
<1>4. Transactions' /\ AllKept'
  BY <1>2, Frame DEF Transactions, Quiet, AllKept, NoEventLost, Pending, Dead, Published,
     InHand, Kept, Adding
<1>5. Dispatching' /\ AttemptsEarned' /\ Bounded'
  BY <1>1, <1>2, Frame
<1>6. Genuine'
  <2>1. Stored' = Stored /\ Published' = Published /\ Adding' = Adding
    BY <1>2 DEF Stored, Pending, Dead, Published, Adding
  <2> QED BY <1>2, <2>1, RecordedSame, GenuineStays
<1> QED BY <1>3, <1>4, <1>5, <1>6

\* Every step keeps the invariant.
LEMMA SafeStep == Safe /\ [Next]_vars => Safe'
<1> SUFFICES ASSUME Safe, [Next]_vars PROVE Safe'
  OBVIOUS
<1>1. ASSUME NEW s \in Sources, NEW n \in 1..MaxSize, Record(s, n) PROVE Safe'
  BY <1>1, SafeRecord
<1>2. ASSUME NEW s \in Sources, Bump(s) PROVE Safe'
  BY <1>2, SafeBump
<1>3. ASSUME NEW s \in Sources, NEW t \in Sources, Harvest(s, t) PROVE Safe'
  BY <1>3, SafeHarvest
<1>4. CASE AddStep
  BY <1>4, SafeAdd
<1>5. CASE AddSettles
  BY <1>5, SafeAddSettles
<1>6. ASSUME NEW g \in open, CommitTx(g) PROVE Safe'
  BY <1>6, SafeCommit
<1>7. ASSUME NEW g \in open, RollbackTx(g) PROVE Safe'
  BY <1>7, SafeRollback
<1>8. ASSUME NEW d \in EventIds, NEW e \in EventIds, Readd(d, e) PROVE Safe'
  BY <1>8, SafeReadd
<1>9. ASSUME NEW e \in EventIds, ManualRedeliver(e) PROVE Safe'
  BY <1>9, SafeManualRedeliver
<1>10. CASE Poll
  BY <1>10, SafePoll
<1>11. CASE PublishSucceeds
  BY <1>11, SafePublishSucceeds
<1>12. CASE PublishRejected
  BY <1>12, SafePublishRejected
<1>13. ASSUME NEW reached \in BOOLEAN, PublishInterrupted(reached) PROVE Safe'
  BY <1>13, SafePublishInterrupted
<1>14. CASE Ack
  BY <1>14, SafeAck
<1>15. ASSUME NEW applied \in BOOLEAN, AckFails(applied) PROVE Safe'
  BY <1>15, SafeAckFails
<1>16. CASE Mark
  BY <1>16, SafeMark
<1>17. CASE MarkFails
  BY <1>17, SafeMarkFails
<1>18. CASE UNCHANGED vars
  BY <1>18, SafeStutters
<1> QED BY <1>1, <1>2, <1>3, <1>4, <1>5, <1>6, <1>7, <1>8, <1>9, <1>10, <1>11, <1>12, <1>13,
           <1>14, <1>15, <1>16, <1>17, <1>18 DEF Next, DispatcherStep

\* The outbox and its dispatcher are safe for all sources, limits and batches.
THEOREM SafeAlways == Spec => []Safe
<1>1. Init => Safe
  BY SafeInit
<1>2. Safe /\ [Next]_vars => Safe'
  BY SafeStep
<1> QED BY <1>1, <1>2, PTL DEF Spec

\* WellFormed: the state stays well formed and the limits on records, sources
\* and receipts hold, also while an add() is half done.
THEOREM OutboxWellFormed == Spec => []WellFormed
<1>1. Safe => WellFormed
  BY DEF Safe, Bounded, WellFormed
<1> QED BY <1>1, SafeAlways, PTL

\* NoneLostOrBuried: a committed event is pending, dead or delivered, whatever
\* rolled back, failed, timed out or was acknowledged, and it is dead only if
\* the sink rejected it as often as the code demands.
THEOREM NothingLost == Spec => []NoneLostOrBuried
<1>1. Safe => NoneLostOrBuried
  BY DEF Safe, AllKept, AttemptsEarned, NoneLostOrBuried
<1> QED BY <1>1, SafeAlways, PTL

-----------------------------------------------------------------------------
(* Order: the steps *)

\* New events are produced after those there are, and settled stays settled.
Advances == /\ Recorded \subseteq Recorded'
            /\ \A d \in Recorded', e \in Recorded : Before(d, e) => d \in Recorded
            /\ Published \cup everDead \subseteq Published' \cup everDead'

\* An event stays preceded, if what was ahead of it is settled or still ahead.
LEMMA PrecededStays ==
  ASSUME Advances, NEW e \in Recorded, NEW A, NEW B, Preceded(e, A),
         \A d \in A : d \in Published' \cup everDead' \/ d \in B
  PROVE  \A d \in Recorded' : Before(d, e) => d \in Published' \cup everDead' \/ d \in B
  BY DEF Advances, Preceded, Settled

\* What is settled now was settled, or was preceded by settled events only.
LEMMA SettledStays ==
  ASSUME Genuine, Ordered, Advances,
         \A e \in Published' \cup everDead' : \/ e \in Published \cup everDead
                                              \/ e \in Recorded /\ Preceded(e, {})
  PROVE  SettledInOrder'
<1> SUFFICES ASSUME NEW e \in Published' \cup everDead', NEW d \in Recorded', Before(d, e)
             PROVE  d \in Published' \cup everDead'
  BY DEF SettledInOrder, Preceded, Settled
<1>1. e \in Recorded /\ Preceded(e, {})
  BY DEF Genuine, Ordered, SettledInOrder
<1> QED BY <1>1, PrecededStays

\* The events of the queue, the batch and the running add() are recorded.
LEMMA AllRecorded ==
  ASSUME Safe
  PROVE  /\ DOMAIN queue = 1..Len(queue) /\ Len(queue) \in Nat
         /\ DOMAIN batch = 1..Len(batch) /\ Len(batch) \in Nat
         /\ DOMAIN adding = 1..Len(adding) /\ Len(adding) \in Nat
         /\ \A p \in DOMAIN queue : queue[p] \in Recorded /\ queue[p] \in Stored
         /\ \A p \in DOMAIN batch : batch[p].id \in Recorded
         /\ \A p \in DOMAIN adding : adding[p].id \in Recorded
<1> USE DEF Safe
<1>1. /\ DOMAIN queue = 1..Len(queue) /\ Len(queue) \in Nat
      /\ DOMAIN batch = 1..Len(batch) /\ Len(batch) \in Nat
      /\ DOMAIN adding = 1..Len(adding) /\ Len(adding) \in Nat
  BY LenProperties DEF Shapes
<1>2. \A p \in DOMAIN queue : queue[p] \in Stored
  BY DEF TypeOK, Stored
<1>3. \A p \in DOMAIN batch : batch[p].id \in Recorded
  <2> SUFFICES ASSUME NEW p \in 1..Len(batch) PROVE batch[p].id \in Recorded
    BY <1>1
  <2>1. batch[p].id \in EventIds
    BY BatchEvents
  <2>2. CASE p \in 1..sent
    BY <2>2 DEF Dispatching, Published, Genuine
  <2>3. CASE p \notin 1..sent
    <3>1. p \in (sent + 1)..Len(batch)
      BY <1>1, <2>3 DEF TypeOK
    <3> QED BY <2>1, <3>1 DEF Dispatching, Stored, Genuine
  <2> QED BY <2>2, <2>3
<1>4. \A p \in DOMAIN adding : adding[p].id \in Recorded
  BY DEF Genuine, Adding
<1> QED BY <1>1, <1>2, <1>3, <1>4 DEF Genuine

\* Records leave the queue once they are settled; the others keep their order.
LEMMA QueueShrinks ==
  ASSUME Safe, Ordered, Advances, NEW ids, Dequeue(ids),
         \A d \in ids : Pending(d) => d \in Published' \cup everDead'
  PROVE  QueueInOrder'
<1> DEFINE S == EventIds \ ids
<1>1. queue' = Only(queue, S) /\ queue \in Seq(EventIds)
  BY DEF Dequeue, Safe, Shapes
<1>2. PICK ix : Lists(queue', queue, S, Len(queue), ix)
  <2> HIDE DEF S
  <2> QED BY <1>1, OnlyLists
<1>3. queue' \in Seq(EventIds)
  <2> HIDE DEF S
  <2> QED BY <1>1, OnlyLists
<1>4. DOMAIN queue' = 1..Len(queue') /\ Len(queue') \in Nat
  BY <1>3, LenProperties
<1> SUFFICES ASSUME NEW p \in 1..Len(queue')
             PROVE  \A d \in Recorded' : Before(d, queue'[p]) =>
                       \/ d \in Published' \cup everDead'
                       \/ d \in {queue'[q] : q \in 1..(p - 1)}
  BY <1>4 DEF QueueInOrder, Preceded, Settled
<1>5. /\ ix[p] \in 1..Len(queue) /\ queue'[p] = queue[ix[p]]
      /\ queue[ix[p]] \in Recorded
      /\ Preceded(queue[ix[p]], {queue[q] : q \in 1..(ix[p] - 1)})
  <2>1. ix[p] \in 1..Len(queue) /\ queue'[p] = queue[ix[p]]
    BY <1>2 DEF Lists
  <2> QED BY <2>1, AllRecorded DEF Ordered, QueueInOrder
<1>6. ASSUME NEW q \in 1..(ix[p] - 1)
      PROVE  queue[q] \in Published' \cup everDead' \/ queue[q] \in {queue'[j] : j \in 1..(p - 1)}
  <2>1. q \in 1..Len(queue) /\ q < ix[p] /\ Pending(queue[q]) /\ queue[q] \in EventIds
    <3>1. q \in 1..Len(queue) /\ q < ix[p]
      BY <1>5, AllRecorded
    <3> QED BY <3>1, AllRecorded DEF Safe, TypeOK
  <2>2. CASE queue[q] \in ids
    BY <2>1, <2>2
  <2>3. CASE queue[q] \notin ids
    <3>1. PICK j \in 1..Len(queue') : ix[j] = q
      BY <1>2, <2>1, <2>3 DEF Lists
    <3>2. queue'[j] = queue[q]
      BY <1>2, <3>1 DEF Lists
    <3>3. ~(j > p) /\ j # p
      <4>1. j > p => ix[p] < ix[j]
        BY <1>2 DEF Lists
      <4> QED BY <1>5, <2>1, <3>1, <4>1
    <3>4. j \in 1..(p - 1)
      BY <1>4, <3>3
    <3> QED BY <3>2, <3>4
  <2> QED BY <2>2, <2>3
<1>7. \A d \in {queue[q] : q \in 1..(ix[p] - 1)} :
         d \in Published' \cup everDead' \/ d \in {queue'[j] : j \in 1..(p - 1)}
  BY <1>6
<1> QED BY <1>5, <1>7, PrecededStays

\* The dispatcher keeps its batch or drops it.
LEMMA BatchStays ==
  ASSUME Safe, Ordered, Advances, batch' = batch \/ batch' = <<>>
  PROVE  BatchInOrder'
<1>1. CASE batch' = batch
  <2> SUFFICES ASSUME NEW p \in DOMAIN batch
               PROVE  \A d \in Recorded' : Before(d, batch[p].id) =>
                       \/ d \in Published' \cup everDead'
                       \/ d \in {batch[q].id : q \in 1..(p - 1)}
    BY <1>1 DEF BatchInOrder, Preceded, Settled
  <2> DEFINE A == {batch[q].id : q \in 1..(p - 1)}
  <2>1. batch[p].id \in Recorded /\ Preceded(batch[p].id, A)
    BY AllRecorded DEF Ordered, BatchInOrder
  <2> HIDE DEF A
  <2>2. \A d \in Recorded' : Before(d, batch[p].id) => d \in Published' \cup everDead' \/ d \in A
    BY <2>1, PrecededStays
  <2> QED BY <2>2 DEF A
<1>2. CASE batch' = <<>>
  BY <1>2 DEF BatchInOrder
<1> QED BY <1>1, <1>2

\* Candidates that wait are still preceded, by what is pending or settled.
LEMMA AddingStays ==
  ASSUME Safe, Ordered, Advances, adding' = adding \/ adding' = <<>>,
         \A d \in Entries(queue) : d \in Published' \cup everDead' \/ d \in Entries(queue')
  PROVE  AddingInOrder'
<1>1. CASE adding' = adding
  <2> SUFFICES ASSUME NEW p \in DOMAIN adding
               PROVE  \A d \in Recorded' : Before(d, adding[p].id) =>
                       \/ d \in Published' \cup everDead'
                       \/ d \in Entries(queue') \cup {adding[q].id : q \in 1..(p - 1)}
    BY <1>1 DEF AddingInOrder, Preceded, Settled, Entries
  <2> DEFINE A == {adding[q].id : q \in 1..(p - 1)}
  <2>1. adding[p].id \in Recorded /\ Preceded(adding[p].id, Entries(queue) \cup A)
    BY AllRecorded DEF Ordered, AddingInOrder
  <2> HIDE DEF A
  <2>2. \A d \in Recorded' : Before(d, adding[p].id) =>
           d \in Published' \cup everDead' \/ d \in Entries(queue') \cup A
    <3> DEFINE Q == Entries(queue) \cup A
               R == Entries(queue') \cup A
    <3>1. \A d \in Q : d \in Published' \cup everDead' \/ d \in R
      OBVIOUS
    <3> HIDE DEF Q, R
    <3>2. \A d \in Recorded' : Before(d, adding[p].id) =>
             d \in Published' \cup everDead' \/ d \in R
      BY <2>1, <3>1, PrecededStays DEF Q
    <3> QED BY <3>2 DEF R
  <2> QED BY <2>2 DEF A
<1>2. CASE adding' = <<>>
  BY <1>2 DEF AddingInOrder
<1> QED BY <1>1, <1>2

\* A step of the write side: the outbox and the dispatcher stand still.
LEMMA OrderFrame ==
  ASSUME Safe, Ordered, Advances, UNCHANGED <<rec, queue, batch, adding, seen, everDead>>
  PROVE  Ordered'
<1>1. /\ rec' = rec /\ queue' = queue /\ batch' = batch /\ adding' = adding
      /\ seen' = seen /\ everDead' = everDead /\ Published' = Published
      /\ Entries(queue') = Entries(queue)
  BY DEF Published
<1>2. SettledInOrder'
  BY <1>1, SettledStays DEF Safe
<1>3. QueueInOrder'
  <2> SUFFICES ASSUME NEW p \in DOMAIN queue
               PROVE  \A d \in Recorded' : Before(d, queue[p]) =>
                       \/ d \in Published' \cup everDead'
                       \/ d \in {queue[q] : q \in 1..(p - 1)}
    BY <1>1 DEF QueueInOrder, Preceded, Settled
  <2> DEFINE A == {queue[q] : q \in 1..(p - 1)}
  <2>1. queue[p] \in Recorded /\ Preceded(queue[p], A)
    BY AllRecorded DEF Ordered, QueueInOrder
  <2> HIDE DEF A
  <2>2. \A d \in Recorded' : Before(d, queue[p]) => d \in Published' \cup everDead' \/ d \in A
    BY <2>1, PrecededStays
  <2> QED BY <2>2 DEF A
<1>4. BatchInOrder' /\ AddingInOrder'
  BY <1>1, BatchStays, AddingStays
<1>5. {e \in EventIds : Dead(e)'} \subseteq everDead'
  BY <1>1 DEF Ordered, Dead
<1> QED BY <1>2, <1>3, <1>4, <1>5 DEF Ordered

\* The same commits in the log and events in hand: nothing new.
LEMMA SameAdvances ==
  ASSUME Recorded' = Recorded, Published \cup everDead \subseteq Published' \cup everDead'
  PROVE  Advances
  BY DEF Advances

\* A domain method records events behind those of the source.
LEMMA OrderRecord ==
  ASSUME Safe, Ordered, NEW s \in Sources, NEW n \in 1..MaxSize, Record(s, n)
  PROVE  Ordered'
<1>1. /\ agg[s].phase = "clean" /\ log' = log
      /\ \A t \in Sources \ {s} : agg'[t] = agg[t]
      /\ rec' = rec /\ queue' = queue /\ batch' = batch /\ adding' = adding
      /\ seen' = seen /\ everDead' = everDead
  BY DEF Record, outboxVars, dispatchVars, historyVars, Safe, TypeOK
<1>2. /\ \A e : Committed(e)' <=> Committed(e)
      /\ \A t \in Sources \ {s} : InHand(t)' = InHand(t)
  BY <1>1 DEF Committed, InHand
<1>3. ASSUME NEW e \in Recorded PROVE e \in Recorded'
  <2>1. e \in EventIds /\ e.src \in Sources
    BY DEF Recorded, EventIds
  <2>2. CASE Committed(e)
    BY <1>2, <2>1, <2>2 DEF Recorded
  <2>3. CASE ~Committed(e)
    BY <1>1, <1>2, <2>1, <2>3 DEF Recorded
  <2> QED BY <2>2, <2>3
<1>4. ASSUME NEW d \in Recorded', NEW e \in Recorded, Before(d, e) PROVE d \in Recorded
  <2>1. /\ d \in EventIds /\ d.src \in Sources /\ d.commit \in Nat
        /\ e \in EventIds /\ e.commit \in Nat /\ d.src = e.src /\ d.commit <= e.commit
    BY <1>4, Options DEF Recorded, EventIds, Before
  <2>2. CASE Committed(d) \/ d.src # s
    BY <1>1, <1>2, <2>1, <2>2 DEF Recorded
  <2>3. CASE ~Committed(d) /\ d.src = s
    <3>1. d \in InHand(s)'
      BY <1>2, <2>3 DEF Recorded
    <3>2. d.commit = Len(log[s]) + 1 /\ Len(log[s]) \in Nat
      BY <1>1, <3>1, LenProperties DEF InHand, Id, Safe, Shapes
    <3>3. Committed(e)
      BY <1>1, <2>1, <2>3 DEF Recorded
    <3> QED BY <2>1, <2>3, <3>2, <3>3 DEF Committed
  <2> QED BY <2>2, <2>3
<1>5. Advances
  BY <1>1, <1>3, <1>4 DEF Advances, Published
<1> QED BY <1>1, <1>5, OrderFrame

\* A transaction commits: the events in hand are in the log now, no others.
LEMMA OrderCommit ==
  ASSUME Safe, Ordered, NEW g \in open, CommitTx(g)
  PROVE  Ordered'
<1>1. /\ rec' = rec /\ queue' = queue /\ batch' = batch /\ adding' = adding
      /\ seen' = seen /\ everDead' = everDead
  BY Settles DEF CommitTx
<1>2. ASSUME NEW d \in Recorded' PROVE d \in Recorded
  <2>1. d \in EventIds /\ d.src \in Sources /\ d.commit \in Nat /\ d.commit >= 1
    BY Options DEF Recorded, EventIds
  <2>2. CASE d.src \notin g
    <3>1. log'[d.src] = log[d.src] /\ agg'[d.src] = agg[d.src]
      BY <2>1, <2>2, CommitLogs
    <3>2. (Committed(d)' <=> Committed(d)) /\ InHand(d.src)' = InHand(d.src)
      BY <3>1 DEF Committed, InHand
    <3> QED BY <2>1, <3>1, <3>2 DEF Recorded
  <2>3. CASE d.src \in g
    <3> DEFINE s == d.src
               n == Len(log[s])
    <3>1. /\ Len(log'[s]) = n + 1 /\ n \in Nat
          /\ \A k \in 1..n : log'[s][k] = log[s][k]
          /\ log'[s][n + 1] = [version |-> agg[s].version, size |-> agg[s].size]
          /\ agg[s].phase # "clean" /\ agg'[s].phase = "clean"
      BY <2>3, CommitLogs
    <3>2. d.commit <= n + 1 /\ d.seq < log'[s][d.commit].size
      BY <3>1 DEF Recorded, Committed
    <3>3. CASE d.commit \in 1..n
      BY <2>1, <3>1, <3>2, <3>3 DEF Recorded, Committed
    <3>4. CASE d.commit \notin 1..n
      <4>1. d.commit = n + 1
        BY <2>1, <3>1, <3>2, <3>4
      <4>2. log'[s][n + 1].size = agg[s].size
        BY <3>1
      <4>3. d.seq < agg[s].size
        BY <3>2, <4>1, <4>2
      <4>4. agg[s].size \in Nat
        BY <2>1, Options DEF Safe, TypeOK
      <4>5. d \in InHand(s)
        BY <2>1, <4>1, <4>3, <4>4, InHandIs
      <4> QED BY <2>1, <3>1, <4>5 DEF Recorded
    <3> QED BY <3>3, <3>4
  <2> QED BY <2>2, <2>3
<1>3. Advances
  BY <1>1, <1>2, CommitKeepsRecorded DEF Advances, Published
<1> QED BY <1>1, <1>3, OrderFrame

\* The other steps of the write side: nothing is recorded.
LEMMA OrderWrites ==
  ASSUME Safe, Ordered,
         \/ \E s \in Sources : Bump(s)
         \/ \E g \in open : RollbackTx(g)
         \/ AddSettles
         \/ AddStep /\ AddReturns
         \/ UNCHANGED vars
  PROVE  Ordered'
<1>1. /\ rec' = rec /\ queue' = queue /\ batch' = batch /\ adding' = adding
      /\ seen' = seen /\ everDead' = everDead /\ log' = log
      /\ \A s \in Sources : /\ agg'[s].size = agg[s].size
                            /\ agg'[s].phase = "clean" <=> agg[s].phase = "clean"
  <2>1. ASSUME NEW s \in Sources, Bump(s) PROVE <1>1!:
    BY <2>1 DEF Bump, outboxVars, dispatchVars, Safe, TypeOK
  <2>2. ASSUME NEW g \in open, RollbackTx(g) PROVE <1>1!:
    <3>1. SettleTx(g, "dirty") /\ log' = log
      BY <2>2 DEF RollbackTx
    <3> QED BY <3>1, Settles
  <2>3. CASE AddSettles
    <3>1. /\ rec' = rec /\ queue' = queue /\ batch' = batch /\ adding' = adding
          /\ seen' = seen /\ everDead' = everDead /\ log' = log
          /\ \/ agg' = agg
             \/ agg' = [s \in Sources |-> IF s \in client
                                         THEN [agg[s] EXCEPT !.phase = "added"] ELSE agg[s]]
      BY <2>3 DEF AddSettles, dispatchVars, historyVars
    <3>2. ASSUME NEW s \in Sources
          PROVE  /\ agg'[s].size = agg[s].size
                 /\ agg'[s].phase = "clean" <=> agg[s].phase = "clean"
      <4>1. agg[s] \in [phase : {"clean", "dirty", "added"}, version : 0..MaxVersion,
                        size : 0..MaxSize]
        BY DEF Safe, TypeOK
      <4>2. s \in client => agg[s].phase = "dirty"
        BY DEF Safe, Transactions
      <4> QED BY <3>1, <4>1, <4>2
    <3> QED BY <3>1, <3>2
  <2>4. CASE AddStep /\ AddReturns
    BY <2>4 DEF AddStep, AddReturns, writeVars, dispatchVars
  <2>5. CASE UNCHANGED vars
    BY <2>5 DEF vars, outboxVars, writeVars, dispatchVars, historyVars
  <2> QED BY <2>1, <2>2, <2>3, <2>4, <2>5
<1>2. Advances
  BY <1>1, RecordedSame, SameAdvances DEF Published
<1> QED BY <1>1, <1>2, OrderFrame

\* What comes before a committed event, or before one in hand, and is not
\* pending, is settled.
LEMMA BeforeIsKept ==
  ASSUME Safe, Ordered, NEW e \in Recorded, NEW d \in Recorded, Before(d, e)
  PROVE  \/ d \in Published \cup everDead \cup Entries(queue)
         \/ ~Committed(d) /\ ~Committed(e) /\ d \in InHand(d.src) /\ d.commit = e.commit
<1>1. /\ d \in EventIds /\ e \in EventIds /\ d.src = e.src /\ d.src \in Sources
      /\ d.commit \in Nat /\ e.commit \in Nat /\ d.commit <= e.commit
      /\ Len(log[d.src]) \in Nat
  BY LenProperties, Options DEF Recorded, EventIds, Before, Safe, Shapes
<1>2. CASE Committed(d)
  <2>1. Pending(d) \/ Dead(d) \/ d \in Published
    BY <1>1, <1>2 DEF Safe, AllKept, NoEventLost
  <2>2. Pending(d) => d \in Entries(queue)
    BY <1>1 DEF Safe, TypeOK, Entries
  <2> QED BY <1>1, <2>1, <2>2 DEF Ordered
<1>3. CASE ~Committed(d)
  <2>1. agg[d.src].phase # "clean" /\ d \in InHand(d.src) /\ d.commit = Len(log[d.src]) + 1
    BY <1>1, <1>3, InHandEvents DEF Recorded, Safe
  <2>2. ~Committed(e)
    BY <1>1, <2>1 DEF Committed
  <2>3. e.commit = Len(log[d.src]) + 1
    BY <1>1, <2>1, <2>2, InHandEvents DEF Recorded, Safe
  <2> QED BY <1>3, <2>1, <2>2, <2>3
<1> QED BY <1>2, <1>3

\* A batch begins: only what add() has still to process is new.
LEMMA OrderBegins ==
  ASSUME Safe, Ordered, NEW b \in Seq(Candidate), BeginAdd(b), UNCHANGED <<batch, seen, everDead>>,
         Recorded' = Recorded, \A p \in DOMAIN b : b[p].id \in Recorded,
         \A p \in DOMAIN b, d \in Recorded : Before(d, b[p].id) /\ ~Committed(d) =>
            \E q \in 1..(p - 1) : b[q].id = d
  PROVE  Ordered'
<1>1. /\ adding' = b \/ adding' = <<>>
      /\ rec' = rec /\ queue' = queue
  BY Begins
<1>2. Entries(queue') = Entries(queue) /\ Published' = Published /\ everDead' = everDead
  BY <1>1 DEF Published
<1>3. Advances
  BY <1>2, SameAdvances
<1>4. SettledInOrder' /\ BatchInOrder'
  BY <1>2, <1>3, SettledStays, BatchStays DEF Safe
<1>5. QueueInOrder'
  BY <1>1, <1>2 DEF QueueInOrder, Ordered, Preceded, Settled
<1>6. AddingInOrder'
  <2>1. CASE adding' = <<>>
    BY <2>1 DEF AddingInOrder
  <2>2. CASE adding' = b
    <3> SUFFICES ASSUME NEW p \in DOMAIN b, NEW d \in Recorded, Before(d, b[p].id)
                 PROVE  \/ d \in Published \cup everDead \cup Entries(queue)
                        \/ d \in {b[q].id : q \in 1..(p - 1)}
        <4> SUFFICES \A p \in DOMAIN adding' : \A d \in Recorded' : Before(d, adding'[p].id) =>
                      \/ d \in Published' \cup everDead'
                      \/ d \in Entries(queue') \cup {adding'[q].id : q \in 1..(p - 1)}
        BY DEF AddingInOrder, Preceded, Settled, Entries
      <4> QED BY <1>2, <2>2
    <3> QED BY BeforeIsKept
  <2> QED BY <1>1, <2>1, <2>2
<1>7. {e \in EventIds : Dead(e)'} \subseteq everDead'
  BY <1>1, <1>2 DEF Ordered, Dead
<1> QED BY <1>4, <1>5, <1>6, <1>7 DEF Ordered

\* The candidates of one aggregate among those of a transaction: in order, and
\* each with all that come before it.
LEMMA CandidatesInOrder ==
  ASSUME Safe, NEW s \in Sources, agg[s].phase # "clean",
         NEW i \in 1..agg[s].size, NEW d \in InHand(s), Before(d, Candidates(s)[i].id)
  PROVE  /\ d.seq + 1 \in 1..(i - 1) /\ Candidates(s)[d.seq + 1].id = d
         /\ d.seq + 1 \in 1..agg[s].size
<1>1. agg[s].size \in Nat
  BY Options DEF Safe, TypeOK
<1>2. PICK k \in 0..(agg[s].size - 1) : d = Id(s, Len(log[s]) + 1, k)
  BY DEF InHand
<1>3. d.seq = k /\ d.commit = Len(log[s]) + 1 /\ d.src = s
  BY <1>2 DEF Id
<1>4. ASSUME NEW j \in 1..agg[s].size
      PROVE  Candidates(s)[j].id = Id(s, Len(log[s]) + 1, j - 1)
  <2>1. Candidates(s)[j] = [id |-> Id(s, Len(log[s]) + 1, j - 1),
                            version |-> agg[s].version, size |-> agg[s].size]
    BY CandidatesAre DEF Safe
  <2> QED BY <2>1
<1>5. k < i - 1
  <2>1. Len(log[s]) + 1 \in Nat
    BY LenProperties DEF Safe, Shapes
  <2>2. Candidates(s)[i].id = Id(s, Len(log[s]) + 1, i - 1)
    BY <1>4
  <2>3. Candidates(s)[i].id.commit = d.commit /\ Candidates(s)[i].id.seq = i - 1
    BY <1>3, <2>2 DEF Id
  <2> QED BY <1>3, <2>1, <2>3 DEF Before
<1>6. k + 1 \in 1..(i - 1) /\ k + 1 \in 1..agg[s].size /\ (k + 1) - 1 = k
  BY <1>1, <1>5
<1>7. Candidates(s)[k + 1].id = Id(s, Len(log[s]) + 1, k)
  BY <1>4, <1>6
<1> QED BY <1>2, <1>3, <1>6, <1>7

\* withCommit harvests its aggregates: each brings its events in order.
LEMMA OrderHarvest ==
  ASSUME Safe, Ordered, NEW s \in Sources, NEW t \in Sources, Harvest(s, t)
  PROVE  Ordered'
<1> DEFINE x == Candidates(s)
           y == IF s = t THEN <<>> ELSE Candidates(t)
           b == x \o y
           m == agg[s].size
           n == Len(y)
<1>1. /\ agg[s].phase = "dirty" /\ agg[t].phase = "dirty" /\ BeginAdd(b)
      /\ agg' = agg /\ log' = log /\ batch' = batch /\ seen' = seen /\ everDead' = everDead
  BY DEF Harvest, dispatchVars, historyVars
<1>2. /\ x \in Seq(Candidate) /\ Len(x) = m /\ m \in Nat
      /\ y \in Seq(Candidate) /\ n \in Nat
      /\ \A i \in 1..m : x[i].id \in InHand(s)
      /\ \A i \in 1..n : s # t /\ y = Candidates(t) /\ n = agg[t].size /\ y[i].id \in InHand(t)
  <2>1. \A u \in {s, t} : /\ Candidates(u) \in Seq(Candidate)
                          /\ Len(Candidates(u)) = agg[u].size /\ agg[u].size \in Nat
                          /\ \A i \in 1..agg[u].size : Candidates(u)[i].id \in InHand(u)
    <3> SUFFICES ASSUME NEW u \in {s, t}
                 PROVE  /\ Candidates(u) \in Seq(Candidate)
                        /\ Len(Candidates(u)) = agg[u].size /\ agg[u].size \in Nat
                        /\ \A i \in 1..agg[u].size : Candidates(u)[i].id \in InHand(u)
      OBVIOUS
    <3>1. u \in Sources /\ agg[u].phase # "clean"
      BY <1>1
    <3>2. /\ Candidates(u) \in Seq(Candidate) /\ Len(Candidates(u)) = agg[u].size
          /\ {c.id : c \in Entries(Candidates(u))} = InHand(u)
      BY <3>1, CandidatesAre DEF Safe
    <3>3. agg[u].size \in Nat /\ DOMAIN Candidates(u) = 1..agg[u].size
      BY <3>2, LenProperties
    <3>4. \A i \in 1..agg[u].size : Candidates(u)[i] \in Entries(Candidates(u))
      BY <3>3 DEF Entries
    <3> QED BY <3>2, <3>3, <3>4
  <2>2. CASE s = t
    BY <2>1, <2>2, EmptySeq
  <2>3. CASE s # t
    BY <2>1, <2>3
  <2> QED BY <2>2, <2>3
<1> HIDE DEF x, y, m, n
<1>3. /\ b \in Seq(Candidate) /\ DOMAIN b = 1..(m + n)
      /\ \A i \in 1..m : b[i] = x[i]
      /\ \A i \in 1..n : b[m + i] = y[i]
  <2>1. Len(y) = n
    BY DEF n
  <2>2. b \in Seq(Candidate) /\ Len(b) = m + n
    BY <1>2, <2>1, EntriesConcat
  <2>3. /\ \A i \in 1..m : b[i] = x[i]
        /\ \A i \in 1..n : b[m + i] = y[i]
    BY <1>2, <2>1, ConcatProperties
  <2> QED BY <2>2, <2>3, LenProperties
<1> HIDE DEF b
<1>4. ASSUME NEW p \in DOMAIN b
      PROVE  \/ p \in 1..m /\ b[p] = x[p]
             \/ \E i \in 1..n : p = m + i /\ b[p] = y[i]
  <2>1. CASE p \in 1..m
    BY <1>3, <2>1
  <2>2. CASE p \notin 1..m
    <3>1. p - m \in 1..n /\ p = m + (p - m)
      BY <1>2, <1>3, <2>2
    <3> QED BY <1>3, <3>1
  <2> QED BY <2>1, <2>2
<1>5. \A e \in InHand(s) \cup InHand(t) : e \in Recorded /\ ~Committed(e)
  BY <1>1, InHandEvents DEF Recorded, Safe
<1>6. \A p \in DOMAIN b : b[p].id \in Recorded
  BY <1>2, <1>4, <1>5
<1>7. ASSUME NEW p \in DOMAIN b, NEW d \in Recorded, Before(d, b[p].id), ~Committed(d)
      PROVE  \E q \in 1..(p - 1) : b[q].id = d
  <2>1. d \in InHand(d.src) /\ d.src = b[p].id.src
    BY <1>7 DEF Recorded, Before
  <2>2. CASE p \in 1..m /\ b[p] = x[p]
    <3>1. d \in InHand(s)
      <4>1. b[p].id.src = s
        BY <1>1, <1>2, <2>2, InHandEvents DEF Safe
      <4> QED BY <2>1, <4>1
    <3>2. d.seq + 1 \in 1..(p - 1) /\ x[d.seq + 1].id = d /\ d.seq + 1 \in 1..m
      BY <1>1, <1>7, <2>2, <3>1, CandidatesInOrder DEF x, m
    <3> QED BY <1>3, <3>2
  <2>3. CASE \E i \in 1..n : p = m + i /\ b[p] = y[i]
    <3>1. PICK i \in 1..n : p = m + i /\ b[p] = y[i]
      BY <2>3
    <3>2. y = Candidates(t) /\ n = agg[t].size /\ y[i].id \in InHand(t)
      BY <1>2
    <3>3. d \in InHand(t)
      <4>1. b[p].id.src = t
        BY <1>1, <3>1, <3>2, InHandEvents DEF Safe
      <4> QED BY <2>1, <4>1
    <3>4. d.seq + 1 \in 1..(i - 1) /\ y[d.seq + 1].id = d /\ d.seq + 1 \in 1..n
      BY <1>1, <1>7, <3>1, <3>2, <3>3, CandidatesInOrder
    <3>5. b[m + (d.seq + 1)] = y[d.seq + 1]
      BY <1>3, <3>4
    <3>6. m + (d.seq + 1) \in 1..(p - 1)
      BY <1>2, <3>1, <3>4
    <3> QED BY <3>4, <3>5, <3>6
  <2> QED BY <1>4, <2>2, <2>3
<1>8. BeginAdd(b)
  BY <1>1 DEF b
<1>9. Recorded' = Recorded
  BY <1>1, RecordedSame
<1> QED BY <1>1, <1>3, <1>6, <1>7, <1>8, <1>9, OrderBegins

\* The operator adds committed events, which are behind committed ones only.
LEMMA OrderReadd ==
  ASSUME Safe, Ordered, NEW d \in EventIds, NEW e \in EventIds, Readd(d, e)
  PROVE  Ordered'
<1> DEFINE b == <<Exact(d)>> \o (IF d = e THEN <<>> ELSE <<Exact(e)>>)
<1>1. /\ Committed(d) /\ Committed(e) /\ BeginAdd(b)
      /\ agg' = agg /\ log' = log /\ batch' = batch /\ seen' = seen /\ everDead' = everDead
  BY DEF Readd, writeVars, dispatchVars, historyVars
<1>2. b \in Seq(Candidate) /\ Entries(b) \subseteq {Exact(d), Exact(e)}
  <2>1. b \in Seq(Candidate)
    BY <1>1, ExactTypes DEF Safe
  <2> DEFINE x == Exact(d)
             y == Exact(e)
  <2>2. b = <<x>> \o (IF d = e THEN <<>> ELSE <<y>>)
    OBVIOUS
  <2> HIDE DEF b, x, y
  <2>3. Entries(b) \subseteq {x, y}
    BY <2>2, ReaddBatch
  <2> QED BY <2>1, <2>3 DEF x, y
<1> HIDE DEF b
<1>3. ASSUME NEW p \in DOMAIN b
      PROVE  b[p].id \in {d, e}
  <2>1. b[p] \in {Exact(d), Exact(e)}
    BY <1>2 DEF Entries
  <2> QED BY <2>1 DEF Exact
<1>4. \A p \in DOMAIN b : b[p].id \in Recorded /\ Committed(b[p].id)
  BY <1>1, <1>3 DEF Recorded
<1>5. ASSUME NEW p \in DOMAIN b, NEW x \in Recorded, Before(x, b[p].id) PROVE Committed(x)
  <2>1. /\ x \in EventIds /\ x.src \in Sources /\ x.src = b[p].id.src
        /\ x.commit <= b[p].id.commit /\ x.commit \in Nat /\ b[p].id.commit \in Nat
    BY <1>4, <1>5, Options DEF Before, Recorded, EventIds
  <2>2. b[p].id.commit <= Len(log[x.src]) /\ Len(log[x.src]) \in Nat
    BY <1>4, <2>1, LenProperties DEF Committed, Safe, Shapes
  <2>3. ~Committed(x) => x.commit = Len(log[x.src]) + 1
    BY <2>1, InHandEvents DEF Recorded, Safe
  <2> QED BY <2>1, <2>2, <2>3
<1>6. Recorded' = Recorded
  BY <1>1, RecordedSame
<1> QED BY <1>1, <1>2, <1>4, <1>5, <1>6, OrderBegins DEF b

\* add() has dealt with its first candidate: it is pending, or settled.
LEMMA OrderTakes ==
  ASSUME Safe, Ordered, adding # <<>>, adding' = Tail(adding),
         UNCHANGED <<agg, log, batch, seen, everDead>>,
         {e \in EventIds : Dead(e)'} \subseteq everDead,
         \/ queue' = queue /\ Head(adding).id \in Entries(queue) \cup Published \cup everDead
         \/ Enqueue(Head(adding).id)
  PROVE  Ordered'
<1> DEFINE e == adding[1].id
           n == Len(queue)
<1>1. /\ adding[1] = Head(adding) /\ Len(adding) \in Nat \ {0} /\ DOMAIN adding = 1..Len(adding)
      /\ Tail(adding) \in Seq(Candidate) /\ Len(Tail(adding)) = Len(adding) - 1
      /\ \A i \in 1..(Len(adding) - 1) : Tail(adding)[i] = adding[i + 1]
  BY TakesOne DEF Safe, Shapes
<1>2. Published' = Published /\ everDead' = everDead /\ Recorded' = Recorded
  BY RecordedSame DEF Published
<1>3. Advances
  BY <1>2, SameAdvances
<1>4. SettledInOrder' /\ BatchInOrder'
  BY <1>2, <1>3, SettledStays, BatchStays DEF Safe
<1>5. 1 \in DOMAIN adding /\ e \in Recorded /\ e \in EventIds
  BY <1>1, AllRecorded DEF Recorded
<1>6. \A d \in Recorded : Before(d, e) => d \in Published \cup everDead \cup Entries(queue)
  <2>1. Preceded(e, Entries(queue) \cup {adding[q].id : q \in 1..(1 - 1)})
    BY <1>5 DEF Ordered, AddingInOrder
  <2>2. {adding[q].id : q \in 1..(1 - 1)} = {}
    OBVIOUS
  <2> QED BY <2>1, <2>2 DEF Preceded, Settled
<1>7. /\ QueueInOrder' /\ Entries(queue) \subseteq Entries(queue')
      /\ e \in Entries(queue') \cup Published \cup everDead
  <2>1. CASE queue' = queue /\ e \in Entries(queue) \cup Published \cup everDead
    BY SMTT(40), <1>2, <2>1 DEF QueueInOrder, Ordered, Preceded, Settled
  <2>2. CASE Enqueue(e)
    <3>1. /\ Entries(queue') = {d \in EventIds : Pending(d)} \cup {e}
          /\ DOMAIN queue = 1..n /\ DOMAIN queue' = 1..Len(queue')
          /\ n \in Nat /\ \A i \in 1..n : queue'[i] = queue[i]
          /\ IF Pending(e) THEN Len(queue') = n
             ELSE Len(queue') = n + 1 /\ queue'[n + 1] = e
      BY <1>5, <2>2, EnqueueKeeps DEF Safe
    <3>2. Entries(queue) = {d \in EventIds : Pending(d)}
      BY SMTT(40) DEF Safe, TypeOK, Entries
    <3>3. n \in Nat /\ (Len(queue') = n \/ (Len(queue') = n + 1 /\ queue'[n + 1] = e))
      BY <3>1
    <3> HIDE DEF n, e
    <3>4. /\ \A p \in 1..n : \A q \in 1..(p - 1) : q \in 1..n
          /\ \A p \in DOMAIN queue' : p \notin 1..n => p = n + 1 /\ queue'[n + 1] = e
          /\ (n + 1) - 1 = n
      <4>1. (\A p \in 1..n : \A q \in 1..(p - 1) : q \in 1..n) /\ (n + 1) - 1 = n
        BY <3>3
      <4>2. ASSUME NEW p \in DOMAIN queue', p \notin 1..n PROVE p = n + 1 /\ queue'[n + 1] = e
        <5>1. p \in 1..Len(queue')
          BY <3>1
        <5> QED BY SMTT(40), <3>3, <4>2, <5>1
      <4> QED BY <4>1, <4>2
    <3>5. ASSUME NEW p \in DOMAIN queue', NEW d \in Recorded, Before(d, queue'[p])
          PROVE  d \in Published \cup everDead \/ d \in {queue'[q] : q \in 1..(p - 1)}
      <4>1. CASE p \in 1..n
        <5>1. Before(d, queue[p]) /\ Preceded(queue[p], {queue[q] : q \in 1..(p - 1)})
          BY <3>1, <3>5, <4>1 DEF Ordered, QueueInOrder
        <5>2. \A q \in 1..(p - 1) : q \in 1..n /\ queue'[q] = queue[q]
          BY <3>1, <3>4, <4>1
        <5>3. {queue[q] : q \in 1..(p - 1)} = {queue'[q] : q \in 1..(p - 1)}
          BY <5>2
        <5> QED BY SMTT(40), <5>1, <5>3 DEF Preceded, Settled
      <4>2. CASE p \notin 1..n
        <5>1. p = n + 1 /\ queue'[p] = e
          BY SMTT(40), <3>4, <4>2
        <5>2. {queue'[q] : q \in 1..(p - 1)} = Entries(queue)
          <6>1. p - 1 = n
            BY <3>4, <5>1
          <6> QED BY <3>1, <6>1 DEF Entries
        <5> QED BY <1>6, <3>5, <5>1, <5>2
      <4> QED BY <4>1, <4>2
    <3>6. QueueInOrder'
      BY <1>2, <3>5 DEF QueueInOrder, Preceded, Settled
    <3> QED BY <3>1, <3>2, <3>6
  <2> QED BY <1>1, <2>1, <2>2
<1>8. AddingInOrder'
  <2> DEFINE t == Tail(adding)
  <2>1. DOMAIN t = 1..(Len(adding) - 1)
    BY <1>1, LenProperties
  <2> HIDE DEF t
  <2>2. adding' = t
    BY DEF t
  <2>3. ASSUME NEW p \in DOMAIN t, NEW d \in Recorded, Before(d, t[p].id)
        PROVE  \/ d \in Published \cup everDead
               \/ d \in Entries(queue') \cup {t[q].id : q \in 1..(p - 1)}
    <3>1. p + 1 \in DOMAIN adding /\ t[p] = adding[p + 1] /\ (p + 1) - 1 = p
          /\ \A q \in 1..p : q = 1 \/ (q - 1 \in 1..(p - 1) /\ t[q - 1] = adding[q])
      <4>1. p \in 1..(Len(adding) - 1)
        BY <2>1
      <4>2. \A q \in 1..p : q = 1 \/ (q - 1 \in 1..(p - 1) /\ q - 1 \in 1..(Len(adding) - 1)
                                      /\ (q - 1) + 1 = q)
        BY <1>1, <4>1
      <4> QED BY <1>1, <4>1, <4>2 DEF t
    <3>2. Preceded(adding[p + 1].id, Entries(queue) \cup {adding[q].id : q \in 1..p})
      BY <3>1 DEF Ordered, AddingInOrder
    <3>3. \/ d \in Published \cup everDead \cup Entries(queue)
          \/ \E q \in 1..p : d = adding[q].id
      BY <3>1, <3>2, <2>3 DEF Preceded, Settled
    <3>4. ASSUME NEW q \in 1..p, d = adding[q].id
          PROVE  \/ d \in Published \cup everDead \cup Entries(queue')
                 \/ d \in {t[k].id : k \in 1..(p - 1)}
      <4>1. CASE q = 1
        BY <1>7, <3>4, <4>1
      <4>2. CASE q # 1
        BY <3>1, <3>4, <4>2
      <4> QED BY <4>1, <4>2
    <3> QED BY <1>7, <3>3, <3>4
  <2>4. \A p \in DOMAIN adding' : \A d \in Recorded' : Before(d, adding'[p].id) =>
                    \/ d \in Published' \cup everDead'
                    \/ d \in Entries(queue') \cup {adding'[q].id : q \in 1..(p - 1)}
    <3> DEFINE A(p) == Entries(queue') \cup {t[q].id : q \in 1..(p - 1)}
    <3>1. \A p \in DOMAIN t : \A d \in Recorded : Before(d, t[p].id) =>
             d \in Published \cup everDead \/ d \in A(p)
      BY <2>3
    <3>2. \A p : A(p) = Entries(queue') \cup {adding'[q].id : q \in 1..(p - 1)}
      BY <2>2
    <3> HIDE DEF A
    <3>3. \A p \in DOMAIN adding' : \A d \in Recorded' : Before(d, adding'[p].id) =>
             d \in Published' \cup everDead' \/ d \in A(p)
      BY <1>2, <2>2, <3>1
    <3> QED BY <3>2, <3>3
  <2> QED BY <2>4 DEF AddingInOrder, Preceded, Settled, Entries
<1> QED BY <1>2, <1>4, <1>7, <1>8 DEF Ordered

\* One step of a running add().
LEMMA OrderAdd ==
  ASSUME Safe, Ordered, AddStep
  PROVE  Ordered'
<1>1. /\ agg' = agg /\ log' = log /\ batch' = batch /\ seen' = seen /\ everDead' = everDead
  BY AddFrame
<1>2. CASE AddReturns
  BY <1>2, OrderWrites
<1>3. CASE AddMessage
  <2> DEFINE c == Head(adding)
  <2>1. /\ adding # <<>>
        /\ \/ AddRefreshesReceipt(c) \/ AddRequeues(c) \/ AddThrows(c) \/ AddRecords(c)
    BY <1>3 DEF AddMessage
  <2>2. c = adding[1] /\ 1 \in DOMAIN adding /\ c.id \in EventIds
    <3>1. c = adding[1] /\ 1 \in DOMAIN adding
      BY <2>1, TakesOne DEF Safe, Shapes
    <3> QED BY <3>1, AddingEvents DEF Safe
  <2> HIDE DEF c
  <2>3. {e \in EventIds : Dead(e)} \subseteq everDead
    BY DEF Ordered
  <2>4. CASE AddRefreshesReceipt(c)
    <3>1. adding' = Tail(adding) /\ rec' = rec /\ queue' = queue
      BY <2>4 DEF AddRefreshesReceipt
    <3>2. c.id \in Published
      BY <2>4 DEF AddRefreshesReceipt, Dispatched, Receipt, Safe, Dispatching
    <3>3. {e \in EventIds : Dead(e)'} \subseteq everDead
      BY <2>3, <3>1 DEF Dead
    <3> QED BY <1>1, <2>1, <3>1, <3>2, <3>3, OrderTakes DEF c
  <2>5. CASE AddRequeues(c)
    <3>1. /\ adding' = Tail(adding) /\ Enqueue(c.id)
          /\ rec' = [rec EXCEPT ![c.id].place = "pending", ![c.id].attempts = 0]
      BY <2>5 DEF AddRequeues
    <3>2. \A e \in EventIds : e # c.id => rec'[e] = rec[e]
      BY <2>2, <3>1 DEF Safe, TypeOK
    <3>3. Dead(c.id)
      BY <2>5 DEF AddRequeues
    <3>4. {e \in EventIds : Dead(e)'} \subseteq everDead
      BY <2>3, <3>2, <3>3 DEF Dead
    <3> QED BY <1>1, <2>1, <3>1, <3>4, OrderTakes DEF c
  <2>6. CASE AddRecords(c)
    <3> DEFINE r == [place |-> "pending", version |-> c.version, previous |-> PreviousOf(c),
                     size |-> c.size, attempts |-> rec[c.id].attempts]
    <3>1. /\ adding' = Tail(adding) /\ Enqueue(c.id) /\ rec' = [rec EXCEPT ![c.id] = r]
      BY <2>6 DEF AddRecords
    <3>2. r.place = "pending"
      OBVIOUS
    <3> HIDE DEF r
    <3>3. \A e \in EventIds : Dead(e)' => Dead(e)
      BY <2>2, <3>1, <3>2 DEF Safe, TypeOK, Dead
    <3>4. {e \in EventIds : Dead(e)'} \subseteq everDead
      BY <2>3, <3>3
    <3> QED BY <1>1, <2>1, <3>1, <3>4, OrderTakes DEF c
  <2>7. CASE AddThrows(c)
    <3>1. adding' = <<>> /\ rec' = rec /\ queue' = queue
      BY <2>7 DEF AddThrows
    <3>2. Published' = Published /\ Recorded' = Recorded /\ Entries(queue') = Entries(queue)
      BY <1>1, <3>1, RecordedSame DEF Published
    <3>3. Advances
      BY <1>1, <3>2, SameAdvances
    <3>4. SettledInOrder' /\ BatchInOrder' /\ AddingInOrder'
      BY <1>1, <3>1, <3>2, <3>3, SettledStays, BatchStays, AddingStays DEF Safe
    <3>5. QueueInOrder' /\ {e \in EventIds : Dead(e)'} \subseteq everDead'
      BY <1>1, <3>1, <3>2 DEF QueueInOrder, Ordered, Preceded, Settled, Dead
    <3> QED BY <3>4, <3>5 DEF Ordered
  <2> QED BY <2>1, <2>4, <2>5, <2>6, <2>7
<1> QED BY <1>2, <1>3 DEF AddStep

\* Delivered records are acknowledged, or one is dead-lettered: what leaves the
\* queue is settled.
LEMMA OrderSettles ==
  ASSUME Safe, Ordered, UNCHANGED <<agg, log, adding>>, batch' = batch \/ batch' = <<>>,
         Published \cup everDead \subseteq Published' \cup everDead',
         \A e \in Published' \cup everDead' : \/ e \in Published \cup everDead
                                              \/ e \in Recorded /\ Preceded(e, {}),
         {e \in EventIds : Dead(e)'} \subseteq everDead',
         \/ queue' = queue
         \/ \E ids : Dequeue(ids) /\ ids \subseteq Published' \cup everDead'
  PROVE  Ordered'
<1>1. Recorded' = Recorded
  BY RecordedSame
<1>2. Advances
  BY <1>1, SameAdvances
<1>3. SettledInOrder' /\ BatchInOrder'
  BY <1>2, SettledStays, BatchStays DEF Safe
<1>4. CASE queue' = queue
  <2>1. AddingInOrder'
    BY <1>2, <1>4, AddingStays
  <2>2. QueueInOrder'
    <3> SUFFICES ASSUME NEW p \in DOMAIN queue
                 PROVE  \A d \in Recorded' : Before(d, queue[p]) =>
                         \/ d \in Published' \cup everDead'
                         \/ d \in {queue[q] : q \in 1..(p - 1)}
      BY <1>4 DEF QueueInOrder, Preceded, Settled
    <3> DEFINE A == {queue[q] : q \in 1..(p - 1)}
    <3>1. queue[p] \in Recorded /\ Preceded(queue[p], A)
      BY AllRecorded DEF Ordered, QueueInOrder
    <3> HIDE DEF A
    <3>2. \A d \in Recorded' : Before(d, queue[p]) => d \in Published' \cup everDead' \/ d \in A
      BY <1>2, <3>1, PrecededStays
    <3> QED BY <3>2 DEF A
  <2> QED BY <1>3, <2>1, <2>2 DEF Ordered
<1>5. CASE \E ids : Dequeue(ids) /\ ids \subseteq Published' \cup everDead'
  <2>1. PICK ids : Dequeue(ids) /\ ids \subseteq Published' \cup everDead'
    BY <1>5
  <2>2. QueueInOrder'
    BY <1>2, <2>1, QueueShrinks
  <2>3. Entries(queue') = {d \in EventIds : Pending(d)} \ ids
    BY <2>1, DequeueKeeps DEF Safe
  <2>4. \A d \in Entries(queue) : d \in EventIds /\ Pending(d)
    BY DEF Safe, TypeOK, Entries
  <2>5. \A d \in Entries(queue) : d \in Published' \cup everDead' \/ d \in Entries(queue')
    BY <2>1, <2>3, <2>4
  <2>6. AddingInOrder'
    BY <1>2, <2>5, AddingStays
  <2> QED BY <1>3, <2>2, <2>6 DEF Ordered
<1> QED BY <1>4, <1>5

\* The prefix that the sink took lets the next record of the batch go ahead.
LEMMA NextIsPreceded ==
  ASSUME Safe, Ordered, dpc = "publishing" \/ failure # "none"
  PROVE  /\ batch[sent + 1].id \in Recorded
         /\ Preceded(batch[sent + 1].id, {})
<1>1. sent \in Nat /\ sent + 1 \in 1..Len(batch) /\ sent + 1 \in DOMAIN batch
      /\ (sent + 1) - 1 = sent
  BY FailedIsPending, BatchEvents DEF Safe
<1>2. /\ batch[sent + 1].id \in Recorded
      /\ Preceded(batch[sent + 1].id, {batch[q].id : q \in 1..((sent + 1) - 1)})
  BY <1>1, AllRecorded DEF Ordered, BatchInOrder
<1>3. \A q \in 1..((sent + 1) - 1) : batch[q].id \in Published
  BY <1>1 DEF Safe, Dispatching, Published
<1> QED BY <1>2, <1>3 DEF Preceded, Settled

\* A pass takes the front of the queue.
LEMMA OrderPoll ==
  ASSUME Safe, Ordered, Poll
  PROVE  Ordered'
<1>1. /\ queue # <<>> /\ batch' = GetPending(BatchSize) /\ seen' = seen /\ everDead' = everDead
      /\ rec' = rec /\ queue' = queue /\ adding' = adding /\ agg' = agg /\ log' = log
  BY DEF Poll, outboxVars, writeVars
<1>2. /\ batch' \in Seq(Envelopes) /\ Len(batch') \in Nat
      /\ \A i \in 1..Len(batch') : batch'[i].id = queue[i] /\ i \in DOMAIN queue
  BY <1>1, GetPendingIs
<1>3. Published' = Published /\ Recorded' = Recorded
  BY <1>1, RecordedSame DEF Published
<1>4. DOMAIN batch' = 1..Len(batch')
  BY <1>2, LenProperties
<1>5. \A p \in DOMAIN batch' : \A d \in Recorded' : Before(d, batch'[p].id) =>
         d \in Published' \cup everDead' \/ d \in {batch'[q].id : q \in 1..(p - 1)}
  <2> SUFFICES ASSUME NEW p \in 1..Len(batch'), NEW d \in Recorded, Before(d, batch'[p].id),
                      d \notin Published \cup everDead
               PROVE  d \in {batch'[q].id : q \in 1..(p - 1)}
    BY <1>1, <1>3, <1>4
  <2>1. PICK q \in 1..(p - 1) : d = queue[q]
    BY <1>2 DEF Ordered, QueueInOrder, Preceded, Settled
  <2>2. q \in 1..Len(batch')
    BY <1>2
  <2> QED BY <1>2, <2>1, <2>2
<1>6. BatchInOrder'
  BY <1>5 DEF BatchInOrder, Preceded, Settled
<1>7. Advances
  BY <1>1, <1>3, SameAdvances
<1>8. SettledInOrder' /\ AddingInOrder'
  BY <1>1, <1>3, <1>7, SettledStays, AddingStays DEF Safe
<1>9. QueueInOrder' /\ {e \in EventIds : Dead(e)'} \subseteq everDead'
  BY <1>1, <1>3 DEF QueueInOrder, Ordered, Preceded, Settled, Dead
<1> QED BY <1>6, <1>8, <1>9 DEF Ordered

\* The record in hand reaches the sink, or may have.
LEMMA OrderPublishes ==
  ASSUME Safe, Ordered,
         \/ PublishSucceeds
         \/ PublishRejected
         \/ \E reached \in BOOLEAN : PublishInterrupted(reached)
  PROVE  Ordered'
<1>1. /\ dpc = "publishing"
      /\ batch' = batch \/ batch' = <<>>
      /\ seen' = seen \/ seen' = seen \cup {batch[sent + 1]}
      /\ everDead' = everDead /\ rec' = rec /\ queue' = queue /\ adding' = adding
      /\ agg' = agg /\ log' = log
  <2>1. CASE PublishSucceeds
    BY <2>1 DEF PublishSucceeds, outboxVars, writeVars
  <2>2. CASE PublishRejected
    BY <2>2 DEF PublishRejected, StopPublishing, PassEnds, outboxVars, writeVars
  <2>3. ASSUME NEW reached \in BOOLEAN, PublishInterrupted(reached) PROVE <1>1!:
    BY <2>3 DEF PublishInterrupted, StopPublishing, PassEnds, outboxVars, writeVars
  <2> QED BY <2>1, <2>2, <2>3
<1>2. batch[sent + 1].id \in Recorded /\ Preceded(batch[sent + 1].id, {})
  BY <1>1, NextIsPreceded
<1>3. /\ Published \subseteq Published'
      /\ \A e \in Published' : e \in Published \/ e = batch[sent + 1].id
  BY <1>1 DEF Published
<1>4. {e \in EventIds : Dead(e)'} \subseteq everDead'
  BY <1>1 DEF Ordered, Dead
<1> QED BY <1>1, <1>2, <1>3, <1>4, OrderSettles

\* What is acknowledged has arrived.
LEMMA OrderAcks ==
  ASSUME Safe, Ordered, Ack \/ \E applied \in BOOLEAN : AckFails(applied)
  PROVE  Ordered'
<1>1. /\ batch' = batch \/ batch' = <<>>
      /\ seen' = seen /\ everDead' = everDead /\ agg' = agg /\ log' = log
      /\ MarkDispatched(Delivered) \/ UNCHANGED outboxVars
  <2>1. CASE Ack
    BY <2>1 DEF Ack, AfterAck, PassEnds, writeVars
  <2>2. ASSUME NEW applied \in BOOLEAN, AckFails(applied) PROVE <1>1!:
    BY <2>2 DEF AckFails, AfterAck, PassEnds, writeVars
  <2> QED BY <2>1, <2>2
<1>2. Published' = Published
  BY <1>1 DEF Published
<1>3. CASE UNCHANGED outboxVars
  <2>1. rec' = rec /\ queue' = queue /\ adding' = adding
    BY <1>3 DEF outboxVars
  <2>2. {e \in EventIds : Dead(e)'} \subseteq everDead'
    BY <1>1, <2>1 DEF Ordered, Dead
  <2> QED BY <1>1, <1>2, <2>1, <2>2, OrderSettles
<1>4. CASE MarkDispatched(Delivered)
  <2>1. Delivered \in Seq(EventIds) /\ Entries(Delivered) \subseteq Published
    BY DeliveredIs
  <2>2. /\ \A e \in EventIds : Dead(e)' => Dead(e)
        /\ Dequeue(Entries(Delivered)) /\ adding' = adding
    BY <1>4, <2>1, MarkKeeps DEF Safe
  <2>3. {e \in EventIds : Dead(e)'} \subseteq everDead'
    BY <1>1, <2>2 DEF Ordered
  <2>4. \E ids : Dequeue(ids) /\ ids \subseteq Published' \cup everDead'
    BY <1>2, <2>1, <2>2
  <2> QED BY <1>1, <1>2, <2>2, <2>3, <2>4, OrderSettles
<1> QED BY <1>1, <1>3, <1>4

\* The record at which the batch stopped is counted, and perhaps given up.
LEMMA OrderMarks ==
  ASSUME Safe, Ordered, Mark \/ MarkFails
  PROVE  Ordered'
<1>1. CASE MarkFails
  <2>1. /\ batch' = <<>> /\ seen' = seen /\ everDead' = everDead /\ agg' = agg /\ log' = log
        /\ rec' = rec /\ queue' = queue /\ adding' = adding
    BY <1>1 DEF MarkFails, PassEnds, outboxVars, writeVars, historyVars
  <2>2. Published' = Published /\ {e \in EventIds : Dead(e)'} \subseteq everDead'
    BY <2>1 DEF Published, Ordered, Dead
  <2> QED BY <2>1, <2>2, OrderSettles
<1>2. CASE Mark
  <2> DEFINE f == FailedId
  <2>1. /\ batch' = <<>> /\ seen' = seen /\ agg' = agg /\ log' = log /\ adding' = adding
        /\ MarkFailed(f) /\ dpc = "marking"
        /\ everDead' = IF rec'[f].place = "dead" THEN everDead \cup {f} ELSE everDead
    BY <1>2 DEF Mark, PassEnds, MarkFailed, addVars, writeVars
  <2>2. failure = "counted" /\ f \in EventIds /\ Pending(f)
    BY <2>1, FailedIsPending DEF Safe, Dispatching
  <2>3. f \in Recorded /\ Preceded(f, {})
    BY <2>2, NextIsPreceded DEF FailedId
  <2> HIDE DEF f
  <2>4. rec \in [EventIds -> [place : {"none", "pending", "dead"}, version : 0..MaxVersion,
                              previous : 0..MaxVersion, size : 0..MaxSize,
                              attempts : 0..MaxDeliveryAttempts]]
    BY DEF Safe, TypeOK
  <2>5. /\ \A e \in EventIds : e # f => rec'[e] = rec[e]
        /\ queue' = queue \/ (Dequeue({f}) /\ rec'[f].place = "dead")
    <3>1. CASE rec[f].attempts + 1 >= MaxDeliveryAttempts
      <4>1. rec' = [rec EXCEPT ![f].place = "dead", ![f].attempts = @ + 1] /\ Dequeue({f})
        BY <2>1, <2>2, <3>1 DEF MarkFailed
      <4> QED BY <2>2, <2>4, <4>1
    <3>2. CASE ~(rec[f].attempts + 1 >= MaxDeliveryAttempts)
      <4>1. rec' = [rec EXCEPT ![f].attempts = @ + 1] /\ queue' = queue
        BY <2>1, <2>2, <3>2 DEF MarkFailed
      <4> QED BY <2>2, <2>4, <4>1
    <3> QED BY <3>1, <3>2
  <2>6. Published' = Published
    BY <2>1 DEF Published
  <2>7. {e \in EventIds : Dead(e)'} \subseteq everDead'
    BY <2>1, <2>5 DEF Ordered, Dead
  <2>8. \A e \in Published' \cup everDead' : e \in Published \cup everDead \/ e = f
    BY <2>1, <2>6
  <2>9. queue' = queue \/ \E ids : Dequeue(ids) /\ ids \subseteq Published' \cup everDead'
    BY <2>1, <2>5
  <2>10. Published \cup everDead \subseteq Published' \cup everDead'
    BY <2>1, <2>6
  <2> QED BY <2>1, <2>3, <2>6, <2>7, <2>8, <2>9, <2>10, OrderSettles
<1> QED BY <1>1, <1>2

\* A dead letter is delivered by hand.
LEMMA OrderRedelivers ==
  ASSUME Safe, Ordered, NEW e \in EventIds, ManualRedeliver(e)
  PROVE  Ordered'
<1>1. /\ Dead(e) /\ seen' = seen \cup {Envelope(e)} /\ MarkDispatched(<<e>>)
      /\ agg' = agg /\ log' = log /\ batch' = batch /\ everDead' = everDead
  BY DEF ManualRedeliver, writeVars, dispatchVars
<1>2. <<e>> \in Seq(EventIds) /\ Entries(<<e>>) = {e}
  <2>1. DOMAIN <<e>> = {1} /\ <<e>>[1] = e /\ <<e>> \in Seq(EventIds)
    OBVIOUS
  <2> QED BY <2>1 DEF Entries
<1>3. /\ \A d \in EventIds : Dead(d)' => Dead(d)
      /\ Dequeue({e}) /\ adding' = adding
  <2> DEFINE ids == <<e>>
  <2>1. MarkDispatched(ids) /\ ids \in Seq(EventIds) /\ Entries(ids) = {e}
    BY <1>1, <1>2
  <2> HIDE DEF ids
  <2>2. /\ \A d \in EventIds : Dead(d)' <=> Dead(d) /\ d \notin Entries(ids)
        /\ Dequeue(Entries(ids)) /\ adding' = adding
    BY <2>1, MarkKeeps DEF Safe
  <2>3. Dequeue({e})
    BY <2>1, <2>2 DEF Dequeue
  <2> QED BY <2>2, <2>3
<1>4. Envelope(e).id = e
  BY DEF Envelope
<1>5. Published' = Published \cup {e} /\ e \in everDead
  BY <1>1, <1>4 DEF Published, Ordered
<1>6. {d \in EventIds : Dead(d)'} \subseteq everDead'
  BY <1>1, <1>3 DEF Ordered
<1>7. \E ids : Dequeue(ids) /\ ids \subseteq Published' \cup everDead'
  BY <1>3, <1>5
<1> QED BY <1>1, <1>3, <1>5, <1>6, <1>7, OrderSettles

\* Every step keeps the order.
LEMMA OrderStep == Safe /\ Ordered /\ [Next]_vars => Ordered'
<1> SUFFICES ASSUME Safe, Ordered, [Next]_vars PROVE Ordered'
  OBVIOUS
<1>1. ASSUME NEW s \in Sources, NEW n \in 1..MaxSize, Record(s, n) PROVE Ordered'
  BY <1>1, OrderRecord
<1>2. ASSUME NEW s \in Sources, NEW t \in Sources, Harvest(s, t) PROVE Ordered'
  BY <1>2, OrderHarvest
<1>3. CASE AddStep
  BY <1>3, OrderAdd
<1>4. CASE \/ \E s \in Sources : Bump(s)
           \/ \E g \in open : RollbackTx(g)
           \/ AddSettles \/ UNCHANGED vars
  BY <1>4, OrderWrites
<1>5. ASSUME NEW g \in open, CommitTx(g) PROVE Ordered'
  BY <1>5, OrderCommit
<1>6. ASSUME NEW d \in EventIds, NEW e \in EventIds, Readd(d, e) PROVE Ordered'
  BY <1>6, OrderReadd
<1>7. ASSUME NEW e \in EventIds, ManualRedeliver(e) PROVE Ordered'
  BY <1>7, OrderRedelivers
<1>8. CASE DispatcherStep
  BY <1>8, OrderPoll, OrderPublishes, OrderAcks, OrderMarks DEF DispatcherStep
<1> QED BY <1>1, <1>2, <1>3, <1>4, <1>5, <1>6, <1>7, <1>8 DEF Next

\* SourceOrder: when an event has arrived, each earlier event of its source has
\* arrived or was dead-lettered, over every failure, partial batch, requeue and
\* redelivery by hand.
THEOREM OrderKept == Spec => []SourceOrder
<1>1. Init => Ordered
  <2> SUFFICES ASSUME Init PROVE Ordered
    OBVIOUS
  <2>1. Published = {} /\ everDead = {}
    BY DEF Init, Published
  <2>2. \A e \in EventIds : ~Dead(e)
    BY DEF Init, OutboxInit, Dead, NoRecord
  <2>3. DOMAIN queue = {} /\ DOMAIN batch = {} /\ DOMAIN adding = {}
    BY DEF Init, OutboxInit
  <2> QED BY <2>1, <2>2, <2>3 DEF Ordered, SettledInOrder, QueueInOrder, BatchInOrder,
                                  AddingInOrder
<1>2. Safe /\ Ordered /\ [Next]_vars => Ordered'
  BY OrderStep
<1>3. Ordered => SourceOrder
  BY DEF Ordered, SettledInOrder, Preceded, Settled, SourceOrder, Recorded
<1> QED BY <1>1, <1>2, <1>3, SafeAlways, PTL DEF Spec

-----------------------------------------------------------------------------
(* Chains: what the versions imply *)

\* Versions and lengths are naturals.
LEMMA Numbers ==
  ASSUME Safe, NEW s \in Sources
  PROVE  /\ agg[s].version \in Nat /\ agg[s].size \in Nat
         /\ cursors[s].version \in Nat /\ cursors[s].previous \in Nat
         /\ Len(log[s]) \in Nat /\ DOMAIN log[s] = 1..Len(log[s])
         /\ \A k \in 1..Len(log[s]) : log[s][k].version \in Nat
         /\ LastVersion(s) \in Nat
         /\ log[s] = <<>> <=> Len(log[s]) = 0
<1>1. agg[s].version \in Nat /\ agg[s].size \in Nat
  BY Options DEF Safe, TypeOK
<1>2. cursors[s].version \in Nat /\ cursors[s].previous \in Nat
  BY Options DEF Safe, TypeOK
<1>3. log[s] \in Seq(Commits)
  BY DEF Safe, Shapes
<1>4. Len(log[s]) \in Nat /\ DOMAIN log[s] = 1..Len(log[s])
  BY <1>3, LenProperties
<1>5. \A k \in 1..Len(log[s]) : log[s][k].version \in Nat
  <2> SUFFICES ASSUME NEW k \in 1..Len(log[s]) PROVE log[s][k].version \in Nat
    OBVIOUS
  <2>1. log[s][k] \in Commits
    BY <1>3, <1>4, ElementOfSeq
  <2> QED BY <2>1, Options DEF Commits
<1>6. log[s] = <<>> <=> Len(log[s]) = 0
  BY <1>3, EmptySeq
<1>7. LastVersion(s) \in Nat
  BY <1>4, <1>5, <1>6 DEF LastVersion, NoVersion
<1> QED BY <1>1, <1>2, <1>4, <1>5, <1>6, <1>7

\* A recorded event is of a commit in the log, or of the one in hand.
LEMMA RecordedIs ==
  ASSUME Safe, NEW e \in Recorded
  PROVE  /\ e \in EventIds /\ e.src \in Sources /\ e.commit \in Nat /\ e.commit >= 1
         /\ Committed(e) => e.commit \in 1..Len(log[e.src])
         /\ ~Committed(e) => /\ agg[e.src].phase # "clean" /\ e \in InHand(e.src)
                             /\ e.commit = Len(log[e.src]) + 1
<1>1. e \in EventIds /\ e.src \in Sources /\ e.commit \in Nat /\ e.commit >= 1
  BY Options DEF Recorded, EventIds
<1>2. Committed(e) => e.commit \in 1..Len(log[e.src])
  BY <1>1, Numbers DEF Committed
<1>3. ~Committed(e) => agg[e.src].phase # "clean" /\ e \in InHand(e.src)
  BY DEF Recorded
<1>4. ~Committed(e) => e.commit = Len(log[e.src]) + 1
  BY <1>1, <1>3, InHandEvents DEF Safe
<1> QED BY <1>1, <1>2, <1>3, <1>4

\* The dispatcher and the sink have records of recorded events only.
LEMMA HandedOutRecorded ==
  ASSUME Safe
  PROVE  \A r \in HandedOut : r \in Envelopes /\ r.id \in Recorded /\ r.version \in Nat
<1>1. \A r \in seen : r \in Envelopes /\ r.id \in Recorded
  BY DEF Safe, Shapes, Genuine, Published
<1>2. ASSUME NEW i \in DOMAIN batch PROVE batch[i] \in Envelopes /\ batch[i].id \in Recorded
  <2>1. i \in 1..Len(batch) /\ batch[i] \in Envelopes /\ batch[i].id \in EventIds
    BY <1>2, BatchEvents DEF Safe
  <2>2. CASE i \in 1..sent
    BY <1>1, <2>1, <2>2 DEF Safe, Dispatching
  <2>3. CASE i \notin 1..sent
    <3>1. i \in (sent + 1)..Len(batch)
      BY <2>1, <2>3, BatchEvents DEF Safe, TypeOK
    <3>2. batch[i].id \in Stored
      BY <2>1, <3>1 DEF Safe, Dispatching, Stored
    <3> QED BY <2>1, <3>2 DEF Safe, Genuine
  <2> QED BY <2>2, <2>3
<1>3. \A r \in Envelopes : r.version \in Nat
  BY Options DEF Envelopes
<1> QED BY <1>1, <1>2, <1>3 DEF HandedOut

\* The version of a commit places it in the log.
LEMMA VersionPlaces ==
  ASSUME Safe, NEW e \in Recorded, Versioned(e.src)
  PROVE  /\ VersionOf(e) \in Nat
         /\ Committed(e) => /\ VersionOf(e) <= LastVersion(e.src)
                            /\ VersionOf(e) = LastVersion(e.src) => e.commit = Len(log[e.src])
         /\ ~Committed(e) => /\ VersionOf(e) = agg[e.src].version
                             /\ LastVersion(e.src) < VersionOf(e)
                             /\ Predecessor(e) = LastVersion(e.src)
<1> DEFINE s == e.src
           k == e.commit
           n == Len(log[s])
<1>1. /\ s \in Sources /\ k \in Nat /\ k >= 1 /\ n \in Nat
      /\ LastVersion(s) \in Nat /\ agg[s].version \in Nat
      /\ \A j \in 1..n : log[s][j].version \in Nat
      /\ DOMAIN log[s] = 1..n /\ (log[s] = <<>> <=> n = 0)
  BY RecordedIs, Numbers
<1>2. CASE Committed(e)
  <2>1. k \in 1..n /\ VersionOf(e) = log[s][k].version
    BY <1>2, RecordedIs DEF VersionOf
  <2>2. n # 0 /\ LastVersion(s) = log[s][n].version
    BY <1>1, <2>1 DEF LastVersion
  <2>3. k < n => log[s][k].version < log[s][n].version
    <3>1. n \in 1..n
      BY <1>1, <2>1
    <3> QED BY <1>1, <2>1, <3>1 DEF Versioned
  <2>4. k = n \/ k < n
    BY <1>1, <2>1
  <2> HIDE DEF k, n, s
  <2> QED BY <1>1, <1>2, <2>1, <2>2, <2>3, <2>4 DEF k, n, s
<1>3. CASE ~Committed(e)
  <2>1. k = n + 1 /\ agg[s].phase # "clean" /\ VersionOf(e) = agg[s].version
    BY <1>3, RecordedIs DEF VersionOf
  <2>2. LastVersion(s) < agg[s].version
    BY <1>1, <2>1 DEF Versioned
  <2>3. Predecessor(e) = LastVersion(s)
    <3>1. n = 0 => k = 1
      BY <1>1, <2>1
    <3>2. n # 0 => k # 1 /\ k - 1 = n
      BY <1>1, <2>1
    <3> QED BY <1>1, <3>1, <3>2 DEF Predecessor, LastVersion
  <2> QED BY <1>1, <1>3, <2>1, <2>2, <2>3
<1> QED BY <1>2, <1>3

\* A commit in hand has a first event, which is recorded.
LEMMA FirstIs ==
  ASSUME Safe, NEW s \in Sources, agg[s].phase # "clean"
  PROVE  /\ First(s) \in EventIds /\ First(s).src = s /\ First(s) \in InHand(s)
         /\ First(s) \in Recorded /\ ~Committed(First(s))
         /\ First(s).commit = Len(log[s]) + 1 /\ First(s).seq = 0
<1>1. 0 \in 0..(agg[s].size - 1)
  BY DEF Safe, Shapes
<1>2. First(s) \in InHand(s)
  BY <1>1 DEF First, InHand
<1>3. First(s).src = s /\ First(s).commit = Len(log[s]) + 1 /\ First(s).seq = 0
  BY DEF First, Id
<1>4. First(s) \in EventIds /\ ~Committed(First(s))
  BY <1>2, InHandEvents DEF Safe
<1>5. First(s) \in Recorded
  BY <1>2, <1>3, <1>4 DEF Recorded
<1> QED BY <1>2, <1>3, <1>4, <1>5

\* The source head is between the last commit and the aggregate.
LEMMA HeadBetween ==
  ASSUME Safe, NEW s \in Sources, Chained(s)
  PROVE  /\ LastVersion(s) <= cursors[s].version /\ cursors[s].version <= agg[s].version
         /\ LastVersion(s) < cursors[s].version => AtAttempt(s)
  BY Numbers DEF Chained, Versioned, Linked, AtLastCommit, AtAttempt

\* What the source itself has not touched.
LEMMA SourceSame ==
  ASSUME NEW s \in Sources, agg'[s] = agg[s], log'[s] = log[s],
         NEW e \in EventIds, e.src = s
  PROVE  /\ Committed(e)' <=> Committed(e)
         /\ e \in Recorded' <=> e \in Recorded
         /\ VersionOf(e)' = VersionOf(e) /\ Predecessor(e)' = Predecessor(e)
<1>1. Committed(e)' <=> Committed(e)
  BY DEF Committed
<1>2. InHand(s)' = InHand(s)
  BY DEF InHand
<1>3. e \in Recorded' <=> e \in Recorded
  BY <1>1, <1>2 DEF Recorded
<1>4. VersionOf(e)' = VersionOf(e) /\ Predecessor(e)' = Predecessor(e)
  BY <1>1 DEF VersionOf, Predecessor
<1> QED BY <1>1, <1>3, <1>4

\* The source head of a frame: its version and what it links to.
SameHead(s) == /\ cursors'[s].version = cursors[s].version
               /\ cursors'[s].previous = cursors[s].previous

\* The outbox and the dispatcher may drop, keep or hand out records of a
\* source, as long as they hand out exact ones, or note the commit as moved.
LEMMA ChainedStays ==
  ASSUME Safe, NEW s \in Sources, Chained(s),
         agg'[s] = agg[s], log'[s] = log[s], SameHead(s), MovedWhole(s)',
         moved \subseteq moved',
         \A e \in EventIds : /\ e.src = s /\ e \in Stored'
                             => /\ e \in Stored
                                /\ rec'[e].version = rec[e].version
                                /\ rec'[e].previous = rec[e].previous,
         \A e \in EventIds : Kept(e) => Kept(e)',
         \A r \in HandedOut' : /\ r.id.src = s /\ r \notin HandedOut
                               => Exactly(r)' /\ r.version <= cursors[s].version,
         \A r \in Entries(receipts') :
            r.id.src = s => /\ r.id \notin Stored'
                            /\ \/ r \in Entries(receipts)
                               \/ r.version <= cursors[s].version
  PROVE  Chained(s)'
<1>0. Stored' \subseteq EventIds /\ Stored \subseteq EventIds
  BY DEF Stored
<1>1. Versioned(s)'
  BY DEF Chained, Versioned, LastVersion
<1>2. LastVersion(s)' = LastVersion(s) /\ InHand(s)' = InHand(s)
  BY DEF LastVersion, InHand
<1>3. \A r \in HandedOut' : r.id.src = s => Exactly(r)' /\ r.version <= cursors'[s].version
  <2> SUFFICES ASSUME NEW r \in HandedOut', r.id.src = s
               PROVE  Exactly(r)' /\ r.version <= cursors'[s].version
    OBVIOUS
  <2>1. CASE r \notin HandedOut
    BY <2>1 DEF SameHead
  <2>2. CASE r \in HandedOut
    <3>1. r.id \in EventIds
      BY <2>2, HandedOutRecorded DEF Recorded
    <3>2. Exactly(r) /\ r.version <= cursors[s].version
      BY <2>2 DEF Chained, Linked
    <3>3. VersionOf(r.id)' = VersionOf(r.id) /\ Predecessor(r.id)' = Predecessor(r.id)
      <4> DEFINE e == r.id
      <4>1. e \in EventIds /\ e.src = s
        BY <3>1
      <4> HIDE DEF e
      <4>2. VersionOf(e)' = VersionOf(e) /\ Predecessor(e)' = Predecessor(e)
        BY <4>1, SourceSame
      <4> QED BY <4>2 DEF e
    <3> QED BY <3>2, <3>3 DEF Exactly, SameHead
  <2> QED BY <2>1, <2>2
<1>4. \A e \in Stored' : e.src = s => Positioned(e)'
  <2> SUFFICES ASSUME NEW e \in EventIds, e \in Stored', e.src = s PROVE Positioned(e)'
    BY <1>0
  <2>1. /\ e \in Stored /\ rec'[e].version = rec[e].version
        /\ rec'[e].previous = rec[e].previous
    OBVIOUS
  <2>2. Positioned(e)
    BY <2>1 DEF Chained, Linked
  <2>3. /\ Committed(e)' <=> Committed(e)
        /\ VersionOf(e)' = VersionOf(e) /\ Predecessor(e)' = Predecessor(e)
    BY SourceSame
  <2> QED BY <1>2, <2>1, <2>2, <2>3 DEF Positioned, SameHead
<1>5. \A r \in Entries(receipts') :
         r.id.src = s => r.version <= cursors'[s].version /\ r.id \notin Stored'
  BY DEF Chained, Linked, SameHead
<1>6. AtLastCommit(s) => AtLastCommit(s)'
  <2>1. LastFirst(s)' = LastFirst(s)
    BY DEF LastFirst, Id
  <2>2. Predecessor(LastFirst(s))' = Predecessor(LastFirst(s))
    BY DEF LastFirst, Id, Predecessor
  <2> QED BY <1>2, <2>1, <2>2 DEF AtLastCommit, SameHead
<1>7. AtAttempt(s) => AtAttempt(s)'
  <2> SUFFICES ASSUME AtAttempt(s) PROVE AtAttempt(s)'
    OBVIOUS
  <2>1. PICK f \in EventIds : f = First(s)
    BY FirstIs DEF AtAttempt
  <2>2. First(s)' = f /\ f.src = s
    BY <2>1 DEF First, Id
  <2>3. /\ agg[s].phase # "clean"
        /\ LastVersion(s) < cursors[s].version /\ cursors[s].version <= agg[s].version
        /\ cursors[s].previous = LastVersion(s) \/ f \in moved
        /\ Kept(f)
        /\ f \in Stored => rec[f].version = cursors[s].version
    BY <2>1 DEF AtAttempt
  <2>4. Kept(f)'
    BY <2>3
  <2>5. f \in Stored' => rec'[f].version = cursors'[s].version
    BY <2>2, <2>3 DEF SameHead
  <2>6. Kept(First(s))'
    BY <2>2, <2>4 DEF Kept, Pending, Dead
  <2> QED BY <1>2, <2>2, <2>3, <2>5, <2>6 DEF AtAttempt, SameHead
<1>8. agg'[s].phase = "added" => Refreshed(s)'
  <2> SUFFICES ASSUME agg[s].phase = "added", Refreshed(s) PROVE Refreshed(s)'
    BY DEF Chained, Linked
  <2>1. \A e \in Stored' \cap InHand(s)' : rec'[e].version = agg'[s].version
    <3> SUFFICES ASSUME NEW e \in Stored', e \in InHand(s) PROVE rec'[e].version = agg'[s].version
      BY <1>2
    <3>1. e \in EventIds /\ e.src = s
      BY <1>0 DEF InHand, Id
    <3> QED BY <3>1 DEF Refreshed
  <2> QED BY <2>1 DEF Refreshed, SameHead
<1>9. AtLastCommit(s)' \/ AtAttempt(s)'
  BY <1>6, <1>7 DEF Chained, Linked
<1>10. Linked(s)'
  BY <1>3, <1>4, <1>5, <1>8, <1>9 DEF Linked
<1> QED BY <1>1, <1>10 DEF Chained

\* A commit is still noted as moved as a whole.
LEMMA MovedStays ==
  ASSUME Safe, NEW s \in Sources, MovedWhole(s),
         \A e \in EventIds : e.src = s => (e \in Recorded' <=> e \in Recorded),
         \/ \A e \in moved' : e.src = s => e \in moved
         \/ /\ agg[s].phase # "clean"
            /\ \A e \in moved' : e.src = s => e \in moved \cup InHand(s)
            /\ InHand(s) \subseteq moved',
         moved \subseteq moved'
  PROVE  MovedWhole(s)'
<1> SUFFICES ASSUME NEW e \in moved', e.src = s
             PROVE  /\ e \in Recorded'
                    /\ \A d \in Recorded' : d.src = s /\ d.commit = e.commit => d \in moved'
  BY DEF MovedWhole
<1>1. CASE e \in moved
  <2>1. e \in Recorded /\ e \in EventIds
    BY <1>1 DEF MovedWhole, Recorded
  <2>2. e \in Recorded'
    BY <2>1
  <2>3. ASSUME NEW d \in Recorded', d.src = s, d.commit = e.commit PROVE d \in moved'
    <3>1. d \in EventIds
      BY DEF Recorded
    <3>2. d \in Recorded
      BY <2>3, <3>1
    <3> QED BY <1>1, <2>3, <3>2 DEF MovedWhole
  <2> QED BY <2>2, <2>3
<1>2. CASE e \notin moved
  <2>1. agg[s].phase # "clean" /\ e \in InHand(s) /\ InHand(s) \subseteq moved'
    BY <1>2
  <2>2. e \in EventIds /\ ~Committed(e) /\ e.commit = Len(log[s]) + 1
    BY <2>1, InHandEvents DEF Safe
  <2>3. e \in Recorded /\ e \in Recorded'
    <3>1. e \in Recorded
      BY <2>1, <2>2 DEF Recorded
    <3> QED BY <2>2, <3>1
  <2>4. ASSUME NEW d \in Recorded', d.src = s, d.commit = e.commit PROVE d \in moved'
    <3>1. d \in EventIds
      BY DEF Recorded
    <3>2. d \in Recorded
      BY <2>4, <3>1
    <3>3. ~Committed(d)
      BY <2>2, <2>4, <3>2, RecordedIs, Numbers
    <3>4. d \in InHand(s)
      BY <2>4, <3>2, <3>3, RecordedIs
    <3> QED BY <2>1, <3>4
  <2> QED BY <2>3, <2>4
<1> QED BY <1>1, <1>2

-----------------------------------------------------------------------------
(* Chains: the write side *)

\* While no add() runs there is nothing to add.
LEMMA Rests ==
  ASSUME Safe, Chains
  PROVE  /\ Quiet => adding = <<>> /\ client = {}
         /\ adding' = <<>> /\ client' = {} => Refreshing'
<1>1. Quiet => adding = <<>> /\ client = {}
  BY DEF Chains, Refreshing, Quiet, Safe, Transactions
<1>2. adding' = <<>> /\ client' = {} => Refreshing'
  <2> SUFFICES ASSUME adding' = <<>>, client' = {} PROVE Refreshing'
    OBVIOUS
  <2>1. DOMAIN adding' = {}
    OBVIOUS
  <2> QED BY <2>1 DEF Refreshing
<1> QED BY <1>1, <1>2

\* Nothing at all happens to a source.
LEMMA ChainedSame ==
  ASSUME Safe, NEW s \in Sources, Chained(s), agg'[s] = agg[s], log'[s] = log[s],
         UNCHANGED <<rec, cursors, receipts, seen, batch>>, moved \subseteq moved',
         \A e \in moved' : e.src = s => e \in moved
  PROVE  Chained(s)'
<1>1. Stored' = Stored /\ HandedOut' = HandedOut /\ Entries(receipts') = Entries(receipts)
      /\ \A e \in EventIds : Kept(e) => Kept(e)'
  BY DEF Stored, Pending, Dead, HandedOut, Kept, Published
<1>2. MovedWhole(s)'
  BY SourceSame, MovedStays DEF Chained
<1>3. SameHead(s)
  BY DEF SameHead
<1>4. \A r \in Entries(receipts') : r.id.src = s => r.id \notin Stored' /\ r \in Entries(receipts)
  BY <1>1 DEF Chained, Linked
<1> QED BY <1>1, <1>2, <1>3, <1>4, ChainedStays

\* A clean source records the events of its next commit.
LEMMA ChainsRecord ==
  ASSUME Safe, Chains, NEW s \in Sources, NEW n \in 1..MaxSize, Record(s, n)
  PROVE  Chains'
<1>1. /\ Quiet /\ agg[s].phase = "clean" /\ log' = log /\ client' = client
      /\ agg' = [agg EXCEPT ![s] = [phase |-> "dirty", version |-> agg[s].version + 1, size |-> n]]
      /\ rec' = rec /\ cursors' = cursors /\ receipts' = receipts /\ adding' = adding
      /\ seen' = seen /\ batch' = batch /\ moved' = moved
  BY DEF Record, outboxVars, dispatchVars, historyVars
<1>2. /\ agg'[s].phase = "dirty" /\ agg'[s].version = agg[s].version + 1
      /\ \A t \in Sources : t # s => agg'[t] = agg[t]
  BY <1>1 DEF Safe, TypeOK
<1>3. Chained(s)
  BY DEF Chains
<1>4. \A e \in Recorded : e.src = s => Committed(e)
  BY <1>1, RecordedIs
<1>5. \A e : (Committed(e)' <=> Committed(e)) /\ Predecessor(e)' = Predecessor(e)
  BY <1>1 DEF Committed, Predecessor
<1>6. LastVersion(s)' = LastVersion(s) /\ Stored' = Stored /\ HandedOut' = HandedOut
      /\ Entries(receipts') = Entries(receipts)
  BY <1>1 DEF LastVersion, Stored, Pending, Dead, HandedOut
<1>7. Versioned(s)'
  <2>1. agg[s].version = LastVersion(s)
    BY <1>1, <1>3 DEF Chained, Versioned
  <2>2. agg'[s].version > LastVersion(s)'
    BY <1>2, <1>6, <2>1, Numbers
  <2> QED BY <1>1, <1>2, <1>3, <2>2 DEF Chained, Versioned, LastVersion
<1>8. MovedWhole(s)'
  <2> SUFFICES ASSUME NEW e \in moved, e.src = s
               PROVE  /\ e \in Recorded'
                      /\ \A d \in Recorded' : d.src = s /\ d.commit = e.commit => d \in moved
    BY <1>1 DEF MovedWhole
  <2>1. e \in Recorded /\ e \in EventIds /\ Committed(e) /\ e.commit \in 1..Len(log[s])
    BY <1>3, <1>4, RecordedIs DEF Chained, MovedWhole
  <2>2. e \in Recorded'
    BY <1>5, <2>1 DEF Recorded
  <2>3. ASSUME NEW d \in Recorded', d.src = s, d.commit = e.commit PROVE d \in moved
    <3>1. d \in EventIds
      BY DEF Recorded
    <3>2. d.commit # Len(log[s]) + 1
      BY <2>1, <2>3, Numbers
    <3>3. d \notin InHand(s)'
      BY <1>1, <3>2 DEF InHand, Id
    <3>4. Committed(d)
      BY <1>5, <2>3, <3>1, <3>3 DEF Recorded
    <3> QED BY <1>3, <2>3, <3>1, <3>4 DEF Chained, MovedWhole, Recorded
  <2> QED BY <2>2, <2>3
<1>9. \A e \in Recorded : e.src = s => VersionOf(e)' = VersionOf(e)
  BY <1>1, <1>4, <1>5 DEF VersionOf
<1>10. \A r \in HandedOut' : r.id.src = s => Exactly(r)' /\ r.version <= cursors'[s].version
  <2> SUFFICES ASSUME NEW r \in HandedOut, r.id.src = s
               PROVE  Exactly(r)' /\ r.version <= cursors'[s].version
    BY <1>6
  <2>1. r.id \in Recorded /\ Exactly(r) /\ r.version <= cursors[s].version
    BY <1>3, HandedOutRecorded DEF Chained, Linked
  <2>2. VersionOf(r.id)' = VersionOf(r.id) /\ Predecessor(r.id)' = Predecessor(r.id)
    <3>1. \A e \in Recorded : e = r.id =>
             VersionOf(e)' = VersionOf(e) /\ Predecessor(e)' = Predecessor(e)
      BY <1>5, <1>9
    <3>2. r' = r
      OBVIOUS
    <3> QED BY <2>1, <3>1, <3>2
  <2> QED BY <1>1, <2>1, <2>2 DEF Exactly
<1>11. \A e \in Stored' : e.src = s => Positioned(e)'
  <2> SUFFICES ASSUME NEW e \in Stored, e.src = s PROVE Positioned(e)'
    BY <1>6
  <2>1. e \in Recorded /\ Positioned(e)
    BY <1>3 DEF Chained, Linked, Safe, Genuine
  <2> QED BY <1>1, <1>4, <1>5, <1>9, <2>1 DEF Positioned
<1>12. AtLastCommit(s)'
  <2>1. AtLastCommit(s)
    BY <1>1, <1>3 DEF Chained, Linked, AtAttempt
  <2>2. LastFirst(s)' = LastFirst(s) /\ Predecessor(LastFirst(s))' = Predecessor(LastFirst(s))
    BY <1>1 DEF LastFirst, Id, Predecessor
  <2> QED BY <1>1, <1>6, <2>1, <2>2 DEF AtLastCommit
<1>13. Chained(s)'
  <2>1. \A r \in Entries(receipts') :
           r.id.src = s => r.version <= cursors'[s].version /\ r.id \notin Stored'
    BY <1>1, <1>3, <1>6 DEF Chained, Linked
  <2>2. Linked(s)'
    BY <1>2, <1>10, <1>11, <1>12, <2>1 DEF Linked
  <2> QED BY <1>7, <1>8, <2>2 DEF Chained
<1>14. ASSUME NEW t \in Sources, t # s PROVE Chained(t)'
  BY <1>1, <1>2, <1>14, ChainedSame DEF Chains
<1>15. Refreshing'
  BY <1>1, Rests
<1> QED BY <1>13, <1>14, <1>15 DEF Chains

\* A state-only change moves the version of a commit in hand.
LEMMA ChainsBump ==
  ASSUME Safe, Chains, NEW s \in Sources, Bump(s)
  PROVE  Chains'
<1> DEFINE handedOut == Published \cup {batch[i].id : i \in DOMAIN batch}
<1>1. /\ Quiet /\ agg[s].phase = "dirty" /\ log' = log /\ client' = client
      /\ agg' = [agg EXCEPT ![s].version = @ + 1]
      /\ rec' = rec /\ cursors' = cursors /\ receipts' = receipts /\ adding' = adding
      /\ seen' = seen /\ batch' = batch
      /\ moved' = IF InHand(s) \cap handedOut = {} THEN moved ELSE moved \cup InHand(s)
  BY DEF Bump, outboxVars, dispatchVars
<1>2. /\ agg'[s].phase = "dirty" /\ agg'[s].version = agg[s].version + 1
      /\ agg'[s].size = agg[s].size
      /\ \A t \in Sources : t # s => agg'[t] = agg[t]
  BY <1>1 DEF Safe, TypeOK
<1>3. Chained(s)
  BY DEF Chains
<1>4. Recorded' = Recorded
  BY <1>1, <1>2, RecordedSame
<1>5. \A e : (Committed(e)' <=> Committed(e)) /\ Predecessor(e)' = Predecessor(e)
  BY <1>1 DEF Committed, Predecessor
<1>6. LastVersion(s)' = LastVersion(s) /\ Stored' = Stored /\ HandedOut' = HandedOut
      /\ Entries(receipts') = Entries(receipts)
      /\ \A e \in EventIds : Kept(e) => Kept(e)'
  BY <1>1 DEF LastVersion, Stored, Pending, Dead, HandedOut, Kept, Published
<1>7. Versioned(s)'
  <2>1. agg[s].version > LastVersion(s)
    BY <1>1, <1>3 DEF Chained, Versioned
  <2>2. agg'[s].version > LastVersion(s)'
    BY <1>2, <1>6, <2>1, Numbers
  <2> QED BY <1>1, <1>2, <1>3, <2>2 DEF Chained, Versioned, LastVersion
<1>8. moved \subseteq moved'
  BY <1>1
<1>9. MovedWhole(s)'
  <2>1. \/ \A e \in moved' : e.src = s => e \in moved
        \/ /\ agg[s].phase # "clean"
           /\ \A e \in moved' : e.src = s => e \in moved \cup InHand(s)
           /\ InHand(s) \subseteq moved'
    BY <1>1
  <2> QED BY <1>3, <1>4, <1>8, <2>1, MovedStays DEF Chained
<1>10. \A r \in HandedOut' : r.id.src = s => Exactly(r)' /\ r.version <= cursors'[s].version
  <2> SUFFICES ASSUME NEW r \in HandedOut, r.id.src = s
               PROVE  Exactly(r)' /\ r.version <= cursors'[s].version
    BY <1>6
  <2>1. r.id \in Recorded /\ Exactly(r) /\ r.version <= cursors[s].version
    BY <1>3, HandedOutRecorded DEF Chained, Linked
  <2>2. r.id \in handedOut
    BY DEF HandedOut, Published
  <2>3. CASE Committed(r.id)
    <3>1. VersionOf(r.id)' = VersionOf(r.id) /\ Predecessor(r.id)' = Predecessor(r.id)
      BY <1>1, <2>3 DEF VersionOf, Committed, Predecessor
    <3> QED BY <1>1, <1>8, <2>1, <3>1 DEF Exactly
  <2>4. CASE ~Committed(r.id)
    <3>1. r.id \in InHand(s)
      BY <2>1, <2>4, RecordedIs
    <3>2. r.id \in moved'
      BY <1>1, <2>2, <3>1
    <3> QED BY <1>1, <2>1, <3>2 DEF Exactly
  <2> QED BY <2>3, <2>4
<1>11. \A e \in Stored' : e.src = s => Positioned(e)'
  <2> SUFFICES ASSUME NEW e \in Stored, e.src = s PROVE Positioned(e)'
    BY <1>6
  <2>1. Positioned(e)
    BY <1>3 DEF Chained, Linked
  <2>2. Committed(e) => VersionOf(e)' = VersionOf(e)
    BY <1>1, <1>5 DEF VersionOf
  <2>3. ~Committed(e) => rec[e].version <= agg'[s].version
    <3>1. rec[e].version \in Nat
      BY Options DEF Safe, TypeOK, Stored
    <3> QED BY <1>2, <2>1, <3>1, Numbers DEF Positioned
  <2> QED BY <1>1, <1>5, <1>6, <1>8, <2>1, <2>2, <2>3 DEF Positioned
<1>12. AtLastCommit(s)' \/ AtAttempt(s)'
  <2>1. CASE AtLastCommit(s)
    <3>1. LastFirst(s)' = LastFirst(s) /\ Predecessor(LastFirst(s))' = Predecessor(LastFirst(s))
      BY <1>1 DEF LastFirst, Id, Predecessor
    <3> QED BY <1>1, <1>6, <1>8, <2>1, <3>1 DEF AtLastCommit
  <2>2. CASE AtAttempt(s)
    <3>1. First(s)' = First(s)
      BY <1>1 DEF First, Id
    <3>2. Kept(First(s))'
      BY <1>1, <2>2, <3>1 DEF AtAttempt, Kept, Pending, Dead, Published
    <3>3. cursors[s].version <= agg'[s].version
      BY <1>2, <2>2, Numbers DEF AtAttempt
    <3>4. First(s)' \in Stored' => rec'[First(s)'].version = cursors'[s].version
      BY <1>1, <1>6, <2>2, <3>1 DEF AtAttempt
    <3>5. cursors'[s].previous = LastVersion(s)' \/ First(s)' \in moved'
      BY <1>1, <1>6, <1>8, <2>2, <3>1 DEF AtAttempt
    <3> QED BY <1>1, <1>2, <1>6, <2>2, <3>2, <3>3, <3>4, <3>5 DEF AtAttempt
  <2> QED BY <1>3, <2>1, <2>2 DEF Chained, Linked
<1>13. Chained(s)'
  <2>1. \A r \in Entries(receipts') :
           r.id.src = s => r.version <= cursors'[s].version /\ r.id \notin Stored'
    BY <1>1, <1>3, <1>6 DEF Chained, Linked
  <2>2. Linked(s)'
    BY <1>2, <1>10, <1>11, <1>12, <2>1 DEF Linked
  <2> QED BY <1>7, <1>9, <2>2 DEF Chained
<1>14. ASSUME NEW t \in Sources, t # s PROVE Chained(t)'
  <2>1. \A e \in moved' : e.src = t => e \in moved
    BY <1>1, <1>14 DEF InHand, Id
  <2> QED BY <1>1, <1>2, <1>8, <1>14, <2>1, ChainedSame DEF Chains
<1>15. Refreshing'
  BY <1>1, Rests
<1> QED BY <1>13, <1>14, <1>15 DEF Chains

\* A transaction begins or ends to hold the source.
LEMMA ChainedHolds ==
  ASSUME Safe, NEW s \in Sources, Chained(s), log'[s] = log[s],
         UNCHANGED <<rec, cursors, receipts, seen, batch, moved>>,
         agg'[s].version = agg[s].version, agg'[s].size = agg[s].size,
         agg'[s].phase = "clean" <=> agg[s].phase = "clean",
         agg'[s].phase = "added" => Refreshed(s)
  PROVE  Chained(s)'
<1>1. \A e \in EventIds : e.src = s => /\ Committed(e)' <=> Committed(e)
                                       /\ Predecessor(e)' = Predecessor(e)
                                       /\ VersionOf(e)' = VersionOf(e)
                                       /\ e \in Recorded' <=> e \in Recorded
  BY DEF Committed, Predecessor, VersionOf, Recorded, InHand
<1>2. LastVersion(s)' = LastVersion(s) /\ Stored' = Stored /\ HandedOut' = HandedOut
      /\ Entries(receipts') = Entries(receipts) /\ InHand(s)' = InHand(s)
  BY DEF LastVersion, Stored, Pending, Dead, HandedOut, InHand
<1>3. Versioned(s)'
  BY DEF Chained, Versioned, LastVersion
<1>4. MovedWhole(s)'
  BY <1>1, MovedStays DEF Chained
<1>5. \A r \in HandedOut' : r.id.src = s => Exactly(r)' /\ r.version <= cursors'[s].version
  <2> SUFFICES ASSUME NEW r \in HandedOut, r.id.src = s
               PROVE  Exactly(r)' /\ r.version <= cursors'[s].version
    BY <1>2
  <2>1. r.id \in EventIds /\ Exactly(r) /\ r.version <= cursors[s].version
    BY HandedOutRecorded DEF Chained, Linked, Recorded
  <2>2. VersionOf(r.id)' = VersionOf(r.id) /\ Predecessor(r.id)' = Predecessor(r.id)
    BY DEF VersionOf, Committed, Predecessor
  <2> QED BY <2>1, <2>2 DEF Exactly
<1>6. \A e \in Stored' : e.src = s => Positioned(e)'
  BY <1>1, <1>2 DEF Chained, Linked, Positioned, Stored
<1>7. AtLastCommit(s)' \/ AtAttempt(s)'
  <2>1. CASE AtLastCommit(s)
    <3>1. LastFirst(s)' = LastFirst(s) /\ Predecessor(LastFirst(s))' = Predecessor(LastFirst(s))
      BY DEF LastFirst, Id, Predecessor
    <3> QED BY <1>2, <2>1, <3>1 DEF AtLastCommit
  <2>2. CASE AtAttempt(s)
    <3>1. First(s)' = First(s)
      BY DEF First, Id
    <3>2. Kept(First(s))'
      BY <2>2, <3>1 DEF AtAttempt, Kept, Pending, Dead, Published
    <3>3. First(s)' \in Stored' => rec'[First(s)'].version = cursors'[s].version
      BY <1>2, <2>2, <3>1 DEF AtAttempt
    <3> QED BY <1>2, <2>2, <3>1, <3>2, <3>3 DEF AtAttempt
  <2> QED BY <2>1, <2>2 DEF Chained, Linked
<1>8. agg'[s].phase = "added" => Refreshed(s)'
  BY <1>2 DEF Refreshed
<1>9. Linked(s)'
  BY <1>2, <1>5, <1>6, <1>7, <1>8 DEF Chained, Linked
<1> QED BY <1>3, <1>4, <1>9 DEF Chained

\* The caller of add() resumes, or its transaction rolls back.
LEMMA ChainsHolds ==
  ASSUME Safe, Chains, AddSettles \/ \E g \in open : RollbackTx(g)
  PROVE  Chains'
<1>1. CASE AddSettles
  <2>1. /\ addResult \in {"added", "rejected"} /\ client' = {} /\ log' = log
        /\ rec' = rec /\ cursors' = cursors /\ receipts' = receipts /\ adding' = adding
        /\ seen' = seen /\ batch' = batch /\ moved' = moved
        /\ \/ agg' = agg
           \/ /\ addResult = "added"
              /\ agg' = [s \in Sources |-> IF s \in client
                                           THEN [agg[s] EXCEPT !.phase = "added"] ELSE agg[s]]
    BY <1>1 DEF AddSettles, dispatchVars, historyVars
  <2>2. adding' = <<>>
    BY <2>1 DEF Chains, Refreshing
  <2>3. ASSUME NEW s \in Sources PROVE Chained(s)'
    <3>1. /\ agg'[s].version = agg[s].version /\ agg'[s].size = agg[s].size
          /\ agg'[s].phase = "clean" <=> agg[s].phase = "clean"
          /\ agg'[s].phase = "added" => Refreshed(s)
      <4>1. agg[s] \in [phase : {"clean", "dirty", "added"}, version : 0..MaxVersion,
                        size : 0..MaxSize]
        BY DEF Safe, TypeOK
      <4>2. agg[s].phase = "added" => Refreshed(s)
        BY DEF Chains, Chained, Linked
      <4>3. CASE agg' = agg
        BY <4>2, <4>3
      <4>4. CASE agg' # agg
        <5>1. /\ addResult = "added"
              /\ agg'[s] = IF s \in client THEN [agg[s] EXCEPT !.phase = "added"] ELSE agg[s]
          BY <2>1, <4>4
        <5>2. CASE s \in client
          <6>1. agg'[s].phase = "added" /\ agg'[s].version = agg[s].version
                /\ agg'[s].size = agg[s].size
            BY <4>1, <5>1, <5>2
          <6>2. agg[s].phase = "dirty"
            BY <5>2 DEF Safe, Transactions
          <6>3. Refreshed(s)
            BY <5>1, <5>2 DEF Chains, Refreshing
          <6> QED BY <6>1, <6>2, <6>3
        <5>3. CASE s \notin client
          BY <4>2, <5>1, <5>3
        <5> QED BY <5>2, <5>3
      <4> QED BY <4>3, <4>4
    <3> QED BY <2>1, <3>1, ChainedHolds DEF Chains
  <2> QED BY <2>1, <2>2, <2>3, Rests DEF Chains
<1>2. ASSUME NEW g \in open, RollbackTx(g) PROVE Chains'
  <2>1. SettleTx(g, "dirty") /\ log' = log
    BY <1>2 DEF RollbackTx
  <2>2. /\ rec' = rec /\ cursors' = cursors /\ receipts' = receipts /\ adding' = adding
        /\ seen' = seen /\ batch' = batch /\ moved' = moved /\ client' = {} /\ Quiet
        /\ \A s \in g : /\ agg[s].phase = "added" /\ agg'[s].phase = "dirty"
                        /\ agg'[s].version = agg[s].version /\ agg'[s].size = agg[s].size
        /\ \A s \in Sources \ g : agg'[s] = agg[s]
    BY <2>1, Settles
  <2>3. ASSUME NEW s \in Sources PROVE Chained(s)'
    <3>1. /\ agg'[s].version = agg[s].version /\ agg'[s].size = agg[s].size
          /\ agg'[s].phase = "clean" <=> agg[s].phase = "clean"
          /\ agg'[s].phase = "added" => Refreshed(s)
      BY <2>2 DEF Chains, Chained, Linked
    <3> QED BY <2>1, <2>2, <3>1, ChainedHolds DEF Chains
  <2> QED BY <2>2, <2>3, Rests DEF Chains
<1> QED BY <1>1, <1>2

\* The commit in hand joins the log of its source.
LEMMA ChainedCommits ==
  ASSUME Safe, NEW s \in Sources, Chained(s), NEW g \in open, CommitTx(g), s \in g
  PROVE  Chained(s)'
<1> DEFINE n == Len(log[s])
           v == agg[s].version
<1>1. /\ rec' = rec /\ cursors' = cursors /\ receipts' = receipts
      /\ seen' = seen /\ batch' = batch /\ moved' = moved
  BY Settles DEF CommitTx
<1>2. /\ agg[s].phase = "added" /\ agg'[s].phase = "clean" /\ agg'[s].version = v
      /\ log'[s] \in Seq(Commits) /\ Len(log'[s]) = n + 1 /\ n \in Nat
      /\ log'[s][n + 1] = [version |-> v, size |-> agg[s].size]
      /\ \A k \in 1..n : log'[s][k] = log[s][k]
  BY CommitLogs
<1>3. /\ v \in Nat /\ agg[s].size \in Nat /\ cursors[s].version \in Nat
      /\ LastVersion(s) \in Nat /\ \A k \in 1..n : log[s][k].version \in Nat
      /\ DOMAIN log[s] = 1..n /\ (log[s] = <<>> <=> n = 0)
  BY Numbers
<1>4. DOMAIN log'[s] = 1..(n + 1) /\ log'[s] # <<>> /\ log'[s][n + 1].version = v
  <2>1. DOMAIN log'[s] = 1..(n + 1)
    BY <1>2, LenProperties
  <2>2. n + 1 # 0
    BY <1>2
  <2> QED BY <1>2, <2>1, <2>2, EmptySeq
<1>5. LastVersion(s)' = v
  BY <1>2, <1>4 DEF LastVersion
<1>6. LastVersion(s) < v /\ cursors[s].version = v
  BY <1>2, <1>3 DEF Chained, Versioned, Linked, Refreshed
<1> HIDE DEF n, v
<1>7. Versioned(s)'
  <2>1. ASSUME NEW j \in 1..(n + 1), NEW k \in 1..(n + 1), j < k
        PROVE  log'[s][j].version < log'[s][k].version
    <3>1. j \in 1..n
      BY <1>2, <2>1
    <3>2. log[s][j].version <= LastVersion(s)
      <4>1. n \in 1..n /\ log[s] # <<>> /\ (j = n \/ j < n)
        BY <1>2, <1>3, <3>1
      <4>2. j < n => log[s][j].version < log[s][n].version
        BY <1>3, <3>1, <4>1 DEF Chained, Versioned
      <4>3. LastVersion(s) = log[s][n].version
        BY <4>1 DEF LastVersion, n
      <4> QED BY <1>3, <3>1, <4>1, <4>2, <4>3
    <3>3. CASE k = n + 1
      BY SMTT(40), <1>2, <1>3, <1>4, <1>6, <3>1, <3>2, <3>3
    <3>4. CASE k # n + 1
      <4>1. k \in 1..n
        BY <1>2, <3>4
      <4> QED BY <1>2, <1>3, <2>1, <3>1, <4>1 DEF Chained, Versioned
    <3> QED BY <3>3, <3>4
  <2>2. ASSUME NEW j \in 1..(n + 1) PROVE log'[s][j].version > NoVersion
    <3>1. CASE j = n + 1
      BY <1>3, <1>4, <1>6, <3>1 DEF NoVersion
    <3>2. CASE j # n + 1
      <4>1. j \in 1..n
        BY <1>2, <3>2
      <4> QED BY <1>2, <1>3, <4>1 DEF Chained, Versioned
    <3> QED BY <3>1, <3>2
  <2>3. agg'[s].phase = "clean" /\ agg'[s].version = LastVersion(s)'
    BY <1>2, <1>5
  <2> QED BY <1>4, <2>1, <2>2, <2>3 DEF Versioned
<1>8. \A e \in EventIds : e.src = s /\ e \in Recorded
         => /\ Committed(e)' /\ e \in Recorded' /\ VersionOf(e)' = VersionOf(e)
            /\ Predecessor(e)' = Predecessor(e)
  <2> SUFFICES ASSUME NEW e \in EventIds, e.src = s, e \in Recorded
               PROVE  /\ Committed(e)' /\ e \in Recorded' /\ VersionOf(e)' = VersionOf(e)
                      /\ Predecessor(e)' = Predecessor(e)
    OBVIOUS
  <2>1. /\ e.commit \in Nat /\ e.commit >= 1 /\ e.commit <= n + 1
        /\ Committed(e) => e.commit \in 1..n
        /\ ~Committed(e) => e.commit = n + 1 /\ e \in InHand(s)
    BY <1>2, RecordedIs DEF n
  <2>2. Committed(e)' /\ VersionOf(e)' = VersionOf(e)
    <3>1. CASE Committed(e)
      <4>1. e.commit \in 1..n /\ log'[s][e.commit] = log[s][e.commit] /\ e.commit <= n + 1
        BY <1>2, <2>1, <3>1
      <4>2. Committed(e)'
        BY <1>2, <3>1, <4>1 DEF Committed
      <4> QED BY <3>1, <4>1, <4>2 DEF VersionOf
    <3>2. CASE ~Committed(e)
      <4>1. e.commit = n + 1 /\ e.seq < agg[s].size
        BY <1>2, <2>1, <3>2, InHandEvents DEF Safe
      <4>2. Committed(e)'
        BY <1>2, <1>3, <4>1 DEF Committed
      <4> QED BY <1>4, <3>2, <4>1, <4>2 DEF VersionOf, v
    <3> QED BY <3>1, <3>2
  <2>3. Predecessor(e)' = Predecessor(e)
    <3>1. e.commit # 1 => e.commit - 1 \in 1..n
      BY <1>2, <2>1
    <3> QED BY <1>2, <3>1 DEF Predecessor
  <2> QED BY <2>2, <2>3 DEF Recorded
<1>9. \A e \in EventIds : e.src = s => (e \in Recorded' <=> e \in Recorded)
  <2> SUFFICES ASSUME NEW e \in EventIds, e.src = s, e \in Recorded' PROVE e \in Recorded
    BY <1>8
  <2>1. Committed(e)'
    BY <1>2 DEF Recorded
  <2>2. e.commit \in Nat /\ e.commit >= 1 /\ e.commit <= n + 1
        /\ e.seq < log'[s][e.commit].size
    BY <1>2, <2>1, Options DEF Committed, EventIds
  <2>3. CASE e.commit = n + 1
    <3>1. e.seq < agg[s].size
      BY <1>2, <2>2, <2>3
    <3>2. e \in InHand(s)
      BY <1>3, <2>3, <3>1, InHandIs DEF n
    <3> QED BY <1>2, <3>2 DEF Recorded
  <2>4. CASE e.commit # n + 1
    <3>1. e.commit \in 1..n
      BY <1>2, <2>2, <2>4
    <3>2. Committed(e)
      BY <1>2, <2>2, <3>1 DEF Committed, n
    <3> QED BY <3>2 DEF Recorded
  <2> QED BY <2>3, <2>4
<1>10. MovedWhole(s)'
  BY <1>1, <1>9, MovedStays DEF Chained
<1>11. Stored' = Stored /\ HandedOut' = HandedOut /\ Entries(receipts') = Entries(receipts)
  BY <1>1 DEF Stored, Pending, Dead, HandedOut
<1>12. \A r \in HandedOut' : r.id.src = s => Exactly(r)' /\ r.version <= cursors'[s].version
  <2> SUFFICES ASSUME NEW r \in HandedOut, r.id.src = s
               PROVE  Exactly(r)' /\ r.version <= cursors'[s].version
    BY <1>11
  <2>1. r.id \in Recorded /\ r.id \in EventIds /\ Exactly(r) /\ r.version <= cursors[s].version
    BY HandedOutRecorded DEF Chained, Linked, Recorded
  <2>2. VersionOf(r.id)' = VersionOf(r.id) /\ Predecessor(r.id)' = Predecessor(r.id)
    <3>1. \A e \in EventIds : e = r.id =>
             VersionOf(e)' = VersionOf(e) /\ Predecessor(e)' = Predecessor(e)
      BY <1>8, <2>1
    <3>2. r' = r
      OBVIOUS
    <3> QED BY <2>1, <3>1, <3>2
  <2> QED BY <1>1, <2>1, <2>2 DEF Exactly
<1>13. \A e \in Stored' : e.src = s => Positioned(e)'
  <2> SUFFICES ASSUME NEW e \in Stored, e.src = s PROVE Positioned(e)'
    BY <1>11
  <2>1. e \in Recorded /\ e \in EventIds /\ Positioned(e)
    BY DEF Chained, Linked, Safe, Genuine, Stored
  <2>2. Committed(e)' /\ VersionOf(e)' = VersionOf(e) /\ Predecessor(e)' = Predecessor(e)
    BY <1>8, <2>1
  <2>3. rec[e].version = VersionOf(e)
    <3>1. CASE Committed(e)
      BY <2>1, <3>1 DEF Positioned
    <3>2. CASE ~Committed(e)
      <4>1. e \in InHand(s)
        BY <2>1, <3>2, RecordedIs
      <4> QED BY <1>2, <3>2, <4>1 DEF Chained, Linked, Refreshed, VersionOf
    <3> QED BY <3>1, <3>2
  <2> QED BY <1>1, <2>1, <2>2, <2>3 DEF Positioned
<1>14. AtLastCommit(s)'
  <2>1. PICK f \in EventIds : f = First(s) /\ f.src = s /\ f \in Recorded /\ ~Committed(f)
    BY <1>2, FirstIs
  <2>2. LastFirst(s)' = f
    BY <1>2, <2>1 DEF LastFirst, First, n
  <2>3. Predecessor(f)' = LastVersion(s)
    BY <1>8, <2>1, VersionPlaces DEF Chained
  <2>4. AtAttempt(s)
    BY <1>6, HeadBetween
  <2>5. cursors[s].previous = LastVersion(s) \/ f \in moved
    BY <2>1, <2>4 DEF AtAttempt
  <2>6. Predecessor(LastFirst(s))' = LastVersion(s)
    BY <2>2, <2>3 DEF Predecessor
  <2> QED BY <1>1, <1>5, <1>6, <2>2, <2>5, <2>6 DEF AtLastCommit
<1>15. \A r \in Entries(receipts') :
          r.id.src = s => r.version <= cursors'[s].version /\ r.id \notin Stored'
  BY <1>1, <1>11 DEF Chained, Linked
<1>16. Linked(s)'
  BY <1>2, <1>12, <1>13, <1>14, <1>15 DEF Linked
<1> QED BY <1>7, <1>10, <1>16 DEF Chained

\* A transaction commits.
LEMMA ChainsCommit ==
  ASSUME Safe, Chains, NEW g \in open, CommitTx(g)
  PROVE  Chains'
<1>1. /\ rec' = rec /\ cursors' = cursors /\ receipts' = receipts /\ adding' = adding
      /\ seen' = seen /\ batch' = batch /\ moved' = moved /\ client' = {} /\ Quiet
  BY Settles DEF CommitTx
<1>2. \A s \in Sources \ g : log'[s] = log[s] /\ agg'[s] = agg[s]
  BY CommitLogs
<1>3. ASSUME NEW s \in Sources PROVE Chained(s)'
  <2>1. CASE s \in g
    BY <2>1, ChainedCommits DEF Chains
  <2>2. CASE s \notin g
    BY <1>1, <1>2, <2>2, ChainedSame DEF Chains
  <2> QED BY <2>1, <2>2
<1> QED BY <1>1, <1>3, Rests DEF Chains

-----------------------------------------------------------------------------
(* Chains: add() *)

\* add() begins with candidates that agree with their source, and has checked
\* them against its dead and its dispatched records.
LEMMA ChainsBegins ==
  ASSUME Safe, Chains, NEW b \in Seq(Candidate), BeginAdd(b),
         UNCHANGED <<agg, log, seen, batch, moved>>,
         \A i \in DOMAIN b : /\ b[i].version = VersionOf(b[i].id)
                             /\ (b[i].id.src \in client') <=> ~Committed(b[i].id),
         \A i \in DOMAIN b : \A j \in 1..(i - 1) :
            /\ b[j].id # b[i].id
            /\ b[j].id.src = b[i].id.src /\ b[i].id.src \in client'
                  => b[j].id.seq < b[i].id.seq,
         \A s \in client' : s \in Sources /\ \A e \in InHand(s) \cup {First(s)} :
                               \E i \in DOMAIN b : b[i].id = e
  PROVE  Chains'
<1>1. /\ \/ addResult' = "running" /\ adding' = b
         \/ addResult' = "rejected" /\ adding' = <<>>
      /\ rec' = rec /\ cursors' = cursors /\ receipts' = receipts
  BY Begins
<1>2. \A s \in Sources : Chained(s)'
  BY <1>1, ChainedSame DEF Chains
<1>3. CASE adding' = <<>> /\ addResult' = "rejected"
  <2>1. DOMAIN adding' = {}
    BY <1>3
  <2> QED BY <1>2, <1>3, <2>1 DEF Chains, Refreshing
<1>4. CASE addResult' = "running" /\ adding' = b
  <2>1. ReceiptIntegrity(b)
    BY <1>4 DEF BeginAdd
  <2>2. /\ \A e : Committed(e)' <=> Committed(e)
        /\ \A e : VersionOf(e)' = VersionOf(e)
        /\ \A e : Dead(e)' <=> Dead(e)
        /\ \A e : Receipt(e)' = Receipt(e) /\ (Dispatched(e)' <=> Dispatched(e))
    BY <1>1 DEF Committed, VersionOf, Dead, Receipt, Dispatched
  <2>3. ASSUME NEW i \in DOMAIN b, NEW c, c = b[i] PROVE Exacting(c)'
    <3>1. /\ c.version = VersionOf(c.id) /\ ((c.id.src \in client') <=> ~Committed(c.id))
      BY <2>3
    <3>2. /\ \A r \in Receipt(c.id) : c.version = r.version
          /\ Dead(c.id) /\ ~Dispatched(c.id) => c.version = rec[c.id].version
      BY <2>1, <2>3 DEF ReceiptIntegrity, SameReceipt
    <3> QED BY <1>1, <2>2, <3>1, <3>2 DEF Exacting
  <2>4. \A i \in DOMAIN adding' : Exacting(adding[i])'
    <3>1. \A i \in DOMAIN adding' : \A c : c = adding'[i] => Exacting(c)'
      BY <1>4, <2>3
    <3> QED BY <3>1
  <2>5. ASSUME NEW s \in client'
        PROVE  First(s)' \in Adding' /\ InHand(s)' \subseteq Adding'
    <3>1. First(s)' = First(s) /\ InHand(s)' = InHand(s)
      BY DEF First, InHand
    <3> QED BY ZenonT(60), <1>4, <2>5, <3>1 DEF Adding
  <2>6. Refreshing'
    BY <1>4, <2>4, <2>5 DEF Refreshing
  <2> QED BY <1>2, <2>6 DEF Chains
<1> QED BY <1>1, <1>3, <1>4

\* withCommit harvests the commits in hand of one or two sources.
LEMMA ChainsHarvest ==
  ASSUME Safe, Chains, NEW s \in Sources, NEW t \in Sources, Harvest(s, t)
  PROVE  Chains'
<1> DEFINE x == Candidates(s)
           y == IF s = t THEN <<>> ELSE Candidates(t)
           b == x \o y
           m == agg[s].size
           n == Len(y)
<1>1. /\ agg[s].phase = "dirty" /\ agg[t].phase = "dirty" /\ BeginAdd(b)
      /\ client' = {s, t}
      /\ agg' = agg /\ log' = log /\ batch' = batch /\ seen' = seen /\ moved' = moved
  BY DEF Harvest, dispatchVars, historyVars
<1>2. ASSUME NEW u \in {s, t}
      PROVE  /\ Candidates(u) \in Seq(Candidate)
             /\ Len(Candidates(u)) = agg[u].size /\ agg[u].size \in Nat \ {0}
             /\ \A i \in 1..agg[u].size :
                   /\ Candidates(u)[i].id = Id(u, Len(log[u]) + 1, i - 1)
                   /\ Candidates(u)[i].id.src = u /\ Candidates(u)[i].id.seq = i - 1
                   /\ ~Committed(Candidates(u)[i].id)
                   /\ Candidates(u)[i].version = VersionOf(Candidates(u)[i].id)
             /\ \A e \in InHand(u) \cup {First(u)} :
                   \E i \in 1..agg[u].size : Candidates(u)[i].id = e
  <2>1. u \in Sources /\ agg[u].phase # "clean"
    BY <1>1
  <2>2. /\ Candidates(u) \in Seq(Candidate) /\ Len(Candidates(u)) = agg[u].size
        /\ \A i \in 1..agg[u].size :
               Candidates(u)[i] = [id |-> Id(u, Len(log[u]) + 1, i - 1),
                                   version |-> agg[u].version, size |-> agg[u].size]
    BY <2>1, CandidatesAre DEF Safe
  <2>3. agg[u].size \in Nat \ {0}
    <3>1. agg[u].size \in 1..MaxSize
      BY <2>1 DEF Safe, Shapes
    <3> QED BY <3>1, Options
  <2>4. ASSUME NEW i \in 1..agg[u].size
        PROVE  /\ Candidates(u)[i].id = Id(u, Len(log[u]) + 1, i - 1)
               /\ Candidates(u)[i].id.src = u /\ Candidates(u)[i].id.seq = i - 1
               /\ ~Committed(Candidates(u)[i].id)
               /\ Candidates(u)[i].version = VersionOf(Candidates(u)[i].id)
    <3>1. /\ Candidates(u)[i].id = Id(u, Len(log[u]) + 1, i - 1)
          /\ Candidates(u)[i].version = agg[u].version
      <4>1. Candidates(u)[i] = [id |-> Id(u, Len(log[u]) + 1, i - 1),
                                version |-> agg[u].version, size |-> agg[u].size]
        BY <2>2
      <4> QED BY <4>1
    <3>2. i - 1 \in 0..(agg[u].size - 1)
      BY <2>3
    <3>3. Candidates(u)[i].id \in InHand(u)
      BY <3>1, <3>2 DEF InHand
    <3>4. ~Committed(Candidates(u)[i].id) /\ Candidates(u)[i].id.src = u
      BY <2>1, <3>3, InHandEvents DEF Safe
    <3>5. Candidates(u)[i].id.seq = i - 1
      BY <3>1 DEF Id
    <3> QED BY <3>1, <3>4, <3>5 DEF VersionOf
  <2>5. ASSUME NEW e \in InHand(u) \cup {First(u)}
        PROVE  \E i \in 1..agg[u].size : Candidates(u)[i].id = e
    <3>1. PICK k \in 0..(agg[u].size - 1) : e = Id(u, Len(log[u]) + 1, k)
      BY <2>1, FirstIs DEF InHand
    <3>2. k + 1 \in 1..agg[u].size /\ (k + 1) - 1 = k
      BY <2>3
    <3> QED BY <2>4, <3>1, <3>2
  <2> QED BY <2>2, <2>3, <2>4, <2>5
<1>3. /\ x \in Seq(Candidate) /\ Len(x) = m /\ m \in Nat
      /\ y \in Seq(Candidate) /\ n \in Nat
      /\ s = t => n = 0
      /\ s # t => y = Candidates(t) /\ n = agg[t].size
  <2>1. CASE s = t
    BY <1>2, <2>1, EmptySeq
  <2>2. CASE s # t
    BY <1>2, <2>2
  <2> QED BY <2>1, <2>2
<1>4. \A i \in 1..m : /\ x[i].id.src = s /\ x[i].id.seq = i - 1
                      /\ ~Committed(x[i].id) /\ x[i].version = VersionOf(x[i].id)
  BY <1>2
<1>5. \A i \in 1..n : /\ s # t
                      /\ y[i].id.src = t /\ y[i].id.seq = i - 1
                      /\ ~Committed(y[i].id) /\ y[i].version = VersionOf(y[i].id)
  <2>1. CASE s = t
    BY <1>3, <2>1
  <2>2. CASE s # t
    BY <1>2, <1>3, <2>2
  <2> QED BY <2>1, <2>2
<1>6. /\ \A e \in InHand(s) \cup {First(s)} : \E i \in 1..m : x[i].id = e
      /\ s # t => \A e \in InHand(t) \cup {First(t)} : \E i \in 1..n : y[i].id = e
  BY <1>2, <1>3
<1> HIDE DEF x, y, m, n
<1>7. /\ b \in Seq(Candidate) /\ DOMAIN b = 1..(m + n)
      /\ \A i \in 1..m : b[i] = x[i]
      /\ \A i \in 1..n : b[m + i] = y[i]
  <2>1. Len(y) = n
    BY DEF n
  <2>2. b \in Seq(Candidate) /\ Len(b) = m + n
    BY <1>3, <2>1, EntriesConcat
  <2>3. /\ \A i \in 1..m : b[i] = x[i]
        /\ \A i \in 1..n : b[m + i] = y[i]
    BY <1>3, <2>1, ConcatProperties
  <2> QED BY <2>2, <2>3, LenProperties
<1>8. BeginAdd(b)
  BY <1>1 DEF x, y
<1> HIDE DEF b
<1>9. ASSUME NEW p \in DOMAIN b
      PROVE  \/ p \in 1..m /\ b[p] = x[p]
             \/ p - m \in 1..n /\ b[p] = y[p - m] /\ p \notin 1..m
  <2>1. CASE p \in 1..m
    BY <1>7, <2>1
  <2>2. CASE p \notin 1..m
    <3>1. p - m \in 1..n /\ p = m + (p - m)
      BY <1>3, <1>7, <2>2
    <3> QED BY <1>7, <2>2, <3>1
  <2> QED BY <2>1, <2>2
<1>10. \A p \in DOMAIN b : /\ b[p].version = VersionOf(b[p].id)
                           /\ (b[p].id.src \in client') <=> ~Committed(b[p].id)
  BY <1>1, <1>4, <1>5, <1>9
<1>11. ASSUME NEW p \in DOMAIN b, NEW q \in 1..(p - 1)
       PROVE  /\ b[q].id # b[p].id
              /\ b[q].id.src = b[p].id.src => b[q].id.seq < b[p].id.seq
  <2>1. q \in DOMAIN b /\ q < p /\ p \in Nat /\ q \in Nat
    BY <1>3, <1>7
  <2>2. CASE p \in 1..m /\ b[p] = x[p]
    <3>1. q \in 1..m /\ b[q] = x[q]
      BY <1>3, <1>7, <2>1, <2>2
    <3>2. x[q].id.seq = q - 1 /\ x[p].id.seq = p - 1
      BY <1>4, <2>2, <3>1
    <3>3. x[q].id.seq < x[p].id.seq /\ x[q].id.seq # x[p].id.seq
      BY <2>1, <3>2
    <3> QED BY <2>2, <3>1, <3>3
  <2>3. CASE p - m \in 1..n /\ b[p] = y[p - m] /\ p \notin 1..m
    <3>1. s # t /\ b[p].id.src = t /\ b[p].id.seq = p - m - 1
      BY <1>5, <2>3
    <3>2. CASE q \in 1..m /\ b[q] = x[q]
      BY <1>4, <3>1, <3>2
    <3>3. CASE q - m \in 1..n /\ b[q] = y[q - m]
      <4>1. b[q].id.seq = q - m - 1
        BY <1>5, <3>3
      <4>2. b[q].id.seq < b[p].id.seq /\ b[q].id.seq # b[p].id.seq
        BY <1>3, <2>1, <3>1, <4>1
      <4> QED BY <4>2
    <3> QED BY <1>9, <2>1, <3>2, <3>3
  <2> QED BY <1>9, <2>2, <2>3
<1>12. \A u \in client' : u \in Sources /\ \A e \in InHand(u) \cup {First(u)} :
                                              \E i \in DOMAIN b : b[i].id = e
  <2>1. \A i \in 1..m : i \in DOMAIN b /\ b[i] = x[i]
    BY <1>3, <1>7
  <2>2. \A i \in 1..n : m + i \in DOMAIN b /\ b[m + i] = y[i]
    BY <1>3, <1>7
  <2>3. ASSUME NEW u \in client', NEW e \in InHand(u) \cup {First(u)}
        PROVE  \E i \in DOMAIN b : b[i].id = e
    <3>1. CASE u = s
      <4>1. PICK i \in 1..m : x[i].id = e
        BY <1>6, <3>1
      <4> QED BY <2>1, <4>1
    <3>2. CASE u = t /\ s # t
      <4>1. PICK i \in 1..n : y[i].id = e
        BY <1>6, <3>2
      <4> QED BY <2>2, <4>1
    <3> QED BY <1>1, <3>1, <3>2
  <2> QED BY <1>1, <2>3
<1> QED BY <1>1, <1>7, <1>8, <1>10, <1>11, <1>12, ChainsBegins

\* The operator adds committed events again as they were.
LEMMA ChainsReadd ==
  ASSUME Safe, Chains, NEW d \in EventIds, NEW e \in EventIds, Readd(d, e)
  PROVE  Chains'
<1> DEFINE x == Exact(d)
           y == Exact(e)
           b == <<x>> \o (IF d = e THEN <<>> ELSE <<y>>)
<1>1. /\ Committed(d) /\ Committed(e) /\ BeginAdd(b) /\ client = {} /\ client' = client
      /\ agg' = agg /\ log' = log /\ batch' = batch /\ seen' = seen /\ moved' = moved
  BY DEF Readd, writeVars, dispatchVars, historyVars
<1>2. b \in Seq(Candidate)
  BY <1>1, ExactTypes DEF Safe
<1>3. /\ x.id = d /\ y.id = e
      /\ x.version = VersionOf(d) /\ y.version = VersionOf(e)
  BY <1>1 DEF Exact, VersionOf
<1> HIDE DEF x, y
<1>4. x \in Candidate /\ y \in Candidate
  BY <1>1, ExactTypes DEF x, y, Safe
<1>5. \A i \in DOMAIN b : /\ i \in 1..2
                          /\ i = 1 => b[i] = x
                          /\ i = 2 => b[i] = y /\ d # e
  <2> DEFINE u == <<x>>
             w == IF d = e THEN <<>> ELSE <<y>>
  <2>1. u \in Seq(Candidate) /\ Len(u) = 1 /\ u[1] = x
    BY <1>4
  <2>2. w \in Seq(Candidate) /\ Len(w) = (IF d = e THEN 0 ELSE 1) /\ (d # e => w[1] = y)
    BY <1>4
  <2>3. b = u \o w
    OBVIOUS
  <2> HIDE DEF u, w, b
  <2>4. Len(b) = 1 + Len(w) /\ b[1] = u[1] /\ (d # e => b[1 + 1] = w[1])
    BY SMTT(40), <2>1, <2>2, <2>3, ConcatProperties
  <2>5. DOMAIN b = 1..Len(b)
    BY <1>2, LenProperties
  <2> QED BY <2>1, <2>2, <2>4, <2>5
<1>6. BeginAdd(b)
  BY <1>1 DEF x, y
<1> HIDE DEF b
<1>7. \A i \in DOMAIN b : /\ b[i].version = VersionOf(b[i].id)
                          /\ (b[i].id.src \in client') <=> ~Committed(b[i].id)
  <2> SUFFICES ASSUME NEW i \in DOMAIN b PROVE b[i] = x \/ b[i] = y
    BY <1>1, <1>3
  <2> QED BY <1>5
<1>8. \A i \in DOMAIN b : \A j \in 1..(i - 1) : b[j].id # b[i].id
  <2> SUFFICES ASSUME NEW i \in DOMAIN b, NEW j \in 1..(i - 1) PROVE b[j].id # b[i].id
    OBVIOUS
  <2>1. i = 2 /\ j = 1
    BY <1>5
  <2>2. 1 \in DOMAIN b
    BY <1>2, <2>1, LenProperties
  <2> QED BY <1>3, <1>5, <2>1, <2>2
<1> QED BY <1>1, <1>2, <1>6, <1>7, <1>8, ChainsBegins

\* The candidate that add() takes next agrees with its source.
LEMMA NextIs ==
  ASSUME Safe, Chains, adding # <<>>, NEW c, c = Head(adding)
  PROVE  /\ c \in Candidate /\ c.id \in EventIds /\ c.id.src \in Sources
         /\ c.id \in Adding /\ c.id \in Recorded /\ Exacting(c)
         /\ c.version \in Nat /\ c.version = VersionOf(c.id)
         /\ (c.id.src \in client) <=> ~Committed(c.id)
         /\ c.id.src \in client => /\ agg[c.id.src].phase = "dirty"
                                   /\ c.id = First(c.id.src) \/ First(c.id.src) \notin Adding
         /\ adding' = Tail(adding) => Adding = {c.id} \cup Adding' /\ c.id \notin Adding'
<1>1. /\ c \in Candidate /\ c = adding[1] /\ 1 \in DOMAIN adding
      /\ Len(adding) \in Nat \ {0} /\ DOMAIN adding = 1..Len(adding)
      /\ Tail(adding) \in Seq(Candidate) /\ Len(Tail(adding)) = Len(adding) - 1
      /\ \A i \in 1..(Len(adding) - 1) : Tail(adding)[i] = adding[i + 1]
      /\ adding' = Tail(adding) => Adding = {c.id} \cup Adding'
  BY TakesOne DEF Safe, Shapes
<1>2. c.id \in EventIds /\ c.id.src \in Sources /\ c.id.seq \in Nat
  <2>1. c.id \in EventIds
    BY <1>1, AddingEvents DEF Safe
  <2> QED BY <2>1, Options DEF EventIds
<1>3. c.id \in Adding /\ c.id \in Recorded
  BY <1>1 DEF Adding, Safe, Genuine
<1>4. Exacting(c)
  BY <1>1 DEF Chains, Refreshing
<1>5. c.version \in Nat
  BY <1>1, Options DEF Candidate
<1>6. ASSUME c.id.src \in client, First(c.id.src) \in Adding PROVE c.id = First(c.id.src)
  <2>1. PICK i \in DOMAIN adding : adding[i].id = First(c.id.src)
    BY <1>6 DEF Adding
  <2>2. CASE i = 1
    BY <1>1, <2>1, <2>2
  <2>3. CASE i # 1
    <3>1. 1 \in 1..(i - 1)
      BY <1>1, <2>3
    <3>2. adding[i].id.src = c.id.src /\ adding[i].id.seq = 0
      BY <2>1 DEF First, Id
    <3>3. adding[1].id.seq < 0
      BY <1>1, <1>6, <3>1, <3>2 DEF Chains, Refreshing
    <3> QED BY <1>1, <1>2, <3>3
  <2> QED BY <2>2, <2>3
<1>7. ASSUME adding' = Tail(adding) PROVE c.id \notin Adding'
  <2> SUFFICES ASSUME NEW i \in DOMAIN adding', adding'[i].id = c.id PROVE FALSE
    BY DEF Adding
  <2>1. i \in 1..(Len(adding) - 1) /\ i + 1 \in DOMAIN adding /\ 1 \in 1..((i + 1) - 1)
    <3>1. DOMAIN adding' = 1..(Len(adding) - 1)
      BY <1>1, <1>7, LenProperties
    <3> QED BY <1>1, <3>1
  <2>2. adding[1].id # adding[i + 1].id
    BY <2>1 DEF Chains, Refreshing
  <2> QED BY <1>1, <1>7, <2>1, <2>2
<1>8. c.id.src \in client => agg[c.id.src].phase = "dirty"
  BY DEF Safe, Transactions
<1> QED BY <1>1, <1>2, <1>3, <1>4, <1>5, <1>6, <1>7, <1>8 DEF Exacting

\* The heads of all sources, in a form that holds of the next state too.
LEMMA HeadsBetween ==
  Safe /\ (\A s \in Sources : Chained(s))
     => \A s \in Sources : cursors[s].version <= agg[s].version
BY HeadBetween

\* A candidate has been dealt with: its record and its source head have the
\* version that it brought.
LEMMA RefreshingTakes ==
  ASSUME Safe, Safe', Chains, adding # <<>>, NEW c, c = Head(adding),
         adding' = Tail(adding), addResult = "running", addResult' = addResult,
         UNCHANGED <<agg, log, client>>,
         \A s \in Sources : Chained(s)',
         \A e \in EventIds : e # c.id => /\ Dead(e)' => Dead(e)
                                         /\ rec'[e].version = rec[e].version
                                         /\ e \in Stored' => e \in Stored
                                         /\ Receipt(e)' = Receipt(e),
         \A s \in Sources : cursors[s].version <= cursors'[s].version,
         c.id.src \in client => /\ c.version <= cursors'[c.id.src].version
                                /\ c.id \in Stored' => rec'[c.id].version = c.version
  PROVE  Refreshing'
<1>1. /\ c.id \in EventIds /\ c.version = VersionOf(c.id) /\ c.id.src \in Sources
      /\ (c.id.src \in client) <=> ~Committed(c.id)
      /\ Adding = {c.id} \cup Adding' /\ c.id \notin Adding' /\ c.version \in Nat
  BY NextIs
<1>2. /\ Len(adding) \in Nat \ {0} /\ DOMAIN adding = 1..Len(adding)
      /\ DOMAIN adding' = 1..(Len(adding) - 1)
      /\ \A i \in 1..(Len(adding) - 1) : adding'[i] = adding[i + 1]
  <2>1. /\ Tail(adding) \in Seq(Candidate) /\ Len(Tail(adding)) = Len(adding) - 1
        /\ Len(adding) \in Nat \ {0} /\ DOMAIN adding = 1..Len(adding)
        /\ \A i \in 1..(Len(adding) - 1) : Tail(adding)[i] = adding[i + 1]
    BY TakesOne DEF Safe, Shapes
  <2> QED BY <2>1, LenProperties
<1>3. \A s \in Sources : cursors'[s].version <= agg[s].version
  <2>1. (Safe /\ (\A s \in Sources : Chained(s))
         => \A s \in Sources : cursors[s].version <= agg[s].version)'
    BY HeadsBetween, PTL
  <2> QED BY <2>1
<1>4. ASSUME NEW i \in DOMAIN adding', NEW d, d = adding'[i] PROVE Exacting(d)'
  <2>1. i + 1 \in DOMAIN adding /\ d = adding[i + 1]
    BY <1>2, <1>4
  <2>2. Exacting(d) /\ d.id # c.id /\ d.id \in EventIds
    <3>1. d.id \in Adding'
      BY <1>4 DEF Adding
    <3> QED BY <1>1, <2>1, <3>1, AddingEvents DEF Chains, Refreshing, Safe
  <2>3. /\ Dead(d.id)' => Dead(d.id)
        /\ rec'[d.id].version = rec[d.id].version
        /\ Receipt(d.id)' = Receipt(d.id)
        /\ Dispatched(d.id)' <=> Dispatched(d.id)
        /\ VersionOf(d.id)' = VersionOf(d.id) /\ (Committed(d.id)' <=> Committed(d.id))
    <3>1. \A e \in EventIds : e # c.id =>
             /\ Dead(e)' => Dead(e)
             /\ rec'[e].version = rec[e].version
             /\ Receipt(e)' = Receipt(e)
             /\ Dispatched(e)' <=> Dispatched(e)
             /\ VersionOf(e)' = VersionOf(e) /\ (Committed(e)' <=> Committed(e))
      BY DEF Dispatched, VersionOf, Committed
    <3>2. d' = d
      OBVIOUS
    <3> QED BY <2>2, <3>1, <3>2
  <2> QED BY <2>2, <2>3 DEF Exacting
<1>5. \A i \in DOMAIN adding' : Exacting(adding[i])'
  <2>1. \A i \in DOMAIN adding' : \A d : d = adding'[i] => Exacting(d)'
    BY <1>4
  <2> QED BY <2>1
<1>6. \A i \in DOMAIN adding' : \A j \in 1..(i - 1) :
         /\ adding'[j].id # adding'[i].id
         /\ adding'[j].id.src = adding'[i].id.src /\ adding'[i].id.src \in client'
               => adding'[j].id.seq < adding'[i].id.seq
  <2> SUFFICES ASSUME NEW i \in DOMAIN adding', NEW j \in 1..(i - 1)
               PROVE  /\ adding[j + 1].id # adding[i + 1].id
                      /\ adding[j + 1].id.src = adding[i + 1].id.src
                         /\ adding[i + 1].id.src \in client
                            => adding[j + 1].id.seq < adding[i + 1].id.seq
    BY <1>2
  <2>1. i + 1 \in DOMAIN adding /\ j + 1 \in 1..((i + 1) - 1)
    BY <1>2
  <2> QED BY <2>1 DEF Chains, Refreshing
<1>7. ASSUME NEW s \in client', addResult' = "running"
      PROVE  /\ First(s)' \notin Adding' => cursors'[s].version = agg'[s].version
             /\ \A e \in (Stored' \cap InHand(s)') \ Adding' : rec'[e].version = agg'[s].version
  <2>1. /\ s \in client /\ s \in Sources /\ First(s)' = First(s) /\ InHand(s)' = InHand(s)
        /\ agg[s].phase = "dirty"
    BY <1>7 DEF Safe, TypeOK, First, InHand, Transactions
  <2>2. /\ First(s) \notin Adding => cursors[s].version = agg[s].version
        /\ \A e \in (Stored \cap InHand(s)) \ Adding : rec[e].version = agg[s].version
    BY <2>1 DEF Chains, Refreshing
  <2>3. ASSUME First(s) \notin Adding' PROVE cursors'[s].version = agg[s].version
    <3>0. /\ cursors[s].version \in Nat /\ agg[s].version \in Nat /\ cursors'[s].version \in Nat
          /\ cursors[s].version <= cursors'[s].version /\ cursors'[s].version <= agg[s].version
      BY <1>3, <2>1, Numbers, Options DEF Safe, TypeOK
    <3>1. CASE First(s) \notin Adding
      BY <2>2, <3>0, <3>1
    <3>2. CASE First(s) = c.id
      <4>1. c.id.src = s
        BY <3>2 DEF First, Id
      <4>2. c.version = agg[s].version
        BY <1>1, <2>1, <4>1 DEF VersionOf
      <4> QED BY <2>1, <3>0, <4>1, <4>2
    <3> QED BY <1>1, <2>3, <3>1, <3>2
  <2>4. ASSUME NEW e \in Stored', e \in InHand(s), e \notin Adding'
        PROVE  rec'[e].version = agg[s].version
    <3>0. e \in EventIds /\ e.src = s /\ ~Committed(e)
      BY <2>1, <2>4, InHandEvents DEF Safe
    <3>1. CASE e = c.id
      BY <1>1, <2>1, <2>4, <3>0, <3>1 DEF VersionOf
    <3>2. CASE e # c.id
      BY <1>1, <2>2, <2>4, <3>0, <3>2
    <3> QED BY <3>1, <3>2
  <2> QED BY <2>1, <2>3, <2>4
<1> QED BY <1>5, <1>6, <1>7 DEF Refreshing

\* What recording a candidate does to its source head: nothing, or the head
\* moves to the first record of the commit in hand, linked to the last commit.
\* The record itself is linked to the commit before its own.
LEMMA HeadMoves ==
  ASSUME Safe, Chains, adding # <<>>, NEW c, c = Head(adding), NEW s, s = c.id.src,
         ~Dispatched(c.id), ~Dead(c.id), ~Stale(c),
         NEW k, k = CursorAfter(c), NEW l, l = PreviousOf(c)
  PROVE  /\ cursors[s].version <= k.version /\ k.version <= agg[s].version
         /\ c.version <= k.version
         /\ c.id \in moved \/ l = Predecessor(c.id)
         /\ \/ /\ k.version = cursors[s].version /\ k.previous = cursors[s].previous
               /\ c.id = First(s) /\ agg[s].phase # "clean" /\ AtAttempt(s)
                     => c.version = k.version
            \/ /\ c.id = First(s) /\ agg[s].phase # "clean" /\ k.version = c.version
               /\ LastVersion(s) < k.version
               /\ k.previous = LastVersion(s) \/ First(s) \in moved
<1> DEFINE h == cursors[s]
           a == agg[s]
           p == rec[c.id]
<1>1. /\ c.id \in EventIds /\ s \in Sources /\ c.id \in Recorded
      /\ c.version \in Nat /\ c.version = VersionOf(c.id)
      /\ (s \in client) <=> ~Committed(c.id)
      /\ s \in client => a.phase = "dirty" /\ (c.id = First(s) \/ First(s) \notin Adding)
  BY NextIs
<1>2. Chained(s)
  BY <1>1 DEF Chains
<1>3. /\ h.version \in Nat /\ a.version \in Nat /\ LastVersion(s) \in Nat
      /\ LastVersion(s) <= h.version /\ h.version <= a.version
      /\ LastVersion(s) < h.version => AtAttempt(s)
      /\ p.version \in Nat
  <2>1. h.version \in Nat /\ a.version \in Nat /\ LastVersion(s) \in Nat
    BY <1>1, Numbers
  <2>2. /\ LastVersion(s) <= h.version /\ h.version <= a.version
        /\ LastVersion(s) < h.version => AtAttempt(s)
    BY <1>1, <1>2, HeadBetween
  <2>3. p.version \in Nat
    BY <1>1, Options DEF Safe, TypeOK
  <2> QED BY <2>1, <2>2, <2>3
<1>4. /\ Committed(c.id) => /\ c.version <= LastVersion(s)
                            /\ c.version = LastVersion(s) => c.id.commit = Len(log[s])
      /\ ~Committed(c.id) => /\ c.version = a.version /\ LastVersion(s) < c.version
                             /\ Predecessor(c.id) = LastVersion(s)
  BY <1>1, <1>2, VersionPlaces DEF Chained
<1>5. ASSUME ~Committed(c.id), c.id # First(s) PROVE h.version = a.version
  <2>1. s \in client /\ First(s) \notin Adding /\ Quiet = FALSE
    BY <1>1, <1>5 DEF Safe, Transactions
  <2>2. addResult = "running"
    BY <2>1 DEF Chains, Refreshing
  <2> QED BY <2>1, <2>2 DEF Chains, Refreshing
<1>6. Pending(c.id) => Positioned(c.id)
  BY <1>1, <1>2 DEF Chained, Linked, Stored
<1>7. ~Committed(c.id) => a.phase # "clean"
  BY <1>1
<1>8. CASE Pending(c.id)
  <2>1. /\ c.id \in moved \/ p.previous = Predecessor(c.id)
        /\ p.version <= h.version
        /\ Committed(c.id) => p.version = c.version
        /\ ~Committed(c.id) => LastVersion(s) < p.version /\ p.version <= a.version
    BY <1>1, <1>6, <1>8 DEF Positioned
  <2>2. l = p.previous /\ p.version <= c.version
    <3>1. l = p.previous
      BY <1>8 DEF PreviousOf
    <3>2. ~(c.version < p.version)
      BY <1>8 DEF Stale
    <3> QED BY <1>1, <1>3, <3>1, <3>2
  <2>3. c.id = First(s) /\ AtAttempt(s) => p.version = h.version
    BY <1>1, <1>8 DEF AtAttempt, Stored
  <2>4. CASE p.version = c.version
    <3>1. k = h
      BY <1>8, <2>4 DEF CursorAfter
    <3> HIDE DEF h, a, p
    <3>2. c.version <= k.version /\ h.version <= k.version /\ k.version <= a.version
      BY <1>3, <2>1, <2>4, <3>1
    <3> QED BY <2>1, <2>2, <2>3, <2>4, <3>1, <3>2 DEF h, a
  <2>5. CASE p.version # c.version
    <3>1. ~Committed(c.id) /\ p.version < c.version /\ c.version = a.version
      BY <1>1, <1>3, <1>4, <2>1, <2>2, <2>5
    <3>2. AtAttempt(s)
      BY <1>3, <2>1, <3>1
    <3>3. CASE h.version = c.version
      <4>1. k = [h EXCEPT !.owners = @ \cup {c.id}]
        BY <1>8, <2>5, <3>3 DEF CursorAfter
      <4>2. h \in [version : 0..MaxVersion, previous : 0..MaxVersion,
                   size : 0..MaxSize, owners : SUBSET EventIds]
        BY <1>1 DEF Safe, TypeOK
      <4> HIDE DEF h, a, p
      <4>3. k.version = h.version /\ k.previous = h.previous
        BY <4>1, <4>2
      <4>4. c.version <= k.version /\ h.version <= k.version /\ k.version <= a.version
        BY <1>1, <1>3, <3>3, <4>3
      <4> QED BY <2>1, <2>2, <3>3, <4>3, <4>4 DEF h, a
    <3>4. CASE h.version # c.version
      <4>1. c.id = First(s)
        BY <1>5, <3>1, <3>4
      <4>2. p.version = h.version
        BY <2>3, <3>2, <4>1
      <4>3. k = [version |-> c.version, previous |-> l, size |-> c.size, owners |-> {c.id}]
        BY <1>8, <2>5, <3>4, <4>2 DEF CursorAfter
      <4> HIDE DEF h, a, p
      <4>4. k.version = c.version /\ k.previous = l
        BY <4>3
      <4>5. k.previous = LastVersion(s) \/ First(s) \in moved
        BY <1>4, <2>1, <2>2, <3>1, <4>1, <4>4
      <4>6. c.version <= k.version /\ h.version <= k.version /\ k.version <= a.version
            /\ LastVersion(s) < k.version
        BY <1>1, <1>3, <1>4, <3>1, <4>4
      <4> QED BY <1>7, <2>1, <2>2, <3>1, <4>1, <4>4, <4>5, <4>6 DEF h, a
    <3> QED BY <3>3, <3>4
  <2> QED BY <2>4, <2>5
<1>9. CASE ~Pending(c.id)
  <2>1. c.id \notin Stored /\ h.version <= c.version
    <3>1. ~(c.version < h.version)
      BY <1>9 DEF Stale
    <3> QED BY <1>1, <1>3, <1>9, <3>1 DEF Stored
  <2>2. CASE h.version = c.version
    <3>1. k = [h EXCEPT !.owners = @ \cup {c.id}] /\ l = h.previous
      BY <1>9, <2>2 DEF CursorAfter, PreviousOf
    <3>2. h \in [version : 0..MaxVersion, previous : 0..MaxVersion,
                 size : 0..MaxSize, owners : SUBSET EventIds]
      BY <1>1 DEF Safe, TypeOK
    <3>3. k.version = h.version /\ k.previous = h.previous
      <4> HIDE DEF h
      <4> QED BY <3>1, <3>2
    <3>4. c.version <= k.version /\ h.version <= k.version /\ k.version <= a.version
      <4> HIDE DEF h, a
      <4> QED BY <1>1, <1>3, <2>2, <3>3
    <3>5. c.id \in moved \/ l = Predecessor(c.id)
      <4>1. CASE Committed(c.id)
        <5>1. h.version = LastVersion(s) /\ c.id.commit = Len(log[s])
          BY <1>1, <1>3, <1>4, <2>2, <4>1
        <5>2. AtLastCommit(s)
          BY <1>2, <1>3, <5>1 DEF Chained, Linked, AtAttempt
        <5>3. LastFirst(s).commit = c.id.commit /\ LastFirst(s).src = s
          BY <5>1 DEF LastFirst, Id
        <5>4. Predecessor(LastFirst(s)) = Predecessor(c.id)
          BY <5>3 DEF Predecessor
        <5>5. log[s] # <<>>
          BY <1>1, <4>1, RecordedIs, Numbers
        <5>6. LastFirst(s) \in moved => c.id \in moved
          BY <1>1, <1>2, <5>3 DEF Chained, MovedWhole
        <5> QED BY <3>1, <5>2, <5>4, <5>5, <5>6 DEF AtLastCommit
      <4>2. CASE ~Committed(c.id)
        <5>1. AtAttempt(s)
          BY <1>3, <1>4, <2>2, <4>2
        <5>2. First(s) \in moved => c.id \in moved
          <6>1. First(s).src = s /\ First(s).commit = c.id.commit
            BY <1>1, <1>7, <4>2, RecordedIs, FirstIs
          <6> QED BY <1>1, <1>2, <6>1 DEF Chained, MovedWhole
        <5> QED BY <1>4, <3>1, <4>2, <5>1, <5>2 DEF AtAttempt
      <4> QED BY <4>1, <4>2
    <3> QED BY <2>2, <3>3, <3>4, <3>5
  <2>3. CASE h.version # c.version
    <3>1. h.version < c.version
      BY <1>1, <1>3, <2>1, <2>3
    <3>2. ~Committed(c.id) /\ c.version = a.version /\ LastVersion(s) < c.version
      BY <1>1, <1>3, <1>4, <3>1
    <3>3. c.id = First(s)
      BY <1>5, <2>3, <3>2
    <3>4. l = h.version
          /\ k = [version |-> c.version, previous |-> l, size |-> c.size, owners |-> {c.id}]
      BY <1>9, <2>3 DEF CursorAfter, PreviousOf
    <3>5. k.version = c.version /\ k.previous = l
      BY <3>4
    <3>6. l = LastVersion(s) \/ First(s) \in moved
      <4>1. CASE AtLastCommit(s)
        BY <3>4, <4>1 DEF AtLastCommit
      <4>2. CASE AtAttempt(s)
        <5>1. Kept(First(s)) /\ ~Pending(First(s)) /\ ~Dead(First(s))
          BY <1>9, <3>3, <4>2 DEF AtAttempt
        <5>2. PICK r \in seen : r.id = First(s)
          BY <5>1 DEF Kept, Published
        <5>3. Exactly(r) /\ r.version <= h.version /\ r.version \in Nat
          <6>1. r \in HandedOut /\ r.id.src = s
            BY <5>2 DEF HandedOut, First, Id
          <6> QED BY <1>2, <6>1, HandedOutRecorded DEF Chained, Linked
        <5>4. r.version # VersionOf(First(s))
          BY <1>1, <1>3, <3>1, <3>3, <5>3
        <5> QED BY <5>2, <5>3, <5>4 DEF Exactly
      <4> QED BY <1>2, <4>1, <4>2 DEF Chained, Linked
    <3> HIDE DEF h, a
    <3>7. c.version <= k.version /\ h.version <= k.version /\ k.version <= a.version
          /\ LastVersion(s) < k.version
      BY <1>1, <1>3, <3>1, <3>2, <3>5
    <3>8. c.id \in moved \/ l = Predecessor(c.id)
      BY <1>4, <3>2, <3>3, <3>6
    <3> QED BY <1>7, <3>2, <3>3, <3>5, <3>6, <3>7, <3>8 DEF h, a
  <2> QED BY <2>2, <2>3
<1> QED BY <1>8, <1>9

\* add() records a candidate.
LEMMA ChainsRecords ==
  ASSUME Safe, Safe', Chains, AddStep, adding # <<>>, NEW c, c = Head(adding), AddRecords(c)
  PROVE  Chains'
<1> DEFINE s == c.id.src
<1>1. /\ agg' = agg /\ log' = log /\ client' = client /\ batch' = batch /\ seen' = seen
      /\ moved' = moved /\ addResult = "running"
  BY AddFrame
<1>2. /\ c.id \in EventIds /\ s \in Sources /\ c.id \in Recorded
      /\ c.version \in Nat /\ c.version = VersionOf(c.id)
      /\ (s \in client) <=> ~Committed(c.id)
      /\ s \in client => agg[s].phase = "dirty"
  BY NextIs
<1> DEFINE k == CursorAfter(c)
           l == PreviousOf(c)
           r == [place |-> "pending", version |-> c.version, previous |-> l,
                 size |-> c.size, attempts |-> rec[c.id].attempts]
<1>3. /\ rec' = [rec EXCEPT ![c.id] = r] /\ cursors' = [cursors EXCEPT ![s] = k]
      /\ receipts' = receipts /\ adding' = Tail(adding) /\ addResult' = addResult
      /\ ~Dispatched(c.id) /\ ~Dead(c.id) /\ ~Stale(c)
  BY DEF AddRecords
<1>4. r.place = "pending" /\ r.version = c.version /\ r.previous = l
  OBVIOUS
<1>5. /\ cursors[s].version <= k.version /\ k.version <= agg[s].version
      /\ c.version <= k.version
      /\ c.id \in moved \/ l = Predecessor(c.id)
      /\ \/ /\ k.version = cursors[s].version /\ k.previous = cursors[s].previous
            /\ c.id = First(s) /\ agg[s].phase # "clean" /\ AtAttempt(s)
                  => c.version = k.version
         \/ /\ c.id = First(s) /\ agg[s].phase # "clean" /\ k.version = c.version
            /\ LastVersion(s) < k.version
            /\ k.previous = LastVersion(s) \/ First(s) \in moved
  BY <1>3, HeadMoves
<1> HIDE DEF k, l, r
<1>6. /\ rec'[c.id] = r /\ \A e \in EventIds : e # c.id => rec'[e] = rec[e]
      /\ cursors'[s] = k /\ \A t \in Sources : t # s => cursors'[t] = cursors[t]
  BY SMTT(40), <1>2, <1>3 DEF Safe, TypeOK
<1>7. /\ Stored' = Stored \cup {c.id} /\ Stored' \subseteq EventIds
      /\ HandedOut' = HandedOut /\ Entries(receipts') = Entries(receipts)
      /\ \A e \in EventIds : Kept(e) => Kept(e)'
      /\ \A e \in EventIds : e # c.id => (Dead(e)' <=> Dead(e))
      /\ \A e : Receipt(e)' = Receipt(e)
      /\ Kept(c.id)'
  <2>1. Pending(c.id)'
    BY <1>4, <1>6 DEF Pending
  <2>2. \A e \in EventIds : e # c.id => (Pending(e)' <=> Pending(e)) /\ (Dead(e)' <=> Dead(e))
    BY <1>6 DEF Pending, Dead
  <2>3. Stored' = Stored \cup {c.id}
    BY <1>2, <2>1, <2>2 DEF Stored
  <2>4. HandedOut' = HandedOut /\ Published' = Published /\ Entries(receipts') = Entries(receipts)
        /\ \A e : Receipt(e)' = Receipt(e)
    BY <1>1, <1>3 DEF HandedOut, Published, Receipt
  <2>5. \A e \in EventIds : Kept(e) => Kept(e)'
    BY <2>1, <2>2, <2>4 DEF Kept
  <2> QED BY <1>2, <2>1, <2>2, <2>3, <2>4, <2>5 DEF Kept, Stored
<1>8. Chained(s)
  BY <1>2 DEF Chains
<1>9. /\ cursors[s].version \in Nat /\ agg[s].version \in Nat /\ LastVersion(s) \in Nat
      /\ cursors'[s].version \in Nat
  <2>1. cursors[s].version \in Nat /\ agg[s].version \in Nat /\ LastVersion(s) \in Nat
    BY <1>2, Numbers
  <2>2. cursors'[s].version \in Nat
    BY SMTT(40), <1>2, Options DEF Safe, TypeOK
  <2> QED BY <2>1, <2>2
<1>10. /\ \A e : (Committed(e)' <=> Committed(e)) /\ VersionOf(e)' = VersionOf(e)
                 /\ Predecessor(e)' = Predecessor(e)
       /\ LastVersion(s)' = LastVersion(s) /\ First(s)' = First(s) /\ InHand(s)' = InHand(s)
       /\ LastFirst(s)' = LastFirst(s) /\ Recorded' = Recorded
  BY <1>1 DEF Committed, VersionOf, Predecessor, LastVersion, First, InHand, LastFirst, Recorded
<1>11. Versioned(s)' /\ MovedWhole(s)'
  BY <1>1, <1>8, <1>10 DEF Chained, Versioned, MovedWhole
<1>12. \A x \in HandedOut' : x.id.src = s => Exactly(x)' /\ x.version <= cursors'[s].version
  <2> SUFFICES ASSUME NEW x \in HandedOut, x.id.src = s
               PROVE  Exactly(x)' /\ x.version <= cursors'[s].version
    BY <1>7
  <2>1. Exactly(x) /\ x.version <= cursors[s].version /\ x.version \in Nat
    BY SMTT(40), <1>8, HandedOutRecorded DEF Chained, Linked
  <2>2. Exactly(x)'
    BY <1>1, <2>1 DEF Exactly, VersionOf, Committed, Predecessor
  <2> QED BY <1>5, <1>6, <1>9, <2>1, <2>2
<1>13. \A e \in Stored' : e.src = s => Positioned(e)'
  <2> SUFFICES ASSUME NEW e \in EventIds, e \in Stored', e.src = s PROVE Positioned(e)'
    BY <1>7
  <2>1. CASE e = c.id
    <3>1. /\ e \in moved \/ rec'[e].previous = Predecessor(e)
          /\ rec'[e].version <= cursors'[s].version
          /\ rec'[e].version = VersionOf(e)
      BY <1>2, <1>4, <1>5, <1>6, <2>1
    <3>2. ~Committed(e) => LastVersion(s) < VersionOf(e) /\ VersionOf(e) = agg[s].version
      BY <1>2, <1>8, <2>1, VersionPlaces DEF Chained
    <3> QED BY <1>1, <1>9, <1>10, <3>1, <3>2 DEF Positioned
  <2>2. CASE e # c.id
    <3>1. e \in Stored /\ rec'[e] = rec[e]
      BY <1>6, <1>7, <2>2
    <3>2. Positioned(e) /\ rec[e].version \in Nat
      BY <1>8, <3>1, Options DEF Chained, Linked, Safe, TypeOK
    <3>3. rec[e].version <= cursors'[s].version
      BY <1>5, <1>6, <1>9, <3>2 DEF Positioned
    <3> QED BY <1>1, <1>10, <3>1, <3>2, <3>3 DEF Positioned
  <2> QED BY <2>1, <2>2
<1>14. \A x \in Entries(receipts') : x.id.src = s => /\ x.version <= cursors'[s].version
                                                     /\ x.id \notin Stored'
  <2> SUFFICES ASSUME NEW x \in Entries(receipts), x.id.src = s
               PROVE  x.version <= cursors'[s].version /\ x.id \notin Stored'
    BY <1>7
  <2>1. x.version <= cursors[s].version /\ x.id \notin Stored
    BY <1>8 DEF Chained, Linked
  <2>2. x.id # c.id
    BY <1>3 DEF Dispatched, Receipt, Entries
  <2>3. x.version \in Nat
    <3>1. x \in Candidate
      BY ElementOfSeq, LenProperties DEF Entries, Safe, Shapes
    <3> QED BY <3>1, Options DEF Candidate
  <2> QED BY <1>5, <1>6, <1>7, <1>9, <2>1, <2>2, <2>3
<1>15. AtLastCommit(s)' \/ AtAttempt(s)'
  <2>1. CASE /\ k.version = cursors[s].version /\ k.previous = cursors[s].previous
             /\ c.id = First(s) /\ agg[s].phase # "clean" /\ AtAttempt(s)
                   => c.version = k.version
    <3>1. CASE AtLastCommit(s)
      BY SMTT(40), <1>1, <1>6, <1>10, <2>1, <3>1 DEF AtLastCommit
    <3>2. CASE AtAttempt(s)
      <4>1. PICK f \in EventIds : f = First(s)
        BY <1>2, <3>2, FirstIs DEF AtAttempt
      <4>2. /\ agg[s].phase # "clean"
            /\ LastVersion(s) < cursors[s].version /\ cursors[s].version <= agg[s].version
            /\ cursors[s].previous = LastVersion(s) \/ f \in moved
            /\ Kept(f)
            /\ f \in Stored => rec[f].version = cursors[s].version
        BY <3>2, <4>1 DEF AtAttempt
      <4>3. f \in Stored' => rec'[f].version = cursors'[s].version
        BY <1>4, <1>6, <1>7, <2>1, <3>2, <4>1, <4>2
      <4>4. Kept(f)'
        BY <1>7, <4>2
      <4>5. Kept(First(s))'
        BY <1>10, <4>1, <4>4 DEF Kept, Pending, Dead
      <4> QED BY <1>1, <1>6, <1>10, <2>1, <4>1, <4>2, <4>3, <4>5 DEF AtAttempt
    <3> QED BY <1>8, <3>1, <3>2 DEF Chained, Linked
  <2>2. CASE /\ c.id = First(s) /\ agg[s].phase # "clean" /\ k.version = c.version
             /\ LastVersion(s) < k.version
             /\ k.previous = LastVersion(s) \/ First(s) \in moved
    <3>1. Kept(First(s))'
      <4>1. c' = c
        OBVIOUS
      <4> QED BY <1>7, <1>10, <2>2, <4>1 DEF Kept, Pending, Dead
    <3> QED BY <1>1, <1>4, <1>5, <1>6, <1>10, <2>2, <3>1 DEF AtAttempt
  <2> QED BY <1>5, <2>1, <2>2
<1>16. agg'[s].phase = "added" => Refreshed(s)'
  <2> SUFFICES ASSUME agg[s].phase = "added" PROVE Refreshed(s)'
    BY <1>1
  <2>1. Refreshed(s) /\ Committed(c.id)
    BY <1>2, <1>8 DEF Chained, Linked
  <2>2. cursors'[s].version = agg[s].version
    BY <1>5, <1>6, <1>9, <2>1 DEF Refreshed
  <2>3. ASSUME NEW e \in Stored', e \in InHand(s) PROVE rec'[e].version = agg[s].version
    <3>1. ~Committed(e) /\ e \in EventIds
      BY <1>2, <2>3, InHandEvents DEF Safe
    <3> QED BY <1>6, <1>7, <2>1, <2>3, <3>1 DEF Refreshed
  <2> QED BY <1>1, <1>10, <2>2, <2>3 DEF Refreshed
<1>17. Chained(s)'
  <2>1. Linked(s)'
    BY <1>12, <1>13, <1>14, <1>15, <1>16 DEF Linked
  <2> QED BY <1>11, <2>1 DEF Chained
<1>18. ASSUME NEW t \in Sources, t # s PROVE Chained(t)'
  <2>1. Chained(t) /\ SameHead(t) /\ agg'[t] = agg[t] /\ log'[t] = log[t]
    BY <1>1, <1>6, <1>18 DEF Chains, SameHead
  <2>2. MovedWhole(t)'
    BY <1>1, <1>10, <2>1 DEF Chained, MovedWhole
  <2>3. \A e \in EventIds : e.src = t /\ e \in Stored' => e \in Stored /\ rec'[e] = rec[e]
    BY <1>6, <1>7, <1>18
  <2>4. \A x \in Entries(receipts') : x.id.src = t => x.id \notin Stored'
    BY <1>7, <1>18, <2>1 DEF Chained, Linked
  <2> QED BY <1>1, <1>7, <2>1, <2>2, <2>3, <2>4, ChainedStays
<1>19. \A t \in Sources : Chained(t)'
  BY <1>17, <1>18
<1>20. Refreshing'
  <2>1. \A t \in Sources : cursors[t].version <= cursors'[t].version
    <3>1. \A t \in Sources : cursors[t].version \in Nat
      BY Numbers
    <3> QED BY <1>5, <1>6, <3>1
  <2>2. \A e \in EventIds : e # c.id => /\ Dead(e)' => Dead(e)
                                        /\ rec'[e].version = rec[e].version
                                        /\ e \in Stored' => e \in Stored
                                        /\ Receipt(e)' = Receipt(e)
    BY <1>6, <1>7
  <2>3. c.version <= cursors'[s].version /\ rec'[c.id].version = c.version
    BY <1>4, <1>5, <1>6
  <2> HIDE DEF s
  <2> QED BY <1>1, <1>3, <1>19, <2>1, <2>2, <2>3, RefreshingTakes DEF s
<1> QED BY <1>19, <1>20 DEF Chains

\* add() renews the receipt of a dispatched event.
LEMMA ChainsRefreshes ==
  ASSUME Safe, Safe', Chains, AddStep, adding # <<>>, NEW c, c = Head(adding),
         AddRefreshesReceipt(c)
  PROVE  Chains'
<1> DEFINE r == ReceiptOf(c)
           s == c.id.src
<1>1. /\ agg' = agg /\ log' = log /\ client' = client /\ batch' = batch /\ seen' = seen
      /\ moved' = moved /\ addResult = "running"
  BY AddFrame
<1>2. /\ c \in Candidate /\ c.id \in EventIds /\ s \in Sources /\ Exacting(c)
  BY NextIs
<1>3. /\ rec' = rec /\ cursors' = cursors /\ adding' = Tail(adding) /\ addResult' = addResult
      /\ Dispatched(c.id) /\ Remember(<<r>>)
  BY DEF AddRefreshesReceipt
<1>4. r.id = c.id /\ r.version = c.version /\ r \in Candidate
  BY <1>2 DEF ReceiptOf, Candidate
<1> HIDE DEF r
<1>5. Entries(receipts') = {x \in Entries(receipts) : x.id # c.id} \cup {r}
  <2> DEFINE new == <<r>>
  <2>1. new \in Seq(Candidate) /\ Remember(new) /\ new = <<r>>
    BY <1>3, <1>4
  <2>2. Len(receipts) <= MaxRetained /\ receipts \in Seq(Candidate) /\ Dispatched(r.id)
    BY <1>3, <1>4 DEF Safe, Bounded, WithinBounds, Shapes
  <2> HIDE DEF new
  <2> QED BY <1>4, <2>1, <2>2, RememberKeeps
<1>6. PICK o \in Entries(receipts) : o.id = c.id /\ o.version = c.version
  <2>1. PICK o \in Receipt(c.id) : TRUE
    BY <1>3 DEF Dispatched
  <2>2. o.version = c.version
    BY <1>2 DEF Exacting
  <2> QED BY <2>1, <2>2 DEF Receipt, Entries
<1>7. /\ Stored' = Stored /\ HandedOut' = HandedOut
      /\ \A e \in EventIds : Kept(e) => Kept(e)'
      /\ \A e : (Dead(e)' <=> Dead(e))
  BY <1>1, <1>3 DEF Stored, Pending, Dead, HandedOut, Kept, Published
<1>8. \A e \in EventIds : e # c.id => Receipt(e)' = Receipt(e)
  <2> SUFFICES ASSUME NEW e \in EventIds, e # c.id PROVE Receipt(e)' = Receipt(e)
    OBVIOUS
  <2>1. Receipt(e)' = {x \in Entries(receipts') : x.id = e}
    BY DEF Receipt, Entries
  <2>2. Receipt(e) = {x \in Entries(receipts) : x.id = e}
    BY DEF Receipt, Entries
  <2> QED BY <1>4, <1>5, <2>1, <2>2
<1>9. \A t \in Sources : Chained(t)'
  <2> SUFFICES ASSUME NEW t \in Sources PROVE Chained(t)'
    OBVIOUS
  <2>1. Chained(t) /\ SameHead(t)
    BY <1>3 DEF Chains, SameHead
  <2>2. MovedWhole(t)'
    <3>1. \A e \in EventIds : e \in Recorded' <=> e \in Recorded
      BY <1>1 DEF Recorded, Committed, InHand
    <3> QED BY <1>1, <2>1, <3>1, MovedStays DEF Chained
  <2>3. \A x \in Entries(receipts') :
           x.id.src = t => /\ x.id \notin Stored'
                           /\ x \in Entries(receipts) \/ x.version <= cursors[t].version
    <3> SUFFICES ASSUME NEW x \in Entries(receipts'), x.id.src = t
                 PROVE  /\ x.id \notin Stored'
                        /\ x \in Entries(receipts) \/ x.version <= cursors[t].version
      OBVIOUS
    <3>1. CASE x \in Entries(receipts)
      BY <1>7, <2>1, <3>1 DEF Chained, Linked
    <3>2. CASE x = r
      BY <1>4, <1>6, <1>7, <2>1, <3>2 DEF Chained, Linked
    <3> QED BY <1>5, <3>1, <3>2
  <2> QED BY <1>1, <1>3, <1>7, <2>1, <2>2, <2>3, ChainedStays
<1>10. c.version <= cursors[s].version /\ c.id \notin Stored
  BY <1>2, <1>6 DEF Chains, Chained, Linked
<1>11. \A t \in Sources : cursors[t].version <= cursors'[t].version
  BY <1>3, Numbers
<1> HIDE DEF s
<1>12. Refreshing'
  BY <1>1, <1>3, <1>7, <1>8, <1>9, <1>10, <1>11, RefreshingTakes DEF s
<1> QED BY <1>9, <1>12 DEF Chains

\* add() queues a dead letter again.
LEMMA ChainsRequeues ==
  ASSUME Safe, Safe', Chains, AddStep, adding # <<>>, NEW c, c = Head(adding), AddRequeues(c)
  PROVE  Chains'
<1> DEFINE s == c.id.src
<1>1. /\ agg' = agg /\ log' = log /\ client' = client /\ batch' = batch /\ seen' = seen
      /\ moved' = moved /\ addResult = "running"
  BY AddFrame
<1>2. /\ c \in Candidate /\ c.id \in EventIds /\ s \in Sources /\ Exacting(c)
  BY NextIs
<1>3. /\ rec' = [rec EXCEPT ![c.id].place = "pending", ![c.id].attempts = 0]
      /\ cursors' = cursors /\ receipts' = receipts /\ adding' = Tail(adding)
      /\ addResult' = addResult /\ ~Dispatched(c.id) /\ Dead(c.id)
  BY DEF AddRequeues
<1>4. /\ rec'[c.id].version = rec[c.id].version /\ rec'[c.id].previous = rec[c.id].previous
      /\ rec'[c.id].place = "pending"
      /\ \A e \in EventIds : e # c.id => rec'[e] = rec[e]
  BY <1>2, <1>3 DEF Safe, TypeOK
<1>5. /\ Stored' = Stored /\ c.id \in Stored
      /\ \A e \in EventIds : e # c.id => (Dead(e)' <=> Dead(e))
      /\ HandedOut' = HandedOut
      /\ \A e \in EventIds : Kept(e) => Kept(e)'
      /\ \A e : Receipt(e)' = Receipt(e)
      /\ Entries(receipts') = Entries(receipts)
  <2>1. Pending(c.id)'
    BY <1>4 DEF Pending
  <2>2. \A e \in EventIds : e # c.id => (Pending(e)' <=> Pending(e)) /\ (Dead(e)' <=> Dead(e))
    BY <1>4 DEF Pending, Dead
  <2>3. Stored' = Stored /\ c.id \in Stored
    BY <1>2, <1>3, <2>1, <2>2 DEF Stored
  <2>4. HandedOut' = HandedOut /\ Published' = Published /\ Entries(receipts') = Entries(receipts)
        /\ \A e : Receipt(e)' = Receipt(e)
    BY <1>1, <1>3 DEF HandedOut, Published, Receipt
  <2> QED BY <2>1, <2>2, <2>3, <2>4 DEF Kept
<1>6. \A e \in EventIds : /\ rec'[e].version = rec[e].version
                          /\ rec'[e].previous = rec[e].previous
  BY <1>4
<1>7. \A t \in Sources : Chained(t)'
  <2> SUFFICES ASSUME NEW t \in Sources PROVE Chained(t)'
    OBVIOUS
  <2>1. Chained(t) /\ SameHead(t)
    BY <1>3 DEF Chains, SameHead
  <2>2. MovedWhole(t)'
    <3>1. \A e \in EventIds : e \in Recorded' <=> e \in Recorded
      BY <1>1 DEF Recorded, Committed, InHand
    <3> QED BY <1>1, <2>1, <3>1, MovedStays DEF Chained
  <2>3. \A x \in Entries(receipts') : x.id.src = t => x.id \notin Stored' /\ x \in Entries(receipts)
    BY <1>5, <2>1 DEF Chained, Linked
  <2> QED BY <1>1, <1>3, <1>5, <1>6, <2>1, <2>2, <2>3, ChainedStays
<1>8. c.version <= cursors[s].version /\ rec'[c.id].version = c.version
  <2>1. rec[c.id].version = c.version
    BY <1>2, <1>3 DEF Exacting
  <2>2. rec[c.id].version <= cursors[s].version
    BY <1>2, <1>5 DEF Chains, Chained, Linked, Positioned
  <2> QED BY <1>4, <2>1, <2>2
<1>9. \A t \in Sources : cursors[t].version <= cursors'[t].version
  BY SMTT(40), <1>3, Numbers
<1> HIDE DEF s
<1>10. Refreshing'
  BY <1>1, <1>3, <1>5, <1>6, <1>7, <1>8, <1>9, RefreshingTakes DEF s
<1> QED BY <1>7, <1>10 DEF Chains

\* The steps of a running add().
LEMMA ChainsAdd ==
  ASSUME Safe, Safe', Chains, AddStep
  PROVE  Chains'
<1>1. /\ agg' = agg /\ log' = log /\ client' = client /\ batch' = batch /\ seen' = seen
      /\ moved' = moved /\ addResult = "running"
  BY AddFrame
<1>2. CASE AddReturns
  <2>1. /\ adding = <<>> /\ adding' = adding /\ addResult' = "added"
        /\ rec' = rec /\ cursors' = cursors /\ receipts' = receipts
    BY <1>2 DEF AddReturns
  <2>2. \A t \in Sources : Chained(t)'
    BY <1>1, <2>1, ChainedSame DEF Chains
  <2>3. DOMAIN adding = {} /\ Adding = {}
    BY <2>1 DEF Adding
  <2>4. ASSUME NEW s \in client' PROVE Refreshed(s)'
    <3>1. Refreshed(s)
      BY <1>1, <2>3, <2>4 DEF Chains, Refreshing, Refreshed
    <3>2. Stored' = Stored /\ InHand(s)' = InHand(s)
      BY <1>1, <2>1 DEF Stored, Pending, Dead, InHand
    <3> QED BY <1>1, <2>1, <3>1, <3>2 DEF Refreshed
  <2> QED BY <2>1, <2>2, <2>3, <2>4 DEF Chains, Refreshing
<1>3. CASE AddMessage
  <2> DEFINE c == Head(adding)
  <2>1. /\ adding # <<>>
        /\ \/ AddRefreshesReceipt(c) \/ AddRequeues(c) \/ AddThrows(c) \/ AddRecords(c)
    BY <1>3 DEF AddMessage
  <2>2. c = Head(adding)
    OBVIOUS
  <2> HIDE DEF c
  <2>3. CASE AddThrows(c)
    <3>1. /\ adding' = <<>> /\ addResult' = "rejected"
          /\ rec' = rec /\ cursors' = cursors /\ receipts' = receipts
      BY <2>3 DEF AddThrows
    <3>2. \A t \in Sources : Chained(t)'
      BY <1>1, <3>1, ChainedSame DEF Chains
    <3>3. DOMAIN adding' = {}
      BY <3>1
    <3> QED BY <3>1, <3>2, <3>3 DEF Chains, Refreshing
  <2> QED BY <2>1, <2>2, <2>3, ChainsRefreshes, ChainsRequeues, ChainsRecords
<1> QED BY <1>2, <1>3 DEF AddStep

-----------------------------------------------------------------------------
(* Chains: the dispatcher and the operator *)

\* Handing out a record under a version its commit has left is noted.
LEMMA HandOutNotes ==
  ASSUME Safe, NEW envelopes, HandOut(envelopes), \A r \in envelopes : r.id \in Stored
  PROVE  /\ moved \subseteq moved'
         /\ \A e \in moved' \ moved : /\ agg[e.src].phase # "clean" /\ e \in InHand(e.src)
                                      /\ InHand(e.src) \subseteq moved'
         /\ \A r \in envelopes : Outdated(r) => InHand(r.id.src) \subseteq moved'
<1>1. moved' = moved \cup UNION {InHand(r.id.src) : r \in {r \in envelopes : Outdated(r)}}
  BY DEF HandOut
<1>2. \A r \in envelopes : Outdated(r) => InHand(r.id.src) \subseteq moved'
  BY <1>1
<1>3. ASSUME NEW e \in moved' \ moved
      PROVE  /\ agg[e.src].phase # "clean" /\ e \in InHand(e.src)
             /\ InHand(e.src) \subseteq moved'
  <2>1. PICK r \in envelopes : Outdated(r) /\ e \in InHand(r.id.src)
    BY <1>1, <1>3
  <2>2. agg[r.id.src].phase # "clean"
    BY <2>1, RecordedIs DEF Outdated, Safe, Genuine
  <2>3. e.src = r.id.src
    BY <2>1 DEF InHand, Id
  <2> QED BY <1>2, <2>1, <2>2, <2>3
<1> QED BY <1>1, <1>2, <1>3

\* Records leave the outbox, are handed out or acknowledged; nothing else happens.
LEMMA ChainsDelivers ==
  ASSUME Safe, Safe', Chains, Quiet, UNCHANGED <<agg, log, client, cursors, adding>>,
         moved \subseteq moved',
         \A e \in moved' \ moved : /\ agg[e.src].phase # "clean" /\ e \in InHand(e.src)
                                   /\ InHand(e.src) \subseteq moved',
         \A e \in Stored' : /\ e \in Stored
                            /\ rec'[e].version = rec[e].version
                            /\ rec'[e].previous = rec[e].previous,
         \A e \in EventIds : Kept(e) => Kept(e)',
         \A r \in HandedOut' : \/ r \in HandedOut
                               \/ \E e \in Stored : /\ r = Envelope(e)
                                                    /\ Outdated(r) => InHand(e.src) \subseteq moved',
         \A r \in Entries(receipts') : \/ r \in Entries(receipts)
                                       \/ /\ r.id \in Stored /\ r.id \notin Stored'
                                          /\ r.version = rec[r.id].version
  PROVE  Chains'
<1>1. ASSUME NEW s \in Sources PROVE Chained(s)'
  <2>1. Chained(s) /\ SameHead(s)
    BY DEF Chains, SameHead
  <2>2. MovedWhole(s)'
    <3>1. \A e \in EventIds : e \in Recorded' <=> e \in Recorded
      BY DEF Recorded, Committed, InHand
    <3>2. CASE \A e \in moved' : e.src = s => e \in moved
      BY <2>1, <3>1, <3>2, MovedStays DEF Chained
    <3>3. CASE ~ \A e \in moved' : e.src = s => e \in moved
      <4>1. agg[s].phase # "clean" /\ InHand(s) \subseteq moved'
        BY <3>3
      <4>2. \A e \in moved' : e.src = s => e \in moved \cup InHand(s)
        OBVIOUS
      <4> QED BY <2>1, <3>1, <4>1, <4>2, MovedStays DEF Chained
    <3> QED BY <3>2, <3>3
  <2>3. \A r \in HandedOut' : r.id.src = s /\ r \notin HandedOut
                              => Exactly(r)' /\ r.version <= cursors[s].version
    <3> SUFFICES ASSUME NEW r \in HandedOut', r.id.src = s, r \notin HandedOut
                 PROVE  Exactly(r)' /\ r.version <= cursors[s].version
      OBVIOUS
    <3>1. PICK e \in Stored : r = Envelope(e) /\ (Outdated(r) => InHand(e.src) \subseteq moved')
      OBVIOUS
    <3>2. r.id = e /\ r.version = rec[e].version /\ r.previous = rec[e].previous
      BY <3>1 DEF Envelope
    <3>3. Positioned(e) /\ e \in Recorded
      BY <2>1, <3>2 DEF Chained, Linked, Safe, Genuine
    <3>4. e \in moved' \/ (r.version = VersionOf(e) /\ r.previous = Predecessor(e))
      <4>1. CASE Committed(e)
        BY <3>2, <3>3, <4>1 DEF Positioned
      <4>2. CASE ~Committed(e) /\ r.version = agg[s].version
        BY <3>2, <3>3, <4>2 DEF Positioned, VersionOf
      <4>3. CASE ~Committed(e) /\ r.version # agg[s].version
        <5>1. Outdated(r) /\ e \in InHand(e.src)
          BY <3>2, <3>3, <4>3, RecordedIs DEF Outdated
        <5> QED BY <3>1, <5>1
      <4> QED BY <4>1, <4>2, <4>3
    <3>5. Exactly(r)'
      BY <3>2, <3>4 DEF Exactly, VersionOf, Committed, Predecessor
    <3> QED BY <3>2, <3>3, <3>5 DEF Positioned
  <2>4. \A r \in Entries(receipts') :
           r.id.src = s => /\ r.id \notin Stored'
                           /\ r \in Entries(receipts) \/ r.version <= cursors[s].version
    <3> SUFFICES ASSUME NEW r \in Entries(receipts'), r.id.src = s
                 PROVE  /\ r.id \notin Stored'
                        /\ r \in Entries(receipts) \/ r.version <= cursors[s].version
      OBVIOUS
    <3>1. CASE r \in Entries(receipts)
      BY <2>1, <3>1 DEF Chained, Linked
    <3>2. CASE r.id \in Stored /\ r.id \notin Stored' /\ r.version = rec[r.id].version
      BY <2>1, <3>2 DEF Chained, Linked, Positioned
    <3> QED BY <3>1, <3>2
  <2>5. \A e \in EventIds : e.src = s /\ e \in Stored'
                            => /\ e \in Stored
                               /\ rec'[e].version = rec[e].version
                               /\ rec'[e].previous = rec[e].previous
    OBVIOUS
  <2> QED BY <2>1, <2>2, <2>3, <2>4, <2>5, ChainedStays
<1>2. adding = <<>> /\ client = {}
  BY Rests
<1> QED BY <1>1, <1>2, Rests DEF Chains

\* pass() takes a batch.
LEMMA ChainsPoll ==
  ASSUME Safe, Safe', Chains, Poll
  PROVE  Chains'
<1>1. /\ Quiet /\ queue # <<>> /\ batch' = GetPending(BatchSize) /\ seen' = seen
      /\ rec' = rec /\ queue' = queue /\ adding' = adding /\ agg' = agg /\ log' = log
      /\ cursors' = cursors /\ receipts' = receipts /\ client' = client
  BY DEF Poll, outboxVars, writeVars
<1> DEFINE envelopes == {batch'[i] : i \in DOMAIN batch'}
<1>2. HandOut(envelopes)
  BY DEF Poll
<1>3. \A r \in envelopes : r.id \in Stored /\ r = Envelope(r.id)
  <2>1. /\ DOMAIN batch' = 1..Len(batch')
        /\ \A i \in 1..Len(batch') : /\ batch'[i] = Envelope(queue[i]) /\ queue[i] \in EventIds
                                     /\ batch'[i].id = queue[i] /\ Pending(queue[i])
    BY <1>1, GetPendingIs, LenProperties
  <2> QED BY <2>1 DEF Stored
<1>4. Stored' = Stored /\ Entries(receipts') = Entries(receipts)
      /\ HandedOut' = seen \cup envelopes
      /\ \A e \in EventIds : Kept(e) => Kept(e)'
  BY <1>1 DEF Stored, Pending, Dead, HandedOut, Kept, Published
<1> HIDE DEF envelopes
<1>5. /\ moved \subseteq moved'
      /\ \A e \in moved' \ moved : /\ agg[e.src].phase # "clean" /\ e \in InHand(e.src)
                                   /\ InHand(e.src) \subseteq moved'
      /\ \A r \in envelopes : Outdated(r) => InHand(r.id.src) \subseteq moved'
  BY <1>2, <1>3, HandOutNotes
<1>6. \A r \in HandedOut' : \/ r \in HandedOut
                            \/ \E e \in Stored : /\ r = Envelope(e)
                                                 /\ Outdated(r) => InHand(e.src) \subseteq moved'
  BY <1>3, <1>4, <1>5 DEF HandedOut
<1> QED BY <1>1, <1>4, <1>5, <1>6, ChainsDelivers

\* A publication ends, one way or the other; or a failure is reported in vain.
LEMMA ChainsPublishes ==
  ASSUME Safe, Safe', Chains,
         \/ PublishSucceeds
         \/ PublishRejected
         \/ \E reached \in BOOLEAN : PublishInterrupted(reached)
         \/ MarkFails
         \/ \E applied \in BOOLEAN : AckFails(applied) /\ ~applied
  PROVE  Chains'
<1>1. /\ Quiet
      /\ batch' = batch \/ batch' = <<>>
      /\ seen' = seen \/ (dpc = "publishing" /\ seen' = seen \cup {batch[sent + 1]})
      /\ rec' = rec /\ adding' = adding /\ receipts' = receipts /\ cursors' = cursors
      /\ agg' = agg /\ log' = log /\ client' = client /\ moved' = moved
  <2>1. CASE PublishSucceeds
    BY <2>1 DEF PublishSucceeds, outboxVars, writeVars
  <2>2. CASE PublishRejected
    BY <2>2 DEF PublishRejected, StopPublishing, PassEnds, outboxVars, writeVars
  <2>3. ASSUME NEW reached \in BOOLEAN, PublishInterrupted(reached) PROVE <1>1!:
    BY <2>3 DEF PublishInterrupted, StopPublishing, PassEnds, outboxVars, writeVars
  <2>4. CASE MarkFails
    BY <2>4 DEF MarkFails, PassEnds, outboxVars, writeVars, historyVars
  <2>5. ASSUME NEW applied \in BOOLEAN, AckFails(applied), ~applied PROVE <1>1!:
    BY <2>5 DEF AckFails, AfterAck, PassEnds, outboxVars, writeVars
  <2> QED BY <2>1, <2>2, <2>3, <2>4, <2>5
<1>2. HandedOut' \subseteq HandedOut
  <2>1. DOMAIN <<>> = {}
    OBVIOUS
  <2>2. dpc = "publishing" => sent + 1 \in DOMAIN batch
    BY NextIsPending, BatchEvents DEF Safe
  <2> QED BY <1>1, <2>1, <2>2 DEF HandedOut
<1>3. Stored' = Stored /\ Entries(receipts') = Entries(receipts)
      /\ \A e \in EventIds : Kept(e) => Kept(e)'
  BY <1>1 DEF Stored, Pending, Dead, Kept, Published
<1> QED BY <1>1, <1>2, <1>3, ChainsDelivers

\* Delivered records are acknowledged, by the dispatcher or by hand.
LEMMA ChainsAcks ==
  ASSUME Safe, Safe', Chains, Quiet, NEW ids \in Seq(EventIds), MarkDispatched(ids),
         UNCHANGED <<agg, log, client>>, seen \subseteq seen', Entries(ids) \subseteq Published',
         moved \subseteq moved',
         \A e \in moved' \ moved : /\ agg[e.src].phase # "clean" /\ e \in InHand(e.src)
                                   /\ InHand(e.src) \subseteq moved',
         \A r \in HandedOut' : \/ r \in HandedOut
                               \/ \E e \in Stored : /\ r = Envelope(e)
                                                    /\ Outdated(r) => InHand(e.src) \subseteq moved'
  PROVE  Chains'
<1>1. /\ \A e \in EventIds : rec'[e] = IF e \in Entries(ids) THEN NoRecord ELSE rec[e]
      /\ \A e \in EventIds : Pending(e)' <=> Pending(e) /\ e \notin Entries(ids)
      /\ \A e \in EventIds : Dead(e)' <=> Dead(e) /\ e \notin Entries(ids)
      /\ \A r \in Entries(receipts') :
               \/ r \in Entries(receipts)
               \/ r.id \in Entries(ids) /\ r.id \in Stored /\ r.version = rec[r.id].version
      /\ cursors' = cursors /\ adding' = adding
  BY MarkKeeps DEF Safe
<1>2. Stored' = Stored \ Entries(ids)
  BY <1>1 DEF Stored
<1>3. \A e \in EventIds : Kept(e) => Kept(e)'
  <2>1. Published \subseteq Published'
    BY DEF Published
  <2> QED BY <1>1, <2>1 DEF Kept
<1>4. \A e \in Stored' : e \in Stored /\ rec'[e] = rec[e]
  BY <1>1, <1>2 DEF Stored
<1>5. \A r \in Entries(receipts') : \/ r \in Entries(receipts)
                                    \/ /\ r.id \in Stored /\ r.id \notin Stored'
                                       /\ r.version = rec[r.id].version
  BY <1>1, <1>2
<1> QED BY <1>1, <1>3, <1>4, <1>5, ChainsDelivers

\* A dead letter is delivered by hand.
LEMMA ChainsRedelivers ==
  ASSUME Safe, Safe', Chains, NEW e \in EventIds, ManualRedeliver(e)
  PROVE  Chains'
<1> DEFINE r == Envelope(e)
           ids == <<e>>
<1>1. /\ Quiet /\ Dead(e) /\ seen' = seen \cup {r} /\ MarkDispatched(ids) /\ HandOut({r})
      /\ agg' = agg /\ log' = log /\ batch' = batch /\ client' = client
  BY DEF ManualRedeliver, writeVars, dispatchVars
<1>2. r.id = e /\ r = Envelope(e) /\ e \in Stored
  BY <1>1 DEF Envelope, Stored
<1>3. ids \in Seq(EventIds) /\ Entries(ids) = {e}
  <2>1. DOMAIN <<e>> = {1} /\ <<e>>[1] = e /\ <<e>> \in Seq(EventIds)
    OBVIOUS
  <2> QED BY <2>1 DEF Entries
<1> HIDE DEF r, ids
<1>4. /\ moved \subseteq moved'
      /\ \A d \in moved' \ moved : /\ agg[d.src].phase # "clean" /\ d \in InHand(d.src)
                                   /\ InHand(d.src) \subseteq moved'
      /\ Outdated(r) => InHand(r.id.src) \subseteq moved'
  <2> DEFINE envelopes == {r}
  <2>1. HandOut(envelopes) /\ \A x \in envelopes : x.id \in Stored
    BY <1>1, <1>2
  <2>2. r \in envelopes
    OBVIOUS
  <2> HIDE DEF envelopes
  <2> QED BY <2>1, <2>2, HandOutNotes
<1>5. HandedOut' = HandedOut \cup {r} /\ e \in Published'
  BY <1>1, <1>2 DEF HandedOut, Published
<1> QED BY <1>1, <1>2, <1>3, <1>4, <1>5, ChainsAcks

\* The dispatcher acknowledges what it delivered, or its answer is lost.
LEMMA ChainsAcknowledges ==
  ASSUME Safe, Safe', Chains, Ack \/ \E applied \in BOOLEAN : AckFails(applied)
  PROVE  Chains'
<1>1. CASE \E applied \in BOOLEAN : AckFails(applied) /\ ~applied
  BY <1>1, ChainsPublishes
<1>2. CASE Ack \/ \E applied \in BOOLEAN : AckFails(applied) /\ applied
  <2>1. /\ batch' = batch \/ batch' = <<>>
        /\ Quiet /\ seen' = seen /\ agg' = agg /\ log' = log /\ client' = client
        /\ moved' = moved
        /\ MarkDispatched(Delivered)
    <3>1. CASE Ack
      BY <3>1 DEF Ack, AfterAck, PassEnds, writeVars
    <3>2. ASSUME NEW applied \in BOOLEAN, AckFails(applied), applied PROVE <2>1!:
      BY <3>2 DEF AckFails, AfterAck, PassEnds, writeVars
    <3> QED BY <1>2, <3>1, <3>2
  <2>2. Delivered \in Seq(EventIds) /\ Entries(Delivered) \subseteq Published'
    <3>1. Published' = Published
      BY <2>1 DEF Published
    <3> QED BY <3>1, DeliveredIs
  <2>3. HandedOut' \subseteq HandedOut
    <3>1. DOMAIN <<>> = {}
      OBVIOUS
    <3> QED BY <2>1, <3>1 DEF HandedOut
  <2> QED BY <2>1, <2>2, <2>3, ChainsAcks
<1> QED BY <1>1, <1>2

\* A failure is counted.
LEMMA ChainsMark ==
  ASSUME Safe, Safe', Chains, Mark
  PROVE  Chains'
<1> DEFINE f == FailedId
<1>1. /\ Quiet /\ batch' = <<>> /\ seen' = seen /\ agg' = agg /\ log' = log
      /\ adding' = adding /\ client' = client /\ moved' = moved /\ cursors' = cursors
      /\ receipts' = receipts /\ MarkFailed(f) /\ dpc = "marking"
  BY DEF Mark, PassEnds, MarkFailed, addVars, writeVars
<1>2. f \in EventIds /\ Pending(f)
  BY <1>1, FailedIsPending DEF Safe, Dispatching
<1> HIDE DEF f
<1>3. rec \in [EventIds -> [place : {"none", "pending", "dead"}, version : 0..MaxVersion,
                            previous : 0..MaxVersion, size : 0..MaxSize,
                            attempts : 0..MaxDeliveryAttempts]]
  BY DEF Safe, TypeOK
<1>4. /\ \A e \in EventIds : e # f => rec'[e] = rec[e]
      /\ rec'[f].version = rec[f].version /\ rec'[f].previous = rec[f].previous
      /\ rec'[f].place \in {"pending", "dead"}
  <2>1. CASE rec[f].attempts + 1 >= MaxDeliveryAttempts
    <3>1. rec' = [rec EXCEPT ![f].place = "dead", ![f].attempts = @ + 1]
      BY <1>1, <1>2, <2>1 DEF MarkFailed
    <3> QED BY <1>2, <1>3, <3>1
  <2>2. CASE ~(rec[f].attempts + 1 >= MaxDeliveryAttempts)
    <3>1. rec' = [rec EXCEPT ![f].attempts = @ + 1]
      BY <1>1, <1>2, <2>2 DEF MarkFailed
    <3> QED BY <1>2, <1>3, <3>1 DEF Pending
  <2> QED BY <2>1, <2>2
<1>5. Stored' = Stored /\ \A e \in EventIds : Kept(e) => Kept(e)'
  <2>1. \A e \in EventIds : (Pending(e) \/ Dead(e)) <=> (Pending(e)' \/ Dead(e)')
    BY <1>2, <1>4 DEF Pending, Dead
  <2> QED BY <1>1, <2>1 DEF Stored, Kept, Published
<1>6. HandedOut' \subseteq HandedOut
  <2>1. DOMAIN <<>> = {}
    OBVIOUS
  <2> QED BY <1>1, <2>1 DEF HandedOut
<1>7. Entries(receipts') = Entries(receipts)
      /\ \A e \in Stored' : /\ e \in Stored
                            /\ rec'[e].version = rec[e].version
                            /\ rec'[e].previous = rec[e].previous
  BY <1>1, <1>4, <1>5 DEF Stored
<1> QED BY <1>1, <1>5, <1>6, <1>7, ChainsDelivers

\* Every step keeps the chains.
LEMMA ChainsStep == Safe /\ Safe' /\ Chains /\ [Next]_vars => Chains'
<1> SUFFICES ASSUME Safe, Safe', Chains, [Next]_vars PROVE Chains'
  OBVIOUS
<1>1. ASSUME NEW s \in Sources, NEW n \in 1..MaxSize, Record(s, n) PROVE Chains'
  BY <1>1, ChainsRecord
<1>2. ASSUME NEW s \in Sources, Bump(s) PROVE Chains'
  BY <1>2, ChainsBump
<1>3. ASSUME NEW s \in Sources, NEW t \in Sources, Harvest(s, t) PROVE Chains'
  BY <1>3, ChainsHarvest
<1>4. CASE AddStep
  BY <1>4, ChainsAdd
<1>5. CASE AddSettles \/ \E g \in open : RollbackTx(g)
  BY <1>5, ChainsHolds
<1>6. ASSUME NEW g \in open, CommitTx(g) PROVE Chains'
  BY <1>6, ChainsCommit
<1>7. ASSUME NEW d \in EventIds, NEW e \in EventIds, Readd(d, e) PROVE Chains'
  BY <1>7, ChainsReadd
<1>8. ASSUME NEW e \in EventIds, ManualRedeliver(e) PROVE Chains'
  BY <1>8, ChainsRedelivers
<1>9. CASE DispatcherStep
  BY <1>9, ChainsPoll, ChainsPublishes, ChainsAcknowledges, ChainsMark DEF DispatcherStep
<1>10. CASE UNCHANGED vars
  <2>1. /\ agg' = agg /\ log' = log /\ rec' = rec /\ cursors' = cursors /\ receipts' = receipts
        /\ seen' = seen /\ batch' = batch /\ moved' = moved /\ client' = client
        /\ adding' = adding /\ addResult' = addResult
    BY <1>10 DEF vars, outboxVars, writeVars, dispatchVars, historyVars
  <2>2. \A s \in Sources : Chained(s)'
    BY <2>1, ChainedSame DEF Chains
  <2>3. Refreshing'
    BY <2>1 DEF Chains, Refreshing, Exacting, Adding, VersionOf, Committed, Receipt, Dispatched,
                Dead, Pending, Stored, InHand, First, Refreshed
  <2> QED BY <2>2, <2>3 DEF Chains
<1> QED BY <1>1, <1>2, <1>3, <1>4, <1>5, <1>6, <1>7, <1>8, <1>9, <1>10 DEF Next

\* The chains hold initially: nothing is recorded, stored or handed out.
LEMMA ChainsInit == Init => Chains
<1> SUFFICES ASSUME Init PROVE Chains
  OBVIOUS
<1>1. /\ log = [s \in Sources |-> <<>>]
      /\ agg = [s \in Sources |-> [phase |-> "clean", version |-> NoVersion, size |-> 0]]
      /\ cursors = [s \in Sources |-> NoCursor] /\ moved = {} /\ adding = <<>> /\ client = {}
      /\ rec = [e \in EventIds |-> NoRecord] /\ seen = {} /\ batch = <<>> /\ receipts = <<>>
      /\ addResult = "none"
  BY DEF Init, OutboxInit
<1>2. DOMAIN <<>> = {}
  OBVIOUS
<1>3. Stored = {} /\ HandedOut = {} /\ Entries(receipts) = {}
  BY <1>1, <1>2 DEF Stored, Pending, Dead, NoRecord, HandedOut, Entries
<1>4. ASSUME NEW s \in Sources PROVE Chained(s)
  <2>1. /\ log[s] = <<>> /\ agg[s].phase = "clean" /\ agg[s].version = NoVersion
        /\ cursors[s].version = NoVersion
    BY <1>1 DEF NoCursor
  <2>2. LastVersion(s) = NoVersion
    BY <2>1 DEF LastVersion
  <2>3. Versioned(s) /\ MovedWhole(s) /\ AtLastCommit(s)
    BY <1>1, <1>2, <2>1, <2>2 DEF Versioned, MovedWhole, AtLastCommit
  <2> QED BY <1>3, <2>1, <2>3 DEF Chained, Linked
<1>5. Refreshing
  BY <1>1, <1>2 DEF Refreshing
<1> QED BY <1>4, <1>5 DEF Chains

\* ChainsSound: the sink sees a source in order, and what the outbox stores or
\* has delivered of a committed event carries the version of its commit and of
\* the eventful commit before it, over leaked attempts, refreshes and requeues.
THEOREM ChainsAlwaysSound == Spec => []ChainsSound
<1>1. Init => Chains
  BY ChainsInit
<1>2. Safe /\ Safe' /\ Chains /\ [Next]_vars => Chains'
  BY ChainsStep
<1>3. Safe /\ Chains => PositionsExact
  <2> SUFFICES ASSUME Safe, Chains,
                      NEW r \in seen \cup {Envelope(e) : e \in {e \in EventIds : Pending(e) \/ Dead(e)}},
                      Committed(r.id), r.id \notin moved
               PROVE  r.version = VersionOf(r.id) /\ r.previous = Predecessor(r.id)
    BY DEF PositionsExact, VersionOf
  <2>1. CASE r \in seen
    <3>1. r.id.src \in Sources /\ r \in HandedOut
      BY <2>1, HandedOutRecorded, RecordedIs DEF HandedOut
    <3> QED BY <3>1 DEF Chains, Chained, Linked, Exactly
  <2>2. CASE r \notin seen
    <3>1. PICK e \in Stored : r = Envelope(e)
      BY <2>2 DEF Stored
    <3>2. r.id = e /\ r.version = rec[e].version /\ r.previous = rec[e].previous
      BY <3>1 DEF Envelope
    <3>3. Positioned(e)
      BY RecordedIs DEF Chains, Chained, Linked, Safe, Genuine
    <3> QED BY <3>2, <3>3 DEF Positioned
  <2> QED BY <2>1, <2>2
<1> QED BY <1>1, <1>2, <1>3, SafeAlways, OrderKept, PTL DEF Spec, ChainsSound

-----------------------------------------------------------------------------
(* Once: without a fault or a re-add *)

\* The outbox and the sink know nothing yet of the commit in hand.
Unseen(s) == (\A e \in InHand(s) : ~Kept(e)) /\ cursors[s].version <= LastVersion(s)

\* The source head is at the commit in hand, owned by events of that commit.
Reached(s) == /\ cursors[s].version = agg[s].version /\ cursors[s].size = agg[s].size
              /\ cursors[s].owners \subseteq InHand(s)

\* Every event that is harvested is new to the outbox, and to the sink.
AddedOnce ==
    /\ \A s \in Sources :
          agg[s].phase = "dirty" /\ (s \in client => addResult = "rejected") => Unseen(s)
    /\ addResult = "running" =>
          /\ \A c \in Entries(adding) : /\ ~Kept(c.id) /\ c.id.src \in client
                                        /\ c.size = agg[c.id.src].size
          /\ \A s \in client : cursors[s].version <= LastVersion(s) \/ Reached(s)

\* A record that the sink has received is about to be acknowledged.
DeliveredOnce ==
    \A e \in Published : Pending(e) => /\ dpc \in {"publishing", "acking"}
                                       /\ \E i \in 1..sent : batch[i].id = e

NoFaults == faults = 0 /\ readds = 0

Once == /\ faults \in Nat /\ readds \in Nat
        /\ NoFaults => AddedOnce /\ DeliveredOnce

\* What a source and the outbox have not touched stays unseen.
LEMMA UnseenStays ==
  ASSUME Safe, NEW s \in Sources, Unseen(s), agg[s].phase # "clean",
         agg'[s].size = agg[s].size, log'[s] = log[s], cursors'[s] = cursors[s],
         \A e \in EventIds : e.src = s /\ Kept(e)' => Kept(e)
  PROVE  Unseen(s)'
<1>1. InHand(s)' = InHand(s) /\ LastVersion(s)' = LastVersion(s)
  BY DEF InHand, LastVersion
<1>2. \A e \in InHand(s) : e \in EventIds /\ e.src = s
  BY InHandEvents DEF Safe
<1> QED BY <1>1, <1>2 DEF Unseen

\* Nothing that the write side does stores or acknowledges a delivered record.
LEMMA DeliveredOnceStays ==
  ASSUME DeliveredOnce, UNCHANGED <<dispatchVars, seen>>,
         \A e \in Published : Pending(e)' => Pending(e)
  PROVE  DeliveredOnce'
<1>1. /\ dpc' = dpc /\ batch' = batch /\ sent' = sent /\ Published' = Published
  BY DEF dispatchVars, Published
<1> QED BY <1>1 DEF DeliveredOnce

\* Nothing that the dispatcher or the operator does touches the commits in hand.
LEMMA AddedOnceStays ==
  ASSUME Safe, AddedOnce, Quiet, UNCHANGED <<writeVars, cursors, addResult>>,
         \A e \in EventIds : Kept(e)' => Kept(e)
  PROVE  AddedOnce'
<1>1. /\ agg' = agg /\ log' = log /\ client' = client /\ cursors' = cursors
      /\ addResult' = "none" /\ addResult = "none"
  BY DEF writeVars, Quiet
<1>2. ASSUME NEW s \in Sources, agg'[s].phase = "dirty", s \in client' => addResult' = "rejected"
      PROVE  Unseen(s)'
  BY <1>1, <1>2, UnseenStays DEF AddedOnce
<1> QED BY <1>1, <1>2 DEF AddedOnce

\* No event of a new commit has been recorded, so none is stored or delivered.
LEMMA OnceRecord ==
  ASSUME Safe, Chains, AddedOnce, DeliveredOnce, NEW s \in Sources, NEW n \in 1..MaxSize,
         Record(s, n)
  PROVE  AddedOnce' /\ DeliveredOnce'
<1>1. /\ Quiet /\ agg[s].phase = "clean"
      /\ agg' = [agg EXCEPT ![s] = [phase |-> "dirty", version |-> agg[s].version + 1,
                                    size |-> n]]
      /\ log' = log /\ client' = client /\ cursors' = cursors /\ addResult' = addResult
      /\ rec' = rec /\ seen' = seen /\ UNCHANGED dispatchVars
  BY DEF Record, outboxVars, historyVars
<1>2. \A e : /\ Kept(e)' <=> Kept(e)
             /\ Pending(e)' <=> Pending(e)
  BY <1>1 DEF Kept, Pending, Dead, Published
<1>3. DeliveredOnce'
  BY <1>1, <1>2, DeliveredOnceStays
<1>4. ASSUME NEW t \in Sources, t # s, agg'[t].phase = "dirty",
             t \in client' => addResult' = "rejected"
      PROVE  Unseen(t)'
  <2>1. agg'[t] = agg[t]
    BY <1>1, <1>4 DEF Safe, TypeOK
  <2> QED BY <1>1, <1>2, <1>4, <2>1, UnseenStays DEF AddedOnce
<1>5. Unseen(s)'
  <2>1. /\ agg'[s].size = n /\ LastVersion(s)' = LastVersion(s)
    BY <1>1 DEF Safe, TypeOK, LastVersion
  <2>2. cursors'[s].version <= LastVersion(s)
    BY <1>1, HeadBetween DEF Chains, Chained, Versioned
  <2>3. ASSUME NEW e \in InHand(s)', Kept(e) PROVE FALSE
    <3>1. PICK m \in 0..(n - 1) : e = Id(s, Len(log[s]) + 1, m)
      BY <1>1, <2>1, <2>3 DEF InHand
    <3>2. e.src = s /\ e.commit = Len(log[s]) + 1 /\ e.seq = m
      BY <3>1 DEF Id
    <3>3. Len(log[s]) \in Nat /\ Len(log[s]) < MaxCommits
      BY Numbers DEF Record
    <3>4. e \in EventIds
      <4>1. Len(log[s]) + 1 \in 1..MaxCommits /\ m \in 0..(MaxSize - 1)
        BY <3>3, Options
      <4> QED BY <3>1, <4>1 DEF Id, EventIds
    <3>5. e \in Recorded
      BY <2>3, <3>4 DEF Safe, Genuine, Kept, Stored
    <3> QED BY <1>1, <3>2, <3>3, <3>5 DEF Recorded, Committed
  <2> QED BY <1>2, <2>1, <2>2, <2>3 DEF Unseen
<1> QED BY <1>1, <1>3, <1>4, <1>5 DEF AddedOnce, Quiet

\* A state-only change adds no events.
LEMMA OnceBump ==
  ASSUME Safe, AddedOnce, DeliveredOnce, NEW s \in Sources, Bump(s)
  PROVE  AddedOnce' /\ DeliveredOnce'
<1>1. /\ Quiet /\ agg[s].phase = "dirty"
      /\ agg' = [agg EXCEPT ![s].version = @ + 1]
      /\ log' = log /\ client' = client /\ cursors' = cursors /\ addResult' = addResult
      /\ rec' = rec /\ seen' = seen /\ UNCHANGED dispatchVars
  BY DEF Bump, outboxVars
<1>2. \A e : /\ Kept(e)' <=> Kept(e)
             /\ Pending(e)' <=> Pending(e)
  BY <1>1 DEF Kept, Pending, Dead, Published
<1>3. DeliveredOnce'
  BY <1>1, <1>2, DeliveredOnceStays
<1>4. ASSUME NEW t \in Sources, agg'[t].phase = "dirty",
             t \in client' => addResult' = "rejected"
      PROVE  Unseen(t)'
  <2>1. agg'[t].size = agg[t].size /\ agg[t].phase = "dirty"
    BY <1>1, <1>4 DEF Safe, TypeOK
  <2> QED BY <1>1, <1>2, <1>4, <2>1, UnseenStays DEF AddedOnce
<1> QED BY <1>1, <1>3, <1>4 DEF AddedOnce, Quiet

\* What withCommit harvests, the outbox and the sink have not seen.
LEMMA OnceHarvest ==
  ASSUME Safe, AddedOnce, DeliveredOnce, NEW s \in Sources, NEW t \in Sources, Harvest(s, t)
  PROVE  AddedOnce' /\ DeliveredOnce'
<1> DEFINE x == Candidates(s)
           y == IF s = t THEN <<>> ELSE Candidates(t)
           b == x \o y
<1>1. /\ Quiet /\ client = {} /\ agg[s].phase = "dirty" /\ agg[t].phase = "dirty"
      /\ BeginAdd(b) /\ client' = {s, t} /\ agg' = agg /\ log' = log
      /\ seen' = seen /\ UNCHANGED dispatchVars
  BY DEF Harvest, historyVars
<1>2. ASSUME NEW u \in {s, t}
      PROVE  /\ Candidates(u) \in Seq(Candidate)
             /\ \A c \in Entries(Candidates(u)) : /\ c.id \in InHand(u) /\ c.id.src = u
                                                  /\ c.size = agg[u].size
  <2>1. u \in Sources /\ agg[u].phase # "clean"
    BY <1>1
  <2>2. /\ Candidates(u) \in Seq(Candidate) /\ Len(Candidates(u)) = agg[u].size
        /\ \A i \in 1..agg[u].size :
               Candidates(u)[i] = [id |-> Id(u, Len(log[u]) + 1, i - 1),
                                   version |-> agg[u].version, size |-> agg[u].size]
        /\ {c.id : c \in Entries(Candidates(u))} = InHand(u)
    BY <2>1, CandidatesAre DEF Safe
  <2>3. \A e \in InHand(u) : e.src = u
    BY <2>1, InHandEvents DEF Safe
  <2>4. DOMAIN Candidates(u) = 1..agg[u].size
    BY <2>2, LenProperties
  <2>5. \A c \in Entries(Candidates(u)) : c.size = agg[u].size
    <3>1. ASSUME NEW i \in 1..agg[u].size, NEW c, c = Candidates(u)[i]
          PROVE  c.size = agg[u].size
      <4>1. c = [id |-> Id(u, Len(log[u]) + 1, i - 1),
                 version |-> agg[u].version, size |-> agg[u].size]
        BY <2>2, <3>1
      <4> QED BY <4>1
    <3>2. \A c \in Entries(Candidates(u)) : \E i \in 1..agg[u].size : c = Candidates(u)[i]
      BY <2>4 DEF Entries
    <3> QED BY <3>1, <3>2
  <2> QED BY <2>2, <2>3, <2>5
<1>3. x \in Seq(Candidate) /\ y \in Seq(Candidate) /\ Entries(<<>>) = {}
  BY <1>2, EmptySeq DEF Entries
<1> HIDE DEF x, y
<1>4. b \in Seq(Candidate) /\ Entries(b) = Entries(x) \cup Entries(y)
  BY <1>3, EntriesConcat
<1>5. \A c \in Entries(b) : \E u \in {s, t} : /\ c.id \in InHand(u) /\ c.id.src = u
                                              /\ c.size = agg[u].size
  BY <1>2, <1>3, <1>4 DEF x, y
<1> HIDE DEF b
<1>6. /\ \/ addResult' = "running" /\ adding' = b
         \/ addResult' = "rejected" /\ adding' = <<>>
      /\ rec' = rec /\ cursors' = cursors
  BY <1>1, <1>4, Begins
<1>7. \A e : /\ Kept(e)' <=> Kept(e)
             /\ Pending(e)' <=> Pending(e)
  BY <1>1, <1>6 DEF Kept, Pending, Dead, Published
<1>8. DeliveredOnce'
  BY <1>1, <1>7, DeliveredOnceStays
<1>9. \A u \in Sources : agg[u].phase = "dirty" => Unseen(u) /\ Unseen(u)'
  <2> SUFFICES ASSUME NEW u \in Sources, agg[u].phase = "dirty" PROVE Unseen(u) /\ Unseen(u)'
    OBVIOUS
  <2>1. Unseen(u)
    BY <1>1 DEF AddedOnce
  <2> QED BY <1>1, <1>6, <1>7, <2>1, UnseenStays
<1>10. ASSUME NEW c \in Entries(b)
       PROVE  ~Kept(c.id)' /\ c.id.src \in client' /\ c.size = agg[c.id.src].size
  BY <1>1, <1>5, <1>7, <1>9 DEF Unseen
<1>11. \A c \in Entries(adding)' : /\ ~Kept(c.id)' /\ c.id.src \in client'
                                   /\ c.size = agg'[c.id.src].size
  <2>1. Entries(<<>>) = {}
    BY <1>3
  <2>2. \A c \in Entries(adding)' : c \in Entries(b)
    BY <1>6, <2>1 DEF Entries
  <2> QED BY <1>1, <1>10, <2>2
<1>12. \A u \in client' : cursors'[u].version <= LastVersion(u)'
  BY <1>1, <1>9 DEF Unseen
<1> QED BY <1>1, <1>8, <1>9, <1>11, <1>12 DEF AddedOnce

\* The transaction goes on with what it added, or it keeps what no one has seen.
LEMMA OnceSettles ==
  ASSUME Safe, AddedOnce, DeliveredOnce, AddSettles
  PROVE  AddedOnce' /\ DeliveredOnce'
<1>1. /\ addResult \in {"added", "rejected"} /\ addResult' = "none" /\ client' = {}
      /\ IF client # {} /\ addResult = "added"
         THEN agg' = [s \in Sources |-> IF s \in client
                                        THEN [agg[s] EXCEPT !.phase = "added"] ELSE agg[s]]
         ELSE agg' = agg
      /\ log' = log /\ cursors' = cursors /\ rec' = rec /\ seen' = seen /\ UNCHANGED dispatchVars
  BY DEF AddSettles, historyVars
<1>2. \A e : /\ Kept(e)' <=> Kept(e)
             /\ Pending(e)' <=> Pending(e)
  BY <1>1 DEF Kept, Pending, Dead, Published
<1>3. DeliveredOnce'
  BY <1>1, <1>2, DeliveredOnceStays
<1>4. ASSUME NEW t \in Sources, agg'[t].phase = "dirty" PROVE Unseen(t)'
  <2>1. agg'[t] = agg[t] /\ (t \in client => addResult = "rejected")
    <3>1. CASE client # {} /\ addResult = "added"
      <4>1. t \notin client
        BY <1>1, <1>4, <3>1 DEF Safe, TypeOK
      <4> QED BY <1>1, <3>1, <4>1
    <3> QED BY <1>1, <3>1
  <2> QED BY <1>1, <1>2, <1>4, <2>1, UnseenStays DEF AddedOnce
<1> QED BY <1>1, <1>3, <1>4 DEF AddedOnce

\* The sources of the transaction are clean again, the others as before.
LEMMA OnceCommit ==
  ASSUME Safe, AddedOnce, DeliveredOnce, NEW g \in open, CommitTx(g)
  PROVE  AddedOnce' /\ DeliveredOnce'
<1>1. SettleTx(g, "clean")
  BY DEF CommitTx
<1>2. /\ rec' = rec /\ cursors' = cursors /\ addResult' = addResult /\ Quiet
      /\ client' = {} /\ client = {} /\ seen' = seen
      /\ \A s \in g : agg'[s].phase = "clean"
      /\ UNCHANGED dispatchVars
  BY <1>1, Settles DEF dispatchVars
<1>3. \A s \in Sources \ g : log'[s] = log[s] /\ agg'[s] = agg[s]
  BY CommitLogs
<1>4. \A e : /\ Kept(e)' <=> Kept(e)
             /\ Pending(e)' <=> Pending(e)
  BY <1>2 DEF Kept, Pending, Dead, Published
<1>5. DeliveredOnce'
  BY <1>2, <1>4, DeliveredOnceStays
<1>6. ASSUME NEW t \in Sources, agg'[t].phase = "dirty" PROVE Unseen(t)'
  <2>1. t \in Sources \ g
    BY <1>2, <1>6
  <2> QED BY <1>2, <1>3, <1>4, <1>6, <2>1, UnseenStays DEF AddedOnce
<1> QED BY <1>2, <1>5, <1>6 DEF AddedOnce, Quiet

\* The candidate that is next was not seen, so it is not rejected: its source
\* head is behind it, or is at the same commit and owned by other events of it.
LEMMA NextIsNew ==
  ASSUME Safe, Chains, AddedOnce, addResult = "running", adding # <<>>,
         NEW c, c = Head(adding), NEW s, s = c.id.src
  PROVE  /\ c.id \in EventIds /\ s \in client /\ s \in Sources /\ agg[s].phase = "dirty"
         /\ c.id \in InHand(s) /\ ~Kept(c.id) /\ ~Pending(c.id) /\ ~Dead(c.id)
         /\ ~Dispatched(c.id) /\ c.version = agg[s].version /\ c.size = agg[s].size
         /\ cursors[s].version < c.version \/ Reached(s)
         /\ ~Stale(c) /\ ~Conflicts(cursors[s], c)
<1>1. /\ c.id \in EventIds /\ s \in Sources /\ c.id \in Recorded /\ c.version \in Nat
      /\ c.version = VersionOf(c.id) /\ (s \in client <=> ~Committed(c.id))
      /\ s \in client => agg[s].phase = "dirty"
  BY NextIs
<1>2. c \in Entries(adding)
  <2>1. c = adding[1] /\ Len(adding) \in Nat \ {0} /\ DOMAIN adding = 1..Len(adding)
    BY TakesOne DEF Safe, Shapes
  <2>2. 1 \in DOMAIN adding
    BY <2>1
  <2> QED BY <2>1, <2>2 DEF Entries
<1>3. ~Kept(c.id) /\ s \in client /\ c.size = agg[s].size
  BY <1>2 DEF AddedOnce
<1>4. ~Pending(c.id) /\ ~Dead(c.id) /\ c.id \notin Published
  BY <1>3 DEF Kept
<1>5. ~Dispatched(c.id)
  BY <1>4 DEF Dispatched, Receipt, Safe, Dispatching
<1>6. c.id \in InHand(s)
  BY <1>1, <1>3, RecordedIs
<1>7. c.version = agg[s].version /\ LastVersion(s) < c.version /\ LastVersion(s) \in Nat
  BY <1>1, <1>3, VersionPlaces, Numbers DEF Chains, Chained
<1>8. cursors[s].version \in Nat /\ (cursors[s].version < c.version \/ Reached(s))
  <2>1. cursors[s].version <= LastVersion(s) \/ Reached(s)
    BY <1>3 DEF AddedOnce
  <2> QED BY <1>1, <1>7, <2>1, Numbers
<1>9. Reached(s) => ~Owned(cursors[s], c)
  <2> SUFFICES ASSUME Reached(s), NEW o \in cursors[s].owners, o.seq = c.id.seq
               PROVE  o = c.id
    BY DEF Owned
  <2>1. o \in InHand(s)
    BY DEF Reached
  <2>2. \A e \in InHand(s) : e \in EventIds /\ e.src = s /\ e.commit = Len(log[s]) + 1
    BY <1>1, <1>3, InHandEvents DEF Safe
  <2> QED BY <1>6, <2>1, <2>2 DEF EventIds
<1>10. ~Stale(c)
  BY SMTT(40), <1>1, <1>4, <1>7, <1>8 DEF Stale, Reached
<1>11. ~Conflicts(cursors[s], c)
  BY <1>1, <1>3, <1>7, <1>8, <1>9 DEF Conflicts, Reached
<1> QED BY <1>1, <1>3, <1>4, <1>5, <1>6, <1>7, <1>8, <1>10, <1>11

\* add() stores a candidate that was not delivered, and the source head is then
\* at the commit in hand.
LEMMA OnceRecords ==
  ASSUME Safe, Chains, AddedOnce, DeliveredOnce, AddStep, addResult = "running",
         adding # <<>>, AddRecords(Head(adding))
  PROVE  AddedOnce' /\ DeliveredOnce'
<1> DEFINE c == Head(adding)
           s == c.id.src
           k == CursorAfter(c)
<1>1. /\ c.id \in EventIds /\ s \in client /\ s \in Sources /\ agg[s].phase = "dirty"
      /\ c.id \in InHand(s) /\ ~Kept(c.id) /\ ~Pending(c.id)
      /\ c.version = agg[s].version /\ c.size = agg[s].size
      /\ cursors[s].version < c.version \/ Reached(s)
  BY NextIsNew
<1>2. /\ \E x : rec' = [rec EXCEPT ![c.id] = x]
      /\ cursors' = [cursors EXCEPT ![s] = k]
      /\ adding' = Tail(adding) /\ addResult' = addResult
  BY DEF AddRecords
<1>3. k.version = agg[s].version /\ k.size = agg[s].size /\ k.owners \subseteq InHand(s)
  <2>1. CASE cursors[s].version = c.version
    <3>1. Reached(s)
      BY SMTT(40), <1>1, <2>1, Options DEF Safe, TypeOK
    <3>2. k = [cursors[s] EXCEPT !.owners = @ \cup {c.id}]
      BY <1>1, <2>1 DEF CursorAfter
    <3>3. /\ k.version = cursors[s].version /\ k.size = cursors[s].size
          /\ k.owners = cursors[s].owners \cup {c.id}
      <4>1. \A h \in [version : 0..MaxVersion, previous : 0..MaxVersion,
                      size : 0..MaxSize, owners : SUBSET EventIds] :
               \A j : j = [h EXCEPT !.owners = @ \cup {c.id}]
                     => /\ j.version = h.version /\ j.size = h.size
                        /\ j.owners = h.owners \cup {c.id}
        OBVIOUS
      <4>2. cursors[s] \in [version : 0..MaxVersion, previous : 0..MaxVersion,
                            size : 0..MaxSize, owners : SUBSET EventIds]
        BY <1>1 DEF Safe, TypeOK
      <4> HIDE DEF k, c, s
      <4> QED BY <3>2, <4>1, <4>2
    <3> QED BY <1>1, <3>1, <3>3 DEF Reached
  <2>2. CASE cursors[s].version # c.version
    <3>1. k = [version |-> c.version, previous |-> PreviousOf(c),
               size |-> c.size, owners |-> {c.id}]
      BY <1>1, <2>2 DEF CursorAfter
    <3> QED BY <1>1, <3>1
  <2> QED BY <2>1, <2>2
<1>4. /\ \A e : e \in Adding' => e \in Adding /\ e # c.id
      /\ \A d \in Entries(adding)' : d \in Entries(adding)
  <2>1. Adding = {c.id} \cup Adding' /\ c.id \notin Adding'
    BY <1>2, NextIs
  <2>2. /\ Tail(adding) \in Seq(Candidate) /\ Len(Tail(adding)) = Len(adding) - 1
        /\ \A i \in 1..(Len(adding) - 1) : Tail(adding)[i] = adding[i + 1]
        /\ Len(adding) \in Nat \ {0} /\ DOMAIN adding = 1..Len(adding)
    BY TakesOne DEF Safe, Shapes
  <2>3. DOMAIN adding' = 1..(Len(adding) - 1)
    BY <1>2, <2>2, LenProperties
  <2>4. \A i \in DOMAIN adding' : adding'[i] \in Entries(adding)
    <3> SUFFICES ASSUME NEW i \in 1..(Len(adding) - 1) PROVE adding[i + 1] \in Entries(adding)
      BY <1>2, <2>2, <2>3
    <3>1. i + 1 \in DOMAIN adding
      BY <2>2
    <3> QED BY <3>1 DEF Entries
  <2>5. \A d \in Entries(adding)' : d \in Entries(adding)
    BY <2>4 DEF Entries
  <2> QED BY <2>1, <2>5
<1> HIDE DEF c, k
<1>5. /\ agg' = agg /\ log' = log /\ client' = client /\ seen' = seen /\ UNCHANGED dispatchVars
  BY AddFrame DEF dispatchVars
<1>6. \A e \in EventIds : e # c.id => /\ Kept(e)' <=> Kept(e)
                                      /\ Pending(e)' <=> Pending(e)
  BY <1>2, <1>5 DEF Kept, Pending, Dead, Published, Safe, TypeOK
<1>7. DeliveredOnce'
  <2>1. c.id \notin Published /\ Published \subseteq EventIds
    BY <1>1 DEF Kept, Safe, Genuine, Recorded
  <2> QED BY <1>5, <1>6, <2>1, DeliveredOnceStays
<1>8. ASSUME NEW t \in Sources, agg'[t].phase = "dirty", t \notin client PROVE Unseen(t)'
  <2>1. Unseen(t) /\ t # s
    BY <1>1, <1>5, <1>8 DEF AddedOnce
  <2>2. cursors'[t] = cursors[t]
    BY <1>2, <2>1 DEF Safe, TypeOK
  <2>3. \A e \in EventIds : e.src = t /\ Kept(e)' => Kept(e)
    BY <1>6, <2>1
  <2> QED BY <1>5, <1>8, <2>1, <2>2, <2>3, UnseenStays
<1>9. \A d \in Entries(adding)' : /\ ~Kept(d.id)' /\ d.id.src \in client'
                                  /\ d.size = agg'[d.id.src].size
  <2> SUFFICES ASSUME NEW d \in Entries(adding)'
               PROVE  /\ ~Kept(d.id)' /\ d.id.src \in client' /\ d.size = agg'[d.id.src].size
    OBVIOUS
  <2>1. d \in Entries(adding) /\ d.id # c.id /\ d.id \in EventIds
    <3>1. d.id \in Adding'
      BY DEF Entries, Adding
    <3>2. d \in Entries(adding) /\ d.id # c.id
      BY <1>4, <3>1
    <3> QED BY <3>2, AddingEvents DEF Entries, Safe
  <2>2. ~Kept(d.id)'
    <3>1. \A e \in EventIds : e # c.id => (Kept(e)' <=> Kept(e))
      BY <1>6
    <3>2. \A e \in EventIds : e # c.id /\ ~Kept(e) => ~Kept(e)'
      BY <3>1
    <3> QED BY <2>1, <3>2 DEF AddedOnce
  <2> QED BY <1>5, <2>1, <2>2 DEF AddedOnce
<1>10. ASSUME NEW t \in client' PROVE cursors'[t].version <= LastVersion(t)' \/ Reached(t)'
  <2>1. InHand(t)' = InHand(t) /\ LastVersion(t)' = LastVersion(t) /\ t \in client /\ t \in Sources
    BY <1>5, <1>10 DEF InHand, LastVersion, Safe, TypeOK
  <2>2. CASE t = s
    <3>1. cursors'[s] = k
      BY <1>1, <1>2 DEF Safe, TypeOK
    <3> QED BY <1>3, <1>5, <2>1, <2>2, <3>1 DEF Reached
  <2>3. CASE t # s
    <3>1. cursors'[t] = cursors[t]
      BY <1>2, <2>1, <2>3 DEF Safe, TypeOK
    <3> QED BY <1>5, <2>1, <3>1 DEF AddedOnce, Reached
  <2> QED BY <2>2, <2>3
<1>11. addResult' # "rejected"
  BY <1>2
<1> QED BY <1>5, <1>7, <1>8, <1>9, <1>10, <1>11 DEF AddedOnce

\* A step of add().
LEMMA OnceAdd ==
  ASSUME Safe, Chains, AddedOnce, DeliveredOnce, AddStep
  PROVE  AddedOnce' /\ DeliveredOnce'
<1>1. CASE AddReturns
  <2>1. /\ agg' = agg /\ log' = log /\ client' = client /\ seen' = seen /\ UNCHANGED dispatchVars
    BY AddFrame DEF dispatchVars
  <2>2. /\ rec' = rec /\ cursors' = cursors /\ addResult = "running" /\ addResult' = "added"
    BY <1>1 DEF AddReturns
  <2>3. \A e : /\ Kept(e)' <=> Kept(e)
               /\ Pending(e)' <=> Pending(e)
    BY <2>1, <2>2 DEF Kept, Pending, Dead, Published
  <2>4. DeliveredOnce'
    BY <2>1, <2>3, DeliveredOnceStays
  <2>5. ASSUME NEW t \in Sources, agg'[t].phase = "dirty", t \notin client PROVE Unseen(t)'
    BY <2>1, <2>2, <2>3, <2>5, UnseenStays DEF AddedOnce
  <2> QED BY <2>1, <2>2, <2>4, <2>5 DEF AddedOnce
<1>2. CASE AddMessage
  <2> DEFINE c == Head(adding)
  <2>1. /\ addResult = "running" /\ adding # <<>>
        /\ AddRefreshesReceipt(c) \/ AddRequeues(c) \/ AddThrows(c) \/ AddRecords(c)
    BY <1>2 DEF AddMessage
  <2>2. ~Dispatched(c.id) /\ ~Dead(c.id) /\ ~Stale(c) /\ ~Conflicts(cursors[c.id.src], c)
    BY <2>1, NextIsNew
  <2>3. AddRecords(c)
    BY <2>1, <2>2 DEF AddRefreshesReceipt, AddRequeues, AddThrows
  <2> QED BY <2>1, <2>3, OnceRecords
<1> QED BY <1>1, <1>2 DEF AddStep

\* An operator delivers a dead letter, which leaves the outbox with that.
LEMMA OnceRedelivers ==
  ASSUME Safe, AddedOnce, DeliveredOnce, NEW e \in EventIds, ManualRedeliver(e)
  PROVE  AddedOnce' /\ DeliveredOnce'
<1>1. /\ Quiet /\ Dead(e) /\ seen' = seen \cup {Envelope(e)} /\ MarkDispatched(<<e>>)
      /\ UNCHANGED <<writeVars, dispatchVars>>
  BY DEF ManualRedeliver
<1>2. <<e>> \in Seq(EventIds) /\ Entries(<<e>>) = {e}
  <2>1. DOMAIN <<e>> = {1} /\ <<e>>[1] = e /\ <<e>> \in Seq(EventIds)
    OBVIOUS
  <2> QED BY <2>1 DEF Entries
<1>3. /\ \A d \in EventIds : /\ Pending(d)' <=> Pending(d) /\ d # e
                             /\ Dead(d)' <=> Dead(d) /\ d # e
      /\ cursors' = cursors /\ addResult' = addResult
  BY <1>1, <1>2, MarkKeeps DEF Safe
<1>4. Published' = Published \cup {e}
  <2>1. Envelope(e).id = e
    BY DEF Envelope
  <2> QED BY <1>1, <2>1 DEF Published
<1>5. \A d \in EventIds : Kept(d)' => Kept(d)
  BY <1>1, <1>3, <1>4 DEF Kept
<1>6. AddedOnce'
  BY <1>1, <1>3, <1>5, AddedOnceStays
<1>7. ASSUME NEW d \in Published', Pending(d)'
      PROVE  dpc' \in {"publishing", "acking"} /\ \E i \in 1..sent' : batch'[i].id = d
  <2>1. Published' \subseteq EventIds
    BY <1>4 DEF Safe, Genuine, Recorded
  <2>2. d \in Published /\ Pending(d)
    BY <1>3, <1>4, <1>7, <2>1
  <2> QED BY <1>1, <2>2 DEF DeliveredOnce, dispatchVars
<1> QED BY <1>6, <1>7 DEF DeliveredOnce

\* Between two passes, and while a failure is reported, the outbox stores
\* nothing that was delivered.
LEMMA NoneLeft ==
  ASSUME DeliveredOnce, dpc \in {"idle", "marking"} \/ sent = 0, NEW e \in Published
  PROVE  ~Pending(e)
<1>1. sent = 0 => 1..sent = {}
  OBVIOUS
<1> QED BY <1>1 DEF DeliveredOnce

\* A batch begins with records that were not delivered.
LEMMA OncePoll ==
  ASSUME Safe, AddedOnce, DeliveredOnce, Poll
  PROVE  AddedOnce' /\ DeliveredOnce'
<1>1. /\ Quiet /\ dpc = "idle" /\ UNCHANGED <<outboxVars, writeVars, seen>>
  BY DEF Poll
<1>2. /\ rec' = rec /\ cursors' = cursors /\ addResult' = addResult
      /\ Published' = Published
  BY <1>1 DEF outboxVars, Published
<1>3. \A e : /\ Kept(e)' <=> Kept(e)
             /\ Pending(e)' <=> Pending(e)
  BY <1>2 DEF Kept, Pending, Dead
<1>4. AddedOnce'
  BY <1>1, <1>2, <1>3, AddedOnceStays
<1> QED BY <1>1, <1>2, <1>3, <1>4, NoneLeft DEF DeliveredOnce

\* The record that is delivered joins the delivered prefix.
LEMMA OncePublishes ==
  ASSUME Safe, AddedOnce, DeliveredOnce, PublishSucceeds
  PROVE  AddedOnce' /\ DeliveredOnce'
<1>1. /\ Quiet /\ dpc = "publishing" /\ seen' = seen \cup {batch[sent + 1]}
      /\ sent' = sent + 1 /\ dpc' \in {"publishing", "acking"} /\ batch' = batch
      /\ UNCHANGED <<outboxVars, writeVars>>
  BY DEF PublishSucceeds
<1>2. /\ sent \in Nat /\ Pending(batch[sent + 1].id)
  BY <1>1, NextIsPending
<1>3. /\ rec' = rec /\ cursors' = cursors /\ addResult' = addResult
      /\ Published' = Published \cup {batch[sent + 1].id}
  BY <1>1 DEF outboxVars, Published
<1>4. \A e : /\ Pending(e)' <=> Pending(e)
             /\ Dead(e)' <=> Dead(e)
  BY <1>3 DEF Pending, Dead
<1>5. AddedOnce'
  <2>1. \A e \in EventIds : Kept(e)' => Kept(e)
    BY <1>2, <1>3, <1>4 DEF Kept
  <2> QED BY <1>1, <1>3, <2>1, AddedOnceStays
<1>6. ASSUME NEW e \in Published', Pending(e)' PROVE \E i \in 1..sent' : batch'[i].id = e
  <2>1. CASE e = batch[sent + 1].id
    <3>1. sent + 1 \in 1..sent'
      BY <1>1, <1>2
    <3> QED BY <1>1, <2>1, <3>1
  <2>2. CASE e # batch[sent + 1].id
    <3>1. PICK i \in 1..sent : batch[i].id = e
      BY <1>3, <1>4, <1>6, <2>2 DEF DeliveredOnce
    <3>2. i \in 1..sent'
      BY <1>1, <1>2
    <3> QED BY <1>1, <3>1, <3>2
  <2> QED BY <2>1, <2>2
<1> QED BY <1>1, <1>5, <1>6 DEF DeliveredOnce

\* A rejection stops the batch: what was delivered is acknowledged first.
LEMMA OnceRejected ==
  ASSUME Safe, AddedOnce, DeliveredOnce, PublishRejected
  PROVE  AddedOnce' /\ DeliveredOnce'
<1>1. /\ Quiet /\ UNCHANGED <<outboxVars, writeVars>> /\ seen' = seen
      /\ IF sent > 0 THEN dpc' = "acking" /\ UNCHANGED <<batch, sent>>
                     ELSE dpc' = "marking" /\ UNCHANGED <<batch, sent>>
      /\ sent \in Nat
  BY NextIsPending DEF PublishRejected, StopPublishing
<1>2. /\ rec' = rec /\ cursors' = cursors /\ addResult' = addResult
      /\ Published' = Published
  BY <1>1 DEF outboxVars, Published
<1>3. \A e : /\ Kept(e)' <=> Kept(e)
             /\ Pending(e)' <=> Pending(e)
  BY <1>2 DEF Kept, Pending, Dead
<1>4. AddedOnce'
  BY <1>1, <1>2, <1>3, AddedOnceStays
<1>5. sent > 0 \/ sent = 0
  BY <1>1
<1> QED BY <1>1, <1>2, <1>3, <1>4, <1>5, NoneLeft DEF DeliveredOnce

\* The acknowledgement takes the delivered records out of the outbox.
LEMMA OnceAcks ==
  ASSUME Safe, AddedOnce, DeliveredOnce, Ack
  PROVE  AddedOnce' /\ DeliveredOnce'
<1>1. Quiet /\ MarkDispatched(Delivered) /\ UNCHANGED writeVars /\ seen' = seen
  BY DEF Ack
<1>2. /\ \A e \in EventIds : /\ Pending(e)' <=> Pending(e) /\ e \notin Entries(Delivered)
                             /\ Dead(e)' <=> Dead(e) /\ e \notin Entries(Delivered)
      /\ cursors' = cursors /\ addResult' = addResult
  BY <1>1, DeliveredIs, MarkKeeps DEF Safe
<1>3. Published' = Published /\ Published \subseteq EventIds
  BY <1>1 DEF Published, Safe, Genuine, Recorded
<1>4. AddedOnce'
  <2>1. \A e \in EventIds : Kept(e)' => Kept(e)
    BY <1>2, <1>3 DEF Kept
  <2> QED BY <1>1, <1>2, <2>1, AddedOnceStays
<1>5. \A e \in Published' : ~Pending(e)'
  BY <1>2, <1>3, DeliveredIs DEF DeliveredOnce
<1> QED BY <1>4, <1>5 DEF DeliveredOnce

\* The failure of a record that stays, or is buried, is counted.
LEMMA OnceMarks ==
  ASSUME Safe, AddedOnce, DeliveredOnce, Mark
  PROVE  AddedOnce' /\ DeliveredOnce'
<1>1. /\ Quiet /\ dpc = "marking" /\ MarkFailed(FailedId) /\ UNCHANGED writeVars /\ seen' = seen
      /\ FailedId \in EventIds /\ Pending(FailedId)
  BY FailedIsPending DEF Mark, Safe, Dispatching
<1>2. /\ \E x : rec' = [rec EXCEPT ![FailedId] = x]
      /\ cursors' = cursors /\ addResult' = addResult
  BY <1>1 DEF MarkFailed, addVars
<1>3. Published' = Published /\ Published \subseteq EventIds
  BY <1>1 DEF Published, Safe, Genuine, Recorded
<1>4. \A e \in EventIds : e # FailedId => /\ Pending(e)' <=> Pending(e)
                                          /\ Dead(e)' <=> Dead(e)
  BY <1>1, <1>2 DEF Pending, Dead, Safe, TypeOK
<1>5. AddedOnce'
  <2>1. \A e \in EventIds : Kept(e)' => Kept(e)
    BY <1>1, <1>3, <1>4 DEF Kept
  <2> QED BY <1>1, <1>2, <2>1, AddedOnceStays
<1>6. \A e \in Published' : ~Pending(e)'
  <2>1. FailedId \notin Published
    BY <1>1, NoneLeft
  <2> QED BY <1>1, <1>3, <1>4, <2>1, NoneLeft
<1> QED BY <1>5, <1>6 DEF DeliveredOnce

\* Every step keeps the invariant; one with a fault or a re-add has nothing to keep.
LEMMA OnceStep == Safe /\ Chains /\ Once /\ [Next]_vars => Once'
<1> SUFFICES ASSUME Safe, Chains, Once, [Next]_vars PROVE Once'
  OBVIOUS
<1>1. CASE faults' = faults + 1 \/ readds' = readds + 1
  <2>1. (faults' = faults \/ faults' = faults + 1) /\ (readds' = readds \/ readds' = readds + 1)
    BY <1>1 DEF Next, DispatcherStep, Record, Bump, Harvest, AddStep, AddSettles, CommitTx,
                RollbackTx, SettleTx, Readd, ManualRedeliver, Poll, PublishSucceeds,
                PublishRejected, PublishInterrupted, StopPublishing, Ack, AckFails, Mark, MarkFails,
                Fault, NoFault, vars
  <2> QED BY <1>1, <2>1 DEF Once, NoFaults
<1>2. CASE ~(faults' = faults + 1 \/ readds' = readds + 1)
  <2>1. /\ faults' = faults /\ readds' = readds
        /\ \/ \E s \in Sources, n \in 1..MaxSize : Record(s, n)
           \/ \E s \in Sources : Bump(s)
           \/ \E s, t \in Sources : Harvest(s, t)
           \/ AddStep
           \/ AddSettles
           \/ \E g \in open : CommitTx(g)
           \/ \E e \in EventIds : ManualRedeliver(e)
           \/ Poll \/ PublishSucceeds \/ PublishRejected \/ Ack \/ Mark
           \/ UNCHANGED vars
    <3>1. ~(\E g \in open : RollbackTx(g)) /\ ~(\E d, e \in EventIds : Readd(d, e))
          /\ ~(\E reached \in BOOLEAN : PublishInterrupted(reached))
          /\ ~(\E applied \in BOOLEAN : AckFails(applied)) /\ ~MarkFails
      BY <1>2 DEF RollbackTx, Readd, PublishInterrupted, AckFails, MarkFails, Fault
    <3>2. \/ \E s \in Sources, n \in 1..MaxSize : Record(s, n)
          \/ \E s \in Sources : Bump(s)
          \/ \E s, t \in Sources : Harvest(s, t)
          \/ AddStep
          \/ AddSettles
          \/ \E g \in open : CommitTx(g)
          \/ \E e \in EventIds : ManualRedeliver(e)
          \/ Poll \/ PublishSucceeds \/ PublishRejected \/ Ack \/ Mark
          \/ UNCHANGED vars
      BY <3>1 DEF Next, DispatcherStep
    <3>3. faults' = faults /\ readds' = readds
      BY <3>2 DEF Record, Bump, Harvest, AddStep, AddSettles, CommitTx, SettleTx,
                  ManualRedeliver, Poll, PublishSucceeds, PublishRejected, StopPublishing,
                  Ack, Mark, NoFault, vars
    <3> QED BY <3>2, <3>3
  <2> SUFFICES ASSUME AddedOnce, DeliveredOnce PROVE AddedOnce' /\ DeliveredOnce'
    BY <2>1 DEF Once, NoFaults
  <2>2. CASE UNCHANGED vars
    <3>1. /\ UNCHANGED <<rec, seen, cursors, adding, addResult, agg, log, client, dpc, batch, sent>>
      BY <2>2 DEF vars, outboxVars, writeVars, dispatchVars, historyVars
    <3> QED BY <3>1 DEF AddedOnce, DeliveredOnce, Unseen, Reached, InHand, LastVersion, Kept,
                        Pending, Dead, Published, Entries
  <2> QED BY <2>1, <2>2, OnceRecord, OnceBump, OnceHarvest, OnceAdd, OnceSettles, OnceCommit,
             OnceRedelivers, OncePoll, OncePublishes, OnceRejected, OnceAcks, OnceMarks
<1> QED BY <1>1, <1>2

\* OnceWithoutFaults: until something fails or an operator adds an event again,
\* the record that the dispatcher publishes has not reached the sink before.
THEOREM DeliveredAtMostOnce == Spec => OnceWithoutFaults
<1>1. Init => Once
  <2> SUFFICES ASSUME Init PROVE Once
    OBVIOUS
  <2>1. /\ agg = [s \in Sources |-> [phase |-> "clean", version |-> NoVersion, size |-> 0]]
        /\ addResult = "none" /\ seen = {} /\ faults = 0 /\ readds = 0
    BY DEF Init, OutboxInit
  <2>2. AddedOnce /\ DeliveredOnce
    BY <2>1 DEF AddedOnce, DeliveredOnce, Published
  <2> QED BY <2>1, <2>2 DEF Once
<1>2. Safe /\ Chains /\ Once /\ [Next]_vars => Once'
  BY OnceStep
<1>3. Safe /\ Once
      => \A i \in DOMAIN batch :
            (dpc = "publishing" /\ sent' = i /\ sent = i - 1 /\ batch[i].id \in Published)
            => faults > 0 \/ readds > 0
  <2> SUFFICES ASSUME Safe, Once, NEW i \in DOMAIN batch, dpc = "publishing",
                      sent = i - 1, batch[i].id \in Published, ~(faults > 0 \/ readds > 0)
               PROVE  FALSE
    OBVIOUS
  <2>1. DeliveredOnce
    BY DEF Once, NoFaults
  <2>2. i \in 1..Len(batch) /\ i = sent + 1 /\ Len(batch) \in Nat /\ sent \in Nat
    BY BatchEvents, NextIsPending DEF Safe
  <2>3. PICK j \in 1..sent : batch[j].id = batch[i].id
    BY <2>1, <2>2, NextIsPending DEF DeliveredOnce
  <2>4. j \in 1..Len(batch) /\ j # i
    BY <2>2
  <2> QED BY <2>2, <2>3, <2>4 DEF Safe, Dispatching
<1>4. Init => Chains
  BY ChainsInit
<1>5. Safe /\ Safe' /\ Chains /\ [Next]_vars => Chains'
  BY ChainsStep
<1> QED BY <1>1, <1>2, <1>3, <1>4, <1>5, SafeAlways, PTL DEF Spec, OnceWithoutFaults
=============================================================================
