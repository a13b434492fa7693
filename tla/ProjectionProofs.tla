-------------------------- MODULE ProjectionProofs -------------------------
(***************************************************************************)
(* What a projection has applied, for every set of projections, instances, *)
(* sources and bounds.                                                     *)
(*                                                                         *)
(* The heart is one relation, Follows(s, m, a): the envelopes s of address *)
(* a continue a chain whose last receipt is m.  Source chains follow the   *)
(* empty checkpoint, a proved batch follows the checkpoints it was proved  *)
(* against, and two that follow each other make one.                       *)
(***************************************************************************)
EXTENDS Projection, OrderedFilterProofs, FiniteSetTheorems

-----------------------------------------------------------------------------
(* Positions and receipts *)

\* A receipt is a checkpoint.
LEMMA ReceiptExists ==
  ASSUME NEW e
  PROVE  Receipt(e) # NoCheckpoint /\ Receipt(e).pos = e.pos
<1>1. DOMAIN Receipt(e) = {"id", "pos"} /\ DOMAIN NoCheckpoint = {"id"}
  BY DEF Receipt, NoCheckpoint
<1>2. DOMAIN Receipt(e) # DOMAIN NoCheckpoint
  BY <1>1
<1> QED BY <1>2 DEF Receipt

\* Positions of an address are ordered.
LEMMA PositionsOrdered ==
  ASSUME NEW p \in Position, NEW q \in Position, NEW r \in Position
  PROVE  /\ IsPositionAfter(p, q) /\ IsPositionAfter(q, r) => IsPositionAfter(p, r)
         /\ ~IsPositionAfter(p, p)
         /\ IsPositionAfter(p, q) \/ IsPositionAfter(q, p) \/ IsSameOrderedPosition(p, q)
         /\ IsPositionAfter(p, q) => ~IsSameOrderedPosition(p, q) /\ ~IsSameOrderedPosition(q, p)
BY DEF Position, IsPositionAfter, IsSameOrderedPosition

\* What comes after has no earlier version.
LEMMA AfterIsLater ==
  ASSUME NEW p, NEW q, p.version \in Int, q.version \in Int, IsPositionAfter(p, q)
  PROVE  p.version >= q.version
BY DEF IsPositionAfter

-----------------------------------------------------------------------------
(* Chains *)

\* An envelope of address a that can be projected.
Sound(e, a) == /\ e.addr = a /\ e.stamp = a /\ e.id # ""
               /\ e.pos \in Position /\ IsValidPosition(e.pos)

\* e comes next after the receipt m.
Continues(e, m) == /\ IsContiguousPosition(e.pos, m)
                   /\ m # NoCheckpoint => IsPositionAfter(e.pos, m.pos)

\* The receipt before the i-th of s, where m is the one before s.
Before(s, m, i) == IF i = 1 THEN m ELSE Receipt(s[i - 1])

Follows(s, m, a) == \A i \in 1..Len(s) : Sound(s[i], a) /\ Continues(s[i], Before(s, m, i))

\* The last receipt after s.
MarkAfter(s, m) == IF s = <<>> THEN m ELSE Receipt(s[Len(s)])

\* What follows what follows.
LEMMA FollowsConcat ==
  ASSUME NEW T, NEW s \in Seq(T), NEW t \in Seq(T), NEW m, NEW a,
         Follows(s, m, a), Follows(t, MarkAfter(s, m), a)
  PROVE  Follows(s \o t, m, a) /\ MarkAfter(s \o t, m) = MarkAfter(t, MarkAfter(s, m))
<1> DEFINE u == s \o t
           l == Len(s)
<1>1. /\ u \in Seq(T) /\ Len(u) = l + Len(t) /\ l \in Nat /\ Len(t) \in Nat /\ Len(u) \in Nat
      /\ \A i \in 1..l : u[i] = s[i]
      /\ \A i \in (l + 1)..(l + Len(t)) : u[i] = t[i - l]
  BY ConcatProperties, LenProperties
<1>2. (s = <<>> <=> l = 0) /\ (t = <<>> <=> Len(t) = 0) /\ (u = <<>> <=> Len(u) = 0)
  <2>1. u \in Seq(T)
    BY <1>1
  <2> HIDE DEF u
  <2> QED BY <2>1, EmptySeq
<1> HIDE DEF u, l
<1>3. Follows(u, m, a)
  <2> SUFFICES ASSUME NEW i \in 1..Len(u)
               PROVE  Sound(u[i], a) /\ Continues(u[i], Before(u, m, i))
    BY DEF Follows
  <2>1. CASE i \in 1..l
    <3>1. u[i] = s[i] /\ Before(u, m, i) = Before(s, m, i)
      <4>1. i # 1 => i - 1 \in 1..l
        BY <1>1, <2>1
      <4> QED BY <1>1, <2>1, <4>1 DEF Before
    <3> QED BY <2>1, <3>1 DEF Follows, l
  <2>2. CASE i \notin 1..l
    <3>1. i \in (l + 1)..(l + Len(t)) /\ i - l \in 1..Len(t) /\ u[i] = t[i - l]
      BY <1>1, <2>2
    <3>2. Before(u, m, i) = Before(t, MarkAfter(s, m), i - l)
      <4>1. CASE i - l # 1
        <5>1. i - 1 \in (l + 1)..(l + Len(t)) /\ (i - 1) - l = (i - l) - 1 /\ i # 1
          BY <1>1, <3>1, <4>1
        <5>2. u[i - 1] = t[(i - l) - 1]
          BY <1>1, <5>1
        <5> QED BY <4>1, <5>1, <5>2 DEF Before
      <4>2. CASE i - l = 1
        <5>1. CASE l = 0
          BY <1>1, <1>2, <4>2, <5>1 DEF Before, MarkAfter
        <5>2. CASE l # 0
          <6>1. i - 1 = l /\ l \in 1..l /\ i # 1
            BY <1>1, <4>2, <5>2
          <6> QED BY SMTT(40), <1>1, <1>2, <4>2, <5>2, <6>1 DEF Before, MarkAfter, l
        <5> QED BY <5>1, <5>2
      <4> QED BY <4>1, <4>2
    <3> QED BY <3>1, <3>2 DEF Follows
  <2> QED BY <2>1, <2>2
<1>4. MarkAfter(u, m) = MarkAfter(t, MarkAfter(s, m))
  <2>1. CASE Len(t) = 0
    <3>1. Len(u) = l
      BY <1>1, <2>1
    <3>2. l # 0 => u[l] = s[l]
      BY <1>1
    <3> QED BY <1>2, <2>1, <3>1, <3>2 DEF MarkAfter, l
  <2>2. CASE Len(t) # 0
    <3>1. Len(u) \in (l + 1)..(l + Len(t)) /\ Len(u) - l = Len(t) /\ Len(u) # 0
      BY <1>1, <2>2
    <3>2. u[Len(u)] = t[Len(t)]
      BY <1>1, <3>1
    <3> QED BY <1>2, <2>2, <3>1, <3>2 DEF MarkAfter
  <2> QED BY <2>1, <2>2
<1> QED BY <1>3, <1>4 DEF u

\* Positions ascend along a chain.
LEMMA Ascends ==
  ASSUME NEW T, NEW s \in Seq(T), NEW m, NEW a, Follows(s, m, a),
         NEW i \in 1..Len(s), NEW j \in 1..Len(s), i < j
  PROVE  IsPositionAfter(s[j].pos, s[i].pos)
<1> DEFINE D == {d \in Nat : i + 1 + d <= Len(s) => IsPositionAfter(s[i + 1 + d].pos, s[i].pos)}
<1>1. \A h \in 1..Len(s) : s[h].pos \in Position
  BY DEF Follows, Sound
<1>2. \A h \in 2..Len(s) : IsPositionAfter(s[h].pos, s[h - 1].pos)
  <2> TAKE h \in 2..Len(s)
  <2>1. h \in 1..Len(s) /\ h # 1
    BY LenProperties
  <2>2. Before(s, m, h) = Receipt(s[h - 1])
    BY <2>1 DEF Before
  <2>3. Continues(s[h], Receipt(s[h - 1]))
    BY <2>1, <2>2 DEF Follows
  <2> QED BY <2>3, ReceiptExists DEF Continues
<1>3. Len(s) \in Nat /\ i \in Nat
  BY LenProperties
<1>4. 0 \in D
  <2> SUFFICES ASSUME i + 1 <= Len(s) PROVE IsPositionAfter(s[i + 1].pos, s[i].pos)
    BY <1>3
  <2>1. i + 1 \in 2..Len(s) /\ (i + 1) - 1 = i
    BY <1>3
  <2> QED BY <1>2, <2>1
<1>5. ASSUME NEW d \in D PROVE d + 1 \in D
  <2> SUFFICES ASSUME i + 1 + (d + 1) <= Len(s)
               PROVE  IsPositionAfter(s[i + 1 + (d + 1)].pos, s[i].pos)
    OBVIOUS
  <2> DEFINE h == i + 1 + (d + 1)
  <2>1. h \in 2..Len(s) /\ h - 1 = i + 1 + d /\ h - 1 \in 1..Len(s) /\ h \in 1..Len(s)
    BY <1>3
  <2>2. IsPositionAfter(s[h - 1].pos, s[i].pos)
    BY <2>1, <1>3
  <2> HIDE DEF h
  <2>3. IsPositionAfter(s[h].pos, s[h - 1].pos)
    BY <1>2, <2>1
  <2>4. IsPositionAfter(s[h].pos, s[i].pos)
    <3>1. s[h].pos \in Position /\ s[h - 1].pos \in Position /\ s[i].pos \in Position
      BY <1>1, <2>1
    <3> QED BY <2>2, <2>3, <3>1, PositionsOrdered
  <2> QED BY <2>4 DEF h
<1>6. D = Nat
  <2> HIDE DEF D
  <2>1. D \subseteq Nat
    BY DEF D
  <2> QED BY <1>4, <1>5, <2>1, SetInduction
<1>7. j - (i + 1) \in D /\ i + 1 + (j - (i + 1)) = j /\ j <= Len(s)
  <2>1. j - (i + 1) \in Nat
    BY <1>3
  <2> HIDE DEF D
  <2> QED BY <1>3, <1>6, <2>1
<1>8. \A d \in D : i + 1 + d <= Len(s) => IsPositionAfter(s[i + 1 + d].pos, s[i].pos)
  OBVIOUS
<1> HIDE DEF D
<1> QED BY <1>7, <1>8

\* The two ways to say what comes next: with the receipt, and in the feed's words.
LEMMA NextInChain ==
  ASSUME NEW x, NEW y, x.pos \in Position, y.pos \in Position,
         IsValidPosition(x.pos), IsValidPosition(y.pos)
  PROVE  Continues(y, Receipt(x))
         <=> IF x.pos.seq + 1 < x.pos.size THEN y.pos = [x.pos EXCEPT !.seq = @ + 1]
             ELSE /\ y.pos.seq = 0 /\ y.pos.previous = x.pos.version
                  /\ y.pos.version > x.pos.version
<1> DEFINE p == x.pos
           q == y.pos
<1>1. Continues(y, Receipt(x))
      <=> /\ q.seq < q.size
          /\ \/ /\ q.version = p.version /\ q.previous = p.previous /\ q.size = p.size
                /\ q.seq = p.seq + 1
             \/ /\ q.version # p.version /\ p.seq = p.size - 1
                /\ q.seq = 0 /\ q.previous = p.version
          /\ IsPositionAfter(q, p)
  BY ReceiptExists DEF Continues, IsContiguousPosition
<1>2. /\ p \in Position /\ q \in Position
      /\ p.version \in Int /\ p.seq \in Int /\ p.size \in Int /\ p.previous \in Int
      /\ q.version \in Int /\ q.seq \in Int /\ q.size \in Int /\ q.previous \in Int
      /\ p.version >= 0 /\ p.seq >= 0 /\ p.size > p.seq
      /\ q.version >= 0 /\ q.seq >= 0 /\ q.size > q.seq
      /\ p = [version |-> p.version, seq |-> p.seq, size |-> p.size, previous |-> p.previous]
      /\ q = [version |-> q.version, seq |-> q.seq, size |-> q.size, previous |-> q.previous]
  BY DEF Position, IsValidPosition
<1>3. q = [p EXCEPT !.seq = @ + 1]
      <=> /\ q.version = p.version /\ q.previous = p.previous /\ q.size = p.size
          /\ q.seq = p.seq + 1
  <2>1. [p EXCEPT !.seq = @ + 1]
        = [version |-> p.version, seq |-> p.seq + 1, size |-> p.size, previous |-> p.previous]
    BY <1>2 DEF Position
  <2> HIDE DEF p, q
  <2> QED BY <1>2, <2>1
<1> HIDE DEF p, q
<1>4. CASE p.seq + 1 < p.size
  <2>1. p.seq # p.size - 1
    BY <1>2, <1>4
  <2> QED BY <1>1, <1>2, <1>3, <1>4, <2>1 DEF IsPositionAfter, p, q
<1>5. CASE ~(p.seq + 1 < p.size)
  <2>1. p.seq = p.size - 1
    BY <1>2, <1>5
  <2> QED BY <1>1, <1>2, <1>5, <2>1 DEF IsPositionAfter, p, q
<1> QED BY <1>4, <1>5

\* The two ways to say what comes first.
LEMMA FirstInChain ==
  ASSUME NEW y, y.pos \in Position, IsValidPosition(y.pos)
  PROVE  Continues(y, NoCheckpoint) <=> y.pos.seq = 0 /\ y.pos.previous = Genesis
<1>1. y.pos.seq < y.pos.size
  BY DEF Position, IsValidPosition
<1> QED BY <1>1 DEF Continues, IsContiguousPosition

\* A sequence of sound envelopes follows the empty checkpoint if it is unbroken.
LEMMA FollowsUnbroken ==
  ASSUME NEW T, NEW s \in Seq(T), NEW a, \A i \in DOMAIN s : Sound(s[i], a)
  PROVE  Follows(s, NoCheckpoint, a) <=> Unbroken(s)
<1> DEFINE next(i) == IF i = 1 THEN s[1].pos.seq = 0 /\ s[1].pos.previous = Genesis
                      ELSE IF s[i - 1].pos.seq + 1 < s[i - 1].pos.size
                           THEN s[i].pos = [s[i - 1].pos EXCEPT !.seq = @ + 1]
                           ELSE /\ s[i].pos.seq = 0
                                /\ s[i].pos.previous = s[i - 1].pos.version
                                /\ s[i].pos.version > s[i - 1].pos.version
<1>1. DOMAIN s = 1..Len(s) /\ Len(s) \in Nat
  BY LenProperties
<1>2. \A i \in 1..Len(s) : /\ Sound(s[i], a)
                           /\ s[i].pos \in Position /\ IsValidPosition(s[i].pos)
  BY <1>1 DEF Sound
<1>3. ASSUME NEW i \in 1..Len(s)
      PROVE  Continues(s[i], Before(s, NoCheckpoint, i)) <=> next(i)
  <2>1. CASE i = 1
    <3>1. Before(s, NoCheckpoint, i) = NoCheckpoint
      BY <2>1 DEF Before
    <3> QED BY <1>2, <2>1, <3>1, FirstInChain
  <2>2. CASE i # 1
    <3>1. Before(s, NoCheckpoint, i) = Receipt(s[i - 1]) /\ i - 1 \in 1..Len(s)
      BY <1>1, <2>2 DEF Before
    <3>2. /\ s[i].pos \in Position /\ s[i - 1].pos \in Position
          /\ IsValidPosition(s[i].pos) /\ IsValidPosition(s[i - 1].pos)
      BY <1>2, <3>1
    <3> QED BY <2>2, <3>1, <3>2, NextInChain
  <2> QED BY <2>1, <2>2
<1>4. Unbroken(s) <=> \A i \in 1..Len(s) : next(i)
  BY <1>1 DEF Unbroken
<1> HIDE DEF next
<1> QED BY <1>2, <1>3, <1>4 DEF Follows

\* A chain whose envelopes are all on another chain of the address is its prefix.
LEMMA OneChain ==
  ASSUME NEW T, NEW s \in Seq(T), NEW t \in Seq(T), NEW a,
         Follows(s, NoCheckpoint, a), Follows(t, NoCheckpoint, a),
         \A i \in 1..Len(s) : \E j \in 1..Len(t) : t[j] = s[i]
  PROVE  Len(s) <= Len(t) /\ \A i \in 1..Len(s) : s[i] = t[i]
<1> DEFINE D == {n \in Nat : n <= Len(s) => /\ n <= Len(t)
                                            /\ n # 0 => s[n] = t[n]}
<1>1. Len(s) \in Nat /\ Len(t) \in Nat
  BY LenProperties
<1>2. /\ \A i \in 1..Len(s) : Sound(s[i], a) /\ Continues(s[i], Before(s, NoCheckpoint, i))
      /\ \A i \in 1..Len(t) : Sound(t[i], a) /\ Continues(t[i], Before(t, NoCheckpoint, i))
  BY DEF Follows
<1>3. 0 \in D
  BY <1>1
<1>4. ASSUME NEW n \in D PROVE n + 1 \in D
  <2> SUFFICES ASSUME n + 1 <= Len(s)
               PROVE  n + 1 <= Len(t) /\ s[n + 1] = t[n + 1]
    OBVIOUS
  <2>1. n + 1 \in 1..Len(s) /\ n <= Len(t) /\ (n # 0 => s[n] = t[n]) /\ n \in Nat
        /\ (n # 0 => n \in 1..Len(s) /\ n \in 1..Len(t)) /\ (n + 1) - 1 = n
    BY <1>1
  <2>2. PICK j \in 1..Len(t) : t[j] = s[n + 1]
    BY <2>1
  <2>3. j = n + 1
    <3> DEFINE e == t[j]
    <3>1. Continues(e, Before(s, NoCheckpoint, n + 1)) /\ Continues(e, Before(t, NoCheckpoint, j))
          /\ Sound(e, a)
      BY <1>2, <2>1, <2>2
    <3>2. e.pos \in Position /\ IsValidPosition(e.pos)
      BY <3>1 DEF Sound
    <3>3. CASE n = 0
      <4>1. e.pos.seq = 0 /\ e.pos.previous = Genesis
        <5>1. Before(s, NoCheckpoint, n + 1) = NoCheckpoint
          BY <3>3 DEF Before
        <5> HIDE DEF e
        <5> QED BY <3>1, <3>2, <5>1, FirstInChain
      <4>2. SUFFICES ASSUME j # 1 PROVE FALSE
        BY <3>3
      <4>3. j - 1 \in 1..Len(t) /\ Before(t, NoCheckpoint, j) = Receipt(t[j - 1])
        BY <1>1, <4>2 DEF Before
      <4>4. t[j - 1].pos \in Position /\ IsValidPosition(t[j - 1].pos)
        BY <1>2, <4>3 DEF Sound
      <4>5. e.pos.previous = t[j - 1].pos.version \/ e.pos.seq = t[j - 1].pos.seq + 1
        <5>1. Continues(e, Receipt(t[j - 1]))
          BY <3>1, <4>3
        <5> HIDE DEF e
        <5> QED BY <5>1, ReceiptExists DEF Continues, IsContiguousPosition
      <4> HIDE DEF e
      <4> QED BY SMTT(40), <4>1, <4>4, <4>5 DEF Position, IsValidPosition, Genesis
    <3>4. CASE n # 0
      <4> DEFINE x == t[n]
      <4>1. Before(s, NoCheckpoint, n + 1) = Receipt(x) /\ n \in 1..Len(t)
        BY <2>1, <3>4 DEF Before
      <4>2. x.pos \in Position /\ IsValidPosition(x.pos)
        BY <1>2, <4>1 DEF Sound
      <4>3. Continues(e, Receipt(x))
        BY <3>1, <4>1
      <4>4. IsPositionAfter(e.pos, x.pos)
        BY <4>3, ReceiptExists DEF Continues
      <4>5. n < j
        <5>1. SUFFICES ASSUME j <= n PROVE FALSE
          BY <2>1
        <5>2. j < n => IsPositionAfter(x.pos, e.pos)
          BY <4>1, Ascends
        <5>3. j = n => ~IsPositionAfter(e.pos, x.pos)
          <6>1. j = n => e.pos = x.pos
            OBVIOUS
          <6> HIDE DEF e, x
          <6> QED BY <6>1, <4>2, PositionsOrdered
        <5> HIDE DEF e, x
        <5>4. IsPositionAfter(x.pos, e.pos) => FALSE
          BY <3>2, <4>2, <4>4, PositionsOrdered
        <5> QED BY <2>1, <4>4, <5>1, <5>2, <5>3, <5>4
      <4>6. SUFFICES ASSUME n + 1 < j PROVE FALSE
        BY <2>1, <4>5
      \* Two envelopes are strictly between, or one that is both.
      <4> DEFINE y == t[n + 1]
                 z == t[j - 1]
      <4>7. /\ n + 1 \in 1..Len(t) /\ j - 1 \in 1..Len(t) /\ n + 1 <= j - 1 /\ n < n + 1
            /\ n + 1 # 1 /\ j # 1 /\ j \in 1..Len(t)
        BY <1>1, <2>1, <3>4, <4>6
      <4>8. /\ y.pos \in Position /\ IsValidPosition(y.pos)
            /\ z.pos \in Position /\ IsValidPosition(z.pos)
        BY <1>2, <4>7 DEF Sound
      <4>9. Continues(y, Receipt(x)) /\ Continues(e, Receipt(z))
        <5>1. Before(t, NoCheckpoint, n + 1) = Receipt(x)
          BY <2>1, <4>7 DEF Before
        <5>2. Before(t, NoCheckpoint, j) = Receipt(z)
          BY <4>7 DEF Before
        <5> QED BY <1>2, <4>7, <5>1, <5>2
      <4>10. y = z \/ IsPositionAfter(z.pos, y.pos)
        BY <4>7, Ascends
      <4>11. IsPositionAfter(e.pos, z.pos) /\ IsPositionAfter(y.pos, x.pos)
        BY <4>9, ReceiptExists DEF Continues
      <4> HIDE DEF x, y, z, e
      <4>12. y.pos = z.pos \/ IsPositionAfter(z.pos, y.pos)
        BY <4>10
      <4>13. /\ IsContiguousPosition(e.pos, Receipt(x)) /\ IsContiguousPosition(e.pos, Receipt(z))
             /\ IsContiguousPosition(y.pos, Receipt(x))
             /\ Receipt(x) # NoCheckpoint /\ Receipt(z) # NoCheckpoint
             /\ Receipt(x).pos = x.pos /\ Receipt(z).pos = z.pos
        BY <4>3, <4>9, ReceiptExists DEF Continues
      <4> DEFINE px == x.pos
                 py == y.pos
                 pz == z.pos
                 pe == e.pos
      <4>14. /\ px.version \in Int /\ px.seq \in Int /\ px.size \in Int /\ px.seq >= 0
             /\ py.version \in Int /\ py.seq \in Int /\ py.size \in Int /\ py.seq >= 0
             /\ pz.version \in Int /\ pz.seq \in Int /\ pz.size \in Int /\ pz.seq >= 0
             /\ pe.version \in Int /\ pe.seq \in Int /\ pe.size \in Int /\ pe.seq >= 0
        BY <3>2, <4>2, <4>8 DEF Position, IsValidPosition
      <4>15. /\ IsPositionAfter(pe, pz) /\ IsPositionAfter(py, px)
             /\ pz = py \/ IsPositionAfter(pz, py)
        BY <4>11, <4>12
      <4>16. \/ pe.version = px.version /\ pe.seq = px.seq + 1
             \/ /\ pe.version # px.version /\ px.seq = px.size - 1
                /\ pe.seq = 0 /\ pe.previous = px.version
        BY <4>13 DEF IsContiguousPosition
      <4>17. pe.seq = pz.seq + 1 \/ pe.previous = pz.version
        BY <4>13 DEF IsContiguousPosition
      <4>18. /\ py.seq < py.size
             /\ py.version = px.version => py.size = px.size /\ py.seq = px.seq + 1
        BY <4>13 DEF IsContiguousPosition
      <4> HIDE DEF px, py, pz, pe
      <4>19. py.version >= px.version /\ pz.version >= py.version /\ pe.version >= pz.version
        <5>1. py.version >= px.version /\ pe.version >= pz.version
          BY <4>14, <4>15, AfterIsLater
        <5>2. pz.version >= py.version
          <6>1. pz = py => pz.version >= py.version
            BY <4>14
          <6> QED BY <4>14, <4>15, <6>1, AfterIsLater
        <5> QED BY <5>1, <5>2
      <4>20. CASE pe.version = px.version
        <5>1. py.version = px.version /\ pz.version = px.version
          <6>1. /\ px.version \in Int /\ py.version \in Int
                /\ pz.version \in Int /\ pe.version \in Int
            BY <4>14
          <6>2. py.version <= px.version
            BY <4>19, <4>20, <6>1
          <6>3. pz.version <= px.version
            BY <4>19, <4>20, <6>1
          <6> QED BY <4>19, <6>1, <6>2, <6>3
        <5>2. py.seq > px.seq /\ pz.seq >= py.seq /\ pe.seq > pz.seq
          BY <4>14, <4>15, <4>20, <5>1 DEF IsPositionAfter
        <5> QED BY <4>14, <4>16, <4>20, <5>2
      <4>21. CASE pe.version # px.version
        <5>1. pz.version = px.version /\ px.seq = px.size - 1
          BY <4>14, <4>16, <4>17, <4>21
        <5>2. py.version = px.version
          <6>1. px.version \in Int /\ py.version \in Int /\ pz.version \in Int
            BY <4>14
          <6>2. py.version >= px.version /\ px.version >= py.version
            BY <4>19, <5>1
          <6> QED BY <6>1, <6>2
        <5> QED BY <4>14, <4>18, <5>1, <5>2
      <4> QED BY <4>20, <4>21
    <3> QED BY <3>3, <3>4
  <2> QED BY <1>1, <2>2, <2>3
<1>5. D = Nat
  <2> HIDE DEF D
  <2>1. D \subseteq Nat
    BY DEF D
  <2> QED BY <1>3, <1>4, <2>1, SetInduction
<1>6. ASSUME NEW n \in Nat, n <= Len(s) PROVE n <= Len(t) /\ (n # 0 => s[n] = t[n])
  BY <1>5, <1>6
<1> HIDE DEF D
<1>7. Len(s) <= Len(t)
  BY <1>1, <1>6
<1>8. \A i \in 1..Len(s) : s[i] = t[i]
  <2> TAKE i \in 1..Len(s)
  <2>1. i \in Nat /\ i <= Len(s) /\ i # 0
    BY <1>1
  <2> QED BY <1>6, <2>1
<1> QED BY <1>7, <1>8

\* One more envelope that continues a chain.
LEMMA FollowsAppend ==
  ASSUME NEW T, NEW s \in Seq(T), NEW e \in T, NEW m, NEW a,
         Follows(s, m, a), Sound(e, a), Continues(e, MarkAfter(s, m))
  PROVE  Follows(Append(s, e), m, a) /\ MarkAfter(Append(s, e), m) = Receipt(e)
<1> DEFINE u == Append(s, e)
           l == Len(s)
<1>1. /\ u \in Seq(T) /\ Len(u) = l + 1 /\ l \in Nat /\ u[l + 1] = e
      /\ \A i \in 1..l : u[i] = s[i]
  BY AppendProperties, LenProperties
<1>2. s = <<>> <=> l = 0
  BY EmptySeq
<1>3. u # <<>>
  BY <1>1, EmptySeq
<1> HIDE DEF u, l
<1>4. ASSUME NEW i \in 1..(l + 1) PROVE Sound(u[i], a) /\ Continues(u[i], Before(u, m, i))
  <2>1. CASE i \in 1..l
    <3>1. i # 1 => i - 1 \in 1..l
      BY <1>1, <2>1
    <3>2. u[i] = s[i] /\ Before(u, m, i) = Before(s, m, i)
      BY <1>1, <2>1, <3>1 DEF Before
    <3> QED BY <2>1, <3>2 DEF Follows, l
  <2>2. CASE i = l + 1
    <3>1. Before(u, m, i) = MarkAfter(s, m)
      <4>1. CASE l = 0
        BY <1>1, <1>2, <2>2, <4>1 DEF Before, MarkAfter
      <4>2. CASE l # 0
        <5>1. i # 1 /\ i - 1 = l /\ l \in 1..l
          BY <1>1, <2>2, <4>2
        <5> QED BY <1>1, <1>2, <4>2, <5>1 DEF Before, MarkAfter, l
      <4> QED BY <4>1, <4>2
    <3> QED BY <1>1, <2>2, <3>1
  <2> QED BY <1>1, <2>1, <2>2
<1> QED BY <1>1, <1>3, <1>4 DEF Follows, MarkAfter, u

-----------------------------------------------------------------------------
(* The envelopes of one address *)

\* The entries of two sequences, one after the other.
LEMMA EntriesConcat ==
  ASSUME NEW T, NEW s \in Seq(T), NEW t \in Seq(T)
  PROVE  Entries(s \o t) = Entries(s) \cup Entries(t)
<1> DEFINE u == s \o t
<1>1. /\ Len(u) = Len(s) + Len(t) /\ Len(s) \in Nat /\ Len(t) \in Nat
      /\ \A i \in 1..Len(s) : u[i] = s[i]
      /\ \A i \in (Len(s) + 1)..(Len(s) + Len(t)) : u[i] = t[i - Len(s)]
      /\ DOMAIN s = 1..Len(s) /\ DOMAIN t = 1..Len(t) /\ DOMAIN u = 1..Len(u)
  BY ConcatProperties, LenProperties
<1> HIDE DEF u
<1>2. Entries(s) \subseteq Entries(u)
  <2> SUFFICES ASSUME NEW i \in 1..Len(s) PROVE s[i] \in Entries(u)
    BY <1>1 DEF Entries
  <2>1. i \in DOMAIN u /\ u[i] = s[i]
    BY <1>1
  <2> QED BY <2>1 DEF Entries
<1>3. Entries(t) \subseteq Entries(u)
  <2> SUFFICES ASSUME NEW i \in 1..Len(t) PROVE t[i] \in Entries(u)
    BY <1>1 DEF Entries
  <2>1. /\ Len(s) + i \in DOMAIN u /\ Len(s) + i \in (Len(s) + 1)..(Len(s) + Len(t))
        /\ (Len(s) + i) - Len(s) = i
    BY <1>1
  <2>2. u[Len(s) + i] = t[i]
    BY <1>1, <2>1
  <2> QED BY <2>1, <2>2 DEF Entries
<1>4. Entries(u) \subseteq Entries(s) \cup Entries(t)
  <2> SUFFICES ASSUME NEW i \in 1..Len(u), i \notin 1..Len(s) PROVE u[i] \in Entries(t)
    BY <1>1 DEF Entries
  <2>1. i \in (Len(s) + 1)..(Len(s) + Len(t)) /\ i - Len(s) \in DOMAIN t
    BY <1>1
  <2> QED BY <1>1, <2>1 DEF Entries
<1>5. Entries(u) = Entries(s) \cup Entries(t)
  BY <1>2, <1>3, <1>4
<1> QED BY <1>5 DEF u

\* What OfAddress returns.
LEMMA OfAddressKeeps ==
  ASSUME NEW T, NEW s \in Seq(T), NEW a
  PROVE  /\ OfAddress(s, a) \in Seq(T)
         /\ Entries(OfAddress(s, a)) = {x \in Entries(s) : x.addr = a}
         /\ a \in AddressesOf(s) <=> OfAddress(s, a) # <<>>
<1> DEFINE S == {e \in Range(s) : e.addr = a}
           out == Only(s, S)
<1>1. out \in Seq(T) /\ Entries(out) = Entries(s) \cap S
  BY OnlyKeeps
<1>2. Entries(s) \cap S = {x \in Entries(s) : x.addr = a}
  BY DEF Entries, Range
<1>3. out = OfAddress(s, a)
  BY DEF OfAddress
<1> HIDE DEF S, out
<1>4. DOMAIN out = 1..Len(out) /\ Len(out) \in Nat /\ (out = <<>> <=> Len(out) = 0)
  BY <1>1, LenProperties, EmptySeq
<1>5. out # <<>> <=> Entries(out) # {}
  <2>1. ASSUME out # <<>> PROVE Entries(out) # {}
    <3>1. 1 \in DOMAIN out
      BY <1>4, <2>1
    <3>2. out[1] \in Entries(out)
      BY <3>1 DEF Entries
    <3> QED BY <3>2
  <2>2. ASSUME Entries(out) # {} PROVE out # <<>>
    <3>1. PICK x : x \in Entries(out)
      BY <2>2
    <3>2. PICK i \in DOMAIN out : x = out[i]
      BY <3>1 DEF Entries
    <3> QED BY <1>4, <3>2
  <2> QED BY <2>1, <2>2
<1>6. a \in AddressesOf(s) <=> {x \in Entries(s) : x.addr = a} # {}
  BY DEF AddressesOf, Entries
<1> QED BY <1>1, <1>2, <1>3, <1>5, <1>6

\* Of one envelope more.
LEMMA OfAddressAppend ==
  ASSUME NEW T, NEW s \in Seq(T), NEW e \in T, NEW a
  PROVE  OfAddress(Append(s, e), a)
         = IF e.addr = a THEN Append(OfAddress(s, a), e) ELSE OfAddress(s, a)
<1> DEFINE t == Append(s, e)
           S == {x \in Range(t) : x.addr = a}
           U == {x \in Range(s) : x.addr = a}
           l == Len(s)
<1>1. /\ t \in Seq(T) /\ Len(t) = l + 1 /\ l \in Nat /\ t[l + 1] = e
      /\ \A i \in 1..l : t[i] = s[i]
      /\ DOMAIN t = 1..(l + 1) /\ DOMAIN s = 1..l
  BY AppendProperties, LenProperties
<1>2. Only(t, S) = IF e \in S THEN Append(Only(s, S), e) ELSE Only(s, S)
  <2> HIDE DEF S
  <2> QED BY OnlyAppend
<1> HIDE DEF t
<1>3. e \in S <=> e.addr = a
  BY <1>1 DEF Range
<1>4. \A h \in 1..l : s[h] \in S <=> s[h] \in U
  <2> TAKE h \in 1..l
  <2>1. s[h] \in Range(s) /\ s[h] \in Range(t)
    <3>1. h \in DOMAIN t /\ t[h] = s[h] /\ h \in DOMAIN s
      BY <1>1
    <3> QED BY <3>1 DEF Range
  <2> QED BY <2>1
<1>5. Only(s, S) = Only(s, U)
  <2> HIDE DEF S, U
  <2> QED BY <1>4, OnlyAgrees DEF l
<1>6. OfAddress(t, a) = Only(t, S) /\ OfAddress(s, a) = Only(s, U)
  BY DEF OfAddress
<1> HIDE DEF S, U
<1> QED BY <1>2, <1>3, <1>5, <1>6 DEF t

\* A nonempty set of naturals has a smallest element.
LEMMA Smallest ==
  ASSUME NEW X, X \subseteq Nat, X # {}
  PROVE  \E x \in X : \A y \in X : x <= y
<1> DEFINE R == OpToRel(<, Nat)
<1>1. PICK x \in X : \A y \in X : ~(<<y, x>> \in R)
  <2> HIDE DEF R
  <2>1. IsWellFoundedOn(R, Nat)
    BY NatLessThanWellFounded DEF R
  <2> QED BY <2>1, WFMin
<1>2. \A y \in X : ~(y < x)
  BY <1>1 DEF OpToRel
<1> QED BY <1>2

\* FirstSeen lists every address of a batch once.
LEMMA FirstSeenLists ==
  ASSUME NEW T, NEW s \in Seq(T)
  PROVE  /\ FirstSeen(s) \in Seq(AddressesOf(s))
         /\ Entries(FirstSeen(s)) = AddressesOf(s)
         /\ \A i, j \in DOMAIN FirstSeen(s) : FirstSeen(s)[i] = FirstSeen(s)[j] => i = j
<1> DEFINE ids == [i \in DOMAIN s |-> i]
           S == {i \in DOMAIN s : \A j \in 1..(i - 1) : s[j].addr # s[i].addr}
           first == Only(ids, S)
           out == [i \in DOMAIN first |-> s[first[i]].addr]
<1>1. DOMAIN s = 1..Len(s) /\ Len(s) \in Nat
  BY LenProperties
<1>2. ids \in Seq(Nat) /\ DOMAIN ids = 1..Len(s) /\ \A i \in 1..Len(s) : ids[i] = i
  <2>1. ids \in [1..Len(s) -> Nat]
    BY <1>1
  <2> QED BY <1>1, <2>1, IsASeq
<1>3. S \subseteq 1..Len(s)
  BY <1>1
<1> HIDE DEF ids, S
<1>4. /\ first \in Seq(Nat) /\ Entries(first) = Entries(ids) \cap S
      /\ \A i, j \in DOMAIN first : first[i] = first[j] => i = j
  <2>1. \A i, j \in DOMAIN ids : ids[i] = ids[j] => i = j
    BY <1>2
  <2> QED BY <1>2, <2>1, OnlyKeeps
<1>5. out = FirstSeen(s)
  BY DEF FirstSeen, FirstIndexes, ids, S
<1> HIDE DEF first
<1>6. Entries(first) = S
  BY ZenonT(60), <1>2, <1>3, <1>4 DEF Entries
<1>7. DOMAIN first = 1..Len(first) /\ Len(first) \in Nat
      /\ \A i \in DOMAIN first : first[i] \in S
  BY <1>4, <1>6, LenProperties DEF Entries
<1>8. out \in Seq(AddressesOf(s)) /\ DOMAIN out = DOMAIN first
      /\ \A i \in DOMAIN first : out[i] = s[first[i]].addr
  <2>1. \A i \in DOMAIN first : s[first[i]].addr \in AddressesOf(s)
    BY <1>1, <1>3, <1>7 DEF AddressesOf
  <2>2. out \in [1..Len(first) -> AddressesOf(s)]
    BY <1>7, <2>1
  <2> QED BY <1>7, <2>2, IsASeq
<1> HIDE DEF out
<1>9. AddressesOf(s) \subseteq Entries(out)
  <2> SUFFICES ASSUME NEW h \in DOMAIN s PROVE s[h].addr \in Entries(out)
    BY DEF AddressesOf
  <2> DEFINE X == {i \in DOMAIN s : s[i].addr = s[h].addr}
  <2>1. X \subseteq Nat /\ X # {}
    BY <1>1
  <2>2. PICK x \in X : \A y \in X : x <= y
    <3> HIDE DEF X
    <3> QED BY <2>1, Smallest
  <2>3. x \in S
    BY <1>1, <2>2 DEF S
  <2>4. PICK i \in DOMAIN first : first[i] = x
    BY <1>6, <2>3 DEF Entries
  <2> QED BY <1>8, <2>4 DEF Entries
<1>10. Entries(out) \subseteq AddressesOf(s)
  BY <1>1, <1>3, <1>7, <1>8 DEF Entries, AddressesOf
<1>11. ASSUME NEW i \in DOMAIN out, NEW j \in DOMAIN out, out[i] = out[j]
       PROVE  i = j
  <2>1. /\ first[i] \in S /\ first[j] \in S /\ first[i] \in 1..Len(s) /\ first[j] \in 1..Len(s)
        /\ s[first[i]].addr = s[first[j]].addr
    BY <1>3, <1>7, <1>8, <1>11
  <2>2. ~(first[i] < first[j]) /\ ~(first[j] < first[i])
    BY <1>1, <2>1 DEF S
  <2>3. first[i] = first[j]
    BY <1>1, <2>1, <2>2
  <2> QED BY <1>4, <1>8, <2>3
<1> QED BY <1>5, <1>8, <1>9, <1>10, <1>11

-----------------------------------------------------------------------------
(* The proof of a batch *)

\* A function on 0..m that walks a batch.
Walks(f, batch, marks, m) ==
    f = [n \in 0..m |-> IF n = 0 THEN [marks |-> marks, apply |-> <<>>, gap |-> FALSE]
                        ELSE WalkOn(f[n - 1], batch[n])]

\* There is one.
LEMMA WalksExist ==
  ASSUME NEW batch, NEW marks, NEW m \in Nat
  PROVE  \E f : Walks(f, batch, marks, m)
<1> DEFINE start == [marks |-> marks, apply |-> <<>>, gap |-> FALSE]
           D == {n \in Nat : \E f : Walks(f, batch, marks, n)}
<1>1. 0 \in D
  <2> DEFINE f == [n \in 0..0 |-> start]
  <2>1. Walks(f, batch, marks, 0)
    BY DEF Walks
  <2> QED BY <2>1
<1>2. ASSUME NEW n \in D PROVE n + 1 \in D
  <2>1. PICK f : Walks(f, batch, marks, n)
    OBVIOUS
  <2>0. /\ f = [i \in 0..n |-> f[i]]
        /\ \A i \in 0..n : f[i] = IF i = 0 THEN start ELSE WalkOn(f[i - 1], batch[i])
    BY <2>1 DEF Walks
  <2> HIDE DEF start
  <2> DEFINE last == WalkOn(f[n], batch[n + 1])
             g == [i \in 0..(n + 1) |-> IF i = n + 1 THEN last ELSE f[i]]
  <2>2. Walks(g, batch, marks, n + 1)
    <3> HIDE DEF last
    <3>1. g[n + 1] = WalkOn(g[n], batch[n + 1])
      BY DEF last
    <3>2. \A i \in 0..n : g[i] = IF i = 0 THEN start ELSE WalkOn(g[i - 1], batch[i])
      <4> TAKE i \in 0..n
      <4>1. f[i] = IF i = 0 THEN start ELSE WalkOn(f[i - 1], batch[i])
        BY <2>0
      <4>2. g[i] = f[i] /\ (i # 0 => g[i - 1] = f[i - 1])
        OBVIOUS
      <4> HIDE DEF g
      <4> QED BY <4>1, <4>2
    <3>3. g = [i \in 0..(n + 1) |-> g[i]]
      OBVIOUS
    <3> HIDE DEF g
    <3>4. \A i \in 0..(n + 1) : g[i] = IF i = 0 THEN start ELSE WalkOn(g[i - 1], batch[i])
      <4> TAKE i \in 0..(n + 1)
      <4>1. i \in 0..n \/ (i = n + 1 /\ i # 0 /\ i - 1 = n)
        OBVIOUS
      <4> QED BY <3>1, <3>2, <4>1
    <3> QED BY <3>3, <3>4 DEF Walks, start
  <2> QED BY <2>2
<1> HIDE DEF D
<1>3. D = Nat
  BY <1>1, <1>2, SetInduction DEF D
<1> QED BY <1>3 DEF D

\* WalkUpTo satisfies its recursion.
LEMMA WalkRecursion ==
  ASSUME NEW T, NEW batch \in Seq(T), NEW marks
  PROVE  Walks(WalkUpTo(batch, marks), batch, marks, Len(batch))
<1>1. \E f : Walks(f, batch, marks, Len(batch))
  BY WalksExist, LenProperties
<1> QED BY <1>1 DEF WalkUpTo, Walks

\* What the walk knows: it has followed the checkpoints of the start.
Walked(w, batch, marks, T, M) ==
    /\ w \in [marks : [DOMAIN marks -> M], apply : Seq(T), gap : BOOLEAN]
    /\ \A i \in 1..Len(w.apply) : \E j \in 1..Len(batch) : w.apply[i] = batch[j]
    /\ \A a \in DOMAIN marks :
          /\ Follows(OfAddress(w.apply, a), marks[a], a)
          /\ w.marks[a] = MarkAfter(OfAddress(w.apply, a), marks[a])

\* One envelope more.
LEMMA WalkOnFollows ==
  ASSUME NEW T, NEW batch \in Seq(T), NEW marks, NEW n \in 1..Len(batch),
         Sound(batch[n], batch[n].addr), batch[n].addr \in DOMAIN marks,
         NEW M, Receipt(batch[n]) \in M,
         NEW w, Walked(w, batch, marks, T, M)
  PROVE  Walked(WalkOn(w, batch[n]), batch, marks, T, M)
<1> DEFINE e == batch[n]
           ms == w.marks
           s == w.apply
           b == e.addr
<1>0. e \in T /\ Sound(e, b) /\ b \in DOMAIN marks
  BY ElementOfSeq
<1>1. /\ w \in [marks : [DOMAIN marks -> M], apply : Seq(T), gap : BOOLEAN]
      /\ ms \in [DOMAIN marks -> M] /\ DOMAIN ms = DOMAIN marks
      /\ s \in Seq(T)
      /\ \A i \in 1..Len(s) : \E j \in 1..Len(batch) : s[i] = batch[j]
      /\ \A a \in DOMAIN marks : /\ Follows(OfAddress(s, a), marks[a], a)
                                /\ ms[a] = MarkAfter(OfAddress(s, a), marks[a])
  BY DEF Walked
<1> HIDE DEF e, ms, s
<1>2. CASE w.gap \/ Traversed(e, ms)
  <2>1. WalkOn(w, e) = w
    BY <1>2 DEF WalkOn, ms
  <2> QED BY <2>1 DEF e
<1>3. CASE ~(w.gap \/ Traversed(e, ms)) /\ ~IsContiguousPosition(e.pos, ms[b])
  <2> DEFINE v == [w EXCEPT !.gap = TRUE]
  <2>1. WalkOn(w, e) = v
    BY <1>3 DEF WalkOn, ms
  <2>2. /\ v \in [marks : [DOMAIN marks -> M], apply : Seq(T), gap : BOOLEAN]
        /\ v.marks = ms /\ v.apply = s
    BY <1>1 DEF ms, s
  <2> HIDE DEF v
  <2>3. Walked(v, batch, marks, T, M)
    BY <1>1, <2>2 DEF Walked
  <2> QED BY <2>1, <2>3 DEF e
<1>4. CASE ~(w.gap \/ Traversed(e, ms)) /\ IsContiguousPosition(e.pos, ms[b])
  <2> DEFINE ns == [ms EXCEPT ![b] = Receipt(e)]
             t == Append(s, e)
             v == [w EXCEPT !.marks[b] = Receipt(e), !.apply = t]
  <2>1. WalkOn(w, e) = v
    BY <1>4 DEF WalkOn, ms, s, b
  <2>4. /\ ns \in [DOMAIN marks -> M] /\ ns[b] = Receipt(e)
        /\ \A a \in DOMAIN marks : a # b => ns[a] = ms[a]
    BY <1>0, <1>1 DEF e
  <2>5. /\ t \in Seq(T) /\ Len(t) = Len(s) + 1 /\ Len(s) \in Nat /\ t[Len(s) + 1] = e
        /\ \A i \in 1..Len(s) : t[i] = s[i]
    BY <1>0, <1>1, AppendProperties, LenProperties
  <2>3. /\ v \in [marks : [DOMAIN marks -> M], apply : Seq(T), gap : BOOLEAN]
        /\ v.marks = ns /\ v.apply = t
    <3>1. [w.marks EXCEPT ![b] = Receipt(e)] \in [DOMAIN marks -> M]
      BY <2>4 DEF ms
    <3> HIDE DEF t
    <3> QED BY <1>1, <2>5, <3>1 DEF ms
  <2> HIDE DEF v, ns
  <2>6. \A a \in DOMAIN marks :
           OfAddress(t, a) = IF b = a THEN Append(OfAddress(s, a), e) ELSE OfAddress(s, a)
    BY <1>0, <1>1, OfAddressAppend
  <2> HIDE DEF t
  <2>7. \A i \in 1..Len(t) : \E j \in 1..Len(batch) : t[i] = batch[j]
    <3> TAKE i \in 1..Len(t)
    <3>1. i \in 1..Len(s) \/ i = Len(s) + 1
      BY <2>5
    <3>2. t[Len(s) + 1] = batch[n]
      BY <2>5 DEF e
    <3> QED BY <1>1, <2>5, <3>1, <3>2
  <2>8. Continues(e, ms[b])
    <3>1. ms[b] # NoCheckpoint => IsPositionAfter(e.pos, ms[b].pos)
      BY <1>4 DEF Traversed
    <3> QED BY <1>4, <3>1 DEF Continues
  <2>9. ASSUME NEW a \in DOMAIN marks
        PROVE  Follows(OfAddress(t, a), marks[a], a) /\ ns[a] = MarkAfter(OfAddress(t, a), marks[a])
    <3>1. CASE a = b
      <4>1. OfAddress(s, b) \in Seq(T)
        BY <1>1, OfAddressKeeps
      <4>2. Follows(OfAddress(s, b), marks[b], b) /\ ms[b] = MarkAfter(OfAddress(s, b), marks[b])
        BY <1>0, <1>1
      <4>3. Continues(e, MarkAfter(OfAddress(s, b), marks[b]))
        BY <2>8, <4>2
      <4>4. /\ Follows(Append(OfAddress(s, b), e), marks[b], b)
            /\ MarkAfter(Append(OfAddress(s, b), e), marks[b]) = Receipt(e)
        <5> HIDE DEF b
        <5> QED BY <1>0, <4>1, <4>2, <4>3, FollowsAppend
      <4>5. OfAddress(t, a) = Append(OfAddress(s, b), e)
        BY <2>6, <3>1
      <4> QED BY <2>4, <3>1, <4>4, <4>5
    <3>2. CASE a # b
      <4>1. OfAddress(t, a) = OfAddress(s, a) /\ ns[a] = ms[a]
        BY <2>4, <2>6, <3>2
      <4> QED BY <1>1, <4>1
    <3> QED BY <3>1, <3>2
  <2>10. Walked(v, batch, marks, T, M)
    BY <2>3, <2>4, <2>5, <2>7, <2>9 DEF Walked
  <2> QED BY <2>1, <2>10 DEF e
<1> QED BY <1>2, <1>3, <1>4

\* What a proved batch applies continues, at each address, the checkpoint the
\* batch was proved against.
LEMMA WalkFollows ==
  ASSUME NEW T, NEW batch \in Seq(T), NEW marks,
         NEW M, marks \in [DOMAIN marks -> M], \A i \in 1..Len(batch) : Receipt(batch[i]) \in M,
         \A i \in 1..Len(batch) : Sound(batch[i], batch[i].addr) /\ batch[i].addr \in DOMAIN marks
  PROVE  Walked(Walk(batch, marks), batch, marks, T, M)
<1> DEFINE W == WalkUpTo(batch, marks)
           D == {n \in Nat : n <= Len(batch) => Walked(W[n], batch, marks, T, M)}
           start == [marks |-> marks, apply |-> <<>>, gap |-> FALSE]
<1>1. Walks(W, batch, marks, Len(batch)) /\ Len(batch) \in Nat
  BY WalkRecursion, LenProperties
<1> HIDE DEF W
<1>2. /\ W[0] = start
      /\ \A n \in 1..Len(batch) : W[n] = WalkOn(W[n - 1], batch[n])
  <2>1. \A n \in 0..Len(batch) : W[n] = IF n = 0 THEN start ELSE WalkOn(W[n - 1], batch[n])
    BY <1>1 DEF Walks
  <2> HIDE DEF start
  <2> QED BY <1>1, <2>1
<1>3. 0 \in D
  <2>2. <<>> \in Seq(T) /\ Len(<<>>) = 0
    BY EmptySeq
  <2>1. /\ start.marks = marks /\ start.apply = <<>>
        /\ start \in [marks : [DOMAIN marks -> M], apply : Seq(T), gap : BOOLEAN]
    BY <2>2
  <2> HIDE DEF start
  <2>3. ASSUME NEW a PROVE OfAddress(<<>>, a) = <<>>
    <3> DEFINE none == <<>>
    <3>1. none \in Seq(T) /\ DOMAIN none = {}
      BY <2>2
    <3>2. a \notin AddressesOf(none)
      BY <3>1 DEF AddressesOf
    <3> HIDE DEF none
    <3>3. OfAddress(none, a) = <<>>
      BY <3>1, <3>2, OfAddressKeeps
    <3> QED BY <3>3 DEF none
  <2>4. \A a : Follows(<<>>, marks[a], a) /\ MarkAfter(<<>>, marks[a]) = marks[a]
    BY <2>2 DEF Follows, MarkAfter
  <2>5. Walked(start, batch, marks, T, M)
    BY <2>1, <2>2, <2>3, <2>4 DEF Walked
  <2> QED BY <1>2, <2>5
<1>4. ASSUME NEW n \in D PROVE n + 1 \in D
  <2> SUFFICES ASSUME n + 1 <= Len(batch) PROVE Walked(W[n + 1], batch, marks, T, M)
    OBVIOUS
  <2>1. n + 1 \in 1..Len(batch) /\ (n + 1) - 1 = n /\ Walked(W[n], batch, marks, T, M)
    BY <1>1
  <2>2. W[n + 1] = WalkOn(W[n], batch[n + 1])
    BY <1>2, <2>1
  <2> QED BY <2>1, <2>2, WalkOnFollows
<1>5. D = Nat
  <2> HIDE DEF D
  <2>1. D \subseteq Nat
    BY DEF D
  <2> QED BY <1>3, <1>4, <2>1, SetInduction
<1>6. Walked(W[Len(batch)], batch, marks, T, M)
  BY <1>1, <1>5
<1> QED BY <1>6 DEF Walk, W

-----------------------------------------------------------------------------
(* The invariant *)

Marks == {NoCheckpoint} \cup {Receipt(e) : e \in Envelopes}

Lockings == [pc : {"locking"}, batch : Batches, keys : Seq(Addresses), next : Nat]
Loadings == [pc : {"loading"}, batch : Batches, todo : Seq(Addresses),
             marks : UNION {[A -> Marks] : A \in SUBSET Addresses}]
Applyings == [pc : {"applying"}, apply : Seq(Envelopes), done : Nat, save : Seq(Addresses)]

Calls == {Idle} \cup Lockings \cup Loadings \cup Applyings

\* Of what shape the state is.
Shape ==
    /\ setup \in Setups
    /\ checkpoints \in [Keys -> Marks]
    /\ readModel \in [Keys -> Seq(Envelopes)]
    /\ lockTails \in [Keys -> Seq(Running)]
    /\ call \in [Projectors -> Calls]
    /\ \A p \in Projectors \ Running : call[p] = Idle
    /\ rebuild \in [Names -> {"none", "truncated", "cut"}]
    /\ Durable => \A n \in Names : rebuild[n] = "none"
    /\ faults \in 0..MaxFaults

\* No instance queues twice for a key, and only for a call of its projection.
Queues ==
    \A k \in Keys :
        /\ \A i, j \in DOMAIN lockTails[k] : lockTails[k][i] = lockTails[k][j] => i = j
        /\ \A p \in Entries(lockTails[k]) : NameOf[p] = k[1] /\ call[p] # Idle

SoundAll(s) == \A i \in DOMAIN s : Sound(s[i], s[i].addr)

\* A call that locks holds the keys before next, waits for that one, and for no
\* key after it.
Locks(p) ==
    LET c == call[p]
    IN  c.pc = "locking" =>
            /\ SoundAll(c.batch)
            /\ c.keys = LockSequence(c.batch) /\ c.next \in 1..Len(c.keys)
            /\ \A i \in 1..(c.next - 1) : Holds(p, Key(p, c.keys[i]))
            /\ p \in Entries(lockTails[Key(p, c.keys[c.next])])
            /\ \A i \in (c.next + 1)..Len(c.keys) :
                   p \notin Entries(lockTails[Key(p, c.keys[i])])

\* A call that loads holds every key of its batch, and what it has loaded still
\* is the checkpoint.
Loads(p) ==
    LET c == call[p]
    IN  c.pc = "loading" =>
            /\ SoundAll(c.batch)
            /\ \A a \in AddressesOf(c.batch) : Holds(p, Key(p, a))
            /\ AddressesOf(c.batch) = DOMAIN c.marks \cup Entries(c.todo)
            /\ \A a \in DOMAIN c.marks : c.marks[a] = checkpoints[Key(p, a)]

\* The addresses whose checkpoint a call is still to advance.
Unsaved(p) == IF Durable THEN AddressesOf(call[p].apply) ELSE Entries(call[p].save)

\* A call that applies holds the keys, and its events continue the checkpoints.
Proceeds(p) ==
    LET c == call[p]
    IN  c.pc = "applying" =>
            /\ SoundAll(c.apply)
            /\ \A a \in AddressesOf(c.apply) : Holds(p, Key(p, a))
            /\ c.done \in 0..Len(c.apply)
            /\ Entries(c.save) \subseteq AddressesOf(c.apply)
            /\ \A i, j \in DOMAIN c.save : c.save[i] = c.save[j] => i = j
            /\ \A a \in Unsaved(p) : Follows(OfAddress(c.apply, a), checkpoints[Key(p, a)], a)
            /\ ~Durable => \A i \in 1..c.done :
                               c.apply[i] \in Entries(readModel[Key(p, c.apply[i].addr)])

Caller(p) == Locks(p) /\ Loads(p) /\ Proceeds(p)

\* The chain s that the checkpoint of a key is the last receipt of: all of it was
\* applied and, unless a reset was cut short, is held; a database holds nothing else.
Behind(k, s) ==
    /\ Follows(s, NoCheckpoint, k[2])
    /\ checkpoints[k] = MarkAfter(s, NoCheckpoint)
    /\ Intact(k[1]) => Entries(s) \subseteq Entries(readModel[k])
    /\ Durable => s = readModel[k]

Stores ==
    \A k \in Keys :
        /\ \A i \in DOMAIN readModel[k] : Sound(readModel[k][i], k[2])
        /\ \E s \in Seq(Envelopes) : Behind(k, s)

Saved == {k \in Keys : checkpoints[k] # NoCheckpoint}

Within == ~Durable => IsFiniteSet(Saved) /\ Cardinality(Saved) <= MaxCheckpoints

\* The inductive invariant.
Safe == Shape /\ Queues /\ (\A p \in Running : Caller(p)) /\ Stores /\ Within

-----------------------------------------------------------------------------
(* What the steps have in common *)

\* What depends on the deployment alone does not change.
LEMMA SetupFixed ==
  ASSUME setup' = setup
  PROVE  /\ NameOf' = NameOf /\ Source' = Source /\ Rogue' = Rogue /\ Durable' = Durable
         /\ MaxBatch' = MaxBatch /\ Running' = Running /\ Envelopes' = Envelopes
         /\ Batches' = Batches /\ Marks' = Marks /\ Calls' = Calls
<1>1. /\ NameOf' = NameOf /\ Source' = Source /\ Rogue' = Rogue /\ Durable' = Durable
      /\ MaxBatch' = MaxBatch
  BY DEF NameOf, Source, Rogue, Durable, MaxBatch
<1>2. Running' = Running /\ Envelopes' = Envelopes
  BY <1>1 DEF Running, Envelopes
<1>3. Batches' = Batches /\ Marks' = Marks
  BY <1>1, <1>2 DEF Batches, Marks
<1>4. Lockings' = Lockings /\ Loadings' = Loadings /\ Applyings' = Applyings
  BY <1>2, <1>3 DEF Lockings, Loadings, Applyings
<1> QED BY <1>1, <1>2, <1>3, <1>4 DEF Calls

\* The deployment is one the assumptions are about.
LEMMA Deployed ==
  ASSUME Shape
  PROVE  /\ Running \subseteq Projectors
         /\ \A p \in Running : NameOf[p] \in Names
         /\ \A a \in Addresses : Source[a] \in Seq(Envelopes)
         /\ \A e \in Envelopes : e.addr \in Addresses /\ e.pos \in Position
         /\ Durable \in BOOLEAN /\ MaxBatch \in Nat \ {0}
         /\ \A a \in Addresses : \A i \in DOMAIN Source[a] : Sound(Source[a][i], a)
         /\ \A a \in Addresses : Unbroken(Source[a])
<1>1. /\ setup \in Setups
      /\ \A a \in Addresses : /\ Unbroken(Source[a])
                              /\ \A i \in DOMAIN Source[a] : Sound(Source[a][i], a)
  BY SourceAssumption DEF Shape, Sound, Source
<1>2. /\ Running \subseteq Projectors /\ Range(NameOf) \subseteq Names
      /\ \A a \in Addresses : Source[a] \in Seq(Range(Source[a]))
      /\ \A e \in Rogue : e.addr \in Addresses /\ e.pos \in Position
      /\ Durable \in BOOLEAN /\ MaxBatch \in Nat \ {0}
  BY <1>1, ProjectionAssumption
     DEF NameOf, Source, Rogue, Durable, MaxBatch, Running
<1>3. \A p \in Running : NameOf[p] \in Names
  BY <1>2 DEF Range, Running
<1>4. ASSUME NEW a \in Addresses PROVE Source[a] \in Seq(Envelopes)
  <2>1. Source[a] \in Seq(Range(Source[a])) /\ Range(Source[a]) \subseteq Envelopes
    BY <1>2 DEF Envelopes
  <2>2. /\ Len(Source[a]) \in Nat /\ DOMAIN Source[a] = 1..Len(Source[a])
        /\ \A i \in 1..Len(Source[a]) : Source[a][i] \in Envelopes
        /\ Source[a] = [i \in 1..Len(Source[a]) |-> Source[a][i]]
    BY <2>1, ElementOfSeq, LenProperties
  <2> QED BY <2>2, IsASeq
<1>5. ASSUME NEW e \in Envelopes PROVE e.addr \in Addresses /\ e.pos \in Position
  <2>1. CASE e \in Rogue
    BY <1>2, <2>1
  <2>2. CASE e \notin Rogue
    <3>1. PICK a \in Addresses : e \in Range(Source[a])
      <4>1. PICK X \in {Range(Source[b]) : b \in Addresses} : e \in X
        BY <2>2 DEF Envelopes
      <4> QED BY <4>1
    <3>2. PICK i \in DOMAIN Source[a] : e = Source[a][i]
      BY <3>1 DEF Range
    <3>3. Sound(e, a)
      BY <1>1, <3>2
    <3> QED BY <3>3 DEF Sound
  <2> QED BY <2>1, <2>2
<1> QED BY <1>1, <1>2, <1>3, <1>4, <1>5

\* Keys are pairs.
LEMMA KeyPairs ==
  ASSUME Shape
  PROVE  /\ \A p \in Running : \A a \in Addresses :
               Key(p, a) \in Keys /\ Key(p, a)[1] = NameOf[p] /\ Key(p, a)[2] = a
         /\ \A k \in Keys : k[1] \in Names /\ k[2] \in Addresses /\ k = <<k[1], k[2]>>
         /\ \A p \in Running : \A k \in Keys : k[1] = NameOf[p] => k = Key(p, k[2])
<1>1. \A p \in Running : NameOf[p] \in Names
  BY Deployed
<1> QED BY <1>1 DEF Keys, Key

\* A batch is a sequence of envelopes.
LEMMA BatchSequence ==
  ASSUME Shape, NEW batch \in Batches
  PROVE  /\ batch \in Seq(Envelopes) /\ Len(batch) \in Nat \ {0} /\ DOMAIN batch = 1..Len(batch)
         /\ AddressesOf(batch) \subseteq Addresses /\ AddressesOf(batch) # {}
<1>1. PICK l \in 1..MaxBatch : batch \in [1..l -> Envelopes]
  BY DEF Batches
<1>2. l \in Nat /\ l # 0
  BY <1>1, Deployed
<1>3. batch \in Seq(Envelopes) /\ Len(batch) = l
  <2>1. batch \in Seq(Envelopes) /\ DOMAIN batch = 1..l
    BY <1>1, <1>2, IsASeq
  <2> QED BY <1>2, <2>1, LenProperties
<1>4. AddressesOf(batch) \subseteq Addresses
  BY <1>1, Deployed DEF AddressesOf
<1>5. batch[1].addr \in AddressesOf(batch)
  BY <1>1, <1>2 DEF AddressesOf
<1> QED BY <1>2, <1>3, <1>4, <1>5, LenProperties

\* The keys of a batch, each once.
LEMMA LockSequenceLists ==
  ASSUME Shape, NEW batch \in Batches
  PROVE  /\ LockSequence(batch) \in Seq(Addresses)
         /\ Entries(LockSequence(batch)) = AddressesOf(batch)
         /\ Len(LockSequence(batch)) \in Nat \ {0}
         /\ DOMAIN LockSequence(batch) = 1..Len(LockSequence(batch))
         /\ \A i, j \in DOMAIN LockSequence(batch) :
               LockSequence(batch)[i] = LockSequence(batch)[j] => i = j
<1> DEFINE out == LockSequence(batch)
<1>1. AddressesOf(batch) \subseteq Addresses /\ AddressesOf(batch) # {}
  BY BatchSequence
<1>2. LockOrder \in Seq(Addresses) /\ Entries(LockOrder) = Addresses
  BY ProjectionAssumption DEF Addresses, Range, Entries
<1>3. /\ out \in Seq(Addresses) /\ Entries(out) = Entries(LockOrder) \cap AddressesOf(batch)
      /\ \A i, j \in DOMAIN out : out[i] = out[j] => i = j
  BY <1>2, OnlyKeeps, ProjectionAssumption DEF LockSequence
<1> HIDE DEF out
<1>4. Entries(out) = AddressesOf(batch)
  BY <1>1, <1>2, <1>3
<1>5. Len(out) \in Nat /\ DOMAIN out = 1..Len(out)
  BY <1>3, LenProperties
<1>6. Len(out) # 0
  <2>1. PICK a : a \in Entries(out)
    BY <1>1, <1>4
  <2>2. PICK i \in DOMAIN out : a = out[i]
    BY <2>1 DEF Entries
  <2> QED BY <1>5, <2>2
<1> QED BY <1>3, <1>4, <1>5, <1>6 DEF out

\* Two instances never hold one key.
LEMMA HoldersAlone ==
  ASSUME NEW p, NEW q, NEW k, Holds(p, k), Holds(q, k)
  PROVE  p = q
BY DEF Holds

\* Who holds a key is in its queue, and works for its projection.
LEMMA HoldersQueue ==
  ASSUME Shape, Queues, NEW p, NEW k \in Keys, Holds(p, k)
  PROVE  p \in Entries(lockTails[k]) /\ p \in Running /\ NameOf[p] = k[1] /\ call[p] # Idle
<1>1. lockTails[k] \in Seq(Running) /\ lockTails[k] # <<>> /\ Head(lockTails[k]) = p
  BY DEF Shape, Holds
<1>2. 1 \in DOMAIN lockTails[k] /\ lockTails[k][1] = p
  BY <1>1, EmptySeq, LenProperties, HeadTailProperties
<1>3. p \in Entries(lockTails[k])
  BY <1>2 DEF Entries
<1>4. p \in Running
  BY <1>1, <1>2, ElementOfSeq
<1> QED BY <1>3, <1>4 DEF Queues

\* What a call knows stays true while the locks it has and what they protect do.
LEMMA Frame ==
  ASSUME Shape, NEW q \in Running, Caller(q), setup' = setup, call'[q] = call[q],
         \A k \in Keys : Holds(q, k) => /\ Holds(q, k)' /\ checkpoints'[k] = checkpoints[k]
                                        /\ Entries(readModel[k]) \subseteq Entries(readModel'[k]),
         \A k \in Keys : q \in Entries(lockTails[k]) <=> q \in Entries(lockTails'[k])
  PROVE  Caller(q)'
<1>1. /\ NameOf' = NameOf /\ Durable' = Durable /\ \A a : Key(q, a)' = Key(q, a)
      /\ \A a \in Addresses : Key(q, a) \in Keys
  BY SetupFixed, KeyPairs DEF Key
<1>2. \A a \in Addresses : Holds(q, Key(q, a)) => Holds(q, Key(q, a))'
  BY <1>1 DEF Holds
<1>3. call[q] \in Calls /\ call'[q] = call[q]
  BY Deployed DEF Shape
<1>4. Locks(q)'
  <2> SUFFICES ASSUME call[q].pc = "locking"
               PROVE  /\ SoundAll(call[q].batch)
                      /\ call[q].keys = LockSequence(call[q].batch)
                      /\ call[q].next \in 1..Len(call[q].keys)
                      /\ \A i \in 1..(call[q].next - 1) : Holds(q, Key(q, call[q].keys[i]))'
                      /\ q \in Entries(lockTails'[Key(q, call[q].keys[call[q].next])])
                      /\ \A i \in (call[q].next + 1)..Len(call[q].keys) :
                            q \notin Entries(lockTails'[Key(q, call[q].keys[i])])
    BY <1>1, <1>3 DEF Locks
  <2> DEFINE c == call[q]
  <2>1. c \in Lockings
    BY <1>3 DEF Calls, Loadings, Applyings, Idle
  <2>2. /\ SoundAll(c.batch) /\ c.keys = LockSequence(c.batch) /\ c.next \in 1..Len(c.keys)
        /\ \A i \in 1..(c.next - 1) : Holds(q, Key(q, c.keys[i]))
        /\ q \in Entries(lockTails[Key(q, c.keys[c.next])])
        /\ \A i \in (c.next + 1)..Len(c.keys) : q \notin Entries(lockTails[Key(q, c.keys[i])])
    BY DEF Caller, Locks
  <2>3. c.keys \in Seq(Addresses) /\ c.next \in Nat
    BY <2>1 DEF Lockings
  <2> HIDE DEF c
  <2>4. \A i \in 1..Len(c.keys) : Key(q, c.keys[i]) \in Keys /\ c.keys[i] \in Addresses
    BY <1>1, <2>3, ElementOfSeq
  <2>5. \A i \in 1..(c.next - 1) : i \in 1..Len(c.keys)
    BY <2>2, <2>3, LenProperties
  <2>6. \A i \in (c.next + 1)..Len(c.keys) : i \in 1..Len(c.keys)
    BY <2>2, <2>3, LenProperties
  <2>7. \A i \in 1..(c.next - 1) : Holds(q, Key(q, c.keys[i]))'
    <3> SUFFICES ASSUME NEW i \in 1..(c.next - 1) PROVE Holds(q, Key(q, c.keys[i]))'
      BY <1>3 DEF c
    <3> QED BY <1>2, <2>2, <2>4, <2>5, <1>3 DEF c
  <2> QED BY <2>2, <2>4, <2>6, <2>7 DEF c
<1>5. Loads(q)'
  <2> SUFFICES ASSUME call[q].pc = "loading"
               PROVE  /\ SoundAll(call[q].batch)
                      /\ \A a \in AddressesOf(call[q].batch) : Holds(q, Key(q, a))'
                      /\ AddressesOf(call[q].batch) = DOMAIN call[q].marks \cup Entries(call[q].todo)
                      /\ \A a \in DOMAIN call[q].marks :
                            call[q].marks[a] = checkpoints'[Key(q, a)]
    BY <1>1, <1>3 DEF Loads
  <2> DEFINE c == call[q]
  <2>1. c \in Loadings
    BY <1>3 DEF Calls, Lockings, Applyings, Idle
  <2>2. /\ SoundAll(c.batch)
        /\ \A a \in AddressesOf(c.batch) : Holds(q, Key(q, a))
        /\ AddressesOf(c.batch) = DOMAIN c.marks \cup Entries(c.todo)
        /\ \A a \in DOMAIN c.marks : c.marks[a] = checkpoints[Key(q, a)]
    BY DEF Caller, Loads
  <2>3. AddressesOf(c.batch) \subseteq Addresses
    BY <2>1, BatchSequence DEF Loadings
  <2> HIDE DEF c
  <2>4. \A a \in DOMAIN c.marks : c.marks[a] = checkpoints'[Key(q, a)]
    BY <1>1, <2>2, <2>3
  <2> QED BY <1>2, <2>2, <2>3, <2>4 DEF c
<1>6. Proceeds(q)'
  <2> SUFFICES ASSUME call[q].pc = "applying"
               PROVE  /\ SoundAll(call[q].apply)
                      /\ \A a \in AddressesOf(call[q].apply) : Holds(q, Key(q, a))'
                      /\ call[q].done \in 0..Len(call[q].apply)
                      /\ Entries(call[q].save) \subseteq AddressesOf(call[q].apply)
                      /\ \A i, j \in DOMAIN call[q].save : call[q].save[i] = call[q].save[j] => i = j
                      /\ \A a \in Unsaved(q) :
                            Follows(OfAddress(call[q].apply, a), checkpoints'[Key(q, a)], a)
                      /\ ~Durable => \A i \in 1..call[q].done :
                            call[q].apply[i] \in Entries(readModel'[Key(q, call[q].apply[i].addr)])
    BY <1>1, <1>3 DEF Proceeds, Unsaved
  <2> DEFINE c == call[q]
  <2>1. c \in Applyings
    BY <1>3 DEF Calls, Lockings, Loadings, Idle
  <2>2. /\ SoundAll(c.apply)
        /\ \A a \in AddressesOf(c.apply) : Holds(q, Key(q, a))
        /\ c.done \in 0..Len(c.apply)
        /\ Entries(c.save) \subseteq AddressesOf(c.apply)
        /\ \A i, j \in DOMAIN c.save : c.save[i] = c.save[j] => i = j
        /\ \A a \in Unsaved(q) : Follows(OfAddress(c.apply, a), checkpoints[Key(q, a)], a)
        /\ ~Durable => \A i \in 1..c.done :
                           c.apply[i] \in Entries(readModel[Key(q, c.apply[i].addr)])
    BY DEF Caller, Proceeds
  <2>3. c.apply \in Seq(Envelopes) /\ c.done \in Nat
    BY <2>1 DEF Applyings
  <2>4. Unsaved(q) \subseteq AddressesOf(c.apply)
    BY <2>2 DEF Unsaved
  <2> HIDE DEF c
  <2>5. \A i \in DOMAIN c.apply : c.apply[i].addr \in AddressesOf(c.apply)
    BY DEF AddressesOf
  <2>6. AddressesOf(c.apply) \subseteq Addresses
    <3>1. \A i \in DOMAIN c.apply : c.apply[i].addr \in Addresses
      BY <2>3, Deployed, ElementOfSeq
    <3> QED BY <3>1 DEF AddressesOf
  <2>7. \A a \in Unsaved(q) : Follows(OfAddress(c.apply, a), checkpoints'[Key(q, a)], a)
    <3> TAKE a \in Unsaved(q)
    <3>1. checkpoints'[Key(q, a)] = checkpoints[Key(q, a)]
      BY <1>1, <2>2, <2>4, <2>6
    <3> QED BY <2>2, <3>1
  <2>8. ASSUME ~Durable, NEW i \in 1..c.done
        PROVE  c.apply[i] \in Entries(readModel'[Key(q, c.apply[i].addr)])
    <3>1. i \in DOMAIN c.apply
      BY <2>2, <2>3, LenProperties
    <3>2. Holds(q, Key(q, c.apply[i].addr)) /\ Key(q, c.apply[i].addr) \in Keys
      BY <1>1, <2>2, <2>5, <2>6, <3>1
    <3> QED BY <2>2, <2>8, <3>2
  <2> QED BY <1>2, <2>2, <2>6, <2>7, <2>8 DEF c
<1> QED BY <1>4, <1>5, <1>6 DEF Caller

\* A call that ends leaves every queue, and the heads of the others stay.
LEMMA Released ==
  ASSUME Shape, Queues, NEW p \in Running, Release(p)
  PROVE  /\ lockTails' \in [Keys -> Seq(Running)]
         /\ \A k \in Keys :
               /\ \A i, j \in DOMAIN lockTails'[k] : lockTails'[k][i] = lockTails'[k][j] => i = j
               /\ Entries(lockTails'[k]) = Entries(lockTails[k]) \ {p}
               /\ \A q \in Running \ {p} :
                     Holds(q, k) => lockTails'[k] # <<>> /\ Head(lockTails'[k]) = q
<1>1. Running \subseteq Projectors /\ lockTails \in [Keys -> Seq(Running)]
  BY Deployed DEF Shape
<1>2. lockTails' = [k \in Keys |-> Only(lockTails[k], Projectors \ {p})]
  BY DEF Release, Without
<1>3. ASSUME NEW k \in Keys
      PROVE  /\ lockTails'[k] \in Seq(Running)
             /\ \A i, j \in DOMAIN lockTails'[k] : lockTails'[k][i] = lockTails'[k][j] => i = j
             /\ Entries(lockTails'[k]) = Entries(lockTails[k]) \ {p}
             /\ \A q \in Running \ {p} :
                   Holds(q, k) => lockTails'[k] # <<>> /\ Head(lockTails'[k]) = q
  <2> DEFINE s == lockTails[k]
             out == Only(s, Projectors \ {p})
  <2>1. lockTails'[k] = out
    BY <1>2
  <2>2. s \in Seq(Running) /\ \A i, j \in DOMAIN s : s[i] = s[j] => i = j
    BY <1>1 DEF Queues
  <2>3. Entries(s) \subseteq Projectors
    <3>1. \A i \in DOMAIN s : s[i] \in Running
      BY <2>2, ElementOfSeq, LenProperties
    <3> QED BY <1>1, <3>1 DEF Entries
  <2>4. ASSUME NEW q \in Running \ {p}, Holds(q, k) PROVE out # <<>> /\ Head(out) = q
    <3>1. s # <<>> /\ Head(s) = q /\ Head(s) \in Projectors \ {p}
      BY <1>1, <2>4 DEF Holds
    <3> HIDE DEF s
    <3> QED BY <2>2, <3>1, OnlyHead
  <2> HIDE DEF s
  <2>5. /\ out \in Seq(Running) /\ Entries(out) = Entries(s) \cap (Projectors \ {p})
        /\ \A i, j \in DOMAIN out : out[i] = out[j] => i = j
    BY <2>2, OnlyKeeps
  <2> HIDE DEF out
  <2>6. Entries(out) = Entries(s) \ {p}
    BY <2>3, <2>5
  <2> QED BY <2>1, <2>4, <2>5, <2>6 DEF s
<1>4. lockTails' \in [Keys -> Seq(Running)]
  BY <1>2, <1>3
<1> QED BY <1>3, <1>4

\* A call that queues for a key is the last there, and the heads stay.
LEMMA Queued ==
  ASSUME Shape, Queues, NEW p \in Running, NEW b \in Keys,
         p \notin Entries(lockTails[b]),
         lockTails' = [lockTails EXCEPT ![b] = Append(@, p)]
  PROVE  /\ lockTails' \in [Keys -> Seq(Running)]
         /\ \A k \in Keys :
               /\ \A i, j \in DOMAIN lockTails'[k] : lockTails'[k][i] = lockTails'[k][j] => i = j
               /\ Entries(lockTails'[k]) = IF k = b THEN Entries(lockTails[k]) \cup {p}
                                           ELSE Entries(lockTails[k])
               /\ \A q \in Running :
                     Holds(q, k) => lockTails'[k] # <<>> /\ Head(lockTails'[k]) = q
<1> DEFINE s == lockTails[b]
           t == Append(s, p)
           l == Len(s)
<1>1. lockTails \in [Keys -> Seq(Running)] /\ s \in Seq(Running)
  BY DEF Shape
<1>2. /\ lockTails'[b] = t
      /\ \A k \in Keys : k # b => lockTails'[k] = lockTails[k]
  BY <1>1
<1>3. /\ t \in Seq(Running) /\ Len(t) = l + 1 /\ l \in Nat /\ t[l + 1] = p
      /\ \A i \in 1..l : t[i] = s[i]
      /\ DOMAIN s = 1..l /\ DOMAIN t = 1..(l + 1)
  BY <1>1, AppendProperties, LenProperties
<1>4. \A i, j \in DOMAIN s : s[i] = s[j] => i = j
  BY DEF Queues
<1>5. \A i \in DOMAIN s : s[i] # p
  BY DEF Entries
<1>6. lockTails' \in [Keys -> Seq(Running)]
  BY <1>1, <1>3
<1>7. ASSUME NEW q \in Running, Holds(q, b) PROVE t # <<>> /\ Head(t) = q
  <2>1. s # <<>> /\ Head(s) = q
    BY <1>7 DEF Holds
  <2> HIDE DEF s
  <2>2. l # 0 /\ s[1] = q
    BY <1>1, <2>1, EmptySeq, HeadTailProperties
  <2> HIDE DEF t
  <2>3. t[1] = q /\ Len(t) # 0
    BY <1>3, <2>2
  <2> QED BY <1>3, <2>3, EmptySeq, HeadTailProperties
<1> HIDE DEF s, t, l
<1>8. \A i \in 1..(l + 1) : i \in 1..l \/ i = l + 1
  BY <1>3
<1>9. \A i, j \in DOMAIN t : t[i] = t[j] => i = j
  BY <1>3, <1>4, <1>5, <1>8
<1>10. Entries(t) = Entries(s) \cup {p}
  <2>1. Entries(t) \subseteq Entries(s) \cup {p}
    BY <1>3, <1>8 DEF Entries
  <2>2. Entries(s) \subseteq Entries(t)
    <3> SUFFICES ASSUME NEW i \in 1..l PROVE s[i] \in Entries(t)
      BY <1>3 DEF Entries
    <3>1. i \in DOMAIN t /\ t[i] = s[i]
      BY <1>3
    <3> QED BY <3>1 DEF Entries
  <2>3. p \in Entries(t)
    <3>1. l + 1 \in DOMAIN t /\ t[l + 1] = p
      BY <1>3
    <3> QED BY <3>1 DEF Entries
  <2> QED BY <2>1, <2>2, <2>3
<1>11. ASSUME NEW k \in Keys
       PROVE  /\ \A i, j \in DOMAIN lockTails'[k] : lockTails'[k][i] = lockTails'[k][j] => i = j
              /\ Entries(lockTails'[k]) = IF k = b THEN Entries(lockTails[k]) \cup {p}
                                          ELSE Entries(lockTails[k])
              /\ \A q \in Running :
                    Holds(q, k) => lockTails'[k] # <<>> /\ Head(lockTails'[k]) = q
  <2>1. CASE k = b
    BY ZenonT(60), <1>2, <1>7, <1>9, <1>10, <2>1 DEF s
  <2>2. CASE k # b
    <3>1. lockTails'[k] = lockTails[k]
      BY <1>2, <2>2
    <3>2. \A i, j \in DOMAIN lockTails[k] : lockTails[k][i] = lockTails[k][j] => i = j
      BY DEF Queues
    <3> QED BY <2>2, <3>1, <3>2 DEF Holds
  <2> QED BY <2>1, <2>2
<1> QED BY <1>6, <1>11

\* The stores are as they were.
LEMMA StoresKept ==
  ASSUME Shape, Stores, Within, setup' = setup, rebuild' = rebuild, UNCHANGED <<checkpoints, readModel>>
  PROVE  Stores' /\ Within' /\ checkpoints' \in [Keys -> Marks'] /\ readModel' \in [Keys -> Seq(Envelopes')]
<1>1. Durable' = Durable /\ Envelopes' = Envelopes /\ Marks' = Marks
  BY SetupFixed
<1>2. \A k, s : Behind(k, s)' <=> Behind(k, s)
  BY <1>1 DEF Behind, Intact
<1>3. Saved' = Saved
  BY DEF Saved
<1>4. Stores'
  <2>1. ASSUME NEW k \in Keys
        PROVE  /\ \A i \in DOMAIN readModel'[k] : Sound(readModel'[k][i], k[2])
               /\ \E s \in Seq(Envelopes') : Behind(k, s)'
    BY <1>1, <1>2 DEF Stores
  <2> QED BY <2>1 DEF Stores
<1> QED BY <1>1, <1>3, <1>4 DEF Within, Shape

\* A call that ends leaves all well that is not its own.
LEMMA Settled ==
  ASSUME Safe, NEW p \in Running, Settle(p), setup' = setup, rebuild' = rebuild, faults' \in 0..MaxFaults,
         checkpoints' \in [Keys -> Marks], readModel' \in [Keys -> Seq(Envelopes)],
         Stores', Within',
         \A q \in Running \ {p} : \A k \in Keys : Holds(q, k) =>
             checkpoints'[k] = checkpoints[k] /\ Entries(readModel[k]) \subseteq Entries(readModel'[k])
  PROVE  Safe'
<1>1. /\ Shape /\ Queues /\ (\A q \in Running : Caller(q)) /\ Release(p)
      /\ call' = [call EXCEPT ![p] = Idle]
  BY DEF Safe, Settle
<1>2. /\ lockTails' \in [Keys -> Seq(Running)]
      /\ \A k \in Keys :
            /\ \A i, j \in DOMAIN lockTails'[k] : lockTails'[k][i] = lockTails'[k][j] => i = j
            /\ Entries(lockTails'[k]) = Entries(lockTails[k]) \ {p}
            /\ \A q \in Running \ {p} :
                  Holds(q, k) => lockTails'[k] # <<>> /\ Head(lockTails'[k]) = q
  BY <1>1, Released
<1>3. /\ NameOf' = NameOf /\ Durable' = Durable /\ Running' = Running /\ Envelopes' = Envelopes
      /\ Marks' = Marks /\ Calls' = Calls /\ Running \subseteq Projectors
  BY <1>1, SetupFixed, Deployed
<1>4. /\ call' \in [Projectors -> Calls] /\ call'[p] = Idle
      /\ \A q \in Projectors \ {p} : call'[q] = call[q]
      /\ \A q \in Projectors \ Running : call'[q] = Idle
  BY <1>1, <1>3 DEF Shape, Calls
<1>5. Shape'
  BY <1>1, <1>2, <1>3, <1>4 DEF Shape
<1>6. Queues'
  <2>1. ASSUME NEW k \in Keys, NEW q \in Entries(lockTails'[k])
        PROVE  NameOf[q] = k[1] /\ call'[q] # Idle
    <3>1. q \in Entries(lockTails[k]) /\ q # p
      BY <1>2, <2>1
    <3>2. q \in Projectors
      <4>1. lockTails[k] \in Seq(Running)
        BY <1>1 DEF Shape
      <4>2. \A i \in DOMAIN lockTails[k] : lockTails[k][i] \in Running
        BY <4>1, ElementOfSeq, LenProperties
      <4> QED BY <1>3, <3>1, <4>2 DEF Entries
    <3> QED BY <1>1, <1>4, <3>1, <3>2 DEF Queues
  <2> QED BY <1>2, <1>3, <2>1 DEF Queues
<1>7. ASSUME NEW q \in Running PROVE Caller(q)'
  <2>1. CASE q = p
    <3>1. call'[q].pc = "idle"
      BY <1>4, <2>1 DEF Idle
    <3> QED BY <3>1 DEF Caller, Locks, Loads, Proceeds
  <2>2. CASE q # p
    <3>1. call'[q] = call[q]
      BY <1>3, <1>4, <2>2
    <3>2. \A k \in Keys : Holds(q, k) => /\ Holds(q, k)' /\ checkpoints'[k] = checkpoints[k]
                                         /\ Entries(readModel[k]) \subseteq Entries(readModel'[k])
      BY <1>2, <2>2 DEF Holds
    <3>3. \A k \in Keys : q \in Entries(lockTails[k]) <=> q \in Entries(lockTails'[k])
      BY <1>2, <2>2
    <3> QED BY <1>1, <3>1, <3>2, <3>3, Frame
  <2> QED BY <2>1, <2>2
<1>8. \A q \in Running' : Caller(q)'
  BY <1>3, <1>7
<1> QED BY <1>5, <1>6, <1>8 DEF Safe

\* A call that ends without having changed a store leaves all well.
LEMMA SettledOnly ==
  ASSUME Safe, NEW p \in Running, Settle(p), setup' = setup, rebuild' = rebuild, faults' \in 0..MaxFaults,
         UNCHANGED <<checkpoints, readModel>>
  PROVE  Safe'
<1>1. Shape /\ Stores /\ Within
  BY DEF Safe
<1>2. Envelopes' = Envelopes /\ Marks' = Marks
  BY SetupFixed
<1>3. /\ Stores' /\ Within' /\ checkpoints' \in [Keys -> Marks]
      /\ readModel' \in [Keys -> Seq(Envelopes)]
  BY <1>1, <1>2, StoresKept
<1> QED BY <1>3, Settled

\* A call that goes on with the locks it has.
LEMMA Moved ==
  ASSUME Safe, NEW p \in Running, NEW c \in Calls, c # Idle, call' = [call EXCEPT ![p] = c],
         setup' = setup, rebuild' = rebuild, UNCHANGED <<lockTails, faults>>, Caller(p)',
         checkpoints' \in [Keys -> Marks], readModel' \in [Keys -> Seq(Envelopes)],
         Stores', Within',
         \A q \in Running \ {p} : \A k \in Keys : Holds(q, k) =>
             checkpoints'[k] = checkpoints[k] /\ Entries(readModel[k]) \subseteq Entries(readModel'[k])
  PROVE  Safe'
<1>1. Shape /\ Queues /\ \A q \in Running : Caller(q)
  BY DEF Safe
<1>2. /\ NameOf' = NameOf /\ Durable' = Durable /\ Running' = Running /\ Envelopes' = Envelopes
      /\ Marks' = Marks /\ Calls' = Calls /\ Running \subseteq Projectors
  BY <1>1, SetupFixed, Deployed
<1>3. /\ call' \in [Projectors -> Calls] /\ call'[p] = c
      /\ \A q \in Projectors \ {p} : call'[q] = call[q]
      /\ \A q \in Projectors \ Running : call'[q] = Idle
  BY <1>1, <1>2 DEF Shape
<1>4. Shape'
  BY <1>1, <1>2, <1>3 DEF Shape
<1>5. Queues'
  <2>1. ASSUME NEW k \in Keys, NEW q \in Entries(lockTails[k])
        PROVE  NameOf[q] = k[1] /\ call'[q] # Idle
    <3>1. q \in Projectors
      <4>1. lockTails[k] \in Seq(Running)
        BY <1>1 DEF Shape
      <4>2. \A i \in DOMAIN lockTails[k] : lockTails[k][i] \in Running
        BY <4>1, ElementOfSeq, LenProperties
      <4> QED BY <1>2, <2>1, <4>2 DEF Entries
    <3>2. NameOf[q] = k[1] /\ call[q] # Idle
      BY <1>1, <2>1 DEF Queues
    <3> QED BY <1>3, <3>1, <3>2
  <2>2. \A k \in Keys : \A i, j \in DOMAIN lockTails[k] : lockTails[k][i] = lockTails[k][j] => i = j
    BY <1>1 DEF Queues
  <2> QED BY <1>2, <2>1, <2>2 DEF Queues
<1>6. ASSUME NEW q \in Running PROVE Caller(q)'
  <2>1. CASE q = p
    <3>1. \A x : x = q => Caller(x)'
      BY <2>1
    <3> QED BY <3>1
  <2>2. CASE q # p
    <3>1. call'[q] = call[q]
      BY <1>2, <1>3, <2>2
    <3>2. \A k \in Keys : Holds(q, k) => /\ Holds(q, k)' /\ checkpoints'[k] = checkpoints[k]
                                         /\ Entries(readModel[k]) \subseteq Entries(readModel'[k])
      BY <2>2 DEF Holds
    <3> QED BY <1>1, <3>1, <3>2, Frame
  <2> QED BY <2>1, <2>2
<1>7. \A q \in Running' : Caller(q)'
  BY <1>2, <1>6
<1> QED BY <1>4, <1>5, <1>7 DEF Safe

\* A call that goes on without having changed a store.
LEMMA MovedOnly ==
  ASSUME Safe, NEW p \in Running, NEW c \in Calls, c # Idle, call' = [call EXCEPT ![p] = c],
         setup' = setup, rebuild' = rebuild, UNCHANGED <<lockTails, faults>>, Caller(p)',
         UNCHANGED <<checkpoints, readModel>>
  PROVE  Safe'
<1>1. Shape /\ Stores /\ Within
  BY DEF Safe
<1>2. Envelopes' = Envelopes /\ Marks' = Marks
  BY SetupFixed
<1>3. /\ Stores' /\ Within' /\ checkpoints' \in [Keys -> Marks]
      /\ readModel' \in [Keys -> Seq(Envelopes)]
  BY <1>1, <1>2, StoresKept
<1> QED BY <1>3, Moved

\* A call that queues for its next key.
LEMMA MovedQueued ==
  ASSUME Safe, NEW p \in Running, NEW c \in Calls, c # Idle, call' = [call EXCEPT ![p] = c],
         NEW b \in Keys, b[1] = NameOf[p], p \notin Entries(lockTails[b]),
         lockTails' = [lockTails EXCEPT ![b] = Append(@, p)],
         setup' = setup, rebuild' = rebuild, UNCHANGED <<checkpoints, readModel, faults>>, Caller(p)'
  PROVE  Safe'
<1>1. Shape /\ Queues /\ (\A q \in Running : Caller(q)) /\ Stores /\ Within
  BY DEF Safe
<1>2. /\ NameOf' = NameOf /\ Durable' = Durable /\ Running' = Running /\ Envelopes' = Envelopes
      /\ Marks' = Marks /\ Calls' = Calls /\ Running \subseteq Projectors
  BY <1>1, SetupFixed, Deployed
<1>3. /\ call' \in [Projectors -> Calls] /\ call'[p] = c
      /\ \A q \in Projectors \ {p} : call'[q] = call[q]
      /\ \A q \in Projectors \ Running : call'[q] = Idle
  BY <1>1, <1>2 DEF Shape
<1>4. /\ lockTails' \in [Keys -> Seq(Running)]
      /\ \A k \in Keys :
            /\ \A i, j \in DOMAIN lockTails'[k] : lockTails'[k][i] = lockTails'[k][j] => i = j
            /\ Entries(lockTails'[k]) = IF k = b THEN Entries(lockTails[k]) \cup {p}
                                        ELSE Entries(lockTails[k])
            /\ \A q \in Running :
                  Holds(q, k) => lockTails'[k] # <<>> /\ Head(lockTails'[k]) = q
  BY <1>1, Queued
<1>10. \A k \in Keys : \A q : q \in Entries(lockTails'[k])
                             <=> q \in Entries(lockTails[k]) \/ (k = b /\ q = p)
  <2> TAKE k \in Keys
  <2>1. CASE k = b
    <3>1. Entries(lockTails'[k]) = Entries(lockTails[k]) \cup {p}
      BY <1>4, <2>1
    <3> QED BY <2>1, <3>1
  <2>2. CASE k # b
    <3>1. Entries(lockTails'[k]) = Entries(lockTails[k])
      BY <1>4, <2>2
    <3> QED BY <2>2, <3>1
  <2> QED BY <2>1, <2>2
<1>5. Stores' /\ Within'
  BY <1>1, StoresKept
<1>6. Shape'
  BY <1>1, <1>2, <1>3, <1>4 DEF Shape
<1>7. Queues'
  <2>1. ASSUME NEW k \in Keys, NEW q \in Entries(lockTails'[k])
        PROVE  NameOf[q] = k[1] /\ call'[q] # Idle
    <3>1. CASE q \in Entries(lockTails[k])
      <4>1. q \in Projectors
        <5>1. lockTails[k] \in Seq(Running)
          BY <1>1 DEF Shape
        <5>2. \A i \in DOMAIN lockTails[k] : lockTails[k][i] \in Running
          BY <5>1, ElementOfSeq, LenProperties
        <5> QED BY <1>2, <3>1, <5>2 DEF Entries
      <4>2. NameOf[q] = k[1] /\ call[q] # Idle
        BY <1>1, <3>1 DEF Queues
      <4> QED BY <1>3, <4>1, <4>2
    <3>2. CASE q \notin Entries(lockTails[k])
      <4>1. k = b /\ q = p
        BY <1>10, <2>1, <3>2
      <4> QED BY <1>3, <4>1
    <3> QED BY <3>1, <3>2
  <2> QED BY <1>2, <1>4, <2>1 DEF Queues
<1>8. ASSUME NEW q \in Running PROVE Caller(q)'
  <2>1. CASE q = p
    <3>1. \A x : x = q => Caller(x)'
      BY <2>1
    <3> QED BY <3>1
  <2>2. CASE q # p
    <3>1. call'[q] = call[q]
      BY <1>2, <1>3, <2>2
    <3>2. \A k \in Keys : Holds(q, k) => /\ Holds(q, k)' /\ checkpoints'[k] = checkpoints[k]
                                         /\ Entries(readModel[k]) \subseteq Entries(readModel'[k])
      BY <1>4 DEF Holds
    <3>3. \A k \in Keys : q \in Entries(lockTails[k]) <=> q \in Entries(lockTails'[k])
      BY <1>10, <2>2
    <3> QED BY <1>1, <3>1, <3>2, <3>3, Frame
  <2> QED BY <2>1, <2>2
<1>9. \A q \in Running' : Caller(q)'
  BY <1>2, <1>8
<1> QED BY <1>5, <1>6, <1>7, <1>9 DEF Safe

-----------------------------------------------------------------------------
(* One step at a time *)

\* A batch is taken, its first key queued for.
LEMMA ProjectSafe ==
  ASSUME Safe, NEW p \in Running, NEW batch \in Batches, Project(p, batch), setup' = setup, rebuild' = rebuild
  PROVE  Safe'
<1> DEFINE keys == LockSequence(batch)
           c == [pc |-> "locking", batch |-> batch, keys |-> keys, next |-> 1]
           b == Key(p, keys[1])
<1>1. Shape /\ Queues /\ call[p] = Idle
  BY DEF Safe, Project
<1>2. /\ call' = [call EXCEPT ![p] = c]
      /\ lockTails' = [lockTails EXCEPT ![b] = Append(@, p)]
      /\ UNCHANGED <<checkpoints, readModel, faults>>
      /\ \A i \in DOMAIN batch : Projectable(batch[i])
  BY DEF Project
<1>3. /\ keys \in Seq(Addresses) /\ Len(keys) \in Nat \ {0} /\ DOMAIN keys = 1..Len(keys)
      /\ \A i, j \in DOMAIN keys : keys[i] = keys[j] => i = j
  BY <1>1, LockSequenceLists
<1>4. batch \in Seq(Envelopes) /\ SoundAll(batch)
  <2>1. batch \in Seq(Envelopes) /\ DOMAIN batch = 1..Len(batch)
    BY <1>1, BatchSequence
  <2>2. \A i \in DOMAIN batch : batch[i].pos \in Position
    BY <1>1, <2>1, ElementOfSeq, Deployed
  <2> QED BY <1>2, <2>1, <2>2 DEF SoundAll, Sound, Projectable
<1>5. keys = LockSequence(batch)
  OBVIOUS
<1> HIDE DEF keys
<1>6. \A i \in 1..Len(keys) : keys[i] \in Addresses /\ Key(p, keys[i]) \in Keys
  BY <1>1, <1>3, ElementOfSeq, KeyPairs
<1>7. b \in Keys /\ b[1] = NameOf[p]
  BY <1>1, <1>3, <1>6, KeyPairs
<1>8. \A k \in Keys : p \notin Entries(lockTails[k])
  BY <1>1 DEF Queues
<1>9. c \in Calls /\ c # Idle
  <2>1. c \in Lockings
    BY <1>3 DEF Lockings
  <2>2. c.pc # Idle.pc
    BY DEF Idle
  <2> QED BY <2>1, <2>2 DEF Calls
<1>10. c.pc = "locking" /\ c.batch = batch /\ c.keys = keys /\ c.next = 1
  OBVIOUS
<1> HIDE DEF c
<1>11. /\ call'[p] = c /\ NameOf' = NameOf /\ \A a : Key(p, a)' = Key(p, a)
  BY <1>1, <1>2, SetupFixed, Deployed DEF Shape, Key
<1>12. /\ p \in Entries(lockTails'[b])
       /\ \A k \in Keys : k # b => lockTails'[k] = lockTails[k]
  <2>1. lockTails \in [Keys -> Seq(Running)]
    BY <1>1 DEF Shape
  <2> HIDE DEF b
  <2>2. /\ \A k \in Keys : k # b => lockTails'[k] = lockTails[k]
        /\ Entries(lockTails'[b]) = Entries(lockTails[b]) \cup {p}
    BY <1>1, <1>2, <1>7, <1>8, <2>1, Queued
  <2> QED BY <2>2
<1>13. Caller(p)'
  <2>1. ASSUME NEW i \in 2..Len(keys) PROVE p \notin Entries(lockTails'[Key(p, keys[i])])
    <3>1. Key(p, keys[i]) # b /\ Key(p, keys[i]) \in Keys
      BY <1>1, <1>3, <1>6, KeyPairs
    <3> QED BY <1>8, <1>12, <3>1
  <2>2. /\ p \in Entries(lockTails'[Key(p, c.keys[c.next])])
        /\ \A i \in (c.next + 1)..Len(c.keys) : p \notin Entries(lockTails'[Key(p, c.keys[i])])
    BY <1>10, <1>12, <2>1
  <2>3. SoundAll(c.batch) /\ c.keys = LockSequence(c.batch) /\ c.next \in 1..Len(c.keys)
    BY <1>3, <1>4, <1>5, <1>10
  <2>4. 1..(c.next - 1) = {}
    BY <1>10
  <2>5. Locks(p)'
    BY <1>11, <2>2, <2>3, <2>4 DEF Locks
  <2> QED BY <1>10, <1>11, <2>5 DEF Caller, Loads, Proceeds
<1> HIDE DEF b
<1> QED BY <1>2, <1>7, <1>8, <1>9, <1>13, MovedQueued

\* A key is granted.
LEMMA LockSafe ==
  ASSUME Safe, NEW p \in Running, Lock(p), setup' = setup, rebuild' = rebuild
  PROVE  Safe'
<1> DEFINE c == call[p]
<1>1. Shape /\ Queues /\ Caller(p) /\ c.pc = "locking" /\ Running \subseteq Projectors
  BY Deployed DEF Safe, Lock
<1>2. c \in Lockings
  <2>1. c \in Calls
    BY <1>1 DEF Shape
  <2> QED BY <1>1, <2>1 DEF Calls, Loadings, Applyings, Idle
<1>3. /\ SoundAll(c.batch) /\ c.keys = LockSequence(c.batch) /\ c.next \in 1..Len(c.keys)
      /\ \A i \in 1..(c.next - 1) : Holds(p, Key(p, c.keys[i]))
      /\ p \in Entries(lockTails[Key(p, c.keys[c.next])])
      /\ \A i \in (c.next + 1)..Len(c.keys) : p \notin Entries(lockTails[Key(p, c.keys[i])])
  BY <1>1 DEF Caller, Locks
<1>4. /\ Holds(p, Key(p, c.keys[c.next]))
      /\ UNCHANGED <<checkpoints, readModel, faults>>
  BY DEF Lock
<1>5. c.batch \in Batches /\ c.next \in Nat
  BY <1>2 DEF Lockings
<1>6. /\ c.keys \in Seq(Addresses) /\ Len(c.keys) \in Nat /\ DOMAIN c.keys = 1..Len(c.keys)
      /\ Entries(c.keys) = AddressesOf(c.batch)
      /\ \A i, j \in DOMAIN c.keys : c.keys[i] = c.keys[j] => i = j
  BY <1>1, <1>3, <1>5, LockSequenceLists
<1>7. \A i \in 1..Len(c.keys) : c.keys[i] \in Addresses /\ Key(p, c.keys[i]) \in Keys
  BY <1>1, <1>6, ElementOfSeq, KeyPairs
<1>8. NameOf' = NameOf /\ \A a : Key(p, a)' = Key(p, a)
  BY SetupFixed DEF Key
<1>9. CASE c.next < Len(c.keys)
  <2> DEFINE n == c.next + 1
             d == [c EXCEPT !.next = c.next + 1]
             b == Key(p, c.keys[c.next + 1])
  <2>1. call' = [call EXCEPT ![p] = d] /\ lockTails' = [lockTails EXCEPT ![b] = Append(@, p)]
    <3>1. /\ call' = [call EXCEPT ![p].next = @ + 1]
          /\ lockTails' = [lockTails EXCEPT ![b] = Append(@, p)]
      BY <1>9 DEF Lock
    <3>2. [call EXCEPT ![p].next = @ + 1] = [call EXCEPT ![p] = d]
      OBVIOUS
    <3> QED BY <3>1, <3>2
  <2>2. /\ d \in Lockings /\ d.pc = "locking" /\ d.batch = c.batch /\ d.keys = c.keys
        /\ d.next = n
    BY <1>2 DEF Lockings
  <2> HIDE DEF d, c
  <2>3. d \in Calls /\ d # Idle
    <3>1. d.pc # Idle.pc
      BY <2>2 DEF Idle
    <3> QED BY <2>2, <3>1 DEF Calls
  <2>4. n \in 1..Len(c.keys) /\ n \in (c.next + 1)..Len(c.keys) /\ n \in Nat
    BY <1>5, <1>6, <1>9
  <2>5. b \in Keys /\ b[1] = NameOf[p] /\ p \notin Entries(lockTails[b])
    BY <1>1, <1>3, <1>7, <2>4, KeyPairs
  <2>6. call'[p] = d
    BY <1>1, <2>1 DEF Shape
  <2>7. lockTails \in [Keys -> Seq(Running)] /\ b = Key(p, c.keys[n])
    BY <1>1 DEF Shape
  <2> HIDE DEF b, n
  <2>8. /\ \A k \in Keys : k # b => lockTails'[k] = lockTails[k]
        /\ Entries(lockTails'[b]) = Entries(lockTails[b]) \cup {p}
        /\ \A k \in Keys : Holds(p, k) => lockTails'[k] # <<>> /\ Head(lockTails'[k]) = p
    <3>1. lockTails' = [lockTails EXCEPT ![b] = Append(@, p)]
      BY <2>1
    <3>2. \A k \in Keys :
            /\ Entries(lockTails'[k]) = IF k = b THEN Entries(lockTails[k]) \cup {p}
                                        ELSE Entries(lockTails[k])
            /\ \A q \in Running :
                  Holds(q, k) => lockTails'[k] # <<>> /\ Head(lockTails'[k]) = q
      BY <1>1, <2>5, <3>1, Queued
    <3>3. \A k \in Keys : k # b => lockTails'[k] = lockTails[k]
      BY <2>7, <3>1
    <3> QED BY <2>5, <3>2, <3>3
  <2>9. Caller(p)'
    <3>1. p \in Entries(lockTails'[Key(p, d.keys[d.next])])
      BY <2>2, <2>7, <2>8
    <3>2. \A i \in 1..Len(c.keys) : i # n => Key(p, c.keys[i]) # b
      BY SMTT(40), <1>1, <1>6, <1>7, <2>4, <2>7, KeyPairs
    <3>3. \A i \in (n + 1)..Len(c.keys) : p \notin Entries(lockTails'[Key(p, c.keys[i])])
      <4> TAKE i \in (n + 1)..Len(c.keys)
      <4>1. i \in (c.next + 1)..Len(c.keys) /\ i \in 1..Len(c.keys) /\ i # n
        BY <1>5, <1>6, <2>4 DEF n
      <4> QED BY <1>3, <1>7, <2>8, <3>2, <4>1
    <3>4. ASSUME NEW i \in 1..(n - 1)
          PROVE  /\ lockTails'[Key(p, c.keys[i])] # <<>>
                 /\ Head(lockTails'[Key(p, c.keys[i])]) = p
      <4>1. i \in 1..(c.next - 1) \/ i = c.next
        BY <1>5, <2>4 DEF n
      <4>2. i \in 1..Len(c.keys)
        BY <1>5, <1>6, <2>4 DEF n
      <4>3. Holds(p, Key(p, c.keys[i]))
        BY <1>3, <1>4, <4>1
      <4> QED BY <1>7, <2>8, <4>2, <4>3
    <3>5. SoundAll(d.batch) /\ d.keys = LockSequence(d.batch) /\ d.next \in 1..Len(d.keys)
      BY <1>3, <2>2, <2>4
    <3>6. /\ \A i \in 1..(d.next - 1) : /\ lockTails'[Key(p, d.keys[i])] # <<>>
                                        /\ Head(lockTails'[Key(p, d.keys[i])]) = p
          /\ \A i \in (d.next + 1)..Len(d.keys) :
                p \notin Entries(lockTails'[Key(p, d.keys[i])])
      BY <2>2, <3>3, <3>4
    <3>7. Locks(p)'
      BY <1>8, <2>6, <3>1, <3>5, <3>6 DEF Locks, Holds
    <3> QED BY <1>8, <2>2, <2>6, <3>7 DEF Caller, Loads, Proceeds
  <2> QED BY <1>4, <2>1, <2>3, <2>5, <2>9, MovedQueued
<1>10. CASE ~(c.next < Len(c.keys))
  <2> DEFINE todo == FirstSeen(c.batch)
             d == [pc |-> "loading", batch |-> c.batch, todo |-> FirstSeen(c.batch), marks |-> <<>>]
  <2>1. call' = [call EXCEPT ![p] = d] /\ UNCHANGED lockTails
    BY <1>10 DEF Lock
  <2>2. d.pc = "loading" /\ d.batch = c.batch /\ d.todo = todo /\ d.marks = <<>>
    OBVIOUS
  <2>3. /\ todo \in Seq(Addresses) /\ Entries(todo) = AddressesOf(c.batch)
        /\ AddressesOf(c.batch) \subseteq Addresses
    <3>1. c.batch \in Seq(Envelopes) /\ AddressesOf(c.batch) \subseteq Addresses
      BY <1>1, <1>5, BatchSequence
    <3>2. todo \in Seq(AddressesOf(c.batch)) /\ Entries(todo) = AddressesOf(c.batch)
      BY <3>1, FirstSeenLists
    <3> HIDE DEF todo, c
    <3>3. /\ Len(todo) \in Nat /\ DOMAIN todo = 1..Len(todo)
          /\ \A i \in 1..Len(todo) : todo[i] \in Addresses
          /\ todo = [i \in 1..Len(todo) |-> todo[i]]
      BY <3>1, <3>2, ElementOfSeq, LenProperties
    <3> QED BY <3>1, <3>2, <3>3, IsASeq
  <2>4. d \in Calls /\ d # Idle
    <3>1. <<>> \in [{} -> Marks]
      OBVIOUS
    <3>2. <<>> \in UNION {[A -> Marks] : A \in SUBSET Addresses}
      BY <3>1
    <3> HIDE DEF todo
    <3>3. d \in Loadings
      BY <1>5, <2>3, <3>2 DEF Loadings, todo
    <3>4. d.pc # Idle.pc
      BY DEF Idle
    <3> QED BY <3>3, <3>4 DEF Calls
  <2> HIDE DEF d
  <2>5. call'[p] = d
    BY <1>1, <2>1 DEF Shape
  <2>6. \A a \in AddressesOf(c.batch) : Holds(p, Key(p, a))
    <3> TAKE a \in AddressesOf(c.batch)
    <3>1. PICK i \in 1..Len(c.keys) : c.keys[i] = a
      BY <1>6 DEF Entries
    <3>2. i \in 1..(c.next - 1) \/ i = c.next
      BY <1>3, <1>5, <1>6, <1>10
    <3> QED BY <1>3, <1>4, <3>1, <3>2
  <2>7. Loads(p)'
    <3>1. \A a \in AddressesOf(d.batch) : lockTails'[Key(p, a)] # <<>> /\ Head(lockTails'[Key(p, a)]) = p
      BY <2>1, <2>2, <2>6 DEF Holds
    <3>2. DOMAIN d.marks = {}
      BY <2>2
    <3>3. AddressesOf(d.batch) = DOMAIN d.marks \cup Entries(d.todo) /\ SoundAll(d.batch)
      BY <1>3, <2>2, <2>3, <3>2
    <3> HIDE DEF c, todo
    <3> QED BY <1>8, <2>5, <3>1, <3>2, <3>3 DEF Loads, Holds
  <2>8. Caller(p)'
    BY <2>2, <2>5, <2>7 DEF Caller, Locks, Proceeds
  <2> QED BY <1>4, <2>1, <2>4, <2>8, MovedOnly
<1> QED BY <1>9, <1>10

\* One more checkpoint is loaded.
LEMMA LoadSafe ==
  ASSUME Safe, NEW p \in Running, Load(p), setup' = setup, rebuild' = rebuild
  PROVE  Safe'
<1> DEFINE c == call[p]
           addr == Head(c.todo)
           mark == checkpoints[Key(p, addr)]
           ms == AddMark(c.marks, addr, mark)
           d == [c EXCEPT !.todo = Tail(c.todo), !.marks = ms]
<1>1. Shape /\ Caller(p) /\ c.pc = "loading" /\ c.todo # <<>> /\ Running \subseteq Projectors
  BY Deployed DEF Safe, Load
<1>2. c \in Loadings
  <2>1. c \in Calls
    BY <1>1 DEF Shape
  <2> QED BY <1>1, <2>1 DEF Calls, Lockings, Applyings, Idle
<1>3. /\ SoundAll(c.batch)
      /\ \A a \in AddressesOf(c.batch) : Holds(p, Key(p, a))
      /\ AddressesOf(c.batch) = DOMAIN c.marks \cup Entries(c.todo)
      /\ \A a \in DOMAIN c.marks : c.marks[a] = checkpoints[Key(p, a)]
  BY <1>1 DEF Caller, Loads
<1>4. call' = [call EXCEPT ![p] = d] /\ UNCHANGED <<checkpoints, readModel, lockTails, faults>>
  <2>1. /\ call' = [call EXCEPT ![p].todo = Tail(@),
                                ![p].marks = AddMark(@, addr, mark)]
        /\ UNCHANGED <<checkpoints, readModel, lockTails, faults>>
    BY DEF Load
  <2> QED BY <1>1, <2>1 DEF Shape
<1>5. c.todo \in Seq(Addresses) /\ c.batch \in Batches
      /\ \E A \in SUBSET Addresses : c.marks \in [A -> Marks]
  BY <1>2 DEF Loadings
<1>6. /\ addr \in Addresses /\ Tail(c.todo) \in Seq(Addresses)
      /\ Entries(c.todo) = {addr} \cup Entries(Tail(c.todo))
  <2> DEFINE s == c.todo
             t == Tail(s)
  <2>1. /\ s \in Seq(Addresses) /\ s # <<>>
    BY <1>1, <1>5
  <2> HIDE DEF c, s
  <2>2. /\ t \in Seq(Addresses) /\ Len(t) = Len(s) - 1 /\ Head(s) = s[1] /\ Head(s) \in Addresses
        /\ Len(s) \in Nat /\ Len(s) # 0 /\ DOMAIN s = 1..Len(s) /\ DOMAIN t = 1..Len(t)
        /\ \A i \in 1..Len(t) : t[i] = s[i + 1]
    BY <2>1, HeadTailProperties, LenProperties, EmptySeq
  <2> HIDE DEF t
  <2>3. Entries(s) \subseteq {s[1]} \cup Entries(t)
    <3> SUFFICES ASSUME NEW i \in 1..Len(s), i # 1 PROVE s[i] \in Entries(t)
      BY <2>2 DEF Entries
    <3>1. i - 1 \in DOMAIN t /\ t[i - 1] = s[i]
      BY <2>2
    <3> QED BY <3>1 DEF Entries
  <2>4. Entries(t) \subseteq Entries(s)
    <3> SUFFICES ASSUME NEW i \in 1..Len(t) PROVE t[i] \in Entries(s)
      BY <2>2 DEF Entries
    <3>1. i + 1 \in DOMAIN s /\ s[i + 1] = t[i]
      BY <2>2
    <3> QED BY <3>1 DEF Entries
  <2>5. s[1] \in Entries(s)
    <3>1. 1 \in DOMAIN s
      BY <2>2
    <3> QED BY <3>1 DEF Entries
  <2> QED BY <2>2, <2>3, <2>4, <2>5 DEF t, s
<1>7. Key(p, addr) \in Keys /\ mark \in Marks
  BY <1>1, <1>6, KeyPairs DEF Shape
<1>8. /\ DOMAIN ms = DOMAIN c.marks \cup {addr} /\ ms[addr] = mark
      /\ \A a \in DOMAIN c.marks : a # addr => ms[a] = c.marks[a]
      /\ ms \in UNION {[A -> Marks] : A \in SUBSET Addresses}
  <2>1. PICK A \in SUBSET Addresses : c.marks \in [A -> Marks]
    BY <1>5
  <2> HIDE DEF c, addr, mark
  <2>2. ms = [b \in A \cup {addr} |-> IF b = addr THEN mark ELSE c.marks[b]]
    BY <2>1 DEF AddMark
  <2>3. ms \in [A \cup {addr} -> Marks] /\ A \cup {addr} \in SUBSET Addresses
    BY <1>6, <1>7, <2>1, <2>2
  <2> HIDE DEF ms
  <2> QED BY <2>1, <2>2, <2>3
<1> HIDE DEF ms, addr, mark
<1>9. /\ d \in Loadings /\ d.pc = "loading" /\ d.batch = c.batch /\ d.todo = Tail(c.todo)
      /\ d.marks = ms
  BY <1>2, <1>6, <1>8 DEF Loadings
<1> HIDE DEF d, c
<1>10. d \in Calls /\ d # Idle
  <2>1. d.pc # Idle.pc
    BY <1>9 DEF Idle
  <2> QED BY <1>9, <2>1 DEF Calls
<1>11. /\ call'[p] = d /\ \A a : Key(p, a)' = Key(p, a)
  BY <1>1, <1>4, SetupFixed DEF Shape, Key
<1>12. Caller(p)'
  <2>1. \A a \in AddressesOf(d.batch) : lockTails'[Key(p, a)] # <<>> /\ Head(lockTails'[Key(p, a)]) = p
    BY <1>3, <1>4, <1>9 DEF Holds
  <2>2. AddressesOf(d.batch) = DOMAIN d.marks \cup Entries(d.todo) /\ SoundAll(d.batch)
    BY <1>3, <1>6, <1>8, <1>9
  <2>3. \A a \in DOMAIN d.marks : d.marks[a] = checkpoints'[Key(p, a)]
    BY <1>3, <1>4, <1>8, <1>9 DEF mark
  <2>4. Loads(p)'
    BY <1>11, <2>1, <2>2, <2>3 DEF Loads, Holds
  <2> QED BY <1>9, <1>11, <2>4 DEF Caller, Locks, Proceeds
<1> QED BY <1>4, <1>10, <1>12, MovedOnly

\* The batch does not follow: the call ends.
LEMMA RefuseSafe ==
  ASSUME Safe, NEW p \in Running, Refuse(p), setup' = setup, rebuild' = rebuild
  PROVE  Safe'
<1>1. Settle(p) /\ UNCHANGED <<checkpoints, readModel, faults>> /\ faults \in 0..MaxFaults
  BY DEF Refuse, Safe, Shape
<1> QED BY <1>1, SettledOnly

\* The batch follows the checkpoints, which are still what was loaded.
LEMMA ProveSafe ==
  ASSUME Safe, NEW p \in Running, Prove(p), setup' = setup, rebuild' = rebuild
  PROVE  Safe'
<1> DEFINE c == call[p]
           w == Walk(c.batch, c.marks)
           save == FirstSeen(w.apply)
           d == [pc |-> "applying", apply |-> w.apply, done |-> 0, save |-> save]
<1>1. Shape /\ Caller(p) /\ c.pc = "loading" /\ c.todo = <<>> /\ Running \subseteq Projectors
  BY Deployed DEF Safe, Prove
<1>2. c \in Loadings
  <2>1. c \in Calls
    BY <1>1 DEF Shape
  <2> QED BY <1>1, <2>1 DEF Calls, Lockings, Applyings, Idle
<1>3. /\ SoundAll(c.batch)
      /\ \A a \in AddressesOf(c.batch) : Holds(p, Key(p, a))
      /\ AddressesOf(c.batch) = DOMAIN c.marks \cup Entries(c.todo)
      /\ \A a \in DOMAIN c.marks : c.marks[a] = checkpoints[Key(p, a)]
  BY <1>1 DEF Caller, Loads
<1>4. call' = [call EXCEPT ![p] = d] /\ UNCHANGED <<checkpoints, readModel, lockTails, faults>>
  BY DEF Prove
<1>5. /\ c.batch \in Batches /\ c.batch \in Seq(Envelopes) /\ DOMAIN c.batch = 1..Len(c.batch)
      /\ \E A \in SUBSET Addresses : c.marks \in [A -> Marks]
      /\ AddressesOf(c.batch) \subseteq Addresses
  BY <1>1, <1>2, BatchSequence DEF Loadings
<1>6. AddressesOf(c.batch) = DOMAIN c.marks
  <2>1. Entries(<<>>) = {}
    BY DEF Entries
  <2> QED BY <1>1, <1>3, <2>1
<1>7. Walked(w, c.batch, c.marks, Envelopes, Marks)
  <2>1. c.marks \in [DOMAIN c.marks -> Marks]
    BY <1>5
  <2>2. \A i \in 1..Len(c.batch) : c.batch[i] \in Envelopes
    BY <1>5, ElementOfSeq
  <2>3. \A i \in 1..Len(c.batch) : Receipt(c.batch[i]) \in Marks
    BY <2>2 DEF Marks
  <2>4. \A i \in 1..Len(c.batch) : /\ Sound(c.batch[i], c.batch[i].addr)
                                   /\ c.batch[i].addr \in DOMAIN c.marks
    BY <1>3, <1>5, <1>6 DEF SoundAll, AddressesOf
  <2> HIDE DEF c
  <2> QED BY <1>5, <2>1, <2>3, <2>4, WalkFollows
<1> HIDE DEF w
<1>8. /\ w.apply \in Seq(Envelopes)
      /\ \A i \in 1..Len(w.apply) : \E j \in 1..Len(c.batch) : w.apply[i] = c.batch[j]
      /\ \A a \in DOMAIN c.marks : Follows(OfAddress(w.apply, a), c.marks[a], a)
  BY <1>7 DEF Walked
<1>9. DOMAIN w.apply = 1..Len(w.apply) /\ Len(w.apply) \in Nat
  BY <1>8, LenProperties
<1>10. SoundAll(w.apply) /\ AddressesOf(w.apply) \subseteq AddressesOf(c.batch)
  <2>1. \A i \in DOMAIN w.apply : \E j \in DOMAIN c.batch : w.apply[i] = c.batch[j]
    BY <1>5, <1>8, <1>9
  <2> QED BY <1>3, <2>1 DEF SoundAll, AddressesOf
<1>11. /\ save \in Seq(AddressesOf(w.apply)) /\ Entries(save) = AddressesOf(w.apply)
       /\ \A i, j \in DOMAIN save : save[i] = save[j] => i = j
  BY <1>8, FirstSeenLists
<1> HIDE DEF save
<1>12. save \in Seq(Addresses)
  <2>1. /\ Len(save) \in Nat /\ DOMAIN save = 1..Len(save)
        /\ \A i \in 1..Len(save) : save[i] \in Addresses
        /\ save = [i \in 1..Len(save) |-> save[i]]
    BY <1>5, <1>10, <1>11, ElementOfSeq, LenProperties
  <2> QED BY <2>1, IsASeq
<1>13. /\ d \in Applyings /\ d.pc = "applying" /\ d.apply = w.apply /\ d.done = 0
       /\ d.save = save
  BY <1>8, <1>12 DEF Applyings
<1> HIDE DEF d, c
<1>14. d \in Calls /\ d # Idle
  <2>1. d.pc # Idle.pc
    BY <1>13 DEF Idle
  <2> QED BY <1>13, <2>1 DEF Calls
<1>15. call'[p] = d /\ Durable' = Durable /\ \A a : Key(p, a)' = Key(p, a)
  BY <1>1, <1>4, SetupFixed DEF Shape, Key
<1>16. Caller(p)'
  <2>1. \A a \in AddressesOf(d.apply) : lockTails'[Key(p, a)] # <<>> /\ Head(lockTails'[Key(p, a)]) = p
    BY <1>3, <1>4, <1>10, <1>13 DEF Holds
  <2>2. Unsaved(p)' = AddressesOf(d.apply)
    BY <1>11, <1>13, <1>15 DEF Unsaved
  <2>3. \A a \in AddressesOf(d.apply) :
           Follows(OfAddress(d.apply, a), checkpoints'[Key(p, a)], a)
    <3> TAKE a \in AddressesOf(d.apply)
    <3>1. a \in DOMAIN c.marks
      BY <1>6, <1>10, <1>13
    <3>2. checkpoints'[Key(p, a)] = c.marks[a]
      BY <1>3, <1>4, <3>1
    <3> QED BY <1>8, <1>13, <3>1, <3>2
  <2>4. SoundAll(d.apply) /\ d.done \in 0..Len(d.apply) /\ 1..d.done = {}
    BY <1>9, <1>10, <1>13
  <2>5. /\ Entries(d.save) \subseteq AddressesOf(d.apply)
        /\ \A i, j \in DOMAIN d.save : d.save[i] = d.save[j] => i = j
    BY <1>11, <1>13
  <2>6. Proceeds(p)'
    BY <1>15, <2>1, <2>2, <2>3, <2>4, <2>5 DEF Proceeds, Holds
  <2> QED BY <1>13, <1>15, <2>6 DEF Caller, Locks, Loads
<1> QED BY <1>4, <1>14, <1>16, MovedOnly

\* What a call that applies knows, with its types.
LEMMA Applying ==
  ASSUME Safe, NEW p \in Running, call[p].pc = "applying"
  PROVE  /\ call[p] \in Applyings
         /\ call[p].apply \in Seq(Envelopes) /\ DOMAIN call[p].apply = 1..Len(call[p].apply)
         /\ Len(call[p].apply) \in Nat /\ call[p].done \in Nat
         /\ call[p].save \in Seq(Addresses)
         /\ AddressesOf(call[p].apply) \subseteq Addresses
         /\ SoundAll(call[p].apply)
         /\ \A a \in AddressesOf(call[p].apply) : Holds(p, Key(p, a)) /\ Key(p, a) \in Keys
         /\ call[p].done \in 0..Len(call[p].apply)
         /\ Entries(call[p].save) \subseteq AddressesOf(call[p].apply)
         /\ \A i, j \in DOMAIN call[p].save : call[p].save[i] = call[p].save[j] => i = j
         /\ \A a \in Unsaved(p) : Follows(OfAddress(call[p].apply, a), checkpoints[Key(p, a)], a)
         /\ ~Durable => \A i \in 1..call[p].done :
                            call[p].apply[i] \in Entries(readModel[Key(p, call[p].apply[i].addr)])
<1> DEFINE c == call[p]
<1>1. Shape /\ Caller(p) /\ Running \subseteq Projectors
  BY Deployed DEF Safe
<1>2. c \in Applyings
  <2>1. c \in Calls
    BY <1>1 DEF Shape
  <2> QED BY <2>1 DEF Calls, Lockings, Loadings, Idle
<1>3. /\ SoundAll(c.apply)
      /\ \A a \in AddressesOf(c.apply) : Holds(p, Key(p, a))
      /\ c.done \in 0..Len(c.apply)
      /\ Entries(c.save) \subseteq AddressesOf(c.apply)
      /\ \A i, j \in DOMAIN c.save : c.save[i] = c.save[j] => i = j
      /\ \A a \in Unsaved(p) : Follows(OfAddress(c.apply, a), checkpoints[Key(p, a)], a)
      /\ ~Durable => \A i \in 1..c.done :
                         c.apply[i] \in Entries(readModel[Key(p, c.apply[i].addr)])
  BY <1>1 DEF Caller, Proceeds
<1>4. c.apply \in Seq(Envelopes) /\ c.done \in Nat /\ c.save \in Seq(Addresses)
  BY <1>2 DEF Applyings
<1> HIDE DEF c
<1>5. DOMAIN c.apply = 1..Len(c.apply) /\ Len(c.apply) \in Nat
  BY <1>4, LenProperties
<1>6. AddressesOf(c.apply) \subseteq Addresses
  <2>1. \A i \in DOMAIN c.apply : c.apply[i].addr \in Addresses
    BY <1>1, <1>4, <1>5, Deployed, ElementOfSeq
  <2> QED BY <2>1 DEF AddressesOf
<1>7. \A a \in AddressesOf(c.apply) : Key(p, a) \in Keys
  BY <1>1, <1>6, KeyPairs
<1> QED BY <1>2, <1>3, <1>4, <1>5, <1>6, <1>7 DEF c

\* One more event is applied.
LEMMA ApplySafe ==
  ASSUME Safe, NEW p \in Running, Apply(p), setup' = setup, rebuild' = rebuild
  PROVE  Safe'
<1> DEFINE c == call[p]
           n == c.done + 1
           e == c.apply[n]
           k == Key(p, e.addr)
           d == [c EXCEPT !.done = n]
<1>1. Shape /\ Stores /\ Within /\ c.pc = "applying" /\ c.done < Len(c.apply) /\ Running \subseteq Projectors
  BY Deployed DEF Safe, Apply
<1>2. /\ c \in Applyings /\ c.apply \in Seq(Envelopes) /\ DOMAIN c.apply = 1..Len(c.apply)
      /\ Len(c.apply) \in Nat /\ c.done \in Nat
      /\ c.save \in Seq(Addresses) /\ AddressesOf(c.apply) \subseteq Addresses
      /\ SoundAll(c.apply)
      /\ \A a \in AddressesOf(c.apply) : Holds(p, Key(p, a)) /\ Key(p, a) \in Keys
      /\ c.done \in 0..Len(c.apply)
      /\ Entries(c.save) \subseteq AddressesOf(c.apply)
      /\ \A i, j \in DOMAIN c.save : c.save[i] = c.save[j] => i = j
      /\ \A a \in Unsaved(p) : Follows(OfAddress(c.apply, a), checkpoints[Key(p, a)], a)
      /\ ~Durable => \A i \in 1..c.done :
                         c.apply[i] \in Entries(readModel[Key(p, c.apply[i].addr)])
  BY <1>1, Applying
<1>3. /\ call' = [call EXCEPT ![p].done = @ + 1]
      /\ readModel' = IF Durable THEN readModel
                      ELSE [readModel EXCEPT ![k] = Append(@, e)]
      /\ UNCHANGED <<checkpoints, lockTails, faults>>
  BY DEF Apply
<1>4. call' = [call EXCEPT ![p] = d]
  BY <1>1, <1>3 DEF Shape
<1>5. /\ d \in Applyings /\ d.pc = "applying" /\ d.apply = c.apply /\ d.done = n /\ d.save = c.save
  BY <1>2 DEF Applyings
<1>6. n \in 1..Len(c.apply) /\ n \in DOMAIN c.apply /\ n \in Nat
  BY <1>1, <1>2
<1>7. e \in Envelopes /\ Sound(e, e.addr) /\ e.addr \in AddressesOf(c.apply)
  BY <1>2, <1>6, ElementOfSeq DEF SoundAll, AddressesOf
<1>8. k \in Keys /\ k[2] = e.addr
  BY <1>1, <1>2, <1>7, KeyPairs
<1> HIDE DEF d, c, n
<1>9. d \in Calls /\ d # Idle
  <2>1. d.pc # Idle.pc
    BY <1>5 DEF Idle
  <2> QED BY <1>5, <2>1 DEF Calls
<1> HIDE DEF e, k
<1>10. /\ readModel' \in [Keys -> Seq(Envelopes)]
       /\ \A j \in Keys : Entries(readModel[j]) \subseteq Entries(readModel'[j])
       /\ ~Durable => e \in Entries(readModel'[k])
       /\ \A j \in Keys : \A i \in DOMAIN readModel'[j] : Sound(readModel'[j][i], j[2])
       /\ Durable => readModel' = readModel
  <2>1. /\ readModel \in [Keys -> Seq(Envelopes)]
        /\ \A j \in Keys : \A i \in DOMAIN readModel[j] : Sound(readModel[j][i], j[2])
    BY <1>1 DEF Shape, Stores
  <2>2. CASE Durable
    BY <1>3, <2>1, <2>2
  <2>3. CASE ~Durable
    <3> DEFINE s == readModel[k]
               t == Append(s, e)
    <3>1. readModel' = [readModel EXCEPT ![k] = t] /\ s \in Seq(Envelopes)
      BY <1>3, <1>8, <2>1, <2>3
    <3>2. /\ t \in Seq(Envelopes) /\ Len(t) = Len(s) + 1 /\ Len(s) \in Nat
          /\ t[Len(s) + 1] = e /\ \A i \in 1..Len(s) : t[i] = s[i]
          /\ DOMAIN s = 1..Len(s) /\ DOMAIN t = 1..(Len(s) + 1)
      BY <1>7, <3>1, AppendProperties, LenProperties
    <3>3. readModel'[k] = t /\ \A j \in Keys : j # k => readModel'[j] = readModel[j]
      BY <1>8, <2>1, <3>1
    <3>4. readModel' \in [Keys -> Seq(Envelopes)]
      BY <2>1, <3>1, <3>2
    <3>5. \A i \in DOMAIN s : Sound(s[i], k[2])
      BY <1>8, <2>1
    <3> HIDE DEF s, t
    <3>6. Entries(s) \subseteq Entries(t)
      <4> SUFFICES ASSUME NEW i \in 1..Len(s) PROVE s[i] \in Entries(t)
        BY <3>2 DEF Entries
      <4>1. i \in DOMAIN t /\ t[i] = s[i]
        BY <3>2
      <4> QED BY <4>1 DEF Entries
    <3>7. e \in Entries(t)
      <4>1. Len(s) + 1 \in DOMAIN t
        BY <3>2
      <4> QED BY <3>2, <4>1 DEF Entries
    <3>8. \A i \in DOMAIN t : Sound(t[i], k[2])
      <4>1. \A i \in DOMAIN t : i \in 1..Len(s) \/ i = Len(s) + 1
        BY <3>2
      <4> QED BY <1>7, <1>8, <3>2, <3>5, <4>1
    <3>9. \A j \in Keys : /\ Entries(readModel[j]) \subseteq Entries(readModel'[j])
                          /\ \A i \in DOMAIN readModel'[j] : Sound(readModel'[j][i], j[2])
      <4> TAKE j \in Keys
      <4>1. CASE j = k
        BY <3>3, <3>6, <3>8, <4>1 DEF s
      <4>2. CASE j # k
        BY <2>1, <3>3, <4>2
      <4> QED BY <4>1, <4>2
    <3> QED BY <2>3, <3>3, <3>4, <3>7, <3>9
  <2> QED BY <2>2, <2>3
<1>11. /\ Durable' = Durable /\ Envelopes' = Envelopes /\ Marks' = Marks
       /\ \A a : Key(p, a)' = Key(p, a)
       /\ call'[p] = d
  BY <1>1, <1>4, SetupFixed DEF Shape, Key
<1>12. Stores'
  <2>1. ASSUME NEW j \in Keys PROVE \E s \in Seq(Envelopes) : Behind(j, s)'
    <3>1. PICK s \in Seq(Envelopes) : Behind(j, s)
      BY <1>1 DEF Stores
    <3>2. Behind(j, s)'
      BY <1>3, <1>10, <1>11, <3>1 DEF Behind, Intact
    <3> QED BY <3>2
  <2> QED BY <1>10, <1>11, <2>1 DEF Stores
<1>13. Within' /\ checkpoints' \in [Keys -> Marks]
  <2>1. Saved' = Saved
    BY <1>3 DEF Saved
  <2> QED BY <1>1, <1>3, <1>11, <2>1 DEF Within, Shape
<1>14. Caller(p)'
  <2>1. \A a \in AddressesOf(d.apply) : lockTails'[Key(p, a)] # <<>> /\ Head(lockTails'[Key(p, a)]) = p
    BY <1>2, <1>3, <1>5 DEF Holds
  <2>2. Unsaved(p)' = Unsaved(p)
    BY <1>5, <1>11 DEF Unsaved, c
  <2>3. \A a \in Unsaved(p) : Follows(OfAddress(d.apply, a), checkpoints'[Key(p, a)], a)
    BY <1>2, <1>3, <1>5
  <2>4. SoundAll(d.apply) /\ d.done \in 0..Len(d.apply)
    BY <1>2, <1>5, <1>6
  <2>5. /\ Entries(d.save) \subseteq AddressesOf(d.apply)
        /\ \A i, j \in DOMAIN d.save : d.save[i] = d.save[j] => i = j
    BY <1>2, <1>5
  <2>6. ~Durable => \A i \in 1..d.done : d.apply[i] \in Entries(readModel'[Key(p, d.apply[i].addr)])
    <3> SUFFICES ASSUME ~Durable, NEW i \in 1..n
                 PROVE  c.apply[i] \in Entries(readModel'[Key(p, c.apply[i].addr)])
      BY <1>5
    <3>1. CASE i = n
      BY <1>10, <3>1 DEF e, k
    <3>2. CASE i # n
      <4>1. i \in 1..c.done /\ i \in DOMAIN c.apply
        BY <1>2, <1>6, <3>2 DEF n
      <4>2. Key(p, c.apply[i].addr) \in Keys
        BY <1>2, <4>1 DEF AddressesOf
      <4> QED BY <1>2, <1>10, <4>1, <4>2
    <3> QED BY <3>1, <3>2
  <2>7. Proceeds(p)'
    BY <1>11, <2>1, <2>2, <2>3, <2>4, <2>5, <2>6 DEF Proceeds, Holds
  <2> QED BY <1>5, <1>11, <2>7 DEF Caller, Locks, Loads
<1> QED BY <1>3, <1>4, <1>9, <1>10, <1>12, <1>13, <1>14, Moved

\* A handler throws.
LEMMA ApplyFailsSafe ==
  ASSUME Safe, NEW p \in Running, ApplyFails(p), setup' = setup, rebuild' = rebuild
  PROVE  Safe'
<1>1. Settle(p) /\ UNCHANGED <<checkpoints, readModel>> /\ (UNCHANGED faults \/ Fault)
  BY DEF ApplyFails
<1>2. faults \in 0..MaxFaults /\ MaxFaults \in Nat
  BY ProjectionAssumption DEF Safe, Shape
<1>3. faults' \in 0..MaxFaults
  BY <1>1, <1>2 DEF Fault
<1> QED BY <1>1, <1>3, SettledOnly

\* A checkpoint is one too many.
LEMMA SaveRejectedSafe ==
  ASSUME Safe, NEW p \in Running, SaveRejected(p), setup' = setup, rebuild' = rebuild
  PROVE  Safe'
<1>1. Settle(p) /\ UNCHANGED <<checkpoints, readModel, faults>> /\ faults \in 0..MaxFaults
  BY DEF SaveRejected, Safe, Shape
<1> QED BY <1>1, SettledOnly

\* A transaction rolls back.
LEMMA RollbackSafe ==
  ASSUME Safe, NEW p \in Running, Rollback(p), setup' = setup, rebuild' = rebuild
  PROVE  Safe'
<1>1. Settle(p) /\ UNCHANGED <<checkpoints, readModel>> /\ Fault
  BY DEF Rollback
<1>2. faults \in 0..MaxFaults /\ MaxFaults \in Nat
  BY ProjectionAssumption DEF Safe, Shape
<1>3. faults' \in 0..MaxFaults
  BY <1>1, <1>2 DEF Fault
<1> QED BY <1>1, <1>3, SettledOnly

\* What was applied takes the chain of an address on: to the watermark saved.
LEMMA Advances ==
  ASSUME Safe, NEW p \in Running, call[p].pc = "applying", call[p].done = Len(call[p].apply),
         NEW a \in Unsaved(p)
  PROVE  /\ Watermark(call[p].apply, a) \in Marks /\ Watermark(call[p].apply, a) # NoCheckpoint
         /\ \E s \in Seq(Envelopes) :
               /\ Follows(s, NoCheckpoint, a)
               /\ Watermark(call[p].apply, a) = MarkAfter(s, NoCheckpoint)
               /\ Durable => s = readModel[Key(p, a)] \o OfAddress(call[p].apply, a)
               /\ ~Durable /\ Intact(NameOf[p]) => Entries(s) \subseteq Entries(readModel[Key(p, a)])
<1> DEFINE c == call[p]
           k == Key(p, a)
           t == OfAddress(c.apply, a)
<1>1. /\ c.apply \in Seq(Envelopes) /\ DOMAIN c.apply = 1..Len(c.apply)
      /\ AddressesOf(c.apply) \subseteq Addresses
      /\ \A b \in AddressesOf(c.apply) : Holds(p, Key(p, b)) /\ Key(p, b) \in Keys
      /\ Entries(c.save) \subseteq AddressesOf(c.apply)
      /\ \A b \in Unsaved(p) : Follows(OfAddress(c.apply, b), checkpoints[Key(p, b)], b)
      /\ ~Durable => \A i \in 1..c.done :
                         c.apply[i] \in Entries(readModel[Key(p, c.apply[i].addr)])
  BY Applying
<1>2. Shape /\ Stores
  BY DEF Safe
<1>3. a \in AddressesOf(c.apply) /\ a \in Addresses
  BY <1>1 DEF Unsaved
<1>4. k \in Keys /\ k[1] = NameOf[p] /\ k[2] = a
  BY <1>1, <1>2, <1>3, KeyPairs
<1>5. c.done = Len(c.apply) /\ Follows(t, checkpoints[k], a)
  BY <1>1
<1> HIDE DEF c
<1>6. t \in Seq(Envelopes) /\ Entries(t) = {x \in Entries(c.apply) : x.addr = a} /\ t # <<>>
  BY <1>1, <1>3, OfAddressKeeps
<1>7. PICK s \in Seq(Envelopes) : Behind(k, s)
  BY <1>2, <1>4 DEF Stores
<1>8. /\ Follows(s, NoCheckpoint, a) /\ checkpoints[k] = MarkAfter(s, NoCheckpoint)
      /\ Intact(NameOf[p]) => Entries(s) \subseteq Entries(readModel[k])
      /\ Durable => s = readModel[k]
  BY <1>4, <1>7 DEF Behind, Intact
<1> HIDE DEF k
<1>9. Watermark(c.apply, a) = Receipt(t[Len(t)])
  BY DEF Watermark, Last
<1> HIDE DEF t
<1> DEFINE u == s \o t
<1>10. /\ u \in Seq(Envelopes) /\ Follows(u, NoCheckpoint, a)
       /\ MarkAfter(u, NoCheckpoint) = MarkAfter(t, checkpoints[k])
  <2>1. Follows(t, MarkAfter(s, NoCheckpoint), a)
    BY <1>5, <1>8
  <2> QED BY <1>6, <1>8, <2>1, FollowsConcat, ConcatProperties
<1>11. Entries(u) = Entries(s) \cup Entries(t)
  BY <1>6, EntriesConcat
<1>12. ASSUME ~Durable PROVE Entries(t) \subseteq Entries(readModel[k])
  <2> SUFFICES ASSUME NEW i \in DOMAIN c.apply, c.apply[i].addr = a
               PROVE  c.apply[i] \in Entries(readModel[k])
    BY <1>6 DEF Entries
  <2>1. c.apply[i] \in Entries(readModel[Key(p, c.apply[i].addr)])
    BY <1>1, <1>5, <1>12 DEF c
  <2> QED BY <2>1 DEF k
<1>13. Watermark(c.apply, a) \in Marks /\ Watermark(c.apply, a) # NoCheckpoint
  <2>1. t[Len(t)] \in Envelopes
    <3>1. Len(t) \in 1..Len(t)
      BY <1>6, EmptySeq, LenProperties
    <3> QED BY <1>6, <3>1, ElementOfSeq
  <2> QED BY <1>9, <2>1, ReceiptExists DEF Marks
<1>14. MarkAfter(t, checkpoints[k]) = Watermark(c.apply, a)
  BY <1>6, <1>9 DEF MarkAfter
<1> HIDE DEF u
<1>15. /\ u \in Seq(Envelopes) /\ Follows(u, NoCheckpoint, a)
       /\ Watermark(c.apply, a) = MarkAfter(u, NoCheckpoint)
       /\ Durable => u = readModel[k] \o t
       /\ ~Durable /\ Intact(NameOf[p]) => Entries(u) \subseteq Entries(readModel[k])
  BY <1>8, <1>10, <1>11, <1>12, <1>14 DEF u
<1> QED BY <1>13, <1>15 DEF c, t, k

\* One more checkpoint is saved.
LEMMA SaveSafe ==
  ASSUME Safe, NEW p \in Running, Save(p), setup' = setup, rebuild' = rebuild
  PROVE  Safe'
<1> DEFINE c == call[p]
           a == Head(c.save)
           k == Key(p, a)
           rest == Tail(c.save)
           d == [c EXCEPT !.save = rest]
<1>1. /\ Shape /\ Stores /\ Within /\ c.pc = "applying" /\ c.done = Len(c.apply) /\ c.save # <<>>
      /\ Running \subseteq Projectors
  BY Deployed DEF Safe, Save, Applied
<1>2. /\ c \in Applyings /\ c.apply \in Seq(Envelopes) /\ DOMAIN c.apply = 1..Len(c.apply)
      /\ Len(c.apply) \in Nat /\ c.done \in Nat
      /\ c.save \in Seq(Addresses) /\ AddressesOf(c.apply) \subseteq Addresses
      /\ SoundAll(c.apply)
      /\ \A b \in AddressesOf(c.apply) : Holds(p, Key(p, b)) /\ Key(p, b) \in Keys
      /\ c.done \in 0..Len(c.apply)
      /\ Entries(c.save) \subseteq AddressesOf(c.apply)
      /\ \A i, j \in DOMAIN c.save : c.save[i] = c.save[j] => i = j
      /\ \A b \in Unsaved(p) : Follows(OfAddress(c.apply, b), checkpoints[Key(p, b)], b)
      /\ ~Durable => \A i \in 1..c.done :
                         c.apply[i] \in Entries(readModel[Key(p, c.apply[i].addr)])
  BY <1>1, Applying
<1>3. /\ SaveFits(k)
      /\ checkpoints' = IF Durable THEN checkpoints
                        ELSE [checkpoints EXCEPT ![k] = Watermark(c.apply, k[2])]
      /\ call' = [call EXCEPT ![p].save = Tail(@)]
      /\ UNCHANGED <<readModel, lockTails, faults>>
  BY DEF Save
<1>4. call' = [call EXCEPT ![p] = d]
  BY <1>1, <1>3 DEF Shape
<1>5. /\ rest \in Seq(Addresses) /\ Entries(rest) = Entries(c.save) \ {a}
      /\ a \in Entries(c.save)
      /\ \A i, j \in DOMAIN rest : rest[i] = rest[j] => i = j
  <2> DEFINE s == c.save
             t == Tail(s)
  <2>1. /\ s \in Seq(Addresses) /\ s # <<>> /\ \A i, j \in DOMAIN s : s[i] = s[j] => i = j
    BY <1>1, <1>2
  <2> HIDE DEF c, s
  <2>2. /\ t \in Seq(Addresses) /\ Len(t) = Len(s) - 1 /\ Head(s) = s[1]
        /\ Len(s) \in Nat /\ Len(s) # 0 /\ DOMAIN s = 1..Len(s) /\ DOMAIN t = 1..Len(t)
        /\ \A i \in 1..Len(t) : t[i] = s[i + 1]
    BY <2>1, HeadTailProperties, LenProperties, EmptySeq
  <2> HIDE DEF t
  <2>3. Entries(s) \subseteq {s[1]} \cup Entries(t)
    <3> SUFFICES ASSUME NEW i \in 1..Len(s), i # 1 PROVE s[i] \in Entries(t)
      BY <2>2 DEF Entries
    <3>1. i - 1 \in DOMAIN t /\ t[i - 1] = s[i]
      BY <2>2
    <3> QED BY <3>1 DEF Entries
  <2>4. Entries(t) \subseteq Entries(s) \ {s[1]}
    <3> SUFFICES ASSUME NEW i \in 1..Len(t) PROVE t[i] \in Entries(s) /\ t[i] # s[1]
      BY <2>2 DEF Entries
    <3>1. i + 1 \in DOMAIN s /\ s[i + 1] = t[i] /\ 1 \in DOMAIN s /\ i + 1 # 1
      BY <2>2
    <3> QED BY <2>1, <3>1 DEF Entries
  <2>5. s[1] \in Entries(s)
    <3>1. 1 \in DOMAIN s
      BY <2>2
    <3> QED BY <3>1 DEF Entries
  <2>6. ASSUME NEW i \in DOMAIN t, NEW j \in DOMAIN t, t[i] = t[j] PROVE i = j
    <3>1. /\ i + 1 \in DOMAIN s /\ j + 1 \in DOMAIN s /\ s[i + 1] = s[j + 1]
          /\ i \in Nat /\ j \in Nat
      BY <2>2, <2>6
    <3>2. i + 1 = j + 1
      BY <2>1, <3>1
    <3> QED BY <3>1, <3>2
  <2>7. t \in Seq(Addresses) /\ Entries(t) = Entries(s) \ {s[1]}
    BY <2>2, <2>3, <2>4
  <2> QED BY <2>2, <2>5, <2>6, <2>7 DEF t, s
<1>6. a \in AddressesOf(c.apply) /\ k \in Keys /\ k[1] = NameOf[p] /\ k[2] = a /\ Holds(p, k)
  BY <1>1, <1>2, <1>5, KeyPairs
<1> HIDE DEF rest
<1>7. /\ d \in Applyings /\ d.pc = "applying" /\ d.apply = c.apply /\ d.done = c.done
      /\ d.save = rest
  BY <1>2, <1>5 DEF Applyings
<1>8. a \in Unsaved(p)
  BY <1>5, <1>6 DEF Unsaved
<1>9. /\ Watermark(c.apply, a) \in Marks /\ Watermark(c.apply, a) # NoCheckpoint
      /\ \E s \in Seq(Envelopes) :
            /\ Follows(s, NoCheckpoint, a)
            /\ Watermark(c.apply, a) = MarkAfter(s, NoCheckpoint)
            /\ Durable => s = readModel[k] \o OfAddress(c.apply, a)
            /\ ~Durable /\ Intact(NameOf[p]) => Entries(s) \subseteq Entries(readModel[k])
  BY <1>1, <1>8, Advances
<1> HIDE DEF d, a
<1>10. d \in Calls /\ d # Idle
  <2>1. d.pc # Idle.pc
    BY <1>7 DEF Idle
  <2> QED BY <1>7, <2>1 DEF Calls
<1> HIDE DEF c
<1>11. /\ Durable' = Durable /\ Envelopes' = Envelopes /\ Marks' = Marks
       /\ \A b : Key(p, b)' = Key(p, b)
       /\ call'[p] = d
  BY <1>1, <1>4, SetupFixed DEF Shape, Key
<1>12. \A b \in AddressesOf(c.apply) : b # a => Key(p, b) # k
  BY <1>1, <1>2, <1>6, KeyPairs
<1>13. /\ checkpoints' \in [Keys -> Marks]
       /\ \A j \in Keys : j # k => checkpoints'[j] = checkpoints[j]
       /\ Durable => checkpoints' = checkpoints
       /\ ~Durable => checkpoints'[k] = Watermark(c.apply, a)
  <2>1. checkpoints \in [Keys -> Marks]
    BY <1>1 DEF Shape
  <2> HIDE DEF k
  <2> QED BY <1>3, <1>6, <1>9, <2>1
<1> HIDE DEF k
<1>14. Stores'
  <2>1. ASSUME NEW j \in Keys PROVE \E s \in Seq(Envelopes) : Behind(j, s)'
    <3>1. CASE Durable \/ j # k
      <4>1. PICK s \in Seq(Envelopes) : Behind(j, s)
        BY <1>1 DEF Stores
      <4>2. checkpoints'[j] = checkpoints[j] /\ readModel'[j] = readModel[j]
        BY <1>3, <1>13, <3>1
      <4>3. Behind(j, s)'
        BY <1>11, <4>1, <4>2 DEF Behind, Intact
      <4> QED BY <4>3
    <3>2. CASE ~Durable /\ j = k
      <4>1. PICK s \in Seq(Envelopes) : /\ Follows(s, NoCheckpoint, a)
                                        /\ Watermark(c.apply, a) = MarkAfter(s, NoCheckpoint)
                                        /\ Intact(NameOf[p]) => Entries(s) \subseteq Entries(readModel[k])
        BY <1>9, <3>2
      <4>2. /\ checkpoints'[j] = MarkAfter(s, NoCheckpoint) /\ readModel'[j] = readModel[k]
            /\ j[1] = NameOf[p] /\ j[2] = a
        BY <1>3, <1>6, <1>13, <3>2, <4>1
      <4>3. Behind(j, s)'
        BY <1>11, <3>2, <4>1, <4>2 DEF Behind, Intact
      <4> QED BY <4>3
    <3> QED BY <3>1, <3>2
  <2>2. \A j \in Keys : \A i \in DOMAIN readModel'[j] : Sound(readModel'[j][i], j[2])
    BY <1>1, <1>3 DEF Stores
  <2> QED BY <1>11, <2>1, <2>2 DEF Stores
<1>15. Within'
  <2> SUFFICES ASSUME ~Durable PROVE IsFiniteSet(Saved') /\ Cardinality(Saved') <= MaxCheckpoints
    BY <1>11 DEF Within
  <2>1. IsFiniteSet(Saved) /\ Cardinality(Saved) <= MaxCheckpoints /\ MaxCheckpoints \in Nat
    BY <1>1, ProjectionAssumption DEF Within
  <2>2. Saved' = Saved \cup {k}
    BY <1>6, <1>9, <1>13 DEF Saved
  <2>3. CASE k \in Saved
    <3>1. Saved' = Saved
      BY <2>2, <2>3
    <3> QED BY <2>1, <3>1
  <2>4. CASE k \notin Saved
    <3>1. Cardinality(Saved) < MaxCheckpoints
      BY <1>3, <1>6, <2>4 DEF SaveFits, CheckpointCount, Saved
    <3>2. IsFiniteSet(Saved \cup {k}) /\ Cardinality(Saved \cup {k}) = Cardinality(Saved) + 1
      BY <2>1, <2>4, FS_AddElement
    <3>3. Cardinality(Saved) \in Nat
      BY <2>1, FS_CardinalityType
    <3> QED BY <2>1, <2>2, <3>1, <3>2, <3>3
  <2> QED BY <2>3, <2>4
<1>16. ASSUME NEW q \in Running \ {p}, NEW j \in Keys, Holds(q, j)
       PROVE  checkpoints'[j] = checkpoints[j] /\ Entries(readModel[j]) \subseteq Entries(readModel'[j])
  <2>1. j # k
    BY <1>6, <1>16, HoldersAlone
  <2> QED BY <1>3, <1>13, <2>1
<1>17. Caller(p)'
  <2>1. \A b \in AddressesOf(d.apply) : lockTails'[Key(p, b)] # <<>> /\ Head(lockTails'[Key(p, b)]) = p
    BY <1>2, <1>3, <1>7 DEF Holds
  <2>2. Unsaved(p)' = IF Durable THEN AddressesOf(c.apply) ELSE Entries(rest)
    BY <1>7, <1>11 DEF Unsaved
  <2>3. ASSUME NEW b \in (IF Durable THEN AddressesOf(c.apply) ELSE Entries(rest))
        PROVE  Follows(OfAddress(d.apply, b), checkpoints'[Key(p, b)], b)
    <3>1. b \in Unsaved(p) /\ b \in AddressesOf(c.apply) /\ (~Durable => b # a)
      BY <1>2, <1>5, <2>3 DEF Unsaved, c
    <3>2. checkpoints'[Key(p, b)] = checkpoints[Key(p, b)]
      BY <1>2, <1>12, <1>13, <3>1
    <3> QED BY <1>2, <1>7, <3>1, <3>2
  <2>4. SoundAll(d.apply) /\ d.done \in 0..Len(d.apply)
    BY <1>2, <1>7
  <2>5. /\ Entries(d.save) \subseteq AddressesOf(d.apply)
        /\ \A i, j \in DOMAIN d.save : d.save[i] = d.save[j] => i = j
    BY <1>2, <1>5, <1>7
  <2>6. ~Durable => \A i \in 1..d.done : d.apply[i] \in Entries(readModel'[Key(p, d.apply[i].addr)])
    BY <1>2, <1>3, <1>7
  <2>7. Proceeds(p)'
    BY <1>11, <2>1, <2>2, <2>3, <2>4, <2>5, <2>6 DEF Proceeds, Holds
  <2> QED BY <1>7, <1>11, <2>7 DEF Caller, Locks, Loads
<1>18. readModel' \in [Keys -> Seq(Envelopes)]
  BY <1>1, <1>3 DEF Shape
<1> QED BY <1>3, <1>4, <1>10, <1>13, <1>14, <1>15, <1>16, <1>17, <1>18, Moved

\* A transaction commits, or the passthrough scope ends.
LEMMA ResolveSafe ==
  ASSUME Safe, NEW p \in Running, Resolve(p), setup' = setup, rebuild' = rebuild
  PROVE  Safe'
<1> DEFINE c == call[p]
           wrote(k) == Durable /\ k[1] = NameOf[p]
           t(b) == OfAddress(c.apply, b)
<1>1. /\ Shape /\ Queues /\ Stores /\ Within /\ c.pc = "applying" /\ c.done = Len(c.apply)
      /\ faults \in 0..MaxFaults
  BY DEF Safe, Shape, Resolve, Finished, Applied
<1>2. /\ c.apply \in Seq(Envelopes) /\ DOMAIN c.apply = 1..Len(c.apply)
      /\ AddressesOf(c.apply) \subseteq Addresses /\ SoundAll(c.apply)
      /\ \A a \in AddressesOf(c.apply) : Holds(p, Key(p, a)) /\ Key(p, a) \in Keys
  BY <1>1, Applying
<1>3. /\ readModel' = [k \in Keys |-> IF wrote(k) THEN readModel[k] \o t(k[2]) ELSE readModel[k]]
      /\ checkpoints' = [k \in Keys |-> IF wrote(k) /\ k[2] \in AddressesOf(c.apply)
                                        THEN Watermark(c.apply, k[2]) ELSE checkpoints[k]]
      /\ Settle(p) /\ UNCHANGED faults
  BY DEF Resolve
<1>4. \A a \in AddressesOf(c.apply) : Durable =>
         /\ Watermark(c.apply, a) \in Marks
         /\ \E s \in Seq(Envelopes) : /\ Follows(s, NoCheckpoint, a)
                                      /\ Watermark(c.apply, a) = MarkAfter(s, NoCheckpoint)
                                      /\ s = readModel[Key(p, a)] \o t(a)
  <2> SUFFICES ASSUME NEW a \in AddressesOf(c.apply), Durable
               PROVE  /\ Watermark(c.apply, a) \in Marks
                      /\ \E s \in Seq(Envelopes) : /\ Follows(s, NoCheckpoint, a)
                                                   /\ Watermark(c.apply, a) = MarkAfter(s, NoCheckpoint)
                                                   /\ s = readModel[Key(p, a)] \o t(a)
    OBVIOUS
  <2>1. a \in Unsaved(p)
    BY DEF Unsaved
  <2> QED BY <1>1, <2>1, Advances
<1> HIDE DEF c
<1>5. \A a : /\ t(a) \in Seq(Envelopes) /\ Entries(t(a)) = {x \in Entries(c.apply) : x.addr = a}
             /\ a \in AddressesOf(c.apply) <=> t(a) # <<>>
  BY <1>2, OfAddressKeeps
<1> HIDE DEF t
<1>6. /\ checkpoints \in [Keys -> Marks] /\ readModel \in [Keys -> Seq(Envelopes)]
      /\ \A k \in Keys : \A i \in DOMAIN readModel[k] : Sound(readModel[k][i], k[2])
  BY <1>1 DEF Shape, Stores
<1>7. checkpoints' \in [Keys -> Marks] /\ readModel' \in [Keys -> Seq(Envelopes)]
  <2>1. \A k \in Keys : readModel[k] \o t(k[2]) \in Seq(Envelopes)
    BY <1>5, <1>6, ConcatProperties
  <2>2. \A k \in Keys : wrote(k) => Durable
    OBVIOUS
  <2> HIDE DEF wrote
  <2> QED BY <1>3, <1>4, <1>6, <2>1, <2>2
<1>8. ASSUME NEW k \in Keys
      PROVE  /\ readModel'[k] = IF wrote(k) THEN readModel[k] \o t(k[2]) ELSE readModel[k]
             /\ checkpoints'[k] = IF wrote(k) /\ k[2] \in AddressesOf(c.apply)
                                  THEN Watermark(c.apply, k[2]) ELSE checkpoints[k]
             /\ Entries(readModel'[k]) = IF wrote(k) THEN Entries(readModel[k]) \cup Entries(t(k[2]))
                                         ELSE Entries(readModel[k])
  <2>1. Entries(readModel[k] \o t(k[2])) = Entries(readModel[k]) \cup Entries(t(k[2]))
    BY <1>5, <1>6, EntriesConcat
  <2> HIDE DEF wrote
  <2> QED BY <1>3, <2>1
<1>9. Durable' = Durable /\ Envelopes' = Envelopes /\ Marks' = Marks
  BY SetupFixed
<1>10. ASSUME NEW k \in Keys, NEW i \in DOMAIN readModel'[k] PROVE Sound(readModel'[k][i], k[2])
  <2>1. readModel'[k][i] \in Entries(readModel'[k])
    BY DEF Entries
  <2>2. CASE readModel'[k][i] \in Entries(readModel[k])
    BY <1>6, <2>2 DEF Entries
  <2>3. CASE readModel'[k][i] \in Entries(t(k[2]))
    <3> DEFINE x == readModel'[k][i]
    <3>1. x \in Entries(c.apply) /\ x.addr = k[2]
      BY <1>5, <2>3
    <3> HIDE DEF x
    <3>2. PICK h \in DOMAIN c.apply : x = c.apply[h]
      BY <3>1 DEF Entries
    <3>3. Sound(x, x.addr)
      BY <1>2, <3>2 DEF SoundAll
    <3> QED BY <3>1, <3>3 DEF x
  <2> HIDE DEF wrote
  <2> QED BY <1>8, <2>1, <2>2, <2>3
<1>11. ASSUME NEW k \in Keys PROVE \E s \in Seq(Envelopes) : Behind(k, s)'
  <2>1. CASE wrote(k) /\ k[2] \in AddressesOf(c.apply)
    <3>1. k = Key(p, k[2]) /\ Durable
      BY <1>1, <2>1, KeyPairs
    <3>2. PICK s \in Seq(Envelopes) : /\ Follows(s, NoCheckpoint, k[2])
                                      /\ Watermark(c.apply, k[2]) = MarkAfter(s, NoCheckpoint)
                                      /\ s = readModel[k] \o t(k[2])
      BY <1>4, <2>1, <3>1
    <3>3. s = readModel'[k] /\ checkpoints'[k] = MarkAfter(s, NoCheckpoint)
      BY <1>8, <2>1, <3>2
    <3>4. Behind(k, s)'
      BY <3>2, <3>3 DEF Behind, Intact
    <3> QED BY <3>4
  <2>2. CASE ~(wrote(k) /\ k[2] \in AddressesOf(c.apply))
    <3>1. PICK s \in Seq(Envelopes) : Behind(k, s)
      BY <1>1 DEF Stores
    <3>2. checkpoints'[k] = checkpoints[k] /\ readModel'[k] = readModel[k]
      <4>1. wrote(k) => t(k[2]) = <<>>
        BY <1>5, <2>2
      <4>2. readModel[k] \o <<>> = readModel[k]
        BY <1>6, ConcatEmptySeq
      <4> HIDE DEF wrote
      <4> QED BY <1>8, <2>2, <4>1, <4>2
    <3>3. Behind(k, s)'
      BY <1>9, <3>1, <3>2 DEF Behind, Intact
    <3> QED BY <3>3
  <2> QED BY <2>1, <2>2
<1>12. Stores'
  BY <1>9, <1>10, <1>11 DEF Stores
<1>13. Within'
  <2> SUFFICES ASSUME ~Durable PROVE IsFiniteSet(Saved') /\ Cardinality(Saved') <= MaxCheckpoints
    BY <1>9 DEF Within
  <2>1. \A k \in Keys : checkpoints'[k] = checkpoints[k]
    BY <1>8
  <2>2. Saved' = Saved
    BY <2>1 DEF Saved
  <2> QED BY <1>1, <2>2 DEF Within
<1>14. ASSUME NEW q \in Running \ {p}, NEW k \in Keys, Holds(q, k)
       PROVE  checkpoints'[k] = checkpoints[k] /\ Entries(readModel[k]) \subseteq Entries(readModel'[k])
  <2>1. ~(wrote(k) /\ k[2] \in AddressesOf(c.apply))
    <3> SUFFICES ASSUME k[1] = NameOf[p], k[2] \in AddressesOf(c.apply) PROVE FALSE
      OBVIOUS
    <3>1. k = Key(p, k[2])
      BY <1>1, KeyPairs
    <3>2. Holds(p, k)
      BY <1>2, <3>1
    <3> QED BY <1>14, <3>2, HoldersAlone
  <2> HIDE DEF wrote
  <2> QED BY <1>8, <2>1
<1>15. faults' \in 0..MaxFaults
  BY <1>1, <1>3
<1> QED BY <1>3, <1>7, <1>12, <1>13, <1>14, <1>15, Settled

\* A chain of nothing is behind an empty store.
LEMMA NothingBehind ==
  ASSUME NEW k
  PROVE  /\ <<>> \in Seq(Envelopes) /\ Follows(<<>>, NoCheckpoint, k[2])
         /\ MarkAfter(<<>>, NoCheckpoint) = NoCheckpoint /\ Entries(<<>>) = {}
<1>1. <<>> \in Seq(Envelopes) /\ Len(<<>>) = 0
  BY EmptySeq
<1>2. DOMAIN <<>> = 1..0
  BY <1>1, LenProperties
<1> QED BY <1>1, <1>2 DEF Follows, MarkAfter, Entries

\* A projection is truncated, its checkpoints forgotten, or both, while its
\* consumers are stopped.
LEMMA Rebuilt ==
  ASSUME Safe, NEW p \in Running, setup' = setup, Stopped(NameOf[p]), UNCHANGED <<lockTails, call>>,
         faults' \in 0..MaxFaults, rebuild' \in [Names -> {"none", "truncated", "cut"}],
         Durable => rebuild' = rebuild,
         \A n \in Names : n # NameOf[p] => rebuild'[n] = rebuild[n],
         readModel' = readModel \/ readModel' = Emptied(NameOf[p]),
         \/ checkpoints' = Forgotten(NameOf[p]) /\ (Durable => readModel' = Emptied(NameOf[p]))
         \/ checkpoints' = checkpoints /\ ~Durable /\ ~Intact(NameOf[p])'
  PROVE  Safe'
<1>1. /\ Shape /\ Queues /\ Stores /\ Within /\ (\A q \in Running : Caller(q))
  BY DEF Safe
<1>2. \A q \in Running : NameOf[q] = NameOf[p] => call[q] = Idle
  BY DEF Stopped
<1>3. /\ checkpoints \in [Keys -> Marks] /\ readModel \in [Keys -> Seq(Envelopes)]
  BY <1>1 DEF Shape
<1>4. /\ NameOf' = NameOf /\ Durable' = Durable /\ Running' = Running /\ Envelopes' = Envelopes
      /\ Marks' = Marks /\ Calls' = Calls
  BY SetupFixed
<1>5. checkpoints' \in [Keys -> Marks] /\ readModel' \in [Keys -> Seq(Envelopes)]
  BY <1>3, EmptySeq DEF Marks, Emptied, Forgotten
<1>6. Durable => \A n \in Names : rebuild'[n] = "none"
  BY <1>1 DEF Shape
<1>7. Shape'
  BY <1>1, <1>4, <1>5, <1>6 DEF Shape
<1>8. Queues'
  <2>1. \A k \in Keys : lockTails'[k] = lockTails[k]
    OBVIOUS
  <2> QED BY <1>1, <1>2, <1>4, <2>1 DEF Queues
<1>9. /\ \A k \in Keys : k[1] # NameOf[p] => readModel'[k] = readModel[k] /\ checkpoints'[k] = checkpoints[k]
      /\ \A k \in Keys : k[1] = NameOf[p] =>
            /\ readModel'[k] = readModel[k] \/ readModel'[k] = <<>>
            /\ \/ checkpoints'[k] = NoCheckpoint /\ (Durable => readModel'[k] = <<>>)
               \/ checkpoints'[k] = checkpoints[k] /\ ~Durable /\ ~Intact(NameOf[p])'
  BY DEF Emptied, Forgotten
<1>10. ASSUME NEW q \in Running PROVE Caller(q)'
  <2>1. \A k \in Keys : Holds(q, k) => /\ Holds(q, k)' /\ checkpoints'[k] = checkpoints[k]
                                       /\ Entries(readModel[k]) \subseteq Entries(readModel'[k])
    <3> SUFFICES ASSUME NEW k \in Keys, Holds(q, k)
                 PROVE  /\ Holds(q, k)' /\ checkpoints'[k] = checkpoints[k]
                        /\ Entries(readModel[k]) \subseteq Entries(readModel'[k])
      OBVIOUS
    <3>1. NameOf[q] = k[1] /\ call[q] # Idle
      BY <1>1, HoldersQueue
    <3>2. k[1] # NameOf[p]
      BY <1>2, <3>1
    <3> QED BY <1>9, <3>2 DEF Holds
  <2>2. \A k \in Keys : q \in Entries(lockTails[k]) <=> q \in Entries(lockTails'[k])
    OBVIOUS
  <2> QED BY <1>1, <2>1, <2>2, Frame
<1>11. ASSUME NEW k \in Keys
       PROVE  /\ \A i \in DOMAIN readModel'[k] : Sound(readModel'[k][i], k[2])
              /\ \E s \in Seq(Envelopes) : Behind(k, s)'
  <2>1. /\ \A i \in DOMAIN readModel[k] : Sound(readModel[k][i], k[2])
        /\ <<>> \in Seq(Envelopes) /\ Follows(<<>>, NoCheckpoint, k[2])
        /\ MarkAfter(<<>>, NoCheckpoint) = NoCheckpoint /\ Entries(<<>>) = {}
    BY <1>1, NothingBehind DEF Stores
  <2>2. readModel'[k] = readModel[k] \/ readModel'[k] = <<>>
    BY <1>9
  <2>3. DOMAIN <<>> = {}
    BY <2>1 DEF Entries
  <2>4. \A i \in DOMAIN readModel'[k] : Sound(readModel'[k][i], k[2])
    BY <2>1, <2>2, <2>3
  <2>5. PICK s \in Seq(Envelopes) : Behind(k, s)
    BY <1>1 DEF Stores
  <2>6. CASE k[1] # NameOf[p]
    <3>1. /\ readModel'[k] = readModel[k] /\ checkpoints'[k] = checkpoints[k]
          /\ rebuild'[k[1]] = rebuild[k[1]]
      BY <1>9, <2>6 DEF Keys
    <3>2. Behind(k, s)'
      BY <1>4, <2>5, <3>1 DEF Behind, Intact
    <3> QED BY <2>4, <3>2
  <2>7. CASE k[1] = NameOf[p] /\ checkpoints'[k] = NoCheckpoint /\ (Durable => readModel'[k] = <<>>)
    <3>1. Behind(k, <<>>)'
      BY <1>4, <2>1, <2>7 DEF Behind, Intact
    <3> QED BY <2>1, <2>4, <3>1
  <2>8. CASE k[1] = NameOf[p] /\ checkpoints'[k] = checkpoints[k] /\ ~Durable /\ ~Intact(NameOf[p])'
    <3>1. ~Intact(k[1])'
      BY <1>4, <2>8 DEF Intact
    <3>2. Behind(k, s)'
      BY <1>4, <2>5, <2>8, <3>1 DEF Behind
    <3> QED BY <2>4, <3>2
  <2> QED BY <1>9, <2>6, <2>7, <2>8
<1>12. Stores'
  BY <1>4, <1>11 DEF Stores
<1>13. Within'
  <2> SUFFICES ASSUME ~Durable PROVE IsFiniteSet(Saved') /\ Cardinality(Saved') <= MaxCheckpoints
    BY <1>4 DEF Within
  <2>1. IsFiniteSet(Saved) /\ Cardinality(Saved) <= MaxCheckpoints /\ MaxCheckpoints \in Nat
    BY <1>1, ProjectionAssumption DEF Within
  <2>2. Saved' \subseteq Saved
    <3>1. \A k \in Keys : checkpoints'[k] # NoCheckpoint => checkpoints[k] # NoCheckpoint
      BY <1>9
    <3> QED BY <3>1 DEF Saved
  <2>3. /\ IsFiniteSet(Saved') /\ Cardinality(Saved') <= Cardinality(Saved)
        /\ Cardinality(Saved') \in Nat /\ Cardinality(Saved) \in Nat
    <3>1. IsFiniteSet(Saved') /\ Cardinality(Saved') <= Cardinality(Saved)
      BY <2>1, <2>2, FS_Subset
    <3> QED BY <2>1, <3>1, FS_CardinalityType
  <2> QED BY <2>1, <2>3
<1>14. \A q \in Running' : Caller(q)'
  BY <1>4, <1>10
<1> QED BY <1>7, <1>8, <1>12, <1>13, <1>14 DEF Safe

\* What reset() does, in a database and in memory.
LEMMA RebuildSafe ==
  ASSUME Safe, NEW p \in Running, Rebuild(p), setup' = setup
  PROVE  Safe'
<1>1. /\ Shape /\ faults \in 0..MaxFaults /\ MaxFaults \in Nat
      /\ rebuild \in [Names -> {"none", "truncated", "cut"}]
      /\ Durable => \A n \in Names : rebuild[n] = "none"
  BY ProjectionAssumption DEF Safe, Shape
<1>2. NameOf[p] \in Names /\ NameOf' = NameOf
  BY <1>1, Deployed, SetupFixed
<1>3. CASE Reset(p)
  <2>1. /\ Stopped(NameOf[p]) /\ Fault /\ UNCHANGED <<lockTails, call, rebuild>>
        /\ readModel' = Emptied(NameOf[p]) /\ checkpoints' = Forgotten(NameOf[p])
    BY <1>3 DEF Reset
  <2>2. faults' \in 0..MaxFaults
    BY <1>1, <2>1 DEF Fault
  <2> QED BY <1>1, <2>1, <2>2, Rebuilt
<1>4. CASE Truncate(p)
  <2>1. /\ Stopped(NameOf[p]) /\ ~Durable /\ UNCHANGED <<checkpoints, lockTails, call>>
        /\ readModel' = Emptied(NameOf[p]) /\ (Fault \/ UNCHANGED faults)
        /\ rebuild' = [rebuild EXCEPT ![NameOf[p]] = "truncated"]
    BY <1>1, <1>2, <1>4 DEF Truncate
  <2>2. faults' \in 0..MaxFaults
    BY <1>1, <2>1 DEF Fault
  <2>3. /\ rebuild' \in [Names -> {"none", "truncated", "cut"}] /\ ~Intact(NameOf[p])'
        /\ \A n \in Names : n # NameOf[p] => rebuild'[n] = rebuild[n]
    BY <1>1, <1>2, <2>1 DEF Intact
  <2> QED BY <2>1, <2>2, <2>3, Rebuilt
<1>5. CASE ForgetCheckpoints(p)
  <2>1. /\ Stopped(NameOf[p]) /\ rebuild[NameOf[p]] = "truncated"
        /\ UNCHANGED <<readModel, lockTails, call, faults>>
        /\ checkpoints' = Forgotten(NameOf[p])
        /\ rebuild' = [rebuild EXCEPT ![NameOf[p]] = "none"]
    BY <1>5 DEF ForgetCheckpoints
  <2>2. /\ rebuild' \in [Names -> {"none", "truncated", "cut"}] /\ ~Durable
        /\ \A n \in Names : n # NameOf[p] => rebuild'[n] = rebuild[n]
    BY <1>1, <1>2, <2>1
  <2> QED BY <1>1, <2>1, <2>2, Rebuilt
<1>6. CASE ResetCut(p)
  <2>1. /\ Stopped(NameOf[p]) /\ rebuild[NameOf[p]] = "truncated"
        /\ UNCHANGED <<checkpoints, readModel, lockTails, call, faults>>
        /\ rebuild' = [rebuild EXCEPT ![NameOf[p]] = "cut"]
    BY <1>6 DEF ResetCut
  <2>2. /\ rebuild' \in [Names -> {"none", "truncated", "cut"}] /\ ~Durable /\ ~Intact(NameOf[p])'
        /\ \A n \in Names : n # NameOf[p] => rebuild'[n] = rebuild[n]
    BY <1>1, <1>2, <2>1 DEF Intact
  <2> QED BY <1>1, <2>1, <2>2, Rebuilt
<1> QED BY <1>3, <1>4, <1>5, <1>6 DEF Rebuild

\* The initial states satisfy the invariant.
LEMMA InitSafe ==
  ASSUME Init
  PROVE  Safe
<1>1. /\ setup \in Setups /\ checkpoints = [k \in Keys |-> NoCheckpoint]
      /\ readModel = [k \in Keys |-> <<>>] /\ lockTails = [k \in Keys |-> <<>>]
      /\ call = [p \in Projectors |-> Idle] /\ faults = 0 /\ rebuild = [n \in Names |-> "none"]
  BY DEF Init, CheckpointInit
<1>2. Shape
  <2>1. MaxFaults \in Nat
    BY ProjectionAssumption
  <2>2. /\ checkpoints \in [Keys -> Marks] /\ readModel \in [Keys -> Seq(Envelopes)]
        /\ lockTails \in [Keys -> Seq(Running)] /\ call \in [Projectors -> Calls]
    BY <1>1, EmptySeq DEF Marks, Calls
  <2> QED BY <1>1, <2>1, <2>2 DEF Shape
<1>3. \A k \in Keys : DOMAIN lockTails[k] = {} /\ DOMAIN readModel[k] = {}
  <2>1. <<>> \in Seq({}) /\ Len(<<>>) = 0
    BY EmptySeq
  <2>2. DOMAIN <<>> = 1..0
    BY <2>1, LenProperties
  <2> QED BY <1>1, <2>2
<1>4. Queues
  BY <1>3 DEF Queues, Entries
<1>5. \A p \in Running : Caller(p)
  <2> TAKE p \in Running
  <2>1. p \in Projectors
    BY <1>2, Deployed
  <2>2. call[p].pc = "idle"
    BY <1>1, <2>1 DEF Idle
  <2> QED BY <2>2 DEF Caller, Locks, Loads, Proceeds
<1>6. Stores
  <2>1. ASSUME NEW k \in Keys PROVE \E s \in Seq(Envelopes) : Behind(k, s)
    <3>1. /\ <<>> \in Seq(Envelopes) /\ Follows(<<>>, NoCheckpoint, k[2])
          /\ MarkAfter(<<>>, NoCheckpoint) = NoCheckpoint /\ Entries(<<>>) = {}
      BY NothingBehind
    <3>2. Behind(k, <<>>)
      BY <1>1, <3>1 DEF Behind, Intact
    <3> QED BY <3>1, <3>2
  <2> QED BY <1>3, <2>1 DEF Stores
<1>7. Within
  <2>1. Saved = {}
    BY <1>1 DEF Saved
  <2>2. IsFiniteSet(Saved) /\ Cardinality(Saved) = 0
    BY <2>1, FS_EmptySet
  <2> QED BY <2>2, ProjectionAssumption DEF Within
<1> QED BY <1>2, <1>4, <1>5, <1>6, <1>7 DEF Safe

\* A step in which nothing happens.
LEMMA StutterSafe ==
  ASSUME Safe, UNCHANGED <<vars, setup>>
  PROVE  Safe'
<1>1. /\ setup' = setup /\ checkpoints' = checkpoints /\ readModel' = readModel
      /\ lockTails' = lockTails /\ call' = call /\ faults' = faults /\ rebuild' = rebuild
  BY DEF vars
<1>2. /\ Shape /\ Queues /\ Stores /\ Within /\ (\A q \in Running : Caller(q))
  BY DEF Safe
<1>3. /\ NameOf' = NameOf /\ Durable' = Durable /\ Running' = Running /\ Envelopes' = Envelopes
      /\ Marks' = Marks /\ Calls' = Calls
  BY <1>1, SetupFixed
<1>4. Stores' /\ Within'
  BY <1>1, <1>2, StoresKept
<1>5. Shape' /\ Queues'
  BY <1>1, <1>2, <1>3 DEF Shape, Queues
<1>6. ASSUME NEW q \in Running PROVE Caller(q)'
  BY <1>1, <1>2, Frame DEF Holds
<1>7. \A q \in Running' : Caller(q)'
  BY <1>3, <1>6
<1> QED BY <1>4, <1>5, <1>7 DEF Safe

\* Every step keeps the invariant.
LEMMA NextSafe ==
  ASSUME Safe, [Next]_<<vars, setup>>
  PROVE  Safe'
<1>1. CASE UNCHANGED <<vars, setup>>
  BY <1>1, StutterSafe
<1>2. CASE Next
  <2>1. setup' = setup
    BY <1>2 DEF Next
  <2>2. PICK p \in Running : Consume(p) \/ Rebuild(p)
    BY <1>2 DEF Next
  <2>15. ASSUME Consume(p) PROVE rebuild' = rebuild
    BY <2>15 DEF Consume, Working, Project, Lock, Load, Refuse, Prove, Apply, ApplyFails, Save,
       SaveRejected, Resolve, Rollback
  <2>3. CASE \E batch \in Batches : Project(p, batch)
    BY <2>1, <2>3, <2>15, ProjectSafe DEF Consume
  <2>4. CASE Lock(p)
    BY <2>1, <2>4, <2>15, LockSafe DEF Consume, Working
  <2>5. CASE Load(p)
    BY <2>1, <2>5, <2>15, LoadSafe DEF Consume, Working
  <2>6. CASE Refuse(p)
    BY <2>1, <2>6, <2>15, RefuseSafe DEF Consume, Working
  <2>7. CASE Prove(p)
    BY <2>1, <2>7, <2>15, ProveSafe DEF Consume, Working
  <2>8. CASE Apply(p)
    BY <2>1, <2>8, <2>15, ApplySafe DEF Consume, Working
  <2>9. CASE ApplyFails(p)
    BY <2>1, <2>9, <2>15, ApplyFailsSafe DEF Consume, Working
  <2>10. CASE Save(p)
    BY <2>1, <2>10, <2>15, SaveSafe DEF Consume, Working
  <2>11. CASE SaveRejected(p)
    BY <2>1, <2>11, <2>15, SaveRejectedSafe DEF Consume, Working
  <2>12. CASE Resolve(p)
    BY <2>1, <2>12, <2>15, ResolveSafe DEF Consume, Working
  <2>13. CASE Rollback(p)
    BY <2>1, <2>13, <2>15, RollbackSafe DEF Consume
  <2>14. CASE Rebuild(p)
    BY <2>1, <2>14, RebuildSafe
  <2> QED BY <2>2, <2>3, <2>4, <2>5, <2>6, <2>7, <2>8, <2>9, <2>10, <2>11, <2>12, <2>13, <2>14
          DEF Consume, Working
<1> QED BY <1>1, <1>2

\* In every reachable state the locks exclude each other, a call that applies
\* continues the checkpoints of its keys, and each checkpoint is the last receipt
\* of a chain that was applied as a whole.
THEOREM SafeAlways == Spec => []Safe
<1>1. Init => Safe
  BY InitSafe
<1>2. Safe /\ [Next]_<<vars, setup>> => Safe'
  BY NextSafe
<1> QED BY <1>1, <1>2, PTL DEF Spec

-----------------------------------------------------------------------------
(* What the invariant says *)

\* Stores, lock queues and calls are always well formed, and the checkpoints of
\* an in-memory store within their limit (SaveFits).
THEOREM ProjectionWellFormed == Spec => []WellFormed
<1>1. ASSUME Safe PROVE WellFormed
  <2>1. Shape /\ Queues /\ Stores /\ Within
    BY <1>1 DEF Safe
  <2>2. ASSUME NEW k \in Keys
        PROVE  /\ checkpoints[k] # NoCheckpoint => IsValidPosition(checkpoints[k].pos)
               /\ \A i \in DOMAIN readModel[k] :
                     /\ readModel[k][i] \in Envelopes
                     /\ readModel[k][i].stamp = k[2] /\ readModel[k][i].addr = k[2]
               /\ \A i, j \in DOMAIN lockTails[k] : lockTails[k][i] = lockTails[k][j] => i = j
    <3>1. PICK s \in Seq(Envelopes) : Behind(k, s)
      BY <2>1 DEF Stores
    <3>2. Follows(s, NoCheckpoint, k[2]) /\ checkpoints[k] = MarkAfter(s, NoCheckpoint)
      BY <3>1 DEF Behind, Intact
    <3>3. ASSUME checkpoints[k] # NoCheckpoint PROVE IsValidPosition(checkpoints[k].pos)
      <4>1. s # <<>> /\ checkpoints[k] = Receipt(s[Len(s)])
        BY <3>2, <3>3 DEF MarkAfter
      <4>2. Len(s) \in 1..Len(s)
        BY <4>1, EmptySeq, LenProperties
      <4>3. IsValidPosition(s[Len(s)].pos)
        BY <3>2, <4>2 DEF Follows, Sound
      <4> QED BY <4>1, <4>3, ReceiptExists
    <3>4. readModel[k] \in Seq(Envelopes) /\ DOMAIN readModel[k] = 1..Len(readModel[k])
      BY <2>1, LenProperties DEF Shape
    <3>5. \A i \in DOMAIN readModel[k] :
             /\ readModel[k][i] \in Envelopes
             /\ readModel[k][i].stamp = k[2] /\ readModel[k][i].addr = k[2]
      BY <2>1, <3>4, ElementOfSeq DEF Stores, Sound
    <3> QED BY <2>1, <3>3, <3>5 DEF Queues
  <2>3. ASSUME NEW p \in Projectors
        PROVE  call[p].pc \in {"idle", "locking", "loading", "applying"}
    <3>1. call[p] \in Calls
      BY <2>1 DEF Shape
    <3> QED BY <3>1 DEF Calls, Lockings, Loadings, Applyings, Idle
  <2>4. TypeOK
    BY <2>1, <2>2, <2>3 DEF TypeOK, Shape
  <2>5. WithinCheckpoints
    BY <2>1 DEF Within, WithinCheckpoints, CheckpointCount, Saved
  <2> QED BY <2>4, <2>5 DEF WellFormed
<1> QED BY <1>1, SafeAlways, PTL

\* A sequence that agrees with the start of another is its prefix.
LEMMA PrefixOf ==
  ASSUME NEW T, NEW s \in Seq(T), NEW t \in Seq(T),
         Len(s) <= Len(t), \A i \in 1..Len(s) : s[i] = t[i]
  PROVE  IsPrefix(s, t)
<1> DEFINE u == SubSeq(t, 1, Len(s))
           l == Len(s)
<1>1. l \in Nat /\ Len(t) \in Nat /\ \A i \in 1..l : t[i] \in T
  BY ElementOfSeq, LenProperties
<1>2. u \in Seq(T) /\ Len(u) = l /\ \A i \in 1..l : u[i] = t[i]
  <2>1. /\ u \in Seq(T) /\ Len(u) = (IF 1 <= l THEN l - 1 + 1 ELSE 0)
        /\ \A i \in 1..(l - 1 + 1) : u[i] = t[1 + i - 1]
    BY <1>1, SubSeqProperties
  <2> HIDE DEF u, l
  <2>2. l - 1 + 1 = l /\ \A i \in 1..l : 1 + i - 1 = i
    BY <1>1
  <2> QED BY <1>1, <2>1, <2>2
<1>3. u = s
  <2> HIDE DEF u
  <2> QED BY <1>2, SeqEqual DEF l
<1>4. SubSeq(s, 1, Len(s)) = s
  BY SubSeqFull
<1> QED BY <1>3, <1>4 DEF IsPrefix

\* The chain behind a checkpoint is a prefix of what a sound source committed.
LEMMA OnSource ==
  ASSUME Safe, Rogue = {}, NEW k \in Keys, NEW s \in Seq(Envelopes), Behind(k, s)
  PROVE  /\ Source[k[2]] \in Seq(Envelopes) /\ Follows(Source[k[2]], NoCheckpoint, k[2])
         /\ Len(s) <= Len(Source[k[2]]) /\ \A i \in 1..Len(s) : s[i] = Source[k[2]][i]
<1> DEFINE a == k[2]
           t == Source[a]
<1>1. Shape /\ a \in Addresses
  BY DEF Safe, Keys
<1>2. /\ t \in Seq(Envelopes) /\ \A i \in DOMAIN t : Sound(t[i], a)
      /\ Unbroken(t)
  BY <1>1, Deployed
<1> HIDE DEF t
<1>3. Follows(t, NoCheckpoint, a)
  BY <1>2, FollowsUnbroken
<1>4. Follows(s, NoCheckpoint, a)
  BY DEF Behind, Intact
<1>5. ASSUME NEW i \in 1..Len(s) PROVE \E j \in 1..Len(t) : t[j] = s[i]
  <2>1. s[i] \in Envelopes /\ Sound(s[i], a)
    BY <1>4, <1>5, ElementOfSeq DEF Follows
  <2>2. PICK b \in Addresses : s[i] \in Range(Source[b])
    <3>1. PICK X \in {Range(Source[b]) : b \in Addresses} : s[i] \in X
      BY <2>1 DEF Envelopes
    <3> QED BY <3>1
  <2>3. PICK j \in DOMAIN Source[b] : s[i] = Source[b][j]
    BY <2>2 DEF Range
  <2>4. Sound(s[i], b)
    BY <1>1, <2>3, Deployed
  <2>5. b = a
    BY <2>1, <2>4 DEF Sound
  <2>6. j \in DOMAIN t /\ t[j] = s[i]
    BY <2>3, <2>5 DEF t
  <2>7. DOMAIN t = 1..Len(t)
    BY <1>2, LenProperties
  <2> QED BY <2>6, <2>7
<1>6. Len(s) <= Len(t) /\ \A i \in 1..Len(s) : s[i] = t[i]
  BY <1>2, <1>3, <1>4, <1>5, OneChain
<1> QED BY <1>2, <1>3, <1>6 DEF t

\* What a read model holds is what the source committed: of every source an
\* unbroken chain, of a sound one an exact prefix with the receipt of its last
\* event as the checkpoint; and one instance applies an address at a time
\* (project, withCheckpointLocks, proveBatch).
THEOREM ProjectedExactly == Spec => []AppliedExactly
<1>1. ASSUME Safe PROVE AppliedExactly
  <2>1. Shape /\ Stores /\ \A p \in Running : Caller(p)
    BY <1>1 DEF Safe
  <2>2. ASSUME Durable, NEW k \in Keys
        PROVE  /\ readModel[k] \in Seq(Envelopes) /\ Behind(k, readModel[k])
               /\ Follows(readModel[k], NoCheckpoint, k[2])
               /\ \A i \in DOMAIN readModel[k] : Sound(readModel[k][i], k[2])
    <3>1. PICK s \in Seq(Envelopes) : Behind(k, s)
      BY <2>1 DEF Stores
    <3>2. s = readModel[k]
      BY <2>2, <3>1 DEF Behind, Intact
    <3>3. Behind(k, readModel[k])
      BY <3>1, <3>2
    <3> QED BY <2>1, <3>1, <3>2, <3>3 DEF Behind, Stores
  <2>3. ExactPrefix
    <3> SUFFICES ASSUME Durable, Rogue = {}, NEW k \in Keys
                 PROVE  /\ IsPrefix(readModel[k], Source[k[2]])
                        /\ checkpoints[k] = IF readModel[k] = <<>> THEN NoCheckpoint
                                            ELSE Receipt(Last(readModel[k]))
      BY DEF ExactPrefix
    <3>1. readModel[k] \in Seq(Envelopes) /\ Behind(k, readModel[k])
      BY <2>2
    <3>2. /\ Source[k[2]] \in Seq(Envelopes)
          /\ Len(readModel[k]) <= Len(Source[k[2]])
          /\ \A i \in 1..Len(readModel[k]) : readModel[k][i] = Source[k[2]][i]
      BY <1>1, <3>1, OnSource
    <3>3. IsPrefix(readModel[k], Source[k[2]])
      BY <3>1, <3>2, PrefixOf
    <3> QED BY <3>1, <3>3 DEF Behind, MarkAfter, Last
  <2>4. ChainUnbroken
    <3> SUFFICES ASSUME Durable, NEW k \in Keys
                 PROVE  /\ Unbroken(readModel[k])
                        /\ \A i, j \in DOMAIN readModel[k] : i # j =>
                              ~IsSameOrderedPosition(readModel[k][i].pos, readModel[k][j].pos)
      BY DEF ChainUnbroken
    <3> DEFINE r == readModel[k]
    <3>1. /\ r \in Seq(Envelopes) /\ Follows(r, NoCheckpoint, k[2])
          /\ \A i \in DOMAIN r : Sound(r[i], k[2])
      BY <2>2
    <3> HIDE DEF r
    <3>2. Unbroken(r)
      BY <3>1, FollowsUnbroken
    <3>3. DOMAIN r = 1..Len(r) /\ Len(r) \in Nat /\ \A i \in DOMAIN r : r[i].pos \in Position
      BY <3>1, LenProperties DEF Sound
    <3>4. ASSUME NEW i \in DOMAIN r, NEW j \in DOMAIN r, i < j
          PROVE  /\ ~IsSameOrderedPosition(r[i].pos, r[j].pos)
                 /\ ~IsSameOrderedPosition(r[j].pos, r[i].pos)
      <4>1. IsPositionAfter(r[j].pos, r[i].pos)
        BY <3>1, <3>3, <3>4, Ascends
      <4> QED BY <3>3, <4>1, PositionsOrdered
    <3>5. \A i, j \in DOMAIN r : i # j => i < j \/ j < i
      BY <3>3
    <3> QED BY <3>2, <3>4, <3>5 DEF r
  <2>5. ExclusiveKeys
    <3> SUFFICES ASSUME NEW p \in Running, NEW q \in Running, NEW a \in Addresses,
                        NameOf[p] = NameOf[q], Applies(p, a), Applies(q, a)
                 PROVE  p = q
      BY DEF ExclusiveKeys
    <3>1. Holds(p, Key(p, a)) /\ Holds(q, Key(q, a))
      BY <2>1 DEF Applies, Caller, Proceeds
    <3>2. Key(p, a) = Key(q, a)
      BY DEF Key
    <3> QED BY <3>1, <3>2, HoldersAlone
  <2> QED BY <2>3, <2>4, <2>5 DEF AppliedExactly
<1> QED BY <1>1, SafeAlways, PTL

\* hasProcessed answers true only when every event of a sound source up to that
\* position is in the read model (hasReached): in a database always, in memory
\* unless a reset is between its two awaits or was cut there and not repeated.
THEOREM ReachedIsApplied == Spec => []ReachedMeansApplied
<1>1. ASSUME Safe PROVE ReachedMeansApplied
  <2> SUFFICES ASSUME Rogue = {}, NEW k \in Keys, Intact(k[1]), NEW i \in DOMAIN Source[k[2]],
                      HasReached(k, Source[k[2]][i].pos), NEW j \in 1..i
               PROVE  Source[k[2]][j] \in Range(readModel[k])
    BY DEF ReachedMeansApplied
  <2> DEFINE t == Source[k[2]]
  <2>1. PICK s \in Seq(Envelopes) : Behind(k, s)
    BY <1>1 DEF Safe, Stores
  <2>2. /\ t \in Seq(Envelopes) /\ Follows(t, NoCheckpoint, k[2])
        /\ Len(s) <= Len(t) /\ \A h \in 1..Len(s) : s[h] = t[h]
    BY <1>1, <2>1, OnSource
  <2>3. checkpoints[k] = MarkAfter(s, NoCheckpoint) /\ Entries(s) \subseteq Entries(readModel[k])
    BY <2>1 DEF Behind, Intact
  <2>4. checkpoints[k] # NoCheckpoint /\ ~IsPositionAfter(t[i].pos, checkpoints[k].pos)
    BY DEF HasReached
  <2> HIDE DEF t
  <2>5. /\ DOMAIN s = 1..Len(s) /\ Len(s) \in Nat /\ (s = <<>> <=> Len(s) = 0)
        /\ DOMAIN t = 1..Len(t) /\ Len(t) \in Nat
    BY <2>2, LenProperties, EmptySeq
  <2>6. i \in 1..Len(t)
    BY <2>5 DEF t
  <2>7. s # <<>> /\ checkpoints[k] = Receipt(s[Len(s)])
    BY <2>3, <2>4 DEF MarkAfter
  <2>8. Len(s) \in 1..Len(s) /\ Len(s) \in 1..Len(t)
    BY <2>2, <2>5, <2>7
  <2>9. ~IsPositionAfter(t[i].pos, t[Len(s)].pos)
    BY <2>2, <2>4, <2>7, <2>8, ReceiptExists
  <2>10. i <= Len(s)
    <3> SUFFICES ASSUME Len(s) < i PROVE FALSE
      BY <2>5, <2>6
    <3>1. IsPositionAfter(t[i].pos, t[Len(s)].pos)
      BY <2>2, <2>6, <2>8, Ascends
    <3> QED BY <2>9, <3>1
  <2>11. j \in DOMAIN s /\ s[j] = t[j]
    BY <2>2, <2>5, <2>6, <2>10
  <2>12. t[j] \in Entries(readModel[k])
    BY <2>3, <2>11 DEF Entries
  <2> QED BY <2>12 DEF Entries, Range, t
<1> QED BY <1>1, SafeAlways, PTL
=============================================================================
