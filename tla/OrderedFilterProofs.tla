------------------------- MODULE OrderedFilterProofs -----------------------
(***************************************************************************)
(* What Only returns.  It is a recursive function: that it exists, and     *)
(* what it computes, is proved by induction over the set of the lengths    *)
(* for which it holds (SetInduction).                                      *)
(***************************************************************************)
EXTENDS OrderedFilter, SequenceTheorems, WellFoundedInduction, TLAPS

\* A set of naturals with 0 that is closed under successor has them all.
LEMMA SetInduction ==
  ASSUME NEW S, S \subseteq Nat, 0 \in S, \A n \in S : n + 1 \in S
  PROVE  S = Nat
<1> DEFINE R == OpToRel(<, Nat)
           T == Nat \ S
<1>1. SUFFICES ASSUME T # {} PROVE FALSE
  OBVIOUS
<1>2. PICK x \in T : \A y \in T : ~(<<y, x>> \in R)
  <2> HIDE DEF R
  <2>1. IsWellFoundedOn(R, Nat)
    BY NatLessThanWellFounded DEF R
  <2> QED BY <1>1, <2>1, WFMin
<1>3. \A y \in T : ~(y < x)
  BY <1>2 DEF OpToRel
<1>4. x # 0 /\ x - 1 \in Nat
  OBVIOUS
<1>5. x - 1 \in S
  BY <1>3, <1>4
<1> QED BY <1>5, <1>4

\* A function on 0..m that satisfies the recursion.
Filters(f, seq, S, m) ==
    f = [n \in 0..m |-> IF n = 0 THEN <<>>
                        ELSE IF seq[n] \in S THEN Append(f[n - 1], seq[n])
                        ELSE f[n - 1]]

\* There is one.
LEMMA FiltersExist ==
  ASSUME NEW seq, NEW S, NEW m \in Nat
  PROVE  \E f : Filters(f, seq, S, m)
<1> DEFINE D == {n \in Nat : \E f : Filters(f, seq, S, n)}
<1>1. 0 \in D
  <2> DEFINE f == [n \in 0..0 |-> <<>>]
  <2>1. Filters(f, seq, S, 0)
    BY DEF Filters
  <2> QED BY <2>1
<1>2. ASSUME NEW n \in D PROVE n + 1 \in D
  <2>1. PICK f : Filters(f, seq, S, n)
    OBVIOUS
  <2> DEFINE last == IF seq[n + 1] \in S THEN Append(f[n], seq[n + 1]) ELSE f[n]
             g == [i \in 0..(n + 1) |-> IF i = n + 1 THEN last ELSE f[i]]
  <2>2. Filters(g, seq, S, n + 1)
    <3> HIDE DEF last
    <3>1. g[n + 1] = IF seq[n + 1] \in S THEN Append(g[n], seq[n + 1]) ELSE g[n]
      BY DEF last
    <3>2. \A i \in 0..n : g[i] = IF i = 0 THEN <<>>
                                 ELSE IF seq[i] \in S THEN Append(g[i - 1], seq[i])
                                 ELSE g[i - 1]
      <4> TAKE i \in 0..n
      <4>1. f[i] = IF i = 0 THEN <<>>
                   ELSE IF seq[i] \in S THEN Append(f[i - 1], seq[i]) ELSE f[i - 1]
        BY <2>1 DEF Filters
      <4>2. g[i] = f[i] /\ (i # 0 => g[i - 1] = f[i - 1])
        OBVIOUS
      <4> HIDE DEF g
      <4> QED BY <4>1, <4>2
    <3>3. g = [i \in 0..(n + 1) |-> g[i]]
      OBVIOUS
    <3> HIDE DEF g
    <3>4. \A i \in 0..(n + 1) :
             g[i] = IF i = 0 THEN <<>>
                    ELSE IF seq[i] \in S THEN Append(g[i - 1], seq[i]) ELSE g[i - 1]
      <4> TAKE i \in 0..(n + 1)
      <4>1. i \in 0..n \/ i = n + 1
        OBVIOUS
      <4> QED BY <3>1, <3>2, <4>1
    <3> QED BY <3>3, <3>4 DEF Filters
  <2> QED BY <2>2
<1> HIDE DEF D
<1>3. D = Nat
  BY <1>1, <1>2, SetInduction DEF D
<1> QED BY <1>3 DEF D

\* OnlyUpTo satisfies its recursion.
LEMMA OnlyUpToRecursion ==
  ASSUME NEW T, NEW seq \in Seq(T), NEW S
  PROVE  Filters(OnlyUpTo(seq, S), seq, S, Len(seq))
<1>1. \E f : Filters(f, seq, S, Len(seq))
  BY FiltersExist, LenProperties
<1> QED BY <1>1 DEF OnlyUpTo, Filters

\* out lists, in order, the entries of seq in S among the first n: those at ix.
Lists(out, seq, S, n, ix) ==
    /\ ix \in [1..Len(out) -> 1..n]
    /\ \A i, j \in 1..Len(out) : i < j => ix[i] < ix[j]
    /\ \A i \in 1..Len(out) : out[i] = seq[ix[i]] /\ out[i] \in S
    /\ \A h \in 1..n : seq[h] \in S => \E i \in 1..Len(out) : ix[i] = h

\* Every prefix of the recursion lists what it has seen.
LEMMA OnlyUpToLists ==
  ASSUME NEW T, NEW seq \in Seq(T), NEW S, NEW n \in 0..Len(seq)
  PROVE  /\ OnlyUpTo(seq, S)[n] \in Seq(T) /\ Len(OnlyUpTo(seq, S)[n]) <= n
         /\ \A h \in 1..n : seq[h] \notin S => Len(OnlyUpTo(seq, S)[n]) < n
         /\ \E ix : Lists(OnlyUpTo(seq, S)[n], seq, S, n, ix)
<1> DEFINE K == OnlyUpTo(seq, S)
           P(m) == /\ K[m] \in Seq(T) /\ Len(K[m]) <= m
                   /\ \A h \in 1..m : seq[h] \notin S => Len(K[m]) < m
                   /\ \E ix : Lists(K[m], seq, S, m, ix)
           D == {m \in Nat : m <= Len(seq) => P(m)}
<1>1. /\ Len(seq) \in Nat /\ K[0] = <<>>
      /\ \A m \in 1..Len(seq) : K[m] = IF seq[m] \in S THEN Append(K[m - 1], seq[m]) ELSE K[m - 1]
  <2>1. Filters(K, seq, S, Len(seq)) /\ Len(seq) \in Nat
    BY OnlyUpToRecursion, LenProperties
  <2> HIDE DEF K
  <2>2. \A m \in 0..Len(seq) : K[m] = IF m = 0 THEN <<>>
                        ELSE IF seq[m] \in S THEN Append(K[m - 1], seq[m])
                        ELSE K[m - 1]
    BY <2>1 DEF Filters
  <2> QED BY <2>1, <2>2
<1> HIDE DEF K
<1>2. 0 \in D
  <2>1. K[0] \in Seq(T) /\ Len(K[0]) = 0
    BY <1>1, EmptySeq
  <2>2. Lists(K[0], seq, S, 0, [i \in 1..0 |-> i])
    BY <2>1 DEF Lists
  <2> QED BY <2>1, <2>2
<1>3. ASSUME NEW m \in D PROVE m + 1 \in D
  <2> SUFFICES ASSUME m + 1 <= Len(seq) PROVE P(m + 1)
    OBVIOUS
  <2>1. m \in Nat /\ P(m) /\ m + 1 \in 1..Len(seq) /\ seq[m + 1] \in T
    BY <1>1, ElementOfSeq
  <2>2. PICK ix : Lists(K[m], seq, S, m, ix)
    BY <2>1
  <2>3. K[m + 1] = IF seq[m + 1] \in S THEN Append(K[m], seq[m + 1]) ELSE K[m]
    BY <1>1, <2>1
  <2>4. CASE seq[m + 1] \notin S
    <3>1. K[m + 1] = K[m]
      BY <2>3, <2>4
    <3>2. Lists(K[m], seq, S, m + 1, ix)
      BY <2>1, <2>2, <2>4, LenProperties DEF Lists
    <3> QED BY <2>1, <3>1, <3>2
  <2>5. CASE seq[m + 1] \in S
    <3> DEFINE l == Len(K[m])
               jx == [i \in 1..(l + 1) |-> IF i = l + 1 THEN m + 1 ELSE ix[i]]
    <3>1. /\ K[m + 1] = Append(K[m], seq[m + 1]) /\ K[m + 1] \in Seq(T)
          /\ Len(K[m + 1]) = l + 1 /\ l \in Nat
          /\ K[m + 1][l + 1] = seq[m + 1]
          /\ \A i \in 1..l : K[m + 1][i] = K[m][i]
      BY <2>1, <2>3, <2>5, AppendProperties, LenProperties
    <3>0. ix \in [1..l -> 1..m] /\ l \in Nat
      BY <2>2, <3>1 DEF Lists
    <3> HIDE DEF l
    <3>4. \A i \in 1..(l + 1) : i \in 1..l \/ i = l + 1
      BY <3>0
    <3>2. /\ jx[l + 1] = m + 1 /\ \A i \in 1..l : jx[i] = ix[i] /\ ix[i] \in 1..m
      BY <3>0
    <3>3. jx \in [1..(l + 1) -> 1..(m + 1)]
      BY <2>1, <3>0, <3>4
    <3> HIDE DEF jx
    <3>5. \A i, j \in 1..(l + 1) : i < j => jx[i] < jx[j]
      <4>1. \A i, j \in 1..l : i < j => ix[i] < ix[j]
        BY <2>2 DEF Lists, l
      <4>2. \A i \in 1..l : jx[i] < jx[l + 1]
        BY <2>1, <3>2
      <4>3. \A i, j \in 1..(l + 1) : i < j => i \in 1..l
        BY <3>0
      <4> QED BY <3>2, <3>4, <4>1, <4>2, <4>3
    <3>6. \A i \in 1..(l + 1) : K[m + 1][i] = seq[jx[i]] /\ K[m + 1][i] \in S
      <4>1. \A i \in 1..l : K[m][i] = seq[ix[i]] /\ K[m][i] \in S
        BY <2>2 DEF Lists, l
      <4> QED BY <2>5, <3>1, <3>2, <3>4, <4>1
    <3>7. \A h \in 1..(m + 1) : seq[h] \in S => \E i \in 1..(l + 1) : jx[i] = h
      <4>1. \A h \in 1..m : seq[h] \in S => \E i \in 1..l : ix[i] = h
        BY <2>2 DEF Lists, l
      <4>2. \A h \in 1..(m + 1) : h \in 1..m \/ h = m + 1
        BY <2>1
      <4>3. l + 1 \in 1..(l + 1) /\ \A i \in 1..l : i \in 1..(l + 1)
        BY <3>1
      <4> QED BY <3>2, <4>1, <4>2, <4>3
    <3>8. Lists(K[m + 1], seq, S, m + 1, jx)
      BY <3>1, <3>3, <3>5, <3>6, <3>7 DEF Lists
    <3>9. Len(K[m + 1]) <= m + 1
      BY <2>1, <3>1 DEF l
    <3>10. ASSUME NEW h \in 1..(m + 1), seq[h] \notin S PROVE Len(K[m + 1]) < m + 1
      <4>1. h \in 1..m
        BY <2>1, <2>5, <3>10
      <4> QED BY <2>1, <3>1, <3>10, <4>1 DEF l
    <3> QED BY <3>1, <3>8, <3>9, <3>10
  <2> QED BY <2>4, <2>5
<1> HIDE DEF P
<1>4. n \in D
  <2>1. D = Nat
    <3> HIDE DEF D
    <3>1. D \subseteq Nat
      BY DEF D
    <3> QED BY <1>2, <1>3, <3>1, SetInduction
  <2> QED BY <1>1, <2>1
<1>5. P(n)
  BY <1>1, <1>4
<1> QED BY <1>5 DEF P, K

\* What filtering returns: the entries in S, in their order, none twice that is
\* not there twice.
LEMMA OnlyLists ==
  ASSUME NEW T, NEW seq \in Seq(T), NEW S
  PROVE  /\ Only(seq, S) \in Seq(T) /\ Len(Only(seq, S)) <= Len(seq)
         /\ \A h \in 1..Len(seq) : seq[h] \notin S => Len(Only(seq, S)) < Len(seq)
         /\ \E ix : Lists(Only(seq, S), seq, S, Len(seq), ix)
<1>1. Len(seq) \in 0..Len(seq)
  BY LenProperties
<1> QED BY <1>1, OnlyUpToLists DEF Only

Entries(seq) == {seq[i] : i \in DOMAIN seq}

\* The entries of what is kept, and their number, where seq repeats nothing.
LEMMA OnlyKeeps ==
  ASSUME NEW T, NEW seq \in Seq(T), NEW S
  PROVE  /\ Only(seq, S) \in Seq(T) /\ Len(Only(seq, S)) <= Len(seq)
         /\ \A h \in 1..Len(seq) : seq[h] \notin S => Len(Only(seq, S)) < Len(seq)
         /\ Entries(Only(seq, S)) = Entries(seq) \cap S
         /\ (\A i, j \in DOMAIN seq : seq[i] = seq[j] => i = j) =>
               \A i, j \in DOMAIN Only(seq, S) : Only(seq, S)[i] = Only(seq, S)[j] => i = j
<1> DEFINE out == Only(seq, S)
<1>1. PICK ix : Lists(out, seq, S, Len(seq), ix)
  BY OnlyLists
<1>2. /\ out \in Seq(T) /\ Len(out) <= Len(seq)
      /\ \A h \in 1..Len(seq) : seq[h] \notin S => Len(out) < Len(seq)
  BY OnlyLists
<1> HIDE DEF out
<1>3. /\ DOMAIN out = 1..Len(out) /\ Len(out) \in Nat
      /\ DOMAIN seq = 1..Len(seq) /\ Len(seq) \in Nat
  BY <1>2, LenProperties
<1>4. Entries(out) \subseteq Entries(seq) \cap S
  BY <1>1, <1>3 DEF Lists, Entries
<1>5. Entries(seq) \cap S \subseteq Entries(out)
  BY SMTT(40), <1>1, <1>3 DEF Lists, Entries
<1>6. ASSUME \A i, j \in DOMAIN seq : seq[i] = seq[j] => i = j,
             NEW i \in DOMAIN out, NEW j \in DOMAIN out, out[i] = out[j]
      PROVE  i = j
  <2>1. ix[i] = ix[j] /\ ix[i] \in Nat
    BY <1>1, <1>3, <1>6 DEF Lists
  <2>2. ~(i < j) /\ ~(j < i)
    BY <1>1, <1>3, <2>1 DEF Lists
  <2> QED BY <1>3, <2>2
<1> QED BY <1>2, <1>4, <1>5, <1>6 DEF out

\* The recursion depends on the first n entries alone.
LEMMA OnlyUpToAgrees ==
  ASSUME NEW T, NEW s \in Seq(T), NEW t \in Seq(T), NEW S, NEW U,
         NEW l \in Nat, l <= Len(s), l <= Len(t),
         \A h \in 1..l : s[h] = t[h] /\ (s[h] \in S <=> t[h] \in U)
  PROVE  OnlyUpTo(s, S)[l] = OnlyUpTo(t, U)[l]
<1> DEFINE K == OnlyUpTo(s, S)
           J == OnlyUpTo(t, U)
           D == {n \in Nat : n <= l => K[n] = J[n]}
<1>1. Filters(K, s, S, Len(s)) /\ Filters(J, t, U, Len(t)) /\ Len(s) \in Nat /\ Len(t) \in Nat
  BY OnlyUpToRecursion, LenProperties
<1> HIDE DEF K, J
<1>2. /\ K[0] = <<>> /\ J[0] = <<>>
      /\ \A n \in 1..l : /\ K[n] = IF s[n] \in S THEN Append(K[n - 1], s[n]) ELSE K[n - 1]
                         /\ J[n] = IF t[n] \in U THEN Append(J[n - 1], t[n]) ELSE J[n - 1]
  <2>1. \A m \in 0..Len(s) : K[m] = IF m = 0 THEN <<>>
                        ELSE IF s[m] \in S THEN Append(K[m - 1], s[m])
                        ELSE K[m - 1]
    BY <1>1 DEF Filters
  <2>2. \A m \in 0..Len(t) : J[m] = IF m = 0 THEN <<>>
                        ELSE IF t[m] \in U THEN Append(J[m - 1], t[m])
                        ELSE J[m - 1]
    BY <1>1 DEF Filters
  <2>3. 0 \in 0..Len(s) /\ 0 \in 0..Len(t)
    BY <1>1
  <2>4. \A n \in 1..l : n \in 0..Len(s) /\ n \in 0..Len(t) /\ n # 0
    BY <1>1
  <2> QED BY <2>1, <2>2, <2>3, <2>4
<1>3. 0 \in D
  BY <1>2
<1>4. ASSUME NEW n \in D PROVE n + 1 \in D
  <2> SUFFICES ASSUME n + 1 <= l PROVE K[n + 1] = J[n + 1]
    OBVIOUS
  <2>1. n + 1 \in 1..l /\ K[n] = J[n] /\ (n + 1) - 1 = n
    OBVIOUS
  <2> QED BY <1>2, <2>1
<1>5. D = Nat
  <2> HIDE DEF D
  <2>1. D \subseteq Nat
    BY DEF D
  <2> QED BY <1>3, <1>4, <2>1, SetInduction
<1>6. K[l] = J[l]
  BY <1>5
<1> QED BY <1>6 DEF K, J

\* Two sets that agree on the entries keep the same.
LEMMA OnlyAgrees ==
  ASSUME NEW T, NEW s \in Seq(T), NEW S, NEW U,
         \A h \in 1..Len(s) : s[h] \in S <=> s[h] \in U
  PROVE  Only(s, S) = Only(s, U)
<1> DEFINE l == Len(s)
<1>1. l \in Nat /\ l <= Len(s)
  BY LenProperties
<1> HIDE DEF l
<1>2. PICK t \in Seq(T) : t = s
  OBVIOUS
<1>3. OnlyUpTo(s, S)[l] = OnlyUpTo(t, U)[l]
  <2>1. l <= Len(t) /\ \A h \in 1..l : s[h] = t[h] /\ (s[h] \in S <=> t[h] \in U)
    BY <1>1, <1>2 DEF l
  <2> QED BY <1>1, <2>1, OnlyUpToAgrees
<1> QED BY <1>2, <1>3 DEF Only, l

\* One entry more is kept, or is not.
LEMMA OnlyAppend ==
  ASSUME NEW T, NEW s \in Seq(T), NEW e \in T, NEW S
  PROVE  Only(Append(s, e), S) = IF e \in S THEN Append(Only(s, S), e) ELSE Only(s, S)
<1> DEFINE t == Append(s, e)
           K == OnlyUpTo(t, S)
           l == Len(s)
<1>1. /\ t \in Seq(T) /\ Len(t) = l + 1 /\ l \in Nat
      /\ t[l + 1] = e /\ \A h \in 1..l : t[h] = s[h]
  BY AppendProperties, LenProperties
<1> HIDE DEF t
<1>2. K[l] = Only(s, S)
  <2>1. l <= Len(t) /\ \A h \in 1..l : s[h] = t[h] /\ (s[h] \in S <=> t[h] \in S)
    BY <1>1
  <2>2. l <= Len(s)
    BY <1>1
  <2>3. OnlyUpTo(s, S)[l] = OnlyUpTo(t, S)[l]
    <3> HIDE DEF l
    <3> QED BY SMTT(40), <1>1, <2>1, <2>2, OnlyUpToAgrees
  <2> QED BY <2>3 DEF Only, K
<1>3. Filters(K, t, S, l + 1)
  BY <1>1, OnlyUpToRecursion
<1> HIDE DEF K
<1>4. K[l + 1] = IF e \in S THEN Append(K[l], e) ELSE K[l]
  <2>1. \A m \in 0..(l + 1) : K[m] = IF m = 0 THEN <<>>
                        ELSE IF t[m] \in S THEN Append(K[m - 1], t[m])
                        ELSE K[m - 1]
    BY <1>3 DEF Filters
  <2>2. l + 1 \in 0..(l + 1) /\ l + 1 # 0 /\ (l + 1) - 1 = l
    BY <1>1
  <2> QED BY <1>1, <2>1, <2>2
<1>5. Only(t, S) = K[l + 1]
  BY <1>1 DEF Only, K
<1> QED BY <1>2, <1>4, <1>5 DEF t

\* A head that is kept stays the head.
LEMMA OnlyHead ==
  ASSUME NEW T, NEW s \in Seq(T), NEW S, s # <<>>, Head(s) \in S
  PROVE  Only(s, S) # <<>> /\ Head(Only(s, S)) = Head(s)
<1> DEFINE out == Only(s, S)
<1>1. PICK ix : Lists(out, s, S, Len(s), ix)
  BY OnlyLists
<1>2. out \in Seq(T) /\ Len(out) \in Nat /\ Len(s) \in Nat /\ Len(s) # 0 /\ s[1] \in S
      /\ s[1] = Head(s)
  BY OnlyLists, LenProperties, HeadTailProperties, EmptySeq
<1> HIDE DEF out
<1>3. PICK i \in 1..Len(out) : ix[i] = 1
  <2>1. 1 \in 1..Len(s)
    BY <1>2
  <2> QED BY <1>1, <1>2, <2>1 DEF Lists
<1>4. i = 1
  <2>1. SUFFICES ASSUME 1 < i PROVE FALSE
    BY <1>2
  <2>2. 1 \in 1..Len(out) /\ ix[1] < ix[i] /\ ix[1] \in 1..Len(s)
    BY <1>1, <1>2, <2>1 DEF Lists
  <2> QED BY <1>3, <2>2
<1>5. out[1] = s[1] /\ Len(out) # 0
  BY <1>1, <1>2, <1>3, <1>4 DEF Lists
<1>6. out # <<>> /\ Head(out) = out[1]
  BY <1>2, <1>5
<1> QED BY <1>2, <1>5, <1>6 DEF out

\* Nothing is kept of nothing, or where nothing is in S.
LEMMA OnlyNone ==
  ASSUME NEW T, NEW s \in Seq(T), NEW S, \A h \in 1..Len(s) : s[h] \notin S
  PROVE  Only(s, S) = <<>>
<1> DEFINE out == Only(s, S)
<1>1. PICK ix : Lists(out, s, S, Len(s), ix)
  BY OnlyLists
<1>2. out \in Seq(T)
  BY OnlyLists
<1> HIDE DEF out
<1>3. ASSUME NEW i \in 1..Len(out) PROVE FALSE
  BY <1>1 DEF Lists
<1>4. Len(out) = 0
  BY <1>2, <1>3, LenProperties
<1>5. out = <<>>
  BY <1>2, <1>4, EmptySeq
<1> QED BY <1>5 DEF out

\* Everything is kept where everything is in S.
LEMMA OnlyAll ==
  ASSUME NEW T, NEW S, NEW s \in Seq(T), \A h \in 1..Len(s) : s[h] \in S
  PROVE  Only(s, S) = s
<1> DEFINE D == {n \in Nat : \A t \in Seq(T) :
                    Len(t) = n /\ (\A h \in 1..Len(t) : t[h] \in S) => Only(t, S) = t}
<1>1. 0 \in D
  <2> SUFFICES ASSUME NEW t \in Seq(T), Len(t) = 0 PROVE Only(t, S) = t
    OBVIOUS
  <2>1. t = <<>>
    BY EmptySeq
  <2>2. Only(t, S) = <<>>
    <3>1. \A h \in 1..Len(t) : t[h] \notin S
      OBVIOUS
    <3> QED BY <3>1, OnlyNone
  <2> QED BY <2>1, <2>2
<1>2. ASSUME NEW n \in D PROVE n + 1 \in D
  <2> SUFFICES ASSUME NEW t \in Seq(T), Len(t) = n + 1, \A h \in 1..Len(t) : t[h] \in S
               PROVE  Only(t, S) = t
    OBVIOUS
  <2>0. t # <<>>
    BY EmptySeq
  <2>1. PICK u \in Seq(T), e \in T : t = Append(u, e)
    BY <2>0, SequenceEmptyOrAppend
  <2>2. /\ Len(u) \in Nat /\ Len(t) = Len(u) + 1 /\ t[Len(u) + 1] = e
        /\ \A h \in 1..Len(u) : t[h] = u[h]
    BY <2>1, AppendProperties, LenProperties
  <2>3. e \in S /\ Len(u) = n /\ \A h \in 1..Len(u) : u[h] \in S
    BY <2>2
  <2>4. Only(u, S) = u
    BY <2>3
  <2> QED BY <2>1, <2>3, <2>4, OnlyAppend
<1> HIDE DEF D
<1>3. D = Nat
  <2>1. D \subseteq Nat
    BY DEF D
  <2> QED BY <1>1, <1>2, <2>1, SetInduction
<1> QED BY <1>3, LenProperties DEF D

\* Appending after joining, and before.
LEMMA AppendConcat ==
  ASSUME NEW T, NEW s \in Seq(T), NEW t \in Seq(T), NEW e \in T
  PROVE  s \o Append(t, e) = Append(s \o t, e)
<1>1. Append(t, e) = t \o <<e>> /\ s \o t \in Seq(T) /\ <<e>> \in Seq(T)
  BY AppendIsConcat, ConcatProperties
<1>2. Append(s \o t, e) = (s \o t) \o <<e>>
  BY <1>1, AppendIsConcat
<1> QED BY <1>1, <1>2, ConcatAssociative

\* Filtering goes through concatenation.
LEMMA OnlyConcat ==
  ASSUME NEW T, NEW S, NEW s \in Seq(T), NEW t \in Seq(T)
  PROVE  Only(s \o t, S) = Only(s, S) \o Only(t, S)
<1> DEFINE D == {n \in Nat : \A u \in Seq(T) :
                    Len(u) = n => Only(s \o u, S) = Only(s, S) \o Only(u, S)}
<1>0. Only(s, S) \in Seq(T)
  BY OnlyLists
<1>1. 0 \in D
  <2> SUFFICES ASSUME NEW u \in Seq(T), Len(u) = 0
               PROVE  Only(s \o u, S) = Only(s, S) \o Only(u, S)
    OBVIOUS
  <2>1. u = <<>>
    BY EmptySeq
  <2>2. Only(u, S) = <<>>
    <3>1. \A h \in 1..Len(u) : u[h] \notin S
      OBVIOUS
    <3> QED BY <3>1, OnlyNone
  <2> QED BY <1>0, <2>1, <2>2, ConcatEmptySeq
<1>2. ASSUME NEW n \in D PROVE n + 1 \in D
  <2> SUFFICES ASSUME NEW u \in Seq(T), Len(u) = n + 1
               PROVE  Only(s \o u, S) = Only(s, S) \o Only(u, S)
    OBVIOUS
  <2>0. u # <<>>
    BY EmptySeq
  <2>1. PICK w \in Seq(T), e \in T : u = Append(w, e)
    BY <2>0, SequenceEmptyOrAppend
  <2>2. Len(w) = n
    BY <2>1, AppendProperties, LenProperties
  <2>3. Only(s \o w, S) = Only(s, S) \o Only(w, S)
    BY <2>2
  <2>4. s \o u = Append(s \o w, e) /\ s \o w \in Seq(T)
    BY <2>1, AppendConcat, ConcatProperties
  <2>5. Only(s \o u, S) = IF e \in S THEN Append(Only(s \o w, S), e) ELSE Only(s \o w, S)
    <3>1. PICK v \in Seq(T) : v = s \o w
      BY <2>4
    <3>2. Only(Append(v, e), S) = IF e \in S THEN Append(Only(v, S), e) ELSE Only(v, S)
      BY OnlyAppend
    <3> QED BY <2>4, <3>1, <3>2
  <2>6. Only(u, S) = IF e \in S THEN Append(Only(w, S), e) ELSE Only(w, S)
    BY <2>1, OnlyAppend
  <2>7. Only(w, S) \in Seq(T)
    BY OnlyLists
  <2>8. Only(s, S) \o Append(Only(w, S), e) = Append(Only(s, S) \o Only(w, S), e)
    BY <1>0, <2>7, AppendConcat
  <2> QED BY <2>3, <2>5, <2>6, <2>8
<1> HIDE DEF D
<1>3. D = Nat
  <2>1. D \subseteq Nat
    BY DEF D
  <2> QED BY <1>1, <1>2, <2>1, SetInduction
<1> QED BY <1>3, LenProperties DEF D
=============================================================================
