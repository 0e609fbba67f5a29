-------------------------- MODULE EventQueueProofs --------------------------
(***************************************************************************)
(* What the operators of EventQueue do to sequences, whatever is in them:  *)
(* splicing in, taking out, choosing, and the search for the next event.   *)
(* SessionEventsProofs and TransportProofs build on these lemmas.          *)
(***************************************************************************)
EXTENDS EventQueue, FiniteSetTheorems, SequenceTheorems, WellFoundedInduction, TLAPS

-----------------------------------------------------------------------------
(* Numbers.  The library's induction theorems are about an operator; these *)
(* are about a set.                                                        *)

LEMMA Smallest ==
  ASSUME NEW S \in SUBSET Nat, S # {}
  PROVE  \E m \in S : \A k \in S : m <= k
<1> DEFINE R == {p \in Nat \X Nat : p[1] < p[2]}
<1>1. IsWellFoundedOn(R, Nat)
  BY NatLessThanWellFounded DEF OpToRel
<1>2. PICK m \in S : \A k \in S : ~ (<<k, m>> \in R)
  <2> HIDE DEF R
  <2> QED BY <1>1, WFMin
<1>3. \A k \in S : ~ (k < m)
  BY <1>2
<1> QED BY <1>3

LEMMA Induction ==
  ASSUME NEW S, 0 \in S, \A n \in Nat : n \in S => n + 1 \in S
  PROVE  Nat \subseteq S
<1> SUFFICES ASSUME Nat \ S # {} PROVE FALSE
  OBVIOUS
<1>1. PICK m \in Nat \ S : \A k \in Nat \ S : m <= k
  BY Smallest
<1>2. m # 0 /\ m - 1 \in Nat /\ m - 1 \in S
  BY <1>1
<1> QED BY <1>2

\* A set of indices that has all those below each is the first so many.
LEMMA FirstSoMany ==
  ASSUME NEW n \in Nat, NEW B \in SUBSET (1 .. n), \A j \in B : \A i \in 1 .. j : i \in B
  PROVE  Cardinality(B) \in 0 .. n /\ B = 1 .. Cardinality(B)
<1> DEFINE T == {j \in Nat : j + 1 \notin B}
<1>1. n \in T
  OBVIOUS
<1>2. PICK m \in T : \A k \in T : m <= k
  <2> HIDE DEF T
  <2>1. T \in SUBSET Nat
    BY DEF T
  <2> QED BY <1>1, <2>1, Smallest
<1>3. \A i \in 1 .. m : i \in B
  <2> TAKE i \in 1 .. m
  <2>1. i - 1 \in Nat /\ ~ (m <= i - 1) /\ (i - 1) + 1 = i
    OBVIOUS
  <2> QED BY <1>2, <2>1
<1>4. \A b \in B : b <= m
  <2> TAKE b \in B
  <2>1. b > m => m + 1 \in 1 .. b
    OBVIOUS
  <2> QED BY <2>1
<1>5. B = 1 .. m
  <2>1. m \in Nat
    OBVIOUS
  <2>2. \A b \in B : b \in 1 .. m
    BY <2>1, <1>4
  <2> HIDE DEF T
  <2> QED BY <2>2, <1>3
<1>6. Cardinality(1 .. m) = m
  BY FS_Interval
<1> QED BY <1>1, <1>2, <1>5, <1>6

-----------------------------------------------------------------------------
(* Sequences.                                                              *)

LEMMA SplicedAt ==
  ASSUME NEW S, NEW s \in Seq(S), NEW ev \in S,
         NEW B \in SUBSET DOMAIN s, \A j \in B : \A i \in 1 .. j : i \in B
  PROVE  LET k == Cardinality(B)
             t == Spliced(s, B, ev)
         IN /\ t \in Seq(S) /\ Len(t) = Len(s) + 1
            /\ k \in 0 .. Len(s) /\ B = 1 .. k
            /\ \A i \in DOMAIN t : /\ i <= k => t[i] = s[i]
                                   /\ i = k + 1 => t[i] = ev
                                   /\ i > k + 1 => t[i] = s[i - 1]
<1> DEFINE k == Cardinality(B)
<1>1. k \in 0 .. Len(s) /\ B = 1 .. k
  BY FirstSoMany
<1> HIDE DEF k
<1>2. SubSeq(s, 1, k) \in Seq(S) /\ Len(SubSeq(s, 1, k)) = k
      /\ \A i \in 1 .. k : SubSeq(s, 1, k)[i] = s[i]
  BY <1>1
<1>3. SubSeq(s, k + 1, Len(s)) \in Seq(S) /\ Len(SubSeq(s, k + 1, Len(s))) = Len(s) - k
      /\ \A i \in 1 .. Len(s) - k : SubSeq(s, k + 1, Len(s))[i] = s[k + i]
  BY <1>1
<1> DEFINE a == SubSeq(s, 1, k)
           b == SubSeq(s, k + 1, Len(s))
           t == a \o <<ev>> \o b
<1>4. Spliced(s, B, ev) = t
  BY DEF Spliced, k
<1> HIDE DEF a, b
<1>5. t \in Seq(S) /\ Len(t) = Len(s) + 1
  <2>1. a \in Seq(S) /\ Len(a) = k /\ b \in Seq(S) /\ Len(b) = Len(s) - k /\ k \in Nat
        /\ <<ev>> \in Seq(S) /\ Len(<<ev>>) = 1
    BY <1>1, <1>2, <1>3 DEF a, b
  <2>2. a \o <<ev>> \in Seq(S) /\ Len(a \o <<ev>>) = k + 1
    BY <2>1
  <2> QED BY <2>1, <2>2
<1>6. \A i \in 1 .. Len(s) + 1 : /\ i <= k => t[i] = a[i]
                                 /\ i = k + 1 => t[i] = ev
                                 /\ i > k + 1 => t[i] = b[i - k - 1]
  <2>1. a \in Seq(S) /\ Len(a) = k /\ b \in Seq(S) /\ Len(b) = Len(s) - k /\ k \in Nat
    BY <1>1, <1>2, <1>3 DEF a, b
  <2> QED BY <2>1
<1>7. \A i \in k + 2 .. Len(s) + 1 : b[i - k - 1] = s[i - 1]
  <2> TAKE i \in k + 2 .. Len(s) + 1
  <2>1. i - k - 1 \in 1 .. Len(s) - k /\ k + (i - k - 1) = i - 1
    BY <1>1
  <2> QED BY <2>1, <1>3 DEF b
<1>8. \A i \in DOMAIN t : /\ i <= k => t[i] = s[i]
                          /\ i = k + 1 => t[i] = ev
                          /\ i > k + 1 => t[i] = s[i - 1]
  <2> TAKE i \in DOMAIN t
  <2>1. i \in 1 .. Len(s) + 1
    BY <1>5
  <2>2. CASE i <= k
    BY <2>1, <2>2, <1>1, <1>2, <1>6 DEF a
  <2>3. CASE i = k + 1
    BY <2>1, <2>3, <1>1, <1>6
  <2>4. CASE i > k + 1
    BY <2>1, <2>4, <1>1, <1>6, <1>7
  <2> QED BY <2>1, <2>2, <2>3, <2>4, <1>1
<1> QED BY <1>1, <1>4, <1>5, <1>8 DEF k

LEMMA WithoutAt ==
  ASSUME NEW S, NEW s \in Seq(S), NEW i \in DOMAIN s
  PROVE  LET t == Without(s, i)
         IN /\ t \in Seq(S) /\ Len(t) = Len(s) - 1
            /\ \A j \in DOMAIN t : t[j] = s[IF j < i THEN j ELSE j + 1]
<1>1. Len(s) - 1 \in Nat /\ i \in 1 .. Len(s)
  OBVIOUS
<1> QED BY <1>1 DEF Without

\* How many indices up to n are in I.
Rank(I, n) == Cardinality({i \in I : i <= n})

LEMMA Ranks ==
  ASSUME NEW L \in Nat, NEW I, \A i \in I : i \in Nat /\ 1 <= i /\ i <= L
  PROVE  /\ \A n \in Nat : Rank(I, n) \in Nat
         /\ Rank(I, 0) = 0 /\ Rank(I, L) = Cardinality(I)
         /\ \A n \in Nat : Rank(I, n + 1) = IF n + 1 \in I THEN Rank(I, n) + 1 ELSE Rank(I, n)
         /\ \A m, n \in Nat : m <= n => Rank(I, m) <= Rank(I, n)
<1> DEFINE Upto(n) == {i \in I : i <= n}
<1>1. \A n \in Nat : IsFiniteSet(Upto(n)) /\ Cardinality(Upto(n)) \in Nat
  <2>1. IsFiniteSet(1 .. L)
    BY FS_Interval
  <2>2. \A n \in Nat : Upto(n) \subseteq 1 .. L
    OBVIOUS
  <2> QED BY <2>1, <2>2, FS_Subset, FS_CardinalityType
<1>2. Upto(0) = {} /\ Upto(L) = I
  OBVIOUS
<1>3. ASSUME NEW n \in Nat PROVE Rank(I, n + 1) = IF n + 1 \in I THEN Rank(I, n) + 1 ELSE Rank(I, n)
  <2>1. CASE n + 1 \in I
    <3>1. Upto(n + 1) = Upto(n) \cup {n + 1} /\ n + 1 \notin Upto(n)
      BY <2>1
    <3> QED BY <1>1, <2>1, <3>1, FS_AddElement DEF Rank
  <2>2. CASE n + 1 \notin I
    <3>1. Upto(n + 1) = Upto(n)
      BY <2>2
    <3> QED BY <2>2, <3>1 DEF Rank
  <2> QED BY <2>1, <2>2
<1>4. ASSUME NEW m \in Nat, NEW n \in Nat, m <= n PROVE Rank(I, m) <= Rank(I, n)
  <2>1. Upto(m) \subseteq Upto(n)
    BY <1>4
  <2> QED BY <1>1, <2>1, FS_Subset DEF Rank
<1>5. Rank(I, 0) = 0 /\ Rank(I, L) = Cardinality(I)
  BY <1>2, FS_EmptySet DEF Rank
<1> QED BY <1>1, <1>3, <1>4, <1>5 DEF Rank

\* The recursive function in Chosen is there.
LEMMA ChosenFunction ==
  ASSUME NEW s, NEW I, Len(s) \in Nat
  PROVE  \E upto : /\ Chosen(s, I) = upto[Len(s)]
                   /\ upto = [n \in 0 .. Len(s) |->
                         IF n = 0 THEN <<>>
                         ELSE IF n \in I THEN Append(upto[n - 1], s[n]) ELSE upto[n - 1]]
<1> DEFINE Is(g, m) == g = [n \in 0 .. m |->
                              IF n = 0 THEN <<>>
                              ELSE IF n \in I THEN Append(g[n - 1], s[n]) ELSE g[n - 1]]
           T == {m \in Nat : \E g : Is(g, m)}
<1>1. 0 \in T
  <2> DEFINE none == [n \in 0 .. 0 |-> <<>>]
  <2>1. Is(none, 0)
    OBVIOUS
  <2> QED BY <2>1
<1>2. ASSUME NEW m \in Nat, m \in T PROVE m + 1 \in T
  <2>1. PICK g : Is(g, m)
    BY <1>2
  <2> DEFINE h == [n \in 0 .. m + 1 |->
                     IF n = m + 1 THEN IF n \in I THEN Append(g[n - 1], s[n]) ELSE g[n - 1]
                     ELSE g[n]]
  <2>2. \A n \in 0 .. m : h[n] = g[n]
    OBVIOUS
  <2>3. \A n \in 0 .. m + 1 :
           h[n] = IF n = 0 THEN <<>>
                  ELSE IF n \in I THEN Append(h[n - 1], s[n]) ELSE h[n - 1]
    <3> TAKE n \in 0 .. m + 1
    <3>1. CASE n = m + 1
      <4>1. n - 1 \in 0 .. m /\ n # 0
        BY <3>1
      <4>2. h[n - 1] = g[n - 1]
        BY <4>1, <2>2
      <4> QED BY <3>1, <4>1, <4>2
    <3>2. CASE n = 0
      BY <3>2, <2>1
    <3>3. CASE n \in 1 .. m
      <4>1. n - 1 \in 0 .. m /\ n \in 0 .. m /\ n # 0
        BY <3>3
      <4>2. h[n - 1] = g[n - 1] /\ h[n] = g[n]
        BY <4>1, <2>2
      <4>3. g[n] = IF n \in I THEN Append(g[n - 1], s[n]) ELSE g[n - 1]
        BY <2>1, <4>1
      <4> QED BY <4>1, <4>2, <4>3
    <3> QED BY <3>1, <3>2, <3>3
  <2>4. Is(h, m + 1)
    BY <2>3
  <2>5. \E f : Is(f, m + 1)
    <3> HIDE DEF h, Is
    <3> QED BY <2>4
  <2> HIDE DEF Is
  <2> QED BY <2>5
<1>3. Len(s) \in T
  <2> HIDE DEF T
  <2> QED BY <1>1, <1>2, Induction
<1> DEFINE upto == CHOOSE g : Is(g, Len(s))
<1>4. Is(upto, Len(s))
  <2>1. \E g : Is(g, Len(s))
    BY <1>3
  <2> HIDE DEF Is
  <2> QED BY <2>1
<1>5. Chosen(s, I) = upto[Len(s)]
  BY DEF Chosen
<1> HIDE DEF upto
<1> QED BY <1>4, <1>5

LEMMA ChosenAt ==
  ASSUME NEW S, NEW s \in Seq(S), NEW I, \A i \in I : i \in Nat /\ 1 <= i /\ i <= Len(s)
  PROVE  LET t == Chosen(s, I)
         IN /\ t \in Seq(S) /\ Len(t) = Cardinality(I) /\ Len(t) <= Len(s)
            /\ \A j \in DOMAIN t : \E i \in I : Rank(I, i) = j /\ t[j] = s[i]
<1>1. PICK upto : /\ Chosen(s, I) = upto[Len(s)]
                  /\ upto = [n \in 0 .. Len(s) |->
                        IF n = 0 THEN <<>>
                        ELSE IF n \in I THEN Append(upto[n - 1], s[n]) ELSE upto[n - 1]]
  BY ChosenFunction
<1>2. upto[0] = <<>>
  BY <1>1
<1>3. \A n \in Nat : n + 1 <= Len(s) =>
         upto[n + 1] = IF n + 1 \in I THEN Append(upto[n], s[n + 1]) ELSE upto[n]
  <2> TAKE n \in Nat
  <2> HAVE n + 1 <= Len(s)
  <2>1. n + 1 \in 0 .. Len(s) /\ n + 1 # 0 /\ (n + 1) - 1 = n
    OBVIOUS
  <2> QED BY <1>1, <2>1
<1>4. /\ \A n \in Nat : Rank(I, n) \in Nat
      /\ Rank(I, 0) = 0 /\ Rank(I, Len(s)) = Cardinality(I)
      /\ \A n \in Nat : Rank(I, n + 1) = IF n + 1 \in I THEN Rank(I, n) + 1 ELSE Rank(I, n)
  BY Ranks
<1> DEFINE Holds(n) == /\ upto[n] \in Seq(S) /\ Len(upto[n]) = Rank(I, n) /\ Rank(I, n) <= n
                       /\ \A j \in 1 .. Rank(I, n) :
                             \E i \in I : Rank(I, i) = j /\ upto[n][j] = s[i]
           T == {n \in Nat : n <= Len(s) => Holds(n)}
<1>5. 0 \in T
  <2>1. upto[0] \in Seq(S) /\ Len(upto[0]) = 0
    BY <1>2
  <2>2. Rank(I, 0) = 0
    BY <1>4
  <2>3. Holds(0)
    BY <2>1, <2>2
  <2> QED BY <2>3
<1>6. ASSUME NEW n \in Nat, n \in T PROVE n + 1 \in T
  <2> SUFFICES ASSUME n + 1 <= Len(s) PROVE Holds(n + 1)
    OBVIOUS
  <2> DEFINE u == upto[n]
             v == upto[n + 1]
             r == Rank(I, n)
             N == Rank(I, n + 1)
  <2>1. /\ u \in Seq(S) /\ Len(u) = r /\ r \in Nat /\ r <= n
        /\ \A j \in 1 .. r : \E i \in I : Rank(I, i) = j /\ u[j] = s[i]
    <3>1. Holds(n)
      <4> HIDE DEF Holds
      <4>1. n <= Len(s)
        OBVIOUS
      <4> QED BY <1>6, <4>1
    <3>2. r \in Nat
      BY <1>4
    <3> QED BY <3>1, <3>2
  <2>2. /\ n + 1 \notin I => v = u /\ N = r
        /\ n + 1 \in I => v = Append(u, s[n + 1]) /\ N = r + 1 /\ s[n + 1] \in S
    <3>1. s[n + 1] \in S
      <4>1. n + 1 \in 1 .. Len(s)
        OBVIOUS
      <4> QED BY <4>1, ElementOfSeq
    <3>2. v = IF n + 1 \in I THEN Append(u, s[n + 1]) ELSE u
      BY <1>3
    <3>3. N = IF n + 1 \in I THEN r + 1 ELSE r
      BY <1>4
    <3> HIDE DEF u, v, r, N
    <3> QED BY <3>1, <3>2, <3>3
  <2>3. \A e \in S : /\ Append(u, e) \in Seq(S) /\ Len(Append(u, e)) = r + 1
                     /\ \A j \in 1 .. r : Append(u, e)[j] = u[j]
                     /\ Append(u, e)[r + 1] = e
    <3> HIDE DEF u, r
    <3> QED BY <2>1
  <2>4. \A j \in 1 .. N : \E i \in I : Rank(I, i) = j /\ v[j] = s[i]
    <3> TAKE j \in 1 .. N
    <3>1. CASE n + 1 \notin I
      BY <2>1, <2>2, <3>1
    <3>2. CASE n + 1 \in I /\ j \in 1 .. r
      <4>1. v[j] = u[j]
        BY <2>2, <2>3, <3>2
      <4> QED BY <2>1, <3>2, <4>1
    <3>3. CASE n + 1 \in I /\ j = r + 1
      <4>1. v[j] = s[n + 1] /\ Rank(I, n + 1) = j
        BY <2>2, <2>3, <3>3
      <4> QED BY <3>3, <4>1
    <3>4. n + 1 \in I => j \in 1 .. r \/ j = r + 1
      <4> HIDE DEF r, N
      <4> QED BY <2>1, <2>2
    <3> QED BY <3>1, <3>2, <3>3, <3>4
  <2>5. v \in Seq(S) /\ Len(v) = N /\ N <= n + 1
    <3> HIDE DEF u, v, r, N
    <3>1. CASE n + 1 \in I
      <4> DEFINE e == s[n + 1]
      <4>1. e \in S /\ v = Append(u, e) /\ N = r + 1
        BY <2>2, <3>1
      <4>2. v \in Seq(S) /\ Len(v) = r + 1
        BY <2>3, <4>1
      <4> QED BY <2>1, <4>1, <4>2
    <3>2. CASE n + 1 \notin I
      BY <2>1, <2>2, <3>2
    <3> QED BY <3>1, <3>2
  <2> QED BY <2>4, <2>5
<1>7. Len(s) \in T
  <2> HIDE DEF T
  <2> QED BY <1>5, <1>6, Induction
<1>8. Holds(Len(s))
  BY <1>7
<1> DEFINE t == Chosen(s, I)
<1>9. Rank(I, Len(s)) = Cardinality(I) /\ t = upto[Len(s)]
  BY <1>1, <1>4
<1>10. /\ t \in Seq(S) /\ Len(t) = Cardinality(I) /\ Cardinality(I) <= Len(s)
       /\ \A j \in 1 .. Cardinality(I) : \E i \in I : Rank(I, i) = j /\ t[j] = s[i]
  <2> HIDE DEF t
  <2> QED BY <1>8, <1>9
<1>11. DOMAIN t = 1 .. Cardinality(I)
  <2> HIDE DEF t
  <2> QED BY <1>10
<1> QED BY <1>10, <1>11

\* Order of indices is order of ranks.
LEMMA RankOrder ==
  ASSUME NEW L \in Nat, NEW I, \A i \in I : i \in Nat /\ 1 <= i /\ i <= L
  PROVE  \A m \in Nat, i \in I : Rank(I, i) <= Rank(I, m) <=> i <= m
<1>1. /\ \A n \in Nat : Rank(I, n) \in Nat
      /\ \A n \in Nat : Rank(I, n + 1) = IF n + 1 \in I THEN Rank(I, n) + 1 ELSE Rank(I, n)
      /\ \A k, n \in Nat : k <= n => Rank(I, k) <= Rank(I, n)
  BY Ranks
<1> TAKE m \in Nat, i \in I
<1>2. i \in Nat /\ i - 1 \in Nat /\ (i - 1) + 1 = i
  <2>1. i \in Nat /\ 1 <= i
    OBVIOUS
  <2> QED BY <2>1
<1>3. Rank(I, i) = Rank(I, i - 1) + 1
  BY <1>1, <1>2
<1>4. ASSUME ~ (i <= m) PROVE Rank(I, m) <= Rank(I, i - 1)
  BY <1>1, <1>2, <1>4
<1> QED BY <1>1, <1>2, <1>3, <1>4

-----------------------------------------------------------------------------
(* The operators on any list.                                              *)

\* Splicing in adds one event, in whatever order the list is.
LEMMA SplicedIn ==
  ASSUME NEW S, NEW s \in Seq(S), NEW ev \in S, NEW B \in SUBSET DOMAIN s
  PROVE  Spliced(s, B, ev) \in Seq(S) /\ Len(Spliced(s, B, ev)) = Len(s) + 1
<1> DEFINE k == Cardinality(B)
<1>1. k \in 0 .. Len(s)
  <2>1. IsFiniteSet(1 .. Len(s)) /\ Cardinality(1 .. Len(s)) = Len(s)
    <3>1. Len(s) \in Nat /\ Len(s) \in Int
      OBVIOUS
    <3> QED BY <3>1, FS_Interval
  <2>2. B \subseteq 1 .. Len(s)
    OBVIOUS
  <2>3. Cardinality(B) <= Len(s) /\ IsFiniteSet(B)
    BY <2>1, <2>2, FS_Subset
  <2> QED BY <2>3, FS_CardinalityType
<1> DEFINE a == SubSeq(s, 1, k)
           b == SubSeq(s, k + 1, Len(s))
<1> HIDE DEF k
<1>2. a \in Seq(S) /\ Len(a) = k /\ b \in Seq(S) /\ Len(b) = Len(s) - k
  BY <1>1
<1>3. Spliced(s, B, ev) = a \o <<ev>> \o b
  BY DEF Spliced, k
<1> HIDE DEF a, b
<1>4. a \o <<ev>> \in Seq(S) /\ Len(a \o <<ev>>) = k + 1
  BY <1>1, <1>2
<1>5. (a \o <<ev>>) \o b \in Seq(S) /\ Len((a \o <<ev>>) \o b) = (k + 1) + (Len(s) - k)
  BY <1>1, <1>2, <1>4
<1> QED BY <1>1, <1>3, <1>5

\* Every event whose index is chosen is in what Chosen returns.
LEMMA ChosenHas ==
  ASSUME NEW S, NEW s \in Seq(S), NEW I, \A i \in I : i \in Nat /\ 1 <= i /\ i <= Len(s),
         NEW k \in I
  PROVE  \E j \in DOMAIN Chosen(s, I) : Chosen(s, I)[j] = s[k]
<1> DEFINE t == Chosen(s, I)
<1>1. /\ t \in Seq(S) /\ Len(t) = Cardinality(I)
      /\ \A j \in DOMAIN t : \E i \in I : Rank(I, i) = j /\ t[j] = s[i]
  BY ChosenAt
<1>2. /\ \A n \in Nat : Rank(I, n) \in Nat
      /\ Rank(I, 0) = 0 /\ Rank(I, Len(s)) = Cardinality(I)
      /\ \A m, n \in Nat : m <= n => Rank(I, m) <= Rank(I, n)
  <2>1. Len(s) \in Nat
    OBVIOUS
  <2> HIDE DEF t
  <2> QED BY <2>1, Ranks
<1>3. \A m \in Nat, i \in I : Rank(I, i) <= Rank(I, m) <=> i <= m
  BY RankOrder
<1> HIDE DEF t
<1>4. k \in Nat /\ 1 <= k /\ k <= Len(s)
  OBVIOUS
<1>5. Rank(I, k) \in DOMAIN t
  <2>1. Rank(I, k) <= Rank(I, Len(s)) /\ ~ (Rank(I, k) <= Rank(I, 0))
    BY <1>2, <1>3, <1>4
  <2> QED BY <1>1, <1>2, <1>4, <2>1
<1>6. PICK m \in I : Rank(I, m) = Rank(I, k) /\ t[Rank(I, k)] = s[m]
  BY <1>1, <1>5
<1>7. m \in Nat /\ Rank(I, m) <= Rank(I, k) /\ Rank(I, k) <= Rank(I, m)
  BY <1>2, <1>4, <1>6
<1>8. m = k
  BY <1>3, <1>4, <1>7
<1> QED BY <1>5, <1>6, <1>8 DEF t

\* set_next_event() leaves an iterator into the list, or to its end.
LEMMA NextIn ==
  ASSUME NEW q, Len(q.events) \in Nat, q.next \in Nat \ {0}
  PROVE  \E n \in 1 .. Len(q.events) + 1 : SetNextEvent(q) = [q EXCEPT !.next = n]
<1> DEFINE L == Len(q.events)
           from == IF AtEnd(q) \/ q.events[q.next].at > q.frame THEN 1 ELSE q.next
           due  == {i \in from .. L : q.events[i].at >= q.frame}
           next == IF due = {} THEN L + 1 ELSE CHOOSE i \in due : \A j \in due : i <= j
<1>1. SetNextEvent(q) = [q EXCEPT !.next = next]
  BY Zenon DEF SetNextEvent
<1>2. from \in Nat \ {0}
  OBVIOUS
<1> HIDE DEF from
<1>3. next \in 1 .. L + 1
  <2>1. CASE due = {}
    BY <2>1
  <2>2. CASE due # {}
    <3>1. due \in SUBSET Nat /\ \A i \in due : i \in 1 .. L
      BY <1>2
    <3>2. \E i \in due : \A j \in due : i <= j
      <4> HIDE DEF due
      <4> QED BY <2>2, <3>1, Smallest
    <3>3. next \in due
      <4> HIDE DEF due
      <4> QED BY <2>2, <3>2
    <3> HIDE DEF due, next
    <3> QED BY <3>1, <3>3
  <2> QED BY <2>1, <2>2
<1> HIDE DEF next
<1> QED BY <1>1, <1>3

-----------------------------------------------------------------------------
(* What a list has of other types than one.                                *)

Rest(s, type) == Chosen(s, Others(s, type))

LEMMA RestOfNone == \A type : Rest(<<>>, type) = <<>>
<1> TAKE type
<1> DEFINE s == <<>>
           I == Others(s, type)
<1>1. Len(s) = 0
  OBVIOUS
<1>2. Rest(<<>>, type) = Chosen(s, I)
  BY DEF Rest
<1>3. Len(s) \in Nat
  OBVIOUS
<1> HIDE DEF s, I
<1>4. PICK upto : /\ Chosen(s, I) = upto[Len(s)]
                  /\ upto = [n \in 0 .. Len(s) |->
                        IF n = 0 THEN <<>>
                        ELSE IF n \in I THEN Append(upto[n - 1], s[n]) ELSE upto[n - 1]]
  BY <1>3, ChosenFunction
<1>5. upto[0] = <<>>
  BY <1>1, <1>4
<1> QED BY <1>1, <1>2, <1>4, <1>5

\* Appending an event of that type adds nothing to the rest.
LEMMA RestOfAppend ==
  ASSUME NEW S, NEW s \in Seq(S), NEW x \in S, NEW type
  PROVE  Rest(Append(s, x), type) =
            IF x.type = type THEN Rest(s, type) ELSE Append(Rest(s, type), x)
<1> DEFINE t == Append(s, x)
           I == Others(s, type)
           J == Others(t, type)
           L == Len(s)
<1>1. /\ L \in Nat /\ Len(t) = L + 1 /\ DOMAIN s = 1 .. L /\ DOMAIN t = 1 .. L + 1
      /\ t[L + 1] = x /\ \A n \in 1 .. L : t[n] = s[n]
  OBVIOUS
<1>2. L + 1 \in J <=> x.type # type
  BY <1>1 DEF Others
<1>3. \A n \in 1 .. L : n \in J <=> n \in I
  BY <1>1 DEF Others
<1>4. PICK f : /\ Rest(s, type) = f[L]
               /\ f = [n \in 0 .. L |->
                        IF n = 0 THEN <<>>
                        ELSE IF n \in I THEN Append(f[n - 1], s[n]) ELSE f[n - 1]]
  BY <1>1, ChosenFunction, Zenon DEF Rest
<1>5. PICK g : /\ Rest(t, type) = g[L + 1]
               /\ g = [n \in 0 .. L + 1 |->
                        IF n = 0 THEN <<>>
                        ELSE IF n \in J THEN Append(g[n - 1], t[n]) ELSE g[n - 1]]
  <2>1. Len(t) \in Nat
    BY <1>1
  <2>2. PICK g : /\ Chosen(t, J) = g[Len(t)]
                 /\ g = [n \in 0 .. Len(t) |->
                        IF n = 0 THEN <<>>
                        ELSE IF n \in J THEN Append(g[n - 1], t[n]) ELSE g[n - 1]]
    <3> HIDE DEF t, J
    <3> QED BY <2>1, ChosenFunction
  <2> QED BY <1>1, <2>2, Zenon DEF Rest
<1> HIDE DEF t, I, J, L
<1>6. \A n \in 0 .. L : n = 0 \/ f[n] = IF n \in I THEN Append(f[n - 1], s[n]) ELSE f[n - 1]
  BY <1>4
<1>7. \A n \in 0 .. L + 1 :
         n = 0 \/ g[n] = IF n \in J THEN Append(g[n - 1], t[n]) ELSE g[n - 1]
  BY <1>5
<1> DEFINE T == {n \in Nat : n <= L => f[n] = g[n]}
<1>8. 0 \in T
  <2>1. 0 \in 0 .. L /\ 0 \in 0 .. L + 1
    BY <1>1
  <2>2. f[0] = <<>> /\ g[0] = <<>>
    BY <1>4, <1>5, <2>1
  <2> QED BY <2>2
<1>9. ASSUME NEW n \in Nat, n \in T PROVE n + 1 \in T
  <2> SUFFICES ASSUME n + 1 <= L PROVE f[n + 1] = g[n + 1]
    OBVIOUS
  <2>1. /\ n + 1 \in 1 .. L /\ n + 1 \in 0 .. L /\ n + 1 \in 0 .. L + 1
        /\ n + 1 # 0 /\ (n + 1) - 1 = n /\ n <= L
    BY <1>1
  <2>2. f[n] = g[n] /\ (n + 1 \in J <=> n + 1 \in I) /\ t[n + 1] = s[n + 1]
    BY <1>1, <1>3, <1>9, <2>1
  <2>3. f[n + 1] = IF n + 1 \in I THEN Append(f[n], s[n + 1]) ELSE f[n]
    BY <1>6, <2>1
  <2>4. g[n + 1] = IF n + 1 \in J THEN Append(g[n], t[n + 1]) ELSE g[n]
    BY <1>7, <2>1
  <2> QED BY <2>2, <2>3, <2>4
<1>10. f[L] = g[L]
  <2>1. L \in T
    <3> HIDE DEF T
    <3> QED BY <1>1, <1>8, <1>9, Induction
  <2> QED BY <1>1, <2>1
<1>11. g[L + 1] = IF L + 1 \in J THEN Append(g[L], t[L + 1]) ELSE g[L]
  <2>1. L + 1 \in 0 .. L + 1 /\ L + 1 # 0 /\ (L + 1) - 1 = L
    BY <1>1
  <2> QED BY <1>7, <2>1
<1>12. Rest(t, type) = IF x.type = type THEN Rest(s, type) ELSE Append(Rest(s, type), x)
  BY <1>1, <1>2, <1>4, <1>5, <1>10, <1>11
<1> QED BY <1>12 DEF t

\* The rest of two lists one after the other is that of the one and then that of the other.
LEMMA RestOfBoth ==
  ASSUME NEW S, NEW s \in Seq(S), NEW type
  PROVE  \A t \in Seq(S) : Rest(s \o t, type) = Rest(s, type) \o Rest(t, type)
<1> DEFINE T == {n \in Nat : \A t \in Seq(S) :
                   Len(t) = n => Rest(s \o t, type) = Rest(s, type) \o Rest(t, type)}
<1>1. \A t \in Seq(S) : Rest(t, type) \in Seq(S)
  BY ChosenAt DEF Rest, Others
<1>2. 0 \in T
  <2> SUFFICES ASSUME NEW t \in Seq(S), Len(t) = 0
               PROVE  Rest(s \o t, type) = Rest(s, type) \o Rest(t, type)
    OBVIOUS
  <2>1. t = <<>> /\ s \o t = s
    OBVIOUS
  <2>2. Rest(t, type) = <<>>
    BY <2>1, RestOfNone
  <2>3. Rest(s, type) \o <<>> = Rest(s, type)
    BY <1>1
  <2> QED BY <2>1, <2>2, <2>3
<1>3. ASSUME NEW n \in Nat, n \in T PROVE n + 1 \in T
  <2> SUFFICES ASSUME NEW t \in Seq(S), Len(t) = n + 1
               PROVE  Rest(s \o t, type) = Rest(s, type) \o Rest(t, type)
    OBVIOUS
  <2> DEFINE u == SubSeq(t, 1, n)
             x == t[n + 1]
  <2>1. u \in Seq(S) /\ Len(u) = n /\ x \in S /\ t = Append(u, x)
    OBVIOUS
  <2> HIDE DEF u, x
  <2>2. s \o t = Append(s \o u, x) /\ s \o u \in Seq(S)
    BY <2>1
  <2>3. Rest(s \o u, type) = Rest(s, type) \o Rest(u, type)
    BY <1>3, <2>1
  <2>4. Rest(t, type) = IF x.type = type THEN Rest(u, type) ELSE Append(Rest(u, type), x)
    BY <2>1, RestOfAppend
  <2>5. Rest(s \o t, type) =
          IF x.type = type THEN Rest(s \o u, type) ELSE Append(Rest(s \o u, type), x)
    <3> DEFINE w == s \o u
    <3>1. w \in Seq(S) /\ s \o t = Append(w, x)
      BY <2>2
    <3>2. x \in S
      BY <2>1
    <3> HIDE DEF w
    <3>3. Rest(Append(w, x), type) = IF x.type = type THEN Rest(w, type) ELSE Append(Rest(w, type), x)
      BY <3>1, <3>2, RestOfAppend
    <3> QED BY <3>1, <3>3 DEF w
  <2>6. Rest(s, type) \in Seq(S) /\ Rest(u, type) \in Seq(S)
    BY <1>1, <2>1
  <2>7. Append(Rest(s, type) \o Rest(u, type), x) = Rest(s, type) \o Append(Rest(u, type), x)
    <3> DEFINE a == Rest(s, type)
               b == Rest(u, type)
    <3>1. a \in Seq(S) /\ b \in Seq(S)
      BY <2>6
    <3> HIDE DEF a, b
    <3>2. /\ Append(a \o b, x) = (a \o b) \o <<x>>
          /\ Append(b, x) = b \o <<x>>
          /\ (a \o b) \o <<x>> = a \o (b \o <<x>>)
      <4>1. x \in S /\ <<x>> \in Seq(S) /\ a \o b \in Seq(S)
        BY <2>1, <3>1
      <4>2. \A w \in Seq(S) : Append(w, x) = w \o <<x>>
        BY <4>1, AppendIsConcat
      <4>3. \A w \in Seq(S) : (a \o b) \o w = a \o (b \o w)
        BY <3>1, ConcatAssociative
      <4> QED BY <3>1, <4>1, <4>2, <4>3
    <3>3. Append(a \o b, x) = a \o Append(b, x)
      BY <3>2
    <3> QED BY <3>3 DEF a, b
  <2> QED BY <2>3, <2>4, <2>5, <2>7
<1>4. \A t \in Seq(S) : Len(t) \in T
  <2> HIDE DEF T
  <2> QED BY <1>2, <1>3, Induction
<1> QED BY <1>4

LEMMA RestOfOne ==
  ASSUME NEW S, NEW x \in S
  PROVE  Rest(<<x>>, x.type) = <<>>
<1>1. Append(<<>>, x) = <<x>> /\ <<>> \in Seq(S)
  OBVIOUS
<1> QED BY <1>1, RestOfAppend, RestOfNone

\* A list without the type is its own rest.
LEMMA RestOfRest ==
  ASSUME NEW S, NEW type
  PROVE  \A t \in Seq(S) : (\A i \in DOMAIN t : t[i].type # type) => Rest(t, type) = t
<1> DEFINE T == {n \in Nat : \A t \in Seq(S) :
                   Len(t) = n /\ (\A i \in DOMAIN t : t[i].type # type) => Rest(t, type) = t}
<1>1. 0 \in T
  BY RestOfNone
<1>2. ASSUME NEW n \in Nat, n \in T PROVE n + 1 \in T
  <2> SUFFICES ASSUME NEW t \in Seq(S), Len(t) = n + 1, \A i \in DOMAIN t : t[i].type # type
               PROVE  Rest(t, type) = t
    OBVIOUS
  <2> DEFINE u == SubSeq(t, 1, n)
             x == t[n + 1]
  <2>1. u \in Seq(S) /\ Len(u) = n /\ x \in S /\ t = Append(u, x)
    OBVIOUS
  <2>2. x.type # type /\ \A i \in DOMAIN u : u[i].type # type
    OBVIOUS
  <2> HIDE DEF u, x
  <2>3. Rest(u, type) = u
    BY <1>2, <2>1, <2>2
  <2> QED BY <2>1, <2>2, <2>3, RestOfAppend
<1>3. \A t \in Seq(S) : Len(t) \in T
  <2> HIDE DEF T
  <2> QED BY <1>1, <1>2, Induction
<1> QED BY <1>3

\* An event of the type that is taken out of a list or put into it is not of the rest.
LEMMA RestAround ==
  ASSUME NEW S, NEW a \in Seq(S), NEW b \in Seq(S), NEW x \in S
  PROVE  Rest(a \o <<x>> \o b, x.type) = Rest(a \o b, x.type)
<1> DEFINE type == x.type
           one == <<x>>
           ax == a \o one
           A == Rest(a, type)
           B == Rest(b, type)
<1>1. one \in Seq(S) /\ Rest(one, type) = <<>>
  BY RestOfOne
<1>2. A \in Seq(S)
  BY ChosenAt DEF Rest, Others
<1> HIDE DEF type, one, A, B
<1>3. \A s, t \in Seq(S) : Rest(s \o t, type) = Rest(s, type) \o Rest(t, type)
  BY RestOfBoth
<1>4. ax \in Seq(S) /\ Rest(ax, type) = A \o <<>>
  <2>1. Rest(a \o one, type) = Rest(a, type) \o Rest(one, type)
    BY <1>1, <1>3
  <2> QED BY <1>1, <2>1 DEF A
<1>5. A \o <<>> = A
  BY <1>2
<1> HIDE DEF ax
<1>6. Rest(ax \o b, type) = A \o B
  <2>1. Rest(ax \o b, type) = Rest(ax, type) \o Rest(b, type)
    BY <1>4, <1>3
  <2> QED BY <1>4, <1>5, <2>1 DEF B
<1>7. Rest(a \o b, type) = A \o B
  BY RestOfBoth DEF A, B
<1> QED BY <1>6, <1>7 DEF ax, one, type

LEMMA SplicedRest ==
  ASSUME NEW S, NEW s \in Seq(S), NEW ev \in S, NEW B \in SUBSET DOMAIN s
  PROVE  Rest(Spliced(s, B, ev), ev.type) = Rest(s, ev.type)
<1> DEFINE k == Cardinality(B)
           a == SubSeq(s, 1, k)
           b == SubSeq(s, k + 1, Len(s))
<1>1. k \in 0 .. Len(s)
  <2>1. IsFiniteSet(1 .. Len(s)) /\ Cardinality(1 .. Len(s)) = Len(s)
    <3>1. Len(s) \in Nat /\ Len(s) \in Int
      OBVIOUS
    <3> QED BY <3>1, FS_Interval
  <2>2. B \subseteq 1 .. Len(s)
    OBVIOUS
  <2>3. Cardinality(B) <= Len(s) /\ IsFiniteSet(B)
    BY <2>1, <2>2, FS_Subset
  <2> QED BY <2>3, FS_CardinalityType
<1>2. Spliced(s, B, ev) = a \o <<ev>> \o b
  BY DEF Spliced
<1> HIDE DEF k
<1>3. a \in Seq(S) /\ b \in Seq(S)
  BY <1>1
<1>4. a \o b = s
  <2>1. Len(s) \in Nat /\ k \in 1 - 1 .. Len(s) /\ 1 \in 1 .. Len(s) + 1 /\ Len(s) \in k .. Len(s)
    BY <1>1
  <2>2. SubSeq(s, 1, k) \o SubSeq(s, k + 1, Len(s)) = SubSeq(s, 1, Len(s))
    BY <2>1, ConcatAdjacentSubSeq
  <2>3. SubSeq(s, 1, Len(s)) = s
    OBVIOUS
  <2> QED BY <2>2, <2>3
<1> HIDE DEF a, b
<1> QED BY <1>2, <1>3, <1>4, RestAround

LEMMA WithoutRest ==
  ASSUME NEW S, NEW s \in Seq(S), NEW i \in DOMAIN s
  PROVE  Rest(Without(s, i), s[i].type) = Rest(s, s[i].type)
<1> DEFINE a == SubSeq(s, 1, i - 1)
           b == SubSeq(s, i + 1, Len(s))
           x == s[i]
<1>1. Len(s) \in Nat /\ i \in 1 .. Len(s) /\ i - 1 \in Nat /\ x \in S
  OBVIOUS
<1>2. /\ a \in Seq(S) /\ Len(a) = i - 1 /\ \A j \in 1 .. i - 1 : a[j] = s[j]
      /\ b \in Seq(S) /\ Len(b) = Len(s) - i /\ \A j \in 1 .. Len(s) - i : b[j] = s[i + j]
  BY <1>1
<1> HIDE DEF a, b, x
<1>3. Without(s, i) = a \o b
  <2>1. a \o b \in Seq(S) /\ Len(a \o b) = Len(s) - 1
    BY <1>1, <1>2
  <2>2. Without(s, i) \in Seq(S) /\ Len(Without(s, i)) = Len(s) - 1
    BY WithoutAt
  <2>3. \A j \in 1 .. Len(s) - 1 : Without(s, i)[j] = (a \o b)[j]
    <3> TAKE j \in 1 .. Len(s) - 1
    <3>1. Without(s, i)[j] = s[IF j < i THEN j ELSE j + 1]
      <4>1. j \in DOMAIN Without(s, i)
        BY <2>2
      <4> QED BY <4>1, WithoutAt
    <3>2. (a \o b)[j] = IF j <= i - 1 THEN a[j] ELSE b[j - (i - 1)]
      BY <1>1, <1>2, ConcatProperties
    <3> QED BY <1>1, <1>2, <3>1, <3>2
  <2>4. /\ Len(Without(s, i)) = Len(a \o b)
        /\ \A j \in 1 .. Len(Without(s, i)) : Without(s, i)[j] = (a \o b)[j]
    BY <2>1, <2>2, <2>3
  <2> QED BY <2>1, <2>2, <2>4, SeqEqual, Zenon
<1>4. s = a \o <<x>> \o b
  <2> DEFINE ax == a \o <<x>>
  <2>1. ax \in Seq(S) /\ Len(ax) = i /\ \A j \in 1 .. i : ax[j] = s[j]
    BY <1>1, <1>2 DEF x
  <2> HIDE DEF ax
  <2>2. ax \o b \in Seq(S) /\ Len(ax \o b) = Len(s)
    BY <1>1, <1>2, <2>1
  <2>3. \A j \in 1 .. Len(s) : (ax \o b)[j] = s[j]
    <3> TAKE j \in 1 .. Len(s)
    <3>1. (ax \o b)[j] = IF j <= i THEN ax[j] ELSE b[j - i]
      BY <1>1, <1>2, <2>1, ConcatProperties
    <3> QED BY <1>1, <1>2, <2>1, <3>1
  <2>4. ax \o b = s
    <3>1. Len(ax \o b) = Len(s) /\ \A j \in 1 .. Len(ax \o b) : (ax \o b)[j] = s[j]
      BY <2>2, <2>3
    <3> QED BY <2>2, <3>1, SeqEqual, Zenon
  <2> QED BY <2>4 DEF ax
<1>5. Rest(a \o <<x>> \o b, x.type) = Rest(a \o b, x.type)
  BY <1>1, <1>2, RestAround
<1> QED BY <1>3, <1>4, <1>5 DEF x

=============================================================================
