---------------------------- MODULE RoutesProofs ----------------------------
(***************************************************************************)
(* The order of the routes and solo, for any routes, groups and            *)
(* connections.                                                            *)
(*                                                                         *)
(* First the resort.  trace_terminal() is followed call by call: without a *)
(* long loop the rank of the route called falls with each call that goes a *)
(* step deeper, so the depth there is suffices, and without feedback what  *)
(* is marked in the end is what is upstream.  list::sort is followed bin   *)
(* by bin: each holds its routes once, and the route that all others go in *)
(* front of comes last.                                                    *)
(*                                                                         *)
(* Then solo.  Each operation is a fold over routes; its lemmas give a set *)
(* of states that every element of the fold stays in.                      *)
(*                                                                         *)
(* A fold is reasoned about as the sequence of the values it goes through. *)
(***************************************************************************)
EXTENDS Routes, FiniteSetTheorems, SequenceTheorems, WellFoundedInduction, TLAPS

-----------------------------------------------------------------------------
(* Numbers.  The library's induction theorems are about an operator; these *)
(* are about a set.                                                        *)

LEMMA LeastOf ==
  ASSUME NEW S \in SUBSET Nat, S # {}
  PROVE  \E m \in S : \A k \in S : m <= k
<1> DEFINE R == {p \in Nat \X Nat : p[1] < p[2]}
<1>1. IsWellFoundedOn(R, Nat)
  BY NatLessThanWellFounded DEF OpToRel
<1>2. PICK m \in S : \A k \in S : ~ (<<k, m>> \in R)
  <2> HIDE DEF R
  <2> QED BY <1>1, WFMin
<1>3. \A k \in S : ~ (k < m)
  BY <1>2
<1> QED BY <1>3

LEMMA Upwards ==
  ASSUME NEW S, 0 \in S, \A n \in Nat : n \in S => n + 1 \in S
  PROVE  Nat \subseteq S
<1> SUFFICES ASSUME Nat \ S # {} PROVE FALSE
  OBVIOUS
<1>1. PICK m \in Nat \ S : \A k \in Nat \ S : m <= k
  BY LeastOf
<1>2. m # 0 /\ m - 1 \in Nat /\ m - 1 \in S
  BY <1>1
<1> QED BY <1>2

-----------------------------------------------------------------------------
(* Folds.                                                                  *)

\* The values a fold goes through.
FoldSteps(step, base, seq, f) ==
    /\ f[0] = base
    /\ \A k \in 1 .. Len(seq) : f[k] = step[seq[k]][f[k - 1]]

LEMMA FoldedSteps ==
  ASSUME NEW step, NEW base, NEW T, NEW seq \in Seq(T)
  PROVE  \E f : FoldSteps(step, base, seq, f) /\ Folded(step, base, seq) = f[Len(seq)]
<1> DEFINE Upto(f, n) ==
             f = [k \in 0 .. n |-> IF k = 0 THEN base ELSE step[seq[k]][f[k - 1]]]
           S == {n \in Nat : \E f : Upto(f, n)}
           upto[k \in 0 .. Len(seq)] == IF k = 0 THEN base ELSE step[seq[k]][upto[k - 1]]
<1>1. 0 \in S
  <2> DEFINE F(k, f) == IF k = 0 THEN base ELSE step[seq[k]][f[k - 1]]
             f == [k \in 0 .. 0 |-> base]
  <2>1. \A k \in 0 .. 0 : F(k, f) = base
    BY \A k \in 0 .. 0 : k = 0
  <2>2. f = [k \in 0 .. 0 |-> F(k, f)]
    <3> HIDE DEF F
    <3> QED BY <2>1
  <2> QED BY <2>2
<1>2. \A n \in Nat : n \in S => n + 1 \in S
  <2> SUFFICES ASSUME NEW n \in Nat, n \in S PROVE n + 1 \in S
    <3> HIDE DEF S
    <3> QED OBVIOUS
  <2>0. PICK f : Upto(f, n)
    OBVIOUS
  <2> DEFINE g == [k \in 0 .. n + 1 |->
                     IF k = n + 1 THEN step[seq[n + 1]][f[n]] ELSE f[k]]
  <2>1. DOMAIN g = 0 .. n + 1
    OBVIOUS
  <2>2. ASSUME NEW k \in 0 .. n + 1
        PROVE  g[k] = IF k = 0 THEN base ELSE step[seq[k]][g[k - 1]]
    <3>1. CASE k = n + 1
      <4>1. g[k] = step[seq[n + 1]][f[n]]
        BY <3>1
      <4>2. n \in 0 .. n + 1 /\ n # n + 1 /\ k - 1 = n /\ k # 0
        BY <3>1
      <4>3. g[n] = f[n]
        BY <4>2
      <4> QED BY <4>1, <4>2, <4>3, <3>1
    <3>2. CASE k # n + 1
      <4>1. k \in 0 .. n /\ g[k] = f[k] /\ (k # 0 => k - 1 \in 0 .. n + 1 /\ k - 1 # n + 1)
        BY <3>2
      <4>2. k # 0 => g[k - 1] = f[k - 1]
        BY <4>1
      <4>3. f[k] = IF k = 0 THEN base ELSE step[seq[k]][f[k - 1]]
        BY <4>1, <2>0
      <4> QED BY <4>1, <4>2, <4>3
    <3> QED BY <3>1, <3>2
  <2>3. Upto(g, n + 1)
    <3> HIDE DEF g
    <3>1. g = [k \in 0 .. n + 1 |-> g[k]]
      BY <2>1 DEF g
    <3> QED BY <3>1, <2>2
  <2> HIDE DEF g, Upto
  <2>4. \E h : Upto(h, n + 1)
    BY <2>3
  <2> QED BY <2>4
<1>3. Len(seq) \in S
  <2> HIDE DEF S
  <2>1. Len(seq) \in Nat
    OBVIOUS
  <2> QED BY <1>1, <1>2, <2>1, Upwards
<1>4. Upto(upto, Len(seq))
  BY <1>3
<1>5. FoldSteps(step, base, seq, upto)
  <2>1. Len(seq) \in Nat /\ 0 \in 0 .. Len(seq)
    OBVIOUS
  <2> HIDE DEF upto
  <2>2. upto[0] = base
    BY <1>4, <2>1
  <2>3. \A k \in 1 .. Len(seq) : upto[k] = step[seq[k]][upto[k - 1]]
    <3> TAKE k \in 1 .. Len(seq)
    <3>1. k \in 0 .. Len(seq) /\ k # 0
      BY <2>1
    <3> QED BY <1>4, <3>1
  <2> QED BY <2>2, <2>3 DEF FoldSteps
<1>6. Folded(step, base, seq) = upto[Len(seq)]
  BY DEF Folded
<1> QED BY <1>5, <1>6

\* What a fold keeps: J[k] has the states there may be after k elements.
LEMMA FoldedKeeps ==
  ASSUME NEW step, NEW base, NEW T, NEW seq \in Seq(T), NEW J,
         base \in J[0],
         \A k \in 1 .. Len(seq) : \A u \in J[k - 1] : step[seq[k]][u] \in J[k]
  PROVE  Folded(step, base, seq) \in J[Len(seq)]
<1>1. PICK f : FoldSteps(step, base, seq, f) /\ Folded(step, base, seq) = f[Len(seq)]
  BY FoldedSteps
<1> DEFINE S == {n \in Nat : n <= Len(seq) => f[n] \in J[n]}
<1>2. Len(seq) \in Nat
  OBVIOUS
<1>3. 0 \in S
  BY <1>1 DEF FoldSteps
<1>4. \A n \in Nat : n \in S => n + 1 \in S
  <2> SUFFICES ASSUME NEW n \in Nat, n \in S PROVE n + 1 \in S
    <3> HIDE DEF S
    <3> QED OBVIOUS
  <2> SUFFICES ASSUME n + 1 <= Len(seq) PROVE f[n + 1] \in J[n + 1]
    OBVIOUS
  <2>1. n + 1 \in 1 .. Len(seq) /\ (n + 1) - 1 = n /\ f[n] \in J[n]
    BY <1>2
  <2>2. f[n + 1] = step[seq[n + 1]][f[n]]
    BY <2>1, <1>1 DEF FoldSteps
  <2>3. \A u \in J[n] : step[seq[n + 1]][u] \in J[n + 1]
    BY <2>1
  <2> QED BY <2>1, <2>2, <2>3
<1>5. Len(seq) \in S
  <2> HIDE DEF S
  <2> QED BY <1>2, <1>3, <1>4, Upwards
<1> QED BY <1>1, <1>2, <1>5

\* The same of one set of states.
LEMMA FoldedStays ==
  ASSUME NEW step, NEW base, NEW T, NEW seq \in Seq(T), NEW I,
         base \in I, \A u \in I, x \in T : step[x][u] \in I
  PROVE  Folded(step, base, seq) \in I
<1> DEFINE J == [k \in 0 .. Len(seq) |-> I]
<1>1. /\ Len(seq) \in Nat
      /\ \A k \in 1 .. Len(seq) : seq[k] \in T /\ k \in 0 .. Len(seq) /\ k - 1 \in 0 .. Len(seq)
  OBVIOUS
<1>2. base \in J[0] /\ J[Len(seq)] = I
  BY <1>1
<1>3. \A k \in 1 .. Len(seq) : \A u \in J[k - 1] : step[seq[k]][u] \in J[k]
  BY <1>1
<1>4. Folded(step, base, seq) \in J[Len(seq)]
  <2> HIDE DEF J
  <2> QED BY <1>2, <1>3, FoldedKeeps
<1> QED BY <1>2, <1>4

-----------------------------------------------------------------------------
(* Ways through a graph.                                                   *)

LEMMA UpstreamHas ==
  ASSUME NEW nodes, NEW edges, NEW n \in nodes
  PROVE  /\ Upstream(nodes, edges)[n] \in SUBSET nodes
         /\ n \in Upstream(nodes, edges)[n]
BY DEF Upstream

LEMMA UpstreamClosed ==
  ASSUME NEW nodes, NEW edges \in SUBSET (nodes \X nodes), NEW n \in nodes
  PROVE  Closed(Upstream(nodes, edges)[n], edges)
<1> SUFFICES ASSUME NEW e \in edges, e[2] \in Upstream(nodes, edges)[n],
                    NEW S \in SUBSET nodes, n \in S, Closed(S, edges)
             PROVE  e[1] \in S
  BY DEF Upstream, Closed
<1>1. e[2] \in S
  BY DEF Upstream
<1> QED BY <1>1 DEF Closed

LEMMA UpstreamLeast ==
  ASSUME NEW nodes, NEW edges, NEW n \in nodes,
         NEW S \in SUBSET nodes, n \in S, Closed(S, edges)
  PROVE  Upstream(nodes, edges)[n] \subseteq S
BY DEF Upstream

LEMMA UpstreamOfUpstream ==
  ASSUME NEW nodes, NEW edges \in SUBSET (nodes \X nodes),
         NEW n \in nodes, NEW o \in Upstream(nodes, edges)[n]
  PROVE  Upstream(nodes, edges)[o] \subseteq Upstream(nodes, edges)[n]
<1>1. Upstream(nodes, edges)[n] \in SUBSET nodes
  BY UpstreamHas
<1>2. Closed(Upstream(nodes, edges)[n], edges)
  BY UpstreamClosed
<1>3. o \in nodes
  BY <1>1
<1> QED BY <1>1, <1>2, <1>3, UpstreamLeast

\* What gets to a node gets to one with an edge to it.
LEMMA UpstreamByEdge ==
  ASSUME NEW nodes, NEW edges \in SUBSET (nodes \X nodes), NEW n \in nodes,
         NEW o \in Upstream(nodes, edges)[n], o # n
  PROVE  \E m \in nodes \ {n} : <<m, n>> \in edges /\ o \in Upstream(nodes, edges)[m]
<1> DEFINE up == Upstream(nodes, edges)
           S == {n} \cup {p \in nodes : \E m \in nodes \ {n} : <<m, n>> \in edges /\ p \in up[m]}
<1>1. \A m \in nodes : m \in up[m] /\ Closed(up[m], edges)
  BY UpstreamHas, UpstreamClosed
<1>2. ASSUME NEW e \in edges, e[2] \in S PROVE e[1] \in S
  <2> HIDE DEF up
  <2>1. e[1] \in nodes /\ e[2] \in nodes /\ e = <<e[1], e[2]>>
    OBVIOUS
  <2>2. CASE e[2] = n
    <3>1. CASE e[1] = n
      BY <3>1
    <3>2. CASE e[1] # n
      BY <2>1, <2>2, <3>2, <1>1
    <3> QED BY <3>1, <3>2
  <2>3. CASE e[2] # n
    <3>1. PICK m \in nodes \ {n} : <<m, n>> \in edges /\ e[2] \in up[m]
      BY <1>2, <2>3
    <3>2. e[1] \in up[m]
      BY <3>1, <1>1 DEF Closed
    <3> QED BY <3>1, <3>2, <2>1
  <2> QED BY <2>2, <2>3
<1>3. Closed(S, edges)
  <2> HIDE DEF S
  <2> QED BY <1>2 DEF Closed
<1>4. S \in SUBSET nodes /\ n \in S
  OBVIOUS
<1>5. up[n] \subseteq S
  <2> HIDE DEF S
  <2> QED BY <1>3, <1>4, UpstreamLeast
<1>6. o \in S
  <2> HIDE DEF S
  <2> QED BY <1>5
<1> QED BY <1>6

-----------------------------------------------------------------------------
(* The calls of trace_terminal().                                          *)

LEMMA RoutesCounted == /\ Cardinality(Routes) \in Nat
                       /\ MaxDepth \in Nat
                       /\ Address \in Seq(Routes)
                       /\ \A r \in Routes : \E i \in 1 .. Len(Address) : Address[i] = r
<1>1. Cardinality(Routes) \in Nat
  BY FS_CardinalityType, GraphAssumption
<1>2. MaxDepth \in Nat
  BY <1>1 DEF MaxDepth
<1>3. \A r \in Routes : \E i \in 1 .. Len(Address) : Address[i] = r
  BY GraphAssumption DEF ToSet
<1> QED BY <1>1, <1>2, <1>3, GraphAssumption

\* What a call with so much room does, given those with less.
Call(depth, deeper, rbase) ==
    [r1 \in Routes |-> [s \in Trace |->
       IF depth = 0 THEN [s EXCEPT !.returns = FALSE]
       ELSE IF Feedback(s.fedBy, r1, rbase) THEN s
       ELSE Folded(Visits(deeper, rbase, r1, s), s, Address)]]

LEMMA TraceCalls ==
  ASSUME NEW t, NEW rbase
  PROVE  \E f : /\ \A d \in 0 .. MaxDepth : f[d] = Call(d, f[d - 1], rbase)
               /\ TraceTerminal(t, rbase) = f[MaxDepth][rbase][t]
<1> DEFINE Upto(f, n) == f = [d \in 0 .. n |-> Call(d, f[d - 1], rbase)]
           S == {n \in Nat : \E f : Upto(f, n)}
           trace[depth \in 0 .. MaxDepth] == Call(depth, trace[depth - 1], rbase)
<1>0. \A g, h : Call(0, g, rbase) = Call(0, h, rbase)
  <2> TAKE g, h
  <2>1. \A s \in Trace, r1 \in Routes :
           (IF 0 = 0 THEN [s EXCEPT !.returns = FALSE]
            ELSE IF Feedback(s.fedBy, r1, rbase) THEN s
            ELSE Folded(Visits(g, rbase, r1, s), s, Address)) = [s EXCEPT !.returns = FALSE]
    OBVIOUS
  <2>2. \A s \in Trace, r1 \in Routes :
           (IF 0 = 0 THEN [s EXCEPT !.returns = FALSE]
            ELSE IF Feedback(s.fedBy, r1, rbase) THEN s
            ELSE Folded(Visits(h, rbase, r1, s), s, Address)) = [s EXCEPT !.returns = FALSE]
    OBVIOUS
  <2> QED BY <2>1, <2>2 DEF Call
<1>1. 0 \in S
  <2> DEFINE f == [d \in 0 .. 0 |-> Call(0, 0, rbase)]
  <2>1. \A d \in 0 .. 0 : d = 0
    OBVIOUS
  <2>2. \A d \in 0 .. 0 : Call(d, f[d - 1], rbase) = Call(0, 0, rbase)
    BY <2>1, <1>0
  <2>3. Upto(f, 0)
    BY <2>2
  <2> HIDE DEF f, Upto
  <2>4. \E h : Upto(h, 0)
    BY <2>3
  <2> QED BY <2>4
<1>2. \A n \in Nat : n \in S => n + 1 \in S
  <2> SUFFICES ASSUME NEW n \in Nat, n \in S PROVE n + 1 \in S
    <3> HIDE DEF S
    <3> QED OBVIOUS
  <2>0. PICK f : Upto(f, n)
    OBVIOUS
  <2> DEFINE g == [d \in 0 .. n + 1 |-> IF d = n + 1 THEN Call(n + 1, f[n], rbase) ELSE f[d]]
  <2>1. DOMAIN g = 0 .. n + 1
    OBVIOUS
  <2>2. ASSUME NEW d \in 0 .. n + 1
        PROVE  g[d] = Call(d, g[d - 1], rbase)
    <3>1. CASE d = n + 1
      <4>1. g[d] = Call(n + 1, f[n], rbase)
        BY <3>1
      <4>2. n \in 0 .. n + 1 /\ n # n + 1 /\ d - 1 = n
        BY <3>1
      <4>3. g[n] = f[n]
        BY <4>2
      <4> QED BY <4>1, <4>2, <4>3, <3>1
    <3>2. CASE d # n + 1
      <4>1. d \in 0 .. n /\ g[d] = f[d] /\ (d # 0 => d - 1 \in 0 .. n + 1 /\ d - 1 # n + 1)
        BY <3>2
      <4>2. d # 0 => g[d - 1] = f[d - 1]
        BY <4>1
      <4>3. f[d] = Call(d, f[d - 1], rbase)
        BY <4>1, <2>0
      <4> HIDE DEF g
      <4>4. CASE d = 0
        BY <4>4, <4>1, <4>3, <1>0
      <4>5. CASE d # 0
        BY <4>5, <4>1, <4>2, <4>3
      <4> QED BY <4>4, <4>5
    <3> QED BY <3>1, <3>2
  <2>3. Upto(g, n + 1)
    <3> HIDE DEF g
    <3>1. g = [d \in 0 .. n + 1 |-> g[d]]
      BY <2>1 DEF g
    <3> QED BY <3>1, <2>2
  <2> HIDE DEF g, Upto
  <2>4. \E h : Upto(h, n + 1)
    BY <2>3
  <2> QED BY <2>4
<1>3. MaxDepth \in S
  <2> HIDE DEF S
  <2> QED BY <1>1, <1>2, RoutesCounted, Upwards
<1>4. Upto(trace, MaxDepth)
  BY <1>3
<1>5. TraceTerminal(t, rbase) = trace[MaxDepth][rbase][t]
  BY DEF TraceTerminal, Call
<1>6. \A d \in 0 .. MaxDepth : trace[d] = Call(d, trace[d - 1], rbase)
  <2> HIDE DEF trace
  <2> QED BY <1>4
<1> HIDE DEF trace
<1> QED BY <1>5, <1>6

LEMMA MarkedIs ==
  ASSUME NEW u \in Trace, NEW rbase \in Routes, NEW r2 \in Routes
  PROVE  /\ Marked(u, rbase, r2) \in Trace
         /\ Marked(u, rbase, r2).returns = u.returns
         /\ Marked(u, rbase, r2).fedBy[rbase] = u.fedBy[rbase] \cup {r2}
         /\ \A r \in Routes \ {rbase} : Marked(u, rbase, r2).fedBy[r] = u.fedBy[r]
BY DEF Marked, Trace

LEMMA TraceTyped ==
  ASSUME NEW t \in Trace, NEW rbase \in Routes
  PROVE  TraceTerminal(t, rbase) \in Trace
<1>1. PICK f : /\ \A d \in 0 .. MaxDepth : f[d] = Call(d, f[d - 1], rbase)
               /\ TraceTerminal(t, rbase) = f[MaxDepth][rbase][t]
  BY TraceCalls
<1> DEFINE S == {d \in Nat : d <= MaxDepth => \A r1 \in Routes, s \in Trace : f[d][r1][s] \in Trace}
<1>2. \A s \in Trace : [s EXCEPT !.returns = FALSE] \in Trace
  BY DEF Trace
<1>3. 0 \in S
  <2>1. 0 \in 0 .. MaxDepth
    BY RoutesCounted
  <2>2. f[0] = Call(0, f[0 - 1], rbase)
    BY <2>1, <1>1
  <2> QED BY <2>2, <1>2 DEF Call
<1>4. \A d \in Nat : d \in S => d + 1 \in S
  <2> SUFFICES ASSUME NEW d \in Nat, d \in S, d + 1 <= MaxDepth, NEW r1 \in Routes, NEW s \in Trace
               PROVE  f[d + 1][r1][s] \in Trace
    OBVIOUS
  <2>1. d + 1 \in 0 .. MaxDepth /\ (d + 1) - 1 = d /\ d + 1 # 0 /\ d <= MaxDepth
    <3> HIDE DEF S
    <3>1. MaxDepth \in Nat
      BY RoutesCounted
    <3> QED BY <3>1
  <2>2. f[d + 1] = Call(d + 1, f[d], rbase)
    BY <2>1, <1>1
  <2> DEFINE v == Visits(f[d], rbase, r1, s)
  <2>3. f[d + 1][r1][s] = IF Feedback(s.fedBy, r1, rbase) THEN s ELSE Folded(v, s, Address)
    <3> HIDE DEF v
    <3>1. Call(d + 1, f[d], rbase)[r1][s]
            = IF Feedback(s.fedBy, r1, rbase) THEN s ELSE Folded(Visits(f[d], rbase, r1, s), s, Address)
      BY <2>1 DEF Call
    <3> QED BY <3>1, <2>2 DEF v
  <2>4. \A u \in Trace, r2 \in Routes : v[r2][u] \in Trace
    <3> TAKE u \in Trace, r2 \in Routes
    <3> DEFINE marked == Marked(u, rbase, r2)
    <3>1. marked \in Trace
      BY MarkedIs
    <3>2. f[d][r2][marked] \in Trace
      <4> HIDE DEF marked
      <4> QED BY <3>1, <2>1
    <3>3. v[r2][u] \in {u, marked, f[d][r2][marked]}
      BY DEF Visits
    <3> QED
      <4> HIDE DEF v, marked
      <4> QED BY <3>1, <3>2, <3>3
  <2>5. Folded(v, s, Address) \in Trace
    <3> HIDE DEF v
    <3> QED BY <2>4, FoldedStays, RoutesCounted
  <2> QED BY <2>3, <2>5
<1>5. MaxDepth \in S
  <2> HIDE DEF S
  <2> QED BY <1>3, <1>4, RoutesCounted, Upwards
<1> QED BY <1>1, <1>5, RoutesCounted

-----------------------------------------------------------------------------
(* How deep trace_terminal() goes.  A call for r1 calls itself for a route *)
(* r2 that feeds r1, but not when r1 feeds r2 too.  As long as no three    *)
(* routes feed each other in a circle, r2 has less left to go through.     *)

\* The routes upstream of r that are not downstream of it.
Above(nodes, edges, r) ==
    {o \in nodes : o \in Upstream(nodes, edges)[r] /\ r \notin Upstream(nodes, edges)[o]}

\* r is known to be fed by one it feeds.
Looped(nodes, edges, fed, r) == \E o \in fed[r] : o # r /\ r \in Upstream(nodes, edges)[o]

Rank(nodes, edges, fed, r) ==
    2 * Cardinality(Above(nodes, edges, r)) + (IF Looped(nodes, edges, fed, r) THEN 1 ELSE 0)

LEMMA AboveCounted ==
  ASSUME NEW nodes \in SUBSET Routes, NEW edges, NEW r \in nodes
  PROVE  /\ Cardinality(Above(nodes, edges, r)) \in Nat
         /\ Cardinality(Above(nodes, edges, r)) < Cardinality(Routes)
<1>1. Above(nodes, edges, r) \in SUBSET Routes /\ r \notin Above(nodes, edges, r)
  BY DEF Above
<1>2. Above(nodes, edges, r) # Routes
  BY <1>1
<1>3. /\ IsFiniteSet(Above(nodes, edges, r))
      /\ Cardinality(Above(nodes, edges, r)) <= Cardinality(Routes)
      /\ Cardinality(Above(nodes, edges, r)) # Cardinality(Routes)
  BY <1>1, <1>2, FS_Subset, GraphAssumption
<1>4. Cardinality(Above(nodes, edges, r)) \in Nat
  BY <1>3, FS_CardinalityType
<1> QED BY <1>3, <1>4, RoutesCounted

LEMMA RankBounded ==
  ASSUME NEW nodes \in SUBSET Routes, NEW edges, NEW fed, NEW r \in nodes
  PROVE  /\ Rank(nodes, edges, fed, r) \in Nat
         /\ Rank(nodes, edges, fed, r) < MaxDepth - 1
<1> DEFINE c == Cardinality(Above(nodes, edges, r))
           n == Cardinality(Routes)
<1>1. c \in Nat /\ c < n /\ n \in Nat
  BY AboveCounted, RoutesCounted
<1>2. Rank(nodes, edges, fed, r) = 2 * c \/ Rank(nodes, edges, fed, r) = 2 * c + 1
  BY <1>1 DEF Rank
<1>3. n * (n + 1) > 2 * c + 1
  <2> HIDE DEF c, n
  <2>1. CASE n = 1
    BY <2>1, <1>1
  <2>2. CASE n >= 2
    <3>1. n * (n + 1) >= 2 * (n + 1)
      BY <2>2, <1>1
    <3> QED BY <3>1, <1>1
  <2> QED BY <2>1, <2>2, <1>1
<1>4. MaxDepth = n * (n + 1) + 1 /\ n * (n + 1) \in Nat
  <2>1. n * (n + 1) \in Nat
    <3> HIDE DEF n
    <3> QED BY <1>1
  <2> QED BY <2>1 DEF MaxDepth
<1> HIDE DEF c, n
<1> QED BY <1>1, <1>2, <1>3, <1>4

LEMMA ThreeCounted ==
  ASSUME NEW p, NEW q, NEW r, p # q, q # r, p # r
  PROVE  Cardinality({p, q, r}) = 3
<1> DEFINE S == {r}
           T == S \cup {q}
           U == T \cup {p}
<1>1. IsFiniteSet(S) /\ Cardinality(S) = 1
  BY FS_Singleton
<1>2. q \notin S /\ p \notin T /\ U = {p, q, r}
  OBVIOUS
<1> HIDE DEF S
<1>3. IsFiniteSet(T) /\ Cardinality(T) = 2
  BY <1>1, <1>2, FS_AddElement
<1> HIDE DEF T
<1>4. Cardinality(U) = 3
  BY <1>2, <1>3, FS_AddElement
<1> QED BY <1>2, <1>4

LEMMA RankFalls ==
  ASSUME NEW nodes \in SUBSET Routes, NEW edges \in SUBSET (nodes \X nodes),
         ~HasLongLoop(nodes, edges), NEW fed, NEW r1 \in nodes, NEW r2 \in nodes,
         fed[r1] \subseteq Upstream(nodes, edges)[r1], r2 \in fed[r1],
         fed[r2] \subseteq Upstream(nodes, edges)[r2], ~Feedback(fed, r1, r2)
  PROVE  Rank(nodes, edges, fed, r2) < Rank(nodes, edges, fed, r1)
<1> DEFINE up == Upstream(nodes, edges)
           above(r) == Above(nodes, edges, r)
<1>1. r2 \in up[r1] /\ r1 \notin fed[r2] /\ r1 # r2
  BY DEF Feedback
<1>2. \A n \in nodes : \A o \in up[n] : o \in nodes /\ up[o] \subseteq up[n]
  BY UpstreamHas, UpstreamOfUpstream
<1>3. \A n \in nodes : n \in up[n]
  BY UpstreamHas
<1>4. above(r2) \subseteq above(r1)
  <2> HIDE DEF up
  <2> QED BY <1>1, <1>2, <1>3 DEF Above, up
<1>5. /\ Cardinality(above(r1)) \in Nat /\ Cardinality(above(r2)) \in Nat
      /\ IsFiniteSet(above(r1))
  <2>1. above(r1) \in SUBSET Routes
    BY DEF Above
  <2> QED BY <2>1, AboveCounted, FS_Subset, GraphAssumption
<1>6. CASE r1 \in up[r2]
  <2>1. above(r1) \subseteq above(r2)
    <3> HIDE DEF up
    <3> QED BY <1>1, <1>2, <1>3, <1>6 DEF Above, up
  <2>2. Looped(nodes, edges, fed, r1)
    BY <1>1, <1>6 DEF Looped
  <2>3. ~Looped(nodes, edges, fed, r2)
    <3> SUFFICES ASSUME NEW p \in fed[r2], p # r2, r2 \in up[p] PROVE FALSE
      BY DEF Looped
    <3>1. p \in up[r2] /\ p \in nodes /\ p # r1
      <4> HIDE DEF up
      <4> QED BY <1>1, <1>2 DEF up
    <3>2. r1 \in up[p]
      <4> HIDE DEF up
      <4> QED BY <1>2, <1>6, <3>1
    <3>3. Cardinality({p, r2, r1}) = 3
      BY <1>1, <3>1, ThreeCounted
    <3> QED BY <1>1, <3>1, <3>2, <3>3 DEF HasLongLoop
  <2>4. above(r1) = above(r2)
    BY <2>1, <1>4
  <2> HIDE DEF above
  <2>5. Cardinality(above(r1)) = Cardinality(above(r2))
    BY <2>4
  <2> QED BY <2>5, <2>2, <2>3, <1>5 DEF Rank, above
<1>7. CASE r1 \notin up[r2]
  <2>1. r2 \in above(r1) /\ r2 \notin above(r2)
    BY <1>1, <1>7 DEF Above
  <2> HIDE DEF above
  <2>2. /\ Cardinality(above(r2)) <= Cardinality(above(r1))
        /\ Cardinality(above(r2)) # Cardinality(above(r1))
    BY <2>1, <1>4, <1>5, FS_Subset
  <2>3. Cardinality(above(r2)) + 1 <= Cardinality(above(r1))
    BY <2>2, <1>5
  <2> QED BY <2>3, <1>5 DEF Rank, above
<1> QED BY <1>6, <1>7

-----------------------------------------------------------------------------
(* What trace_terminal() finds.                                            *)

Feeders(nodes, edges, r) == {o \in nodes \ {r} : <<o, r>> \in edges}

\* fed_by is between what the connections say directly and what they say in all.
FedWithin(nodes, edges, t) ==
    /\ t \in Trace /\ t.returns
    /\ \A r \in nodes : /\ Feeders(nodes, edges, r) \subseteq t.fedBy[r]
                        /\ t.fedBy[r] \subseteq Upstream(nodes, edges)[r]
    /\ ~HasFeedback(nodes, edges) => \A r \in nodes : r \notin t.fedBy[r]

\* u is s but for what was marked at rbase.
MoreAt(nodes, edges, rbase, s, u) ==
    /\ FedWithin(nodes, edges, u)
    /\ \A r \in Routes \ {rbase} : u.fedBy[r] = s.fedBy[r]
    /\ s.fedBy[rbase] \subseteq u.fedBy[rbase]

\* A call for r1 with so much room on the stack comes back.
Room(nodes, edges, rbase, depth, s, r1) ==
    IF r1 = rbase THEN depth = MaxDepth ELSE Rank(nodes, edges, s.fedBy, r1) < depth

LEMMA MarkedMore ==
  ASSUME NEW nodes \in SUBSET Routes, NEW edges \in SUBSET (nodes \X nodes), NEW s, NEW u,
         NEW rbase \in nodes, NEW r1 \in Upstream(nodes, edges)[rbase], NEW r2 \in s.fedBy[r1],
         FedWithin(nodes, edges, s), MoreAt(nodes, edges, rbase, s, u)
  PROVE  LET marked == Marked(u, rbase, r2)
         IN /\ r1 \in nodes /\ r2 \in nodes
            /\ r2 \in Upstream(nodes, edges)[r1] /\ r2 \in Upstream(nodes, edges)[rbase]
            /\ MoreAt(nodes, edges, rbase, s, marked) /\ r2 \in marked.fedBy[rbase]
            /\ u.fedBy[rbase] \subseteq marked.fedBy[rbase]
            /\ ~HasFeedback(nodes, edges) => r2 # rbase /\ ~Feedback(marked.fedBy, r1, r2)
<1> DEFINE up == Upstream(nodes, edges)
           marked == Marked(u, rbase, r2)
<1>1. \A n \in nodes : \A o \in up[n] : o \in nodes /\ up[o] \subseteq up[n]
  BY UpstreamHas, UpstreamOfUpstream
<1>2. r1 \in nodes /\ r2 \in up[r1] /\ r2 \in nodes /\ r2 \in up[rbase]
  <2>1. r1 \in nodes /\ r2 \in up[r1] /\ r1 \in up[rbase]
    BY <1>1 DEF FedWithin
  <2> HIDE DEF up
  <2> QED BY <2>1, <1>1
<1>3. /\ marked \in Trace /\ marked.returns
      /\ marked.fedBy[rbase] = u.fedBy[rbase] \cup {r2}
      /\ \A r \in Routes \ {rbase} : marked.fedBy[r] = u.fedBy[r]
  <2>1. u \in Trace /\ u.returns /\ rbase \in Routes /\ r2 \in Routes
    BY <1>2 DEF MoreAt, FedWithin
  <2>2. marked.returns = u.returns
    BY <2>1, MarkedIs
  <2> QED BY <2>1, <2>2, MarkedIs
<1>4. ASSUME ~HasFeedback(nodes, edges)
      PROVE  r2 # rbase /\ r2 # r1
  <2>1. r2 # r1
    BY <1>2, <1>4 DEF FedWithin
  <2>2. \A a, b \in nodes : a \in up[b] /\ b \in up[a] => a = b
    BY <1>4 DEF HasFeedback
  <2> HIDE DEF up
  <2>3. r2 = rbase => r1 = rbase
    BY <1>2, <2>2 DEF up
  <2> QED BY <2>1, <2>3
<1> HIDE DEF marked, up
<1>5. FedWithin(nodes, edges, marked)
  <2>1. \A r \in nodes : Feeders(nodes, edges, r) \subseteq marked.fedBy[r] /\ marked.fedBy[r] \subseteq up[r]
    <3> TAKE r \in nodes
    <3>1. Feeders(nodes, edges, r) \subseteq u.fedBy[r] /\ u.fedBy[r] \subseteq up[r]
      BY DEF MoreAt, FedWithin, up
    <3>2. CASE r = rbase
      BY <3>1, <3>2, <1>2, <1>3
    <3>3. CASE r # rbase
      BY <3>1, <3>3, <1>3
    <3> QED BY <3>2, <3>3
  <2>2. ASSUME ~HasFeedback(nodes, edges), NEW r \in nodes
        PROVE  r \notin marked.fedBy[r]
    <3>1. r \notin u.fedBy[r]
      BY <2>2 DEF MoreAt, FedWithin
    <3>2. CASE r = rbase
      BY <3>1, <3>2, <1>3, <1>4, <2>2
    <3>3. CASE r # rbase
      BY <3>1, <3>3, <1>3
    <3> QED BY <3>2, <3>3
  <2> QED BY <1>3, <2>1, <2>2 DEF FedWithin, up
<1>6. MoreAt(nodes, edges, rbase, s, marked)
  BY <1>3, <1>5 DEF MoreAt
<1>7. ASSUME ~HasFeedback(nodes, edges), Feedback(marked.fedBy, r1, r2) PROVE FALSE
  <2>1. r1 \in up[r2]
    BY <1>2, <1>5, <1>7 DEF Feedback, FedWithin, up
  <2>2. r1 = r2
    BY <2>1, <1>2, <1>7 DEF HasFeedback, up
  <2> QED BY <2>2, <1>4, <1>7
<1> QED BY <1>2, <1>3, <1>4, <1>6, <1>7 DEF marked, up

LEMMA RoomLeft ==
  ASSUME NEW nodes \in SUBSET Routes, NEW edges \in SUBSET (nodes \X nodes),
         ~HasLongLoop(nodes, edges), NEW s, NEW u, NEW depth \in Nat,
         NEW rbase \in nodes, NEW r1 \in Upstream(nodes, edges)[rbase], NEW r2 \in s.fedBy[r1],
         FedWithin(nodes, edges, s), MoreAt(nodes, edges, rbase, s, u),
         Room(nodes, edges, rbase, depth + 1, s, r1),
         r2 # rbase, ~Feedback(u.fedBy, r1, r2)
  PROVE  Room(nodes, edges, rbase, depth, u, r2)
<1>1. r1 \in nodes /\ r2 \in nodes
  BY MarkedMore
<1>2. Rank(nodes, edges, u.fedBy, r2) \in Nat /\ Rank(nodes, edges, u.fedBy, r2) < MaxDepth - 1
  BY <1>1, RankBounded
<1>3. CASE r1 = rbase
  <2>1. depth + 1 = MaxDepth
    BY <1>3 DEF Room
  <2> QED BY <2>1, <1>2 DEF Room
<1>4. CASE r1 # rbase
  <2>1. u.fedBy[r1] = s.fedBy[r1]
    BY <1>1, <1>4 DEF MoreAt
  <2>2. Rank(nodes, edges, u.fedBy, r1) = Rank(nodes, edges, s.fedBy, r1)
    BY <2>1 DEF Rank, Looped
  <2>3. /\ u.fedBy[r1] \subseteq Upstream(nodes, edges)[r1]
        /\ u.fedBy[r2] \subseteq Upstream(nodes, edges)[r2]
    BY <1>1 DEF MoreAt, FedWithin
  <2> DEFINE fb == u.fedBy
  <2>4. Rank(nodes, edges, fb, r2) < Rank(nodes, edges, fb, r1)
    <3>1. fb[r1] \subseteq Upstream(nodes, edges)[r1] /\ fb[r2] \subseteq Upstream(nodes, edges)[r2]
      BY <2>3
    <3>2. r2 \in fb[r1] /\ ~Feedback(fb, r1, r2)
      BY <2>1
    <3> HIDE DEF fb
    <3> QED BY <1>1, <3>1, <3>2, RankFalls
  <2>5. Rank(nodes, edges, fb, r1) \in Nat /\ Rank(nodes, edges, fb, r1) < depth + 1
    BY <1>1, <1>4, <2>2, RankBounded DEF Room
  <2> HIDE DEF fb
  <2>6. Rank(nodes, edges, fb, r2) < depth
    BY <2>4, <2>5, <1>2 DEF fb
  <2> QED BY <2>6 DEF Room, fb
<1> QED BY <1>3, <1>4

\* Of a route looked at on the way from s to u, all is marked that is upstream.
AllMarked(nodes, edges, rbase, r, u) ==
    ~HasFeedback(nodes, edges) => Upstream(nodes, edges)[r] \subseteq u.fedBy[rbase]

\* What is wanted of a call for r1.
Finds(nodes, edges, rbase, r1, s, u) ==
    /\ MoreAt(nodes, edges, rbase, s, u)
    /\ ~HasFeedback(nodes, edges) => Upstream(nodes, edges)[r1] \ {r1} \subseteq u.fedBy[rbase]

\* One turn of the loop in a call for r1, when the calls it makes do what they should.
LEMMA VisitFinds ==
  ASSUME NEW nodes \in SUBSET Routes, NEW edges \in SUBSET (nodes \X nodes),
         ~HasLongLoop(nodes, edges), NEW depth \in Nat, NEW deeper,
         NEW rbase \in nodes, NEW r1 \in Upstream(nodes, edges)[rbase], NEW s,
         FedWithin(nodes, edges, s), Room(nodes, edges, rbase, depth + 1, s, r1),
         \A r \in Upstream(nodes, edges)[rbase], v \in Trace :
            FedWithin(nodes, edges, v) /\ Room(nodes, edges, rbase, depth, v, r)
            => Finds(nodes, edges, rbase, r, v, deeper[r][v]),
         NEW u, MoreAt(nodes, edges, rbase, s, u), NEW r2 \in Routes
  PROVE  LET w == Visits(deeper, rbase, r1, s)[r2][u]
         IN /\ MoreAt(nodes, edges, rbase, s, w) /\ u.fedBy[rbase] \subseteq w.fedBy[rbase]
            /\ r2 \in s.fedBy[r1] => AllMarked(nodes, edges, rbase, r2, w)
<1> DEFINE w == Visits(deeper, rbase, r1, s)[r2][u]
           marked == Marked(u, rbase, r2)
<1>1. u \in Trace /\ u.returns
  BY DEF MoreAt, FedWithin
<1>2. w = IF r2 \notin s.fedBy[r1] THEN u
          ELSE IF r2 = rbase \/ Feedback(marked.fedBy, r1, r2) \/ ~u.returns THEN marked
          ELSE deeper[r2][marked]
  BY <1>1 DEF Visits
<1>3. CASE r2 \notin s.fedBy[r1]
  <2>1. w = u
    BY <1>2, <1>3
  <2> HIDE DEF w
  <2> QED BY <2>1, <1>3 DEF w
<1>4. CASE r2 \in s.fedBy[r1]
  <2>1. /\ r2 \in nodes /\ r2 \in Upstream(nodes, edges)[rbase]
        /\ MoreAt(nodes, edges, rbase, s, marked) /\ r2 \in marked.fedBy[rbase]
        /\ u.fedBy[rbase] \subseteq marked.fedBy[rbase]
        /\ ~HasFeedback(nodes, edges) => r2 # rbase /\ ~Feedback(marked.fedBy, r1, r2)
    BY <1>4, MarkedMore
  <2> HIDE DEF w, marked
  <2>2. CASE r2 = rbase \/ Feedback(marked.fedBy, r1, r2)
    <3>1. w = marked /\ HasFeedback(nodes, edges)
      BY <2>1, <2>2, <1>2, <1>4
    <3> QED BY <3>1, <2>1 DEF AllMarked, w
  <2>3. CASE r2 # rbase /\ ~Feedback(marked.fedBy, r1, r2)
    <3>1. w = deeper[r2][marked]
      BY <2>3, <1>1, <1>2, <1>4
    <3>2. Room(nodes, edges, rbase, depth, marked, r2)
      BY <2>1, <2>3, <1>4, RoomLeft
    <3>3. Finds(nodes, edges, rbase, r2, marked, w)
      BY <3>1, <3>2, <2>1 DEF MoreAt, FedWithin
    <3>4. MoreAt(nodes, edges, rbase, s, w) /\ marked.fedBy[rbase] \subseteq w.fedBy[rbase]
      BY <3>3, <2>1 DEF Finds, MoreAt
    <3>5. AllMarked(nodes, edges, rbase, r2, w)
      BY <3>3, <3>4, <2>1 DEF Finds, AllMarked
    <3> QED BY <3>4, <3>5, <2>1 DEF w
  <2> QED BY <2>2, <2>3
<1> QED BY <1>3, <1>4

\* A call with room, when the calls it makes do what they should.
LEMMA CallFinds ==
  ASSUME NEW nodes \in SUBSET Routes, NEW edges \in SUBSET (nodes \X nodes),
         ~HasLongLoop(nodes, edges), NEW depth \in Nat, NEW deeper,
         NEW rbase \in nodes, NEW r1 \in Upstream(nodes, edges)[rbase], NEW s,
         FedWithin(nodes, edges, s), Room(nodes, edges, rbase, depth + 1, s, r1),
         \A r \in Upstream(nodes, edges)[rbase], v \in Trace :
            FedWithin(nodes, edges, v) /\ Room(nodes, edges, rbase, depth, v, r)
            => Finds(nodes, edges, rbase, r, v, deeper[r][v])
  PROVE  Finds(nodes, edges, rbase, r1, s, Call(depth + 1, deeper, rbase)[r1][s])
<1> DEFINE visits == Visits(deeper, rbase, r1, s)
           up == Upstream(nodes, edges)
           u == Call(depth + 1, deeper, rbase)[r1][s]
           J == [k \in 0 .. Len(Address) |->
                   {v \in Trace : /\ MoreAt(nodes, edges, rbase, s, v)
                                 /\ \A i \in 1 .. k : Address[i] \in s.fedBy[r1] =>
                                       AllMarked(nodes, edges, rbase, Address[i], v)}]
<1>1. r1 \in nodes /\ r1 \in Routes /\ s \in Trace /\ rbase \in Routes
  BY UpstreamHas DEF FedWithin
<1>2. u = IF Feedback(s.fedBy, r1, rbase) THEN s ELSE Folded(visits, s, Address)
  <2>1. depth + 1 # 0
    OBVIOUS
  <2> HIDE DEF visits
  <2>2. u = IF Feedback(s.fedBy, r1, rbase) THEN s
            ELSE Folded(Visits(deeper, rbase, r1, s), s, Address)
    BY <2>1, <1>1 DEF Call
  <2> QED BY <2>2 DEF visits
<1>3. MoreAt(nodes, edges, rbase, s, s)
  BY DEF MoreAt
<1>4. CASE Feedback(s.fedBy, r1, rbase)
  <2>1. u = s
    BY <1>2, <1>4
  <2>2. HasFeedback(nodes, edges)
    <3> SUFFICES ASSUME ~HasFeedback(nodes, edges) PROVE FALSE
      OBVIOUS
    <3>1. r1 # rbase
      BY <1>1, <1>4 DEF Feedback, FedWithin
    <3>2. rbase \in up[r1] /\ r1 \in up[rbase]
      BY <1>1, <1>4 DEF Feedback, FedWithin
    <3> QED BY <3>1, <3>2, <1>1 DEF HasFeedback
  <2> HIDE DEF u
  <2> QED BY <2>1, <2>2, <1>3 DEF Finds, u
<1>5. CASE ~Feedback(s.fedBy, r1, rbase)
  <2>1. u = Folded(visits, s, Address)
    BY <1>2, <1>5
  <2>2. Len(Address) \in Nat /\ Address \in Seq(Routes) /\ \A k \in 1 .. Len(Address) : Address[k] \in Routes
    BY RoutesCounted
  <2>3. s \in J[0]
    <3>1. \A i \in 1 .. 0 : FALSE
      OBVIOUS
    <3> QED BY <1>1, <1>3, <2>2, <3>1
  <2>4. \A k \in 1 .. Len(Address) : \A v \in J[k - 1] : visits[Address[k]][v] \in J[k]
    <3> SUFFICES ASSUME NEW k \in 1 .. Len(Address), NEW v \in J[k - 1]
                 PROVE  visits[Address[k]][v] \in J[k]
      OBVIOUS
    <3> DEFINE w == visits[Address[k]][v]
    <3>1. k \in 0 .. Len(Address) /\ k - 1 \in 0 .. Len(Address)
      BY <2>2
    <3>2. /\ MoreAt(nodes, edges, rbase, s, v)
          /\ \A i \in 1 .. k - 1 : Address[i] \in s.fedBy[r1] =>
                AllMarked(nodes, edges, rbase, Address[i], v)
      BY <3>1
    <3>3. /\ MoreAt(nodes, edges, rbase, s, w) /\ v.fedBy[rbase] \subseteq w.fedBy[rbase]
          /\ Address[k] \in s.fedBy[r1] => AllMarked(nodes, edges, rbase, Address[k], w)
      <4> HIDE DEF J
      <4> QED BY <3>2, <2>2, VisitFinds
    <3>4. \A i \in 1 .. k : Address[i] \in s.fedBy[r1] => AllMarked(nodes, edges, rbase, Address[i], w)
      <4> HIDE DEF w, J
      <4> TAKE i \in 1 .. k
      <4>1. CASE i = k
        BY <4>1, <3>3
      <4>2. CASE i # k
        <5>1. i \in 1 .. k - 1
          BY <4>2
        <5> QED BY <5>1, <3>2, <3>3 DEF AllMarked
      <4> QED BY <4>1, <4>2
    <3>5. w \in Trace
      BY <3>3 DEF MoreAt, FedWithin
    <3> HIDE DEF w
    <3> QED BY <3>1, <3>3, <3>4, <3>5 DEF w
  <2>5. u \in J[Len(Address)]
    <3> HIDE DEF J, visits
    <3> QED BY <2>1, <2>2, <2>3, <2>4, FoldedKeeps
  <2>6. /\ MoreAt(nodes, edges, rbase, s, u)
        /\ \A i \in 1 .. Len(Address) : Address[i] \in s.fedBy[r1] =>
              AllMarked(nodes, edges, rbase, Address[i], u)
    <3> HIDE DEF u
    <3> QED BY <2>2, <2>5
  <2> HIDE DEF u, J
  <2>7. ASSUME ~HasFeedback(nodes, edges), NEW o \in up[r1] \ {r1}
        PROVE  o \in u.fedBy[rbase]
    <3>1. PICK m \in nodes \ {r1} : <<m, r1>> \in edges /\ o \in up[m]
      BY <1>1, UpstreamByEdge
    <3>2. m \in s.fedBy[r1]
      BY <1>1, <3>1 DEF FedWithin, Feeders
    <3>3. PICK i \in 1 .. Len(Address) : Address[i] = m
      BY <3>1, RoutesCounted
    <3>4. AllMarked(nodes, edges, rbase, m, u)
      BY <3>2, <3>3, <2>6
    <3> QED BY <3>1, <3>4, <2>7 DEF AllMarked
  <2> QED BY <2>6, <2>7 DEF Finds, u
<1> QED BY <1>4, <1>5

LEMMA TraceFinds ==
  ASSUME NEW nodes \in SUBSET Routes, NEW edges \in SUBSET (nodes \X nodes),
         ~HasLongLoop(nodes, edges), NEW rbase \in nodes, NEW t, FedWithin(nodes, edges, t)
  PROVE  Finds(nodes, edges, rbase, rbase, t, TraceTerminal(t, rbase))
<1>1. PICK f : /\ \A d \in 0 .. MaxDepth : f[d] = Call(d, f[d - 1], rbase)
               /\ TraceTerminal(t, rbase) = f[MaxDepth][rbase][t]
  BY TraceCalls
<1> DEFINE Does(d) == \A r \in Upstream(nodes, edges)[rbase], v \in Trace :
                         FedWithin(nodes, edges, v) /\ Room(nodes, edges, rbase, d, v, r)
                         => Finds(nodes, edges, rbase, r, v, f[d][r][v])
           S == {d \in Nat : d <= MaxDepth => Does(d)}
<1>2. MaxDepth \in Nat /\ MaxDepth > 0
  <2>1. /\ Rank(nodes, edges, t.fedBy, rbase) \in Nat
        /\ Rank(nodes, edges, t.fedBy, rbase) < MaxDepth - 1
    BY RankBounded
  <2> QED BY <2>1, RoutesCounted
<1>3. 0 \in S
  <2>1. \A r \in Upstream(nodes, edges)[rbase], v \in Trace : ~Room(nodes, edges, rbase, 0, v, r)
    <3> TAKE r \in Upstream(nodes, edges)[rbase], v \in Trace
    <3>1. r \in nodes
      BY UpstreamHas
    <3>2. Rank(nodes, edges, v.fedBy, r) \in Nat
      BY <3>1, RankBounded
    <3> QED BY <3>2, <1>2 DEF Room
  <2> QED BY <2>1
<1>4. \A d \in Nat : d \in S => d + 1 \in S
  <2> SUFFICES ASSUME NEW d \in Nat, d \in S, d + 1 <= MaxDepth PROVE Does(d + 1)
    OBVIOUS
  <2>1. Does(d)
    <3> HIDE DEF Does
    <3> QED BY <1>2
  <2>2. f[d + 1] = Call(d + 1, f[d], rbase)
    <3> HIDE DEF S
    <3>1. d + 1 \in 0 .. MaxDepth /\ (d + 1) - 1 = d
      BY <1>2
    <3> QED BY <3>1, <1>1
  <2> HIDE DEF S
  <2>3. ASSUME NEW r \in Upstream(nodes, edges)[rbase], NEW v \in Trace, FedWithin(nodes, edges, v),
               Room(nodes, edges, rbase, d + 1, v, r)
        PROVE  Finds(nodes, edges, rbase, r, v, Call(d + 1, f[d], rbase)[r][v])
    BY <2>1, <2>3, CallFinds
  <2> QED BY <2>2, <2>3
<1>5. MaxDepth \in S
  <2> HIDE DEF S
  <2> QED BY <1>2, <1>3, <1>4, Upwards
<1>6. Does(MaxDepth)
  <2> HIDE DEF Does
  <2> QED BY <1>5, <1>2
<1>7. /\ rbase \in Upstream(nodes, edges)[rbase] /\ t \in Trace
      /\ Room(nodes, edges, rbase, MaxDepth, t, rbase)
  BY UpstreamHas DEF FedWithin, Room
<1> QED BY <1>1, <1>6, <1>7

-----------------------------------------------------------------------------
(* Sequences without repetition, and the merge sort.  A route that the     *)
(* sorter puts behind all others of the list is followed along: it stays   *)
(* last in whatever list it gets into.                                     *)

\* The lists of the routes in X, each once, with z last.
Arranged(X, z) == {s \in Seq(Routes) : IsInjective(s) /\ ToSet(s) = X /\ (z \in X => Last(s) = z)}

\* If z is one of X, then everything else in X goes in front of it.
Behind(fed, X, z) ==
    z \in X => \A r \in X \ {z} : RouteSorter(fed, r, z) /\ ~RouteSorter(fed, z, r)

LEMMA NoneArranged == ASSUME NEW z PROVE <<>> \in Arranged({}, z)
BY DEF Arranged, IsInjective, ToSet

LEMMA OneArranged ==
  ASSUME NEW r \in Routes, NEW z
  PROVE  <<r>> \in Arranged({r}, z)
<1>1. <<r>> \in Seq(Routes) /\ Len(<<r>>) = 1 /\ <<r>>[1] = r /\ DOMAIN <<r>> = 1 .. 1
  OBVIOUS
<1> DEFINE s == <<r>>
<1> HIDE DEF s
<1>2. s \in Seq(Routes) /\ Len(s) = 1 /\ s[1] = r /\ \A i \in DOMAIN s : i = 1
  BY <1>1 DEF s
<1>3. ToSet(s) = {r} /\ IsInjective(s) /\ Last(s) = r
  BY <1>2 DEF ToSet, IsInjective, Last
<1>4. s \in Arranged({r}, z)
  BY <1>2, <1>3 DEF Arranged
<1> QED BY <1>4 DEF s

LEMMA TailArranged ==
  ASSUME NEW X, NEW z, NEW s \in Arranged(X, z), s # <<>>
  PROVE  /\ Head(s) \in X /\ Head(s) \in Routes
         /\ Tail(s) \in Arranged(X \ {Head(s)}, z)
         /\ Len(Tail(s)) = Len(s) - 1 /\ Len(s) \in Nat \ {0}
         /\ Head(s) = z => Tail(s) = <<>>
<1> DEFINE t == Tail(s)
           h == Head(s)
<1>1. s \in Seq(Routes) /\ IsInjective(s) /\ ToSet(s) = X /\ (z \in X => Last(s) = z)
  BY DEF Arranged
<1>2. /\ t \in Seq(Routes) /\ Len(t) = Len(s) - 1 /\ Len(s) \in Nat \ {0} /\ h = s[1]
      /\ \A i \in 1 .. Len(t) : t[i] = s[i + 1]
  BY <1>1
<1> HIDE DEF t, h
<1>3. h \in X /\ h \in Routes
  BY <1>1, <1>2 DEF ToSet
<1>4. IsInjective(t)
  <2> SUFFICES ASSUME NEW i \in 1 .. Len(t), NEW j \in 1 .. Len(t), t[i] = t[j] PROVE i = j
    BY <1>2 DEF IsInjective
  <2>1. s[i + 1] = s[j + 1] /\ i + 1 \in 1 .. Len(s) /\ j + 1 \in 1 .. Len(s)
    BY <1>2
  <2>2. i + 1 = j + 1
    BY <2>1, <1>1 DEF IsInjective
  <2> QED BY <2>2
<1>5. ToSet(t) = X \ {h}
  <2>1. ASSUME NEW i \in 1 .. Len(t) PROVE t[i] \in X \ {h}
    <3>1. t[i] = s[i + 1] /\ i + 1 \in 1 .. Len(s) /\ i + 1 # 1 /\ 1 \in 1 .. Len(s)
      BY <1>2
    <3> QED BY <3>1, <1>1, <1>2 DEF ToSet, IsInjective
  <2>2. ASSUME NEW x \in X \ {h} PROVE \E i \in 1 .. Len(t) : t[i] = x
    <3>1. PICK i \in 1 .. Len(s) : s[i] = x
      BY <1>1 DEF ToSet
    <3>2. i # 1 /\ i - 1 \in 1 .. Len(t) /\ (i - 1) + 1 = i
      BY <1>2, <3>1
    <3> QED BY <3>1, <3>2, <1>2
  <2>3. DOMAIN t = 1 .. Len(t)
    BY <1>2
  <2> QED BY <2>1, <2>2, <2>3 DEF ToSet
<1>6. ASSUME h = z PROVE t = <<>>
  <2>1. s[Len(s)] = s[1]
    BY <1>1, <1>2, <1>3, <1>6 DEF Last
  <2>2. Len(s) = 1
    BY <2>1, <1>1, <1>2 DEF IsInjective
  <2> QED BY <2>2, <1>2
<1>7. ASSUME z \in X \ {h} PROVE Last(t) = z
  <2>1. s[Len(s)] = z /\ Len(s) # 1
    BY <1>1, <1>2, <1>7 DEF Last
  <2>2. Len(t) \in 1 .. Len(t) /\ Len(t) + 1 = Len(s)
    BY <2>1, <1>2
  <2> QED BY <2>1, <2>2, <1>2 DEF Last
<1>8. t \in Arranged(X \ {h}, z)
  BY <1>2, <1>4, <1>5, <1>7 DEF Arranged
<1> QED BY <1>2, <1>3, <1>6, <1>8 DEF t, h

\* Nothing goes behind z.
LEMMA AppendArranged ==
  ASSUME NEW X, NEW z, NEW s \in Arranged(X, z), NEW r \in Routes \ X, z \notin X
  PROVE  Append(s, r) \in Arranged(X \cup {r}, z)
<1> DEFINE t == Append(s, r)
<1>1. s \in Seq(Routes) /\ IsInjective(s) /\ ToSet(s) = X
  BY DEF Arranged
<1>2. /\ t \in Seq(Routes) /\ Len(t) = Len(s) + 1 /\ Len(s) \in Nat
      /\ \A i \in 1 .. Len(s) : t[i] = s[i] /\ s[i] \in X
      /\ t[Len(s) + 1] = r
  BY <1>1 DEF ToSet
<1> HIDE DEF t
<1>3. DOMAIN t = 1 .. Len(s) + 1 /\ DOMAIN s = 1 .. Len(s)
  BY <1>1, <1>2
<1>4. IsInjective(t)
  <2> SUFFICES ASSUME NEW i \in 1 .. Len(s) + 1, NEW j \in 1 .. Len(s) + 1, t[i] = t[j] PROVE i = j
    BY <1>3 DEF IsInjective
  <2>1. CASE i = Len(s) + 1 /\ j = Len(s) + 1
    BY <2>1
  <2>2. CASE i = Len(s) + 1 /\ j # Len(s) + 1
    <3>1. j \in 1 .. Len(s)
      BY <2>2, <1>2
    <3> QED BY <3>1, <2>2, <1>2
  <2>3. CASE i # Len(s) + 1 /\ j = Len(s) + 1
    <3>1. i \in 1 .. Len(s)
      BY <2>3, <1>2
    <3> QED BY <3>1, <2>3, <1>2
  <2>4. CASE i # Len(s) + 1 /\ j # Len(s) + 1
    <3>1. i \in 1 .. Len(s) /\ j \in 1 .. Len(s)
      BY <2>4, <1>2
    <3>2. s[i] = s[j]
      BY <3>1, <1>2
    <3> QED BY <3>1, <3>2, <1>1, <1>3 DEF IsInjective
  <2> QED BY <2>1, <2>2, <2>3, <2>4
<1>5. ToSet(t) = X \cup {r}
  <2>1. ASSUME NEW i \in 1 .. Len(s) + 1 PROVE t[i] \in X \cup {r}
    <3>1. i = Len(s) + 1 \/ i \in 1 .. Len(s)
      BY <1>2
    <3> QED BY <3>1, <1>2
  <2>2. ASSUME NEW x \in X PROVE \E i \in 1 .. Len(s) + 1 : t[i] = x
    <3>1. PICK i \in 1 .. Len(s) : s[i] = x
      BY <1>1, <1>3 DEF ToSet
    <3> QED BY <3>1, <1>2
  <2>3. Len(s) + 1 \in 1 .. Len(s) + 1
    BY <1>2
  <2> QED BY <2>1, <2>2, <2>3, <1>2, <1>3 DEF ToSet
<1>6. Last(t) = r
  BY <1>2 DEF Last
<1>7. t \in Arranged(X \cup {r}, z)
  BY <1>2, <1>4, <1>5, <1>6 DEF Arranged
<1> QED BY <1>7 DEF t

\* The three lists of a merge under way: what is left of the two, and what is done.
Merging(X, z, n, a, b, done) ==
    /\ a \in Arranged(ToSet(a), z) /\ b \in Arranged(ToSet(b), z) /\ done \in Arranged(ToSet(done), z)
    /\ ToSet(a) \cap ToSet(b) = {} /\ ToSet(a) \cap ToSet(done) = {} /\ ToSet(b) \cap ToSet(done) = {}
    /\ ToSet(a) \cup ToSet(b) \cup ToSet(done) = X
    /\ Len(a) + Len(b) = n
    /\ z \in ToSet(done) => a = <<>> /\ b = <<>>

LEMMA MergingTurns ==
  ASSUME NEW X, NEW z, NEW n, NEW a, NEW b, NEW done, Merging(X, z, n, a, b, done)
  PROVE  Merging(X, z, n, b, a, done)
<1>1. Len(a) \in Nat /\ Len(b) \in Nat
  BY DEF Merging, Arranged
<1> QED BY <1>1 DEF Merging

LEMMA MergeTakes ==
  ASSUME NEW X, NEW z, NEW n \in Nat, NEW a, NEW b, NEW done, Merging(X, z, n, a, b, done),
         a # <<>>, Head(a) = z => b = <<>>
  PROVE  Merging(X, z, n - 1, Tail(a), b, Append(done, Head(a)))
<1> DEFINE h == Head(a)
           t == Tail(a)
           d == Append(done, h)
<1>0. a \in Arranged(ToSet(a), z) /\ done \in Arranged(ToSet(done), z)
  BY DEF Merging
<1>1. /\ h \in ToSet(a) /\ h \in Routes /\ t \in Arranged(ToSet(a) \ {h}, z)
      /\ Len(t) = Len(a) - 1 /\ Len(a) \in Nat \ {0} /\ (h = z => t = <<>>)
  BY <1>0, TailArranged
<1>2. z \notin ToSet(done) /\ h \notin ToSet(done)
  BY <1>1 DEF Merging
<1>3. d \in Arranged(ToSet(done) \cup {h}, z)
  BY <1>0, <1>1, <1>2, AppendArranged
<1>4. ToSet(t) = ToSet(a) \ {h} /\ ToSet(d) = ToSet(done) \cup {h}
  BY <1>1, <1>3 DEF Arranged
<1>5. Len(b) \in Nat
  BY DEF Merging, Arranged
<1> HIDE DEF t, d
<1>6. Merging(X, z, n - 1, t, b, d)
  <2>1. t \in Arranged(ToSet(t), z) /\ d \in Arranged(ToSet(d), z) /\ b \in Arranged(ToSet(b), z)
    BY <1>1, <1>3, <1>4 DEF Merging
  <2>2. ToSet(t) \cap ToSet(b) = {} /\ ToSet(t) \cap ToSet(d) = {} /\ ToSet(b) \cap ToSet(d) = {}
    BY <1>1, <1>4 DEF Merging
  <2>3. ToSet(t) \cup ToSet(b) \cup ToSet(d) = X
    BY <1>1, <1>4 DEF Merging
  <2>4. Len(t) + Len(b) = n - 1
    BY <1>1, <1>5 DEF Merging
  <2>5. z \in ToSet(d) => t = <<>> /\ b = <<>>
    BY <1>1, <1>2, <1>4
  <2> QED BY <2>1, <2>2, <2>3, <2>4, <2>5 DEF Merging
<1> QED BY <1>6 DEF t, d

LEMMA MergeArranged ==
  ASSUME NEW fed, NEW z, NEW A, NEW B, NEW a \in Arranged(A, z), NEW b \in Arranged(B, z),
         A \cap B = {}, Behind(fed, A \cup B, z)
  PROVE  ListMerge(fed, a, b) \in Arranged(A \cup B, z)
<1> DEFINE Lists == [a : Seq(Routes), b : Seq(Routes), done : Seq(Routes)]
           merge == [n \in Nat |-> [m \in Lists |->
             IF m.b # <<>> /\ (m.a = <<>> \/ RouteSorter(fed, Head(m.b), Head(m.a)))
             THEN [m EXCEPT !.b = Tail(@), !.done = Append(@, Head(m.b))]
             ELSE [m EXCEPT !.a = Tail(@), !.done = Append(@, Head(m.a))]]]
           X == A \cup B
           L == Len(a) + Len(b)
           base == [a |-> a, b |-> b, done |-> <<>>]
           ticks == [n \in 1 .. L |-> n]
           J == [k \in 0 .. L |-> {m \in Lists : Merging(X, z, L - k, m.a, m.b, m.done)}]
<1>1. ListMerge(fed, a, b) = Folded(merge, base, ticks).done
  BY DEF ListMerge
<1>2. /\ a \in Seq(Routes) /\ b \in Seq(Routes) /\ ToSet(a) = A /\ ToSet(b) = B
      /\ L \in Nat
  BY DEF Arranged
<1>3. ticks \in Seq(Nat) /\ Len(ticks) = L /\ \A k \in 1 .. L : ticks[k] = k /\ k \in Nat
  <2> HIDE DEF L
  <2> QED BY <1>2
<1>4. base \in J[0]
  <2>1. <<>> \in Arranged({}, z) /\ ToSet(<<>>) = {}
    BY NoneArranged DEF Arranged
  <2>2. Merging(X, z, L, a, b, <<>>)
    BY <1>2, <2>1 DEF Merging
  <2>3. base \in Lists /\ base.a = a /\ base.b = b /\ base.done = <<>>
    BY <1>2
  <2>4. L - 0 = L /\ 0 \in 0 .. L
    BY <1>2
  <2> HIDE DEF base, Lists, X, L
  <2> QED BY <2>2, <2>3, <2>4
<1>5. \A k \in 1 .. L : \A m \in J[k - 1] : merge[ticks[k]][m] \in J[k]
  <2> SUFFICES ASSUME NEW k \in 1 .. L, NEW m \in J[k - 1] PROVE merge[ticks[k]][m] \in J[k]
    OBVIOUS
  <2> DEFINE p == m.a
             q == m.b
             d == m.done
             w == merge[ticks[k]][m]
             n == L - (k - 1)
  <2>1. k - 1 \in 0 .. L /\ k \in 0 .. L /\ n \in Nat /\ n # 0 /\ n - 1 = L - k
    <3> HIDE DEF L
    <3> QED BY <1>2
  <2>2. m \in Lists /\ Merging(X, z, n, p, q, d)
    <3> HIDE DEF L, Lists, X
    <3> QED BY <2>1
  <2>3. w = IF q # <<>> /\ (p = <<>> \/ RouteSorter(fed, Head(q), Head(p)))
            THEN [m EXCEPT !.b = Tail(q), !.done = Append(d, Head(q))]
            ELSE [m EXCEPT !.a = Tail(p), !.done = Append(d, Head(p))]
    <3> HIDE DEF L, ticks, Lists, J
    <3> QED BY <2>2, <1>3
  <2>4. /\ p \in Arranged(ToSet(p), z) /\ q \in Arranged(ToSet(q), z)
        /\ ToSet(p) \cap ToSet(q) = {} /\ ToSet(p) \subseteq X /\ ToSet(q) \subseteq X
    BY <2>2 DEF Merging
  <2>5. /\ p # <<>> => Head(p) \in ToSet(p) /\ Head(p) \in Routes /\ Tail(p) \in Seq(Routes)
        /\ q # <<>> => Head(q) \in ToSet(q) /\ Head(q) \in Routes /\ Tail(q) \in Seq(Routes)
    <3> HIDE DEF p, q
    <3> QED BY <2>4, TailArranged DEF Arranged
  <2>6. d \in Seq(Routes)
    BY <2>2 DEF Merging, Arranged
  <2>7. CASE q # <<>> /\ (p = <<>> \/ RouteSorter(fed, Head(q), Head(p)))
    <3>1. Head(q) = z => p = <<>>
      <4> HIDE DEF p, q
      <4> QED BY <2>4, <2>5, <2>7 DEF Behind
    <3>2. Merging(X, z, n - 1, p, Tail(q), Append(d, Head(q)))
      <4> HIDE DEF p, q, d, n, X
      <4> QED BY <2>1, <2>2, <2>7, <3>1, MergingTurns, MergeTakes
    <3>3. w = [m EXCEPT !.b = Tail(q), !.done = Append(d, Head(q))]
      BY <2>3, <2>7
    <3>4. Append(d, Head(q)) \in Seq(Routes)
      BY <2>5, <2>6, <2>7
    <3>5. w \in Lists /\ w.a = p /\ w.b = Tail(q) /\ w.done = Append(d, Head(q))
      <4> HIDE DEF w
      <4> QED BY <2>2, <2>5, <2>7, <3>3, <3>4
    <3>6. Merging(X, z, L - k, w.a, w.b, w.done)
      <4> HIDE DEF w, p, q, d, X, n, L
      <4> QED BY <2>1, <3>2, <3>5
    <3>7. w \in J[k]
      <4> HIDE DEF w, Lists, X, L
      <4> QED BY <2>1, <3>5, <3>6
    <3> QED
      <4> HIDE DEF J
      <4> QED BY <3>7
  <2>8. CASE ~(q # <<>> /\ (p = <<>> \/ RouteSorter(fed, Head(q), Head(p))))
    <3>0. p # <<>>
      <4>1. p = <<>> /\ q = <<>> => Len(p) + Len(q) = 0
        OBVIOUS
      <4>2. Len(p) + Len(q) # 0
        BY <2>1, <2>2 DEF Merging
      <4> QED BY <4>1, <4>2, <2>8
    <3>1. Head(p) = z => q = <<>>
      <4> HIDE DEF p, q
      <4> QED BY <2>4, <2>5, <2>8, <3>0 DEF Behind
    <3>2. Merging(X, z, n - 1, Tail(p), q, Append(d, Head(p)))
      <4> HIDE DEF p, q, d, n, X
      <4> QED BY <2>1, <2>2, <3>0, <3>1, MergeTakes
    <3>3. w = [m EXCEPT !.a = Tail(p), !.done = Append(d, Head(p))]
      BY <2>3, <2>8
    <3>4. Append(d, Head(p)) \in Seq(Routes)
      BY <2>5, <2>6, <3>0
    <3>5. w \in Lists /\ w.a = Tail(p) /\ w.b = q /\ w.done = Append(d, Head(p))
      <4> HIDE DEF w
      <4> QED BY <2>2, <2>5, <3>0, <3>3, <3>4
    <3>6. Merging(X, z, L - k, w.a, w.b, w.done)
      <4> HIDE DEF w, p, q, d, X, n, L
      <4> QED BY <2>1, <3>2, <3>5
    <3>7. w \in J[k]
      <4> HIDE DEF w, Lists, X, L
      <4> QED BY <2>1, <3>5, <3>6
    <3> QED
      <4> HIDE DEF J
      <4> QED BY <3>7
  <2> QED BY <2>7, <2>8
<1> DEFINE m == Folded(merge, base, ticks)
<1>6. m \in J[L]
  <2> HIDE DEF J, merge, base, ticks, L
  <2> QED BY <1>3, <1>4, <1>5, FoldedKeeps
<1>7. Merging(X, z, 0, m.a, m.b, m.done)
  <2>1. L \in 0 .. L /\ L - L = 0
    BY <1>2
  <2> HIDE DEF m, X, Lists, L
  <2> QED BY <1>6, <2>1
<1>8. m.done \in Arranged(X, z)
  <2> HIDE DEF m, X
  <2>1. /\ m.a \in Arranged(ToSet(m.a), z) /\ m.b \in Arranged(ToSet(m.b), z)
        /\ m.done \in Arranged(ToSet(m.done), z)
        /\ Len(m.a) + Len(m.b) = 0 /\ ToSet(m.a) \cup ToSet(m.b) \cup ToSet(m.done) = X
    BY <1>7 DEF Merging
  <2>2. Len(m.a) = 0 /\ Len(m.b) = 0 /\ DOMAIN m.a = 1 .. Len(m.a) /\ DOMAIN m.b = 1 .. Len(m.b)
    <3>1. m.a \in Seq(Routes) /\ m.b \in Seq(Routes)
      BY <2>1 DEF Arranged
    <3>2. Len(m.a) \in Nat /\ Len(m.b) \in Nat
      BY <3>1
    <3>3. Len(m.a) = 0 /\ Len(m.b) = 0
      <4>1. Len(m.a) + Len(m.b) = 0
        BY <2>1
      <4> DEFINE i == Len(m.a)
                 j == Len(m.b)
      <4>2. i \in Nat /\ j \in Nat /\ i + j = 0
        BY <3>2, <4>1
      <4> HIDE DEF i, j
      <4>3. i = 0 /\ j = 0
        BY <4>2
      <4> QED BY <4>3 DEF i, j
    <3>4. \A s \in Seq(Routes) : DOMAIN s = 1 .. Len(s)
      OBVIOUS
    <3> QED BY <3>1, <3>3, <3>4
  <2>3. ToSet(m.a) = {} /\ ToSet(m.b) = {}
    BY <2>2 DEF ToSet
  <2> QED BY <2>1, <2>3
<1> QED BY <1>1, <1>8

-----------------------------------------------------------------------------
(* The merge sort.                                                         *)

\* A set of indices that has all those below each is the first so many.
LEMMA Initial ==
  ASSUME NEW n \in Nat, NEW B \in SUBSET (1 .. n), \A j \in B : \A i \in 1 .. j : i \in B
  PROVE  Cardinality(B) \in 0 .. n /\ B = 1 .. Cardinality(B)
<1> DEFINE T == {j \in Nat : j + 1 \notin B}
<1>1. n \in T
  OBVIOUS
<1>2. PICK m \in T : \A k \in T : m <= k
  <2> HIDE DEF T
  <2>1. T \in SUBSET Nat
    BY DEF T
  <2> QED BY <1>1, <2>1, LeastOf
<1>3. \A i \in 1 .. m : i \in B
  <2> TAKE i \in 1 .. m
  <2>1. i - 1 \in Nat /\ ~ (m <= i - 1) /\ (i - 1) + 1 = i
    OBVIOUS
  <2> QED BY <1>2, <2>1
<1>4. \A b \in B : b <= m
  <2> TAKE b \in B
  <2>1. b > m => m + 1 \in 1 .. b
    OBVIOUS
  <2> QED BY <2>1
<1>5. B = 1 .. m
  <2>1. m \in Nat
    OBVIOUS
  <2>2. \A b \in B : b \in 1 .. m
    BY <2>1, <1>4
  <2> HIDE DEF T
  <2> QED BY <2>2, <1>3
<1>6. Cardinality(1 .. m) = m
  BY FS_Interval
<1> QED BY <1>1, <1>2, <1>5, <1>6

\* The routes in the first n bins.
InBins(bins, n) == UNION {ToSet(bins[l]) : l \in 1 .. n}

BinsArranged(bins, z) ==
    /\ bins \in Seq(Seq(Routes))
    /\ \A l \in 1 .. Len(bins) : bins[l] \in Arranged(ToSet(bins[l]), z)
    /\ \A l, m \in 1 .. Len(bins) : l # m => ToSet(bins[l]) \cap ToSet(bins[m]) = {}

\* Each bin merged with what came of those before.
Onto(fed) == [bin \in Seq(Routes) |-> [c \in Seq(Routes) |-> ListMerge(fed, bin, c)]]

LEMMA OntoArranged ==
  ASSUME NEW fed, NEW z, NEW Y, Behind(fed, Y, z),
         NEW bins, BinsArranged(bins, z), InBins(bins, Len(bins)) \subseteq Y,
         NEW X \in SUBSET Y, NEW c \in Arranged(X, z), X \cap InBins(bins, Len(bins)) = {}
  PROVE  Folded(Onto(fed), c, bins) \in Arranged(X \cup InBins(bins, Len(bins)), z)
<1> DEFINE J == [k \in 0 .. Len(bins) |-> Arranged(X \cup InBins(bins, k), z)]
<1>1. bins \in Seq(Seq(Routes)) /\ Len(bins) \in Nat
  BY DEF BinsArranged
<1>2. c \in J[0]
  <2>1. 1 .. 0 = {}
    OBVIOUS
  <2>2. InBins(bins, 0) = {}
    BY <2>1 DEF InBins
  <2>3. X \cup InBins(bins, 0) = X /\ 0 \in 0 .. Len(bins)
    BY <2>2, <1>1
  <2> QED BY <2>3
<1>3. \A k \in 1 .. Len(bins) : \A u \in J[k - 1] : Onto(fed)[bins[k]][u] \in J[k]
  <2> SUFFICES ASSUME NEW k \in 1 .. Len(bins), NEW u \in J[k - 1]
               PROVE  Onto(fed)[bins[k]][u] \in J[k]
    OBVIOUS
  <2> DEFINE B == ToSet(bins[k])
             C == X \cup InBins(bins, k - 1)
  <2>1. k - 1 \in 0 .. Len(bins) /\ k \in 0 .. Len(bins)
    BY <1>1
  <2>2. u \in Arranged(C, z)
    BY <2>1
  <2>3. bins[k] \in Arranged(B, z) /\ bins[k] \in Seq(Routes)
    BY <1>1 DEF BinsArranged
  <2>4. B \cap C = {}
    <3>1. ASSUME NEW x \in B, x \in InBins(bins, k - 1) PROVE FALSE
      <4>1. PICK l \in 1 .. k - 1 : x \in ToSet(bins[l])
        BY <3>1 DEF InBins
      <4>2. l \in 1 .. Len(bins) /\ l # k
        BY <1>1
      <4> QED BY <4>1, <4>2, <3>1 DEF BinsArranged
    <3>2. B \subseteq InBins(bins, Len(bins))
      BY DEF InBins
    <3> QED BY <3>1, <3>2
  <2>5. B \cup C = X \cup InBins(bins, k) /\ B \cup C \subseteq Y
    <3>1. InBins(bins, k) = InBins(bins, k - 1) \cup B
      <4>1. 1 .. k = (1 .. k - 1) \cup {k}
        BY <1>1
      <4> QED BY <4>1 DEF InBins
    <3>2. InBins(bins, k) \subseteq InBins(bins, Len(bins))
      <4>1. 1 .. k \subseteq 1 .. Len(bins)
        BY <1>1
      <4> QED BY <4>1 DEF InBins
    <3> HIDE DEF B
    <3> QED BY <3>1, <3>2
  <2>6. Behind(fed, B \cup C, z)
    <3> HIDE DEF B, C
    <3> QED BY <2>5 DEF Behind
  <2>7. ListMerge(fed, bins[k], u) \in Arranged(B \cup C, z)
    <3> HIDE DEF B, C, J
    <3> QED BY <2>2, <2>3, <2>4, <2>6, MergeArranged
  <2>8. Onto(fed)[bins[k]][u] = ListMerge(fed, bins[k], u)
    <3>1. u \in Seq(Routes)
      BY <2>2 DEF Arranged
    <3> HIDE DEF J
    <3> QED BY <3>1, <2>3 DEF Onto
  <2> HIDE DEF B, C
  <2> QED BY <2>1, <2>5, <2>7, <2>8
<1>4. Folded(Onto(fed), c, bins) \in J[Len(bins)]
  <2> HIDE DEF J
  <2> QED BY <1>1, <1>2, <1>3, FoldedKeeps
<1> QED BY <1>1, <1>4

\* What a route does to the bins.
Carry(fed, r, bins) ==
    LET n == Cardinality({k \in DOMAIN bins : \A l \in 1 .. k : bins[l] # <<>>})
    IN [k \in 1 .. (IF n = Len(bins) THEN n + 1 ELSE Len(bins)) |->
          IF k <= n THEN <<>>
          ELSE IF k = n + 1 THEN Folded(Onto(fed), <<r>>, SubSeq(bins, 1, n))
          ELSE bins[k]]

LEMMA CarryArranged ==
  ASSUME NEW fed, NEW z, NEW Y, Behind(fed, Y, z),
         NEW bins, BinsArranged(bins, z), NEW r \in Routes \cap Y,
         r \notin InBins(bins, Len(bins)), InBins(bins, Len(bins)) \subseteq Y
  PROVE  LET new == Carry(fed, r, bins)
         IN /\ BinsArranged(new, z)
            /\ InBins(new, Len(new)) = InBins(bins, Len(bins)) \cup {r}
<1> DEFINE full == {k \in DOMAIN bins : \A l \in 1 .. k : bins[l] # <<>>}
           n == Cardinality(full)
           L == Len(bins)
           N == IF n = L THEN n + 1 ELSE L
           first == SubSeq(bins, 1, n)
           c == Folded(Onto(fed), <<r>>, first)
           new == Carry(fed, r, bins)
<1>1. bins \in Seq(Seq(Routes)) /\ L \in Nat /\ DOMAIN bins = 1 .. L
  BY DEF BinsArranged
<1>2. n \in 0 .. L /\ full = 1 .. n
  <2>1. full \in SUBSET (1 .. L) /\ \A j \in full : \A i \in 1 .. j : i \in full
    <3> SUFFICES ASSUME NEW j \in full, NEW i \in 1 .. j PROVE i \in full
      BY <1>1
    <3>1. i \in 1 .. L /\ 1 .. i \subseteq 1 .. j
      BY <1>1
    <3> QED BY <3>1, <1>1
  <2> HIDE DEF full, L
  <2> QED BY <2>1, <1>1, Initial
<1>3. n + 1 \in 1 .. L => bins[n + 1] = <<>>
  <2> SUFFICES ASSUME n + 1 \in 1 .. L, bins[n + 1] # <<>> PROVE FALSE
    OBVIOUS
  <2>1. \A l \in 1 .. n + 1 : bins[l] # <<>>
    <3> TAKE l \in 1 .. n + 1
    <3>1. CASE l = n + 1
      BY <3>1
    <3>2. CASE l # n + 1
      <4>1. l \in 1 .. n /\ l \in 1 .. l
        BY <1>2, <3>2
      <4>2. l \in full
        BY <4>1, <1>2
      <4> QED BY <4>1, <4>2
    <3> QED BY <3>1, <3>2
  <2>2. n + 1 \in full
    BY <2>1, <1>1
  <2>3. n + 1 \notin 1 .. n
    BY <1>2
  <2> QED BY <2>2, <2>3, <1>2
<1> HIDE DEF full, n
<1>4. /\ first \in Seq(Seq(Routes)) /\ Len(first) = n
      /\ \A l \in 1 .. n : first[l] = bins[l] /\ l \in 1 .. L
  <2>1. \A i \in 1 .. n : bins[i] \in Seq(Routes) /\ i \in 1 .. L
    BY <1>1, <1>2
  <2> QED BY <2>1, <1>2, SubSeqProperties
<1> HIDE DEF first
<1>5. BinsArranged(first, z)
  BY <1>4 DEF BinsArranged
<1>6. InBins(first, n) = InBins(bins, n) /\ InBins(bins, n) \subseteq InBins(bins, L)
  BY <1>4 DEF InBins
<1>7. c \in Arranged({r} \cup InBins(bins, n), z)
  <2>1. <<r>> \in Arranged({r}, z) /\ {r} \in SUBSET Y
    BY OneArranged
  <2>2. InBins(first, Len(first)) \subseteq Y /\ {r} \cap InBins(first, Len(first)) = {}
    BY <1>4, <1>6
  <2>3. c \in Arranged({r} \cup InBins(first, Len(first)), z)
    BY <2>1, <2>2, <1>5, OntoArranged
  <2> HIDE DEF c
  <2> QED BY <2>3, <1>4, <1>6
<1> HIDE DEF c
<1>8. N \in Nat /\ N >= n + 1 /\ N >= L /\ (n < L => N = L) /\ (n = L => N = L + 1)
  <2>1. L \in Nat /\ n \in Nat /\ n <= L
    BY <1>1, <1>2
  <2> HIDE DEF L
  <2> QED BY <2>1
<1>9. new = [k \in 1 .. N |-> IF k <= n THEN <<>> ELSE IF k = n + 1 THEN c ELSE bins[k]]
  BY DEF Carry, n, full, c, first
<1> HIDE DEF N, new
<1>10. ASSUME NEW k \in 1 .. N
       PROVE  /\ new[k] \in Seq(Routes) /\ new[k] \in Arranged(ToSet(new[k]), z)
              /\ ToSet(new[k]) = IF k <= n THEN {} ELSE IF k = n + 1 THEN {r} \cup InBins(bins, n)
                                 ELSE ToSet(bins[k])
              /\ k \notin 1 .. n + 1 => k \in 1 .. L
  <2>1. CASE k <= n
    <3>1. new[k] = <<>>
      BY <2>1, <1>9
    <3>2. k \in 1 .. n + 1
      BY <2>1, <1>2
    <3> QED BY <3>1, <3>2, <2>1, NoneArranged DEF Arranged
  <2>2. CASE k = n + 1
    <3>1. new[k] = c /\ ~(k <= n) /\ k \in 1 .. n + 1
      BY <2>2, <1>2, <1>9
    <3> QED BY <3>1, <2>2, <1>7 DEF Arranged
  <2>3. CASE ~(k <= n) /\ k # n + 1
    <3>1. k \in 1 .. L
      <4>1. L \in Nat /\ n \in Nat /\ n <= L
        BY <1>1, <1>2
      <4> HIDE DEF L
      <4> QED BY <2>3, <4>1, <1>8
    <3>2. new[k] = bins[k]
      BY <2>3, <1>9
    <3> QED BY <3>1, <3>2, <2>3, <1>1 DEF BinsArranged
  <2> QED BY <2>1, <2>2, <2>3
<1>11. new \in Seq(Seq(Routes)) /\ Len(new) = N
  <2>1. \A k \in 1 .. N : new[k] \in Seq(Routes)
    BY <1>10
  <2>2. new = [k \in 1 .. N |-> new[k]]
    BY <1>9
  <2> QED BY <1>8, <2>1, <2>2
<1>12. \A l \in 1 .. L : ToSet(bins[l]) \subseteq InBins(bins, L)
  BY DEF InBins
<1>13. ASSUME NEW k \in 1 .. N, NEW m \in 1 .. N, k # m
       PROVE  ToSet(new[k]) \cap ToSet(new[m]) = {}
  <2>1. ASSUME NEW p \in 1 .. N, NEW q \in 1 .. N, p = n + 1, ~(q <= n), q # n + 1
        PROVE  ToSet(new[p]) \cap ToSet(new[q]) = {}
    <3>0. q \notin 1 .. n + 1
      BY <2>1, <1>2
    <3>1. q \in 1 .. L /\ ToSet(new[q]) = ToSet(bins[q]) /\ r \notin ToSet(bins[q])
      BY <3>0, <2>1, <1>10, <1>12
    <3>2. ~(p <= n) /\ ToSet(new[p]) = {r} \cup InBins(bins, n)
      BY <2>1, <1>2, <1>10
    <3>3. \A l \in 1 .. n : ToSet(bins[l]) \cap ToSet(bins[q]) = {}
      <4> TAKE l \in 1 .. n
      <4>1. l \in 1 .. L /\ l # q
        BY <1>1, <1>2, <2>1
      <4> QED BY <4>1, <3>1 DEF BinsArranged
    <3>4. InBins(bins, n) \cap ToSet(bins[q]) = {}
      BY <3>3 DEF InBins
    <3> QED BY <3>1, <3>2, <3>4
  <2>2. CASE k <= n \/ m <= n
    BY <2>2, <1>10
  <2>3. CASE ~(k <= n) /\ ~(m <= n) /\ (k = n + 1 \/ m = n + 1)
    BY <2>1, <2>3, <1>13
  <2>4. CASE ~(k <= n) /\ ~(m <= n) /\ k # n + 1 /\ m # n + 1
    <3>1. k \notin 1 .. n + 1 /\ m \notin 1 .. n + 1
      BY <2>4, <1>2
    <3> QED BY <3>1, <2>4, <1>10, <1>13 DEF BinsArranged
  <2> QED BY <2>2, <2>3, <2>4
<1>14. BinsArranged(new, z)
  BY <1>10, <1>11, <1>13 DEF BinsArranged
<1>15. InBins(new, N) = InBins(bins, L) \cup {r}
  <2>1. ASSUME NEW x \in InBins(new, N) PROVE x \in InBins(bins, L) \cup {r}
    <3>1. PICK k \in 1 .. N : x \in ToSet(new[k])
      BY DEF InBins
    <3>2. CASE k <= n
      BY <3>1, <3>2, <1>10
    <3>3. CASE k = n + 1
      <4>1. ~(k <= n)
        BY <3>3, <1>2
      <4> QED BY <4>1, <3>1, <3>3, <1>6, <1>10
    <3>4. CASE ~(k <= n) /\ k # n + 1
      <4>1. k \notin 1 .. n + 1
        BY <3>4, <1>2
      <4> QED BY <4>1, <3>1, <3>4, <1>10, <1>12
    <3> QED BY <3>2, <3>3, <3>4
  <2>2. n + 1 \in 1 .. N /\ ToSet(new[n + 1]) = {r} \cup InBins(bins, n)
    <3>1. n + 1 \in 1 .. N /\ ~(n + 1 <= n)
      BY <1>2, <1>8
    <3> QED BY <3>1, <1>10
  <2>3. ToSet(new[n + 1]) \subseteq InBins(new, N)
    BY <2>2 DEF InBins
  <2>4. ASSUME NEW l \in 1 .. L PROVE ToSet(bins[l]) \subseteq InBins(new, N)
    <3>1. CASE l <= n
      <4>1. l \in 1 .. n
        BY <3>1, <1>2
      <4>2. ToSet(bins[l]) \subseteq InBins(bins, n)
        BY <4>1 DEF InBins
      <4> QED BY <4>2, <2>2, <2>3
    <3>2. CASE l = n + 1
      <4>1. bins[l] = <<>>
        BY <3>2, <1>3
      <4>2. ToSet(<<>>) = {}
        BY NoneArranged DEF Arranged
      <4> QED BY <4>1, <4>2
    <3>3. CASE ~(l <= n) /\ l # n + 1
      <4>1. l \in 1 .. N
        <5>1. L \in Nat
          BY <1>1
        <5> HIDE DEF L
        <5> QED BY <5>1, <1>8
      <4>2. ToSet(new[l]) = ToSet(bins[l])
        BY <4>1, <3>3, <1>10
      <4> QED BY <4>1, <4>2 DEF InBins
    <3> QED BY <3>1, <3>2, <3>3
  <2>5. InBins(bins, L) \subseteq InBins(new, N)
    BY <2>4 DEF InBins
  <2> QED BY <2>1, <2>2, <2>3, <2>5
<1> QED BY <1>11, <1>14, <1>15 DEF new

\* Sorting keeps the routes, each once, and puts z last when all else goes in front of it.
LEMMA SortArranged ==
  ASSUME NEW fed, NEW z, NEW list \in Seq(Routes), IsInjective(list),
         Behind(fed, ToSet(list), z)
  PROVE  ListSort(fed, list) \in Arranged(ToSet(list), z)
<1> DEFINE Y == ToSet(list)
           first(k) == {list[i] : i \in 1 .. k}
           carry == [r \in Routes |-> [bins \in Seq(Seq(Routes)) |-> Carry(fed, r, bins)]]
           J == [k \in 0 .. Len(list) |->
                   {bins \in Seq(Seq(Routes)) : BinsArranged(bins, z) /\ InBins(bins, Len(bins)) = first(k)}]
           bins == Folded(carry, <<>>, list)
<1>1. ListSort(fed, list) = Folded(Onto(fed), <<>>, bins)
  BY DEF ListSort, Onto, Carry
<1>2. Len(list) \in Nat /\ \A i \in 1 .. Len(list) : list[i] \in Routes /\ list[i] \in Y
  BY DEF ToSet
<1>3. <<>> \in J[0]
  <2>1. <<>> \in Seq(Seq(Routes)) /\ Len(<<>>) = 0 /\ 1 .. 0 = {}
    OBVIOUS
  <2>2. BinsArranged(<<>>, z)
    BY <2>1 DEF BinsArranged
  <2>3. InBins(<<>>, 0) = {} /\ first(0) = {}
    BY <2>1 DEF InBins
  <2> HIDE DEF first
  <2> DEFINE e == <<>>
  <2>4. e \in Seq(Seq(Routes)) /\ BinsArranged(e, z) /\ InBins(e, Len(e)) = first(0)
    BY <2>1, <2>2, <2>3
  <2> HIDE DEF e
  <2>5. e \in J[0]
    BY <2>4, <1>2
  <2> QED BY <2>5 DEF e
<1>4. \A k \in 1 .. Len(list) : \A b \in J[k - 1] : carry[list[k]][b] \in J[k]
  <2> SUFFICES ASSUME NEW k \in 1 .. Len(list), NEW b \in J[k - 1]
               PROVE  carry[list[k]][b] \in J[k]
    OBVIOUS
  <2>1. k - 1 \in 0 .. Len(list) /\ k \in 0 .. Len(list)
    BY <1>2
  <2>2. b \in Seq(Seq(Routes)) /\ BinsArranged(b, z) /\ InBins(b, Len(b)) = first(k - 1)
    <3> HIDE DEF first
    <3> QED BY <2>1
  <2>3. list[k] \notin first(k - 1)
    <3> SUFFICES ASSUME NEW i \in 1 .. k - 1, list[i] = list[k] PROVE FALSE
      OBVIOUS
    <3>1. i \in DOMAIN list /\ k \in DOMAIN list /\ i # k
      BY <1>2
    <3> QED BY <3>1 DEF IsInjective
  <2>4. first(k - 1) \subseteq Y /\ first(k) = first(k - 1) \cup {list[k]}
    <3>1. 1 .. k = (1 .. k - 1) \cup {k} /\ 1 .. k - 1 \subseteq 1 .. Len(list)
      BY <1>2
    <3> HIDE DEF Y
    <3> QED BY <3>1, <1>2
  <2> HIDE DEF first
  <2>5. /\ BinsArranged(Carry(fed, list[k], b), z)
        /\ InBins(Carry(fed, list[k], b), Len(Carry(fed, list[k], b))) = first(k)
    <3>1. list[k] \in Routes \cap Y
      BY <1>2
    <3> HIDE DEF Y, J
    <3>2. list[k] \notin InBins(b, Len(b)) /\ InBins(b, Len(b)) \subseteq Y
      BY <2>2, <2>3, <2>4
    <3>3. Behind(fed, Y, z)
      BY DEF Y
    <3>4. /\ BinsArranged(Carry(fed, list[k], b), z)
          /\ InBins(Carry(fed, list[k], b), Len(Carry(fed, list[k], b))) = InBins(b, Len(b)) \cup {list[k]}
      BY <2>2, <3>1, <3>2, <3>3, CarryArranged
    <3> QED BY <3>4, <2>2, <2>4
  <2>6. carry[list[k]][b] = Carry(fed, list[k], b)
    <3> HIDE DEF J
    <3> QED BY <1>2, <2>2
  <2>7. Carry(fed, list[k], b) \in Seq(Seq(Routes))
    BY <2>5 DEF BinsArranged
  <2>8. Carry(fed, list[k], b) \in J[k]
    BY <2>1, <2>5, <2>7
  <2> HIDE DEF carry, J
  <2> QED BY <2>6, <2>8
<1>5. bins \in J[Len(list)]
  <2> HIDE DEF J, carry
  <2> QED BY <1>3, <1>4, FoldedKeeps
<1> HIDE DEF bins
<1>6. BinsArranged(bins, z) /\ InBins(bins, Len(bins)) = Y
  <2>1. first(Len(list)) = Y
    BY DEF ToSet
  <2> HIDE DEF first, Y
  <2> QED BY <1>2, <1>5, <2>1
<1>7. Folded(Onto(fed), <<>>, bins) \in Arranged({} \cup Y, z)
  <2>1. <<>> \in Arranged({}, z)
    BY NoneArranged
  <2>2. Behind(fed, Y, z) /\ InBins(bins, Len(bins)) \subseteq Y /\ {} \in SUBSET Y
        /\ {} \cap InBins(bins, Len(bins)) = {}
    BY <1>6
  <2> HIDE DEF Y
  <2>3. Folded(Onto(fed), <<>>, bins) \in Arranged({} \cup InBins(bins, Len(bins)), z)
    BY <1>6, <2>1, <2>2, OntoArranged
  <2> QED BY <2>3, <1>6
<1>8. {} \cup Y = Y
  OBVIOUS
<1> HIDE DEF Y
<1> QED BY <1>1, <1>7, <1>8 DEF Y

-----------------------------------------------------------------------------
(* resort_routes_using().                                                  *)

LEMMA FeedbackShort ==
  ASSUME NEW nodes, NEW edges \in SUBSET (nodes \X nodes), ~HasFeedback(nodes, edges)
  PROVE  ~HasLongLoop(nodes, edges)
<1> DEFINE up == Upstream(nodes, edges)
<1> SUFFICES ASSUME NEW a \in nodes, NEW b \in nodes, NEW c \in nodes, Cardinality({a, b, c}) = 3,
                    a \in up[b], b \in up[c], c \in up[a]
             PROVE  FALSE
  BY DEF HasLongLoop
<1>1. \A n \in nodes : \A o \in up[n] : up[o] \subseteq up[n]
  BY UpstreamOfUpstream
<1>2. b \in up[a] /\ b \in up[c] /\ c \in up[b]
  <2> HIDE DEF up
  <2> QED BY <1>1
<1>3. a = b /\ b = c
  <2> USE DEF HasFeedback
  <2> QED BY <1>2
<1>4. {a, b, c} = {a} /\ Cardinality({a}) = 1
  <2>1. Cardinality({a}) = 1
    BY FS_Singleton
  <2> QED BY <1>3, <2>1
<1> QED BY <1>4

\* Without a long loop the recursion comes back; without feedback it leaves fed_by closed.
FeedsRight(list, edges, sorted) ==
    /\ sorted.fedBy \in [Routes -> SUBSET Routes] /\ sorted.returns \in BOOLEAN
    /\ sorted.list = ListSort(sorted.fedBy, list)
    /\ ~HasLongLoop(ToSet(list), edges) => sorted.returns
    /\ ~HasFeedback(ToSet(list), edges) =>
          \A r \in ToSet(list) : sorted.fedBy[r] = Upstream(ToSet(list), edges)[r] \ {r}

LEMMA ResortedFeeds ==
  ASSUME NEW list \in Seq(Routes), NEW edges \in SUBSET (ToSet(list) \X ToSet(list)),
         NEW fed \in [Routes -> SUBSET Routes]
  PROVE  FeedsRight(list, edges, Resorted(list, edges, fed))
<1> DEFINE nodes == ToSet(list)
           up == Upstream(nodes, edges)
           traced == [r \in Routes |-> [u \in Trace |-> TraceTerminal(u, r)]]
           base == [fedBy |-> DirectFeeds(list, edges, fed), returns |-> TRUE]
           t == Folded(traced, base, list)
           sorted == Resorted(list, edges, fed)
<1>1. sorted = [list |-> ListSort(t.fedBy, list), fedBy |-> t.fedBy, returns |-> t.returns]
  BY DEF Resorted
<1>2. /\ Len(list) \in Nat /\ DOMAIN list = 1 .. Len(list) /\ nodes \in SUBSET Routes
      /\ \A i \in 1 .. Len(list) : list[i] \in Routes /\ list[i] \in nodes
      /\ \A r \in nodes : \E i \in 1 .. Len(list) : list[i] = r
      /\ edges \in SUBSET (nodes \X nodes)
  BY DEF ToSet
<1>3. base \in Trace
  <2>1. nodes \in SUBSET Routes
    BY <1>2
  <2>2. DirectFeeds(list, edges, fed) \in [Routes -> SUBSET Routes]
    <3> DEFINE D(r) == IF Contains(list, r) THEN {o \in ToSet(list) \ {r} : <<o, r>> \in edges} ELSE fed[r]
    <3>1. \A r \in Routes : D(r) \in SUBSET Routes
      BY <2>1
    <3>2. DirectFeeds(list, edges, fed) = [r \in Routes |-> D(r)]
      BY DEF DirectFeeds
    <3> HIDE DEF D
    <3> QED BY <3>1, <3>2
  <2> QED BY <2>2 DEF Trace
<1>4. \A r \in Routes, u \in Trace : traced[r][u] = TraceTerminal(u, r) /\ traced[r][u] \in Trace
  BY TraceTyped
<1>5. t \in Trace
  <2>1. \A u \in Trace, r \in Routes : traced[r][u] \in Trace
    BY <1>4
  <2> HIDE DEF traced, base
  <2> QED BY <1>3, <2>1, FoldedStays
<1>6. t.fedBy \in [Routes -> SUBSET Routes] /\ t.returns \in BOOLEAN
  <2> HIDE DEF t
  <2> QED BY <1>5 DEF Trace
<1>7. FedWithin(nodes, edges, base)
  <2>1. base.returns /\ base.fedBy = DirectFeeds(list, edges, fed)
    OBVIOUS
  <2>2. ASSUME NEW r \in nodes PROVE base.fedBy[r] = Feeders(nodes, edges, r)
    <3>1. Contains(list, r) /\ r \in Routes
      BY <1>2 DEF Contains
    <3> QED BY <2>1, <3>1 DEF DirectFeeds, Feeders
  <2>3. ASSUME NEW r \in nodes
        PROVE  Feeders(nodes, edges, r) \subseteq up[r] /\ r \notin Feeders(nodes, edges, r)
    <3>1. r \in up[r] /\ Closed(up[r], edges)
      BY UpstreamHas, UpstreamClosed
    <3> HIDE DEF up, nodes
    <3> QED BY <3>1 DEF Feeders, Closed
  <2> HIDE DEF base, nodes
  <2> QED BY <1>3, <2>1, <2>2, <2>3 DEF FedWithin
<1>8. ASSUME ~HasLongLoop(nodes, edges)
      PROVE  /\ FedWithin(nodes, edges, t)
             /\ ~HasFeedback(nodes, edges)
                => \A i \in 1 .. Len(list) : up[list[i]] \ {list[i]} \subseteq t.fedBy[list[i]]
  <2> DEFINE Whole(u, i) == up[list[i]] \ {list[i]} \subseteq u.fedBy[list[i]]
             J == [k \in 0 .. Len(list) |->
                     {u \in Trace : /\ FedWithin(nodes, edges, u)
                                    /\ ~HasFeedback(nodes, edges) => \A i \in 1 .. k : Whole(u, i)}]
  <2>1. base \in J[0]
    <3> HIDE DEF base, nodes, Whole
    <3> QED BY <1>2, <1>3, <1>7
  <2>2. \A k \in 1 .. Len(list) : \A u \in J[k - 1] : traced[list[k]][u] \in J[k]
    <3> SUFFICES ASSUME NEW k \in 1 .. Len(list), NEW u \in J[k - 1]
                 PROVE  traced[list[k]][u] \in J[k]
      OBVIOUS
    <3> DEFINE w == traced[list[k]][u]
    <3>1. k - 1 \in 0 .. Len(list) /\ k \in 0 .. Len(list)
      BY <1>2
    <3>2. /\ u \in Trace /\ FedWithin(nodes, edges, u)
          /\ ~HasFeedback(nodes, edges) => \A i \in 1 .. k - 1 : Whole(u, i)
      <4> HIDE DEF Whole, nodes
      <4> QED BY <3>1
    <3>3. w = TraceTerminal(u, list[k]) /\ w \in Trace
      <4> HIDE DEF traced, J
      <4> QED BY <1>2, <1>4, <3>2
    <3>4. Finds(nodes, edges, list[k], list[k], u, w)
      <4> HIDE DEF w, nodes, J
      <4> QED BY <1>2, <1>8, <3>2, <3>3, TraceFinds
    <3>5. MoreAt(nodes, edges, list[k], u, w) /\ FedWithin(nodes, edges, w)
      BY <3>4 DEF Finds, MoreAt
    <3>6. ASSUME ~HasFeedback(nodes, edges), NEW i \in 1 .. k PROVE Whole(w, i)
      <4>1. CASE list[i] = list[k]
        BY <4>1, <3>4, <3>6 DEF Finds
      <4>2. CASE list[i] # list[k]
        <5>1. i # k /\ i \in 1 .. k - 1 /\ i \in 1 .. Len(list)
          BY <4>2, <1>2
        <5>2. w.fedBy[list[i]] = u.fedBy[list[i]]
          <6> HIDE DEF w, J
          <6> QED BY <5>1, <4>2, <3>5, <1>2 DEF MoreAt
        <5>3. Whole(u, i)
          BY <5>1, <3>2, <3>6
        <5> HIDE DEF w
        <5> QED BY <5>2, <5>3
      <4> QED BY <4>1, <4>2
    <3>7. w \in J[k]
      <4> HIDE DEF w, Whole
      <4> QED BY <3>1, <3>3, <3>5, <3>6
    <3> HIDE DEF J
    <3> QED BY <3>7
  <2>3. t \in J[Len(list)]
    <3> HIDE DEF J, traced, base
    <3> QED BY <2>1, <2>2, FoldedKeeps
  <2>4. /\ FedWithin(nodes, edges, t)
        /\ ~HasFeedback(nodes, edges) => \A i \in 1 .. Len(list) : Whole(t, i)
    <3> HIDE DEF t, Whole, nodes
    <3> QED BY <2>3, <1>2
  <2> HIDE DEF t
  <2> QED BY <2>4
<1>9. ASSUME ~HasFeedback(nodes, edges), NEW r \in nodes
      PROVE  t.fedBy[r] = up[r] \ {r}
  <2>1. ~HasLongLoop(nodes, edges)
    <3> HIDE DEF nodes
    <3> QED BY <1>2, <1>9, FeedbackShort
  <2>2. PICK i \in 1 .. Len(list) : list[i] = r
    BY <1>2
  <2> HIDE DEF t, nodes
  <2>3. up[r] \ {r} \subseteq t.fedBy[r]
    BY <1>8, <1>9, <2>1, <2>2
  <2>4. t.fedBy[r] \subseteq up[r] /\ r \notin t.fedBy[r]
    BY <1>8, <1>9, <2>1 DEF FedWithin
  <2> QED BY <2>3, <2>4
<1>10. ASSUME ~HasLongLoop(nodes, edges) PROVE t.returns
  <2> HIDE DEF t
  <2> QED BY <1>8, <1>10 DEF FedWithin
<1> HIDE DEF t
<1>11. sorted.list = ListSort(t.fedBy, list) /\ sorted.fedBy = t.fedBy /\ sorted.returns = t.returns
  BY <1>1
<1> HIDE DEF sorted
<1>12. /\ sorted.fedBy \in [Routes -> SUBSET Routes] /\ sorted.returns \in BOOLEAN
       /\ sorted.list = ListSort(sorted.fedBy, list)
       /\ ~HasLongLoop(ToSet(list), edges) => sorted.returns
       /\ ~HasFeedback(ToSet(list), edges) =>
                  \A r \in ToSet(list) : sorted.fedBy[r] = Upstream(ToSet(list), edges)[r] \ {r}
  BY <1>6, <1>9, <1>10, <1>11
<1>13. FeedsRight(list, edges, sorted)
  BY <1>12 DEF FeedsRight
<1> QED BY <1>13 DEF sorted

\* The list has the same routes; without feedback the one that all get to is the last.
ListRight(list, edges, sorted) ==
    /\ sorted \in Seq(Routes) /\ IsInjective(sorted) /\ ToSet(sorted) = ToSet(list)
    /\ ~HasFeedback(ToSet(list), edges) =>
          \A z \in ToSet(list) : Upstream(ToSet(list), edges)[z] = ToSet(list) => Last(sorted) = z

LEMMA ResortedList ==
  ASSUME NEW list \in Seq(Routes), IsInjective(list), NEW edges \in SUBSET (ToSet(list) \X ToSet(list)),
         NEW fed \in [Routes -> SUBSET Routes]
  PROVE  ListRight(list, edges, Resorted(list, edges, fed).list)
<1> DEFINE nodes == ToSet(list)
           up == Upstream(nodes, edges)
           fb == Resorted(list, edges, fed).fedBy
           sorted == Resorted(list, edges, fed).list
<1>1. /\ sorted = ListSort(fb, list)
      /\ ~HasFeedback(nodes, edges) => \A r \in nodes : fb[r] = up[r] \ {r}
  <2>1. FeedsRight(list, edges, Resorted(list, edges, fed))
    BY ResortedFeeds
  <2> QED BY <2>1 DEF FeedsRight
<1>2. \A z : Behind(fb, nodes, z) => sorted \in Arranged(nodes, z)
  <2> HIDE DEF fb, sorted
  <2> QED BY <1>1, SortArranged
<1> HIDE DEF fb, sorted
<1>3. sorted \in Seq(Routes) /\ IsInjective(sorted) /\ ToSet(sorted) = nodes
  <2> DEFINE z == {r \in nodes : r \notin r}
  <2>1. z \notin nodes
    <3> HIDE DEF nodes
    <3> QED OBVIOUS
  <2> HIDE DEF z
  <2>2. Behind(fb, nodes, z)
    BY <2>1 DEF Behind
  <2> QED BY <1>2, <2>2 DEF Arranged
<1>4. ASSUME ~HasFeedback(nodes, edges), NEW z \in nodes, up[z] = nodes
      PROVE  Last(sorted) = z
  <2>1. ASSUME NEW r \in nodes \ {z} PROVE RouteSorter(fb, r, z) /\ ~RouteSorter(fb, z, r)
    <3>1. r \in fb[z]
      BY <1>1, <1>4, <2>1
    <3>2. z \notin up[r]
      BY <1>4, <2>1 DEF HasFeedback
    <3>3. z \notin fb[r]
      BY <1>1, <1>4, <2>1, <3>2
    <3> QED BY <3>1, <3>3 DEF RouteSorter
  <2>2. Behind(fb, nodes, z)
    BY <2>1 DEF Behind
  <2> QED BY <1>2, <1>4, <2>2 DEF Arranged
<1>5. ListRight(list, edges, sorted)
  BY <1>3, <1>4 DEF ListRight
<1> QED BY <1>5 DEF sorted

-----------------------------------------------------------------------------
(* Lists.                                                                  *)

LEMMA ListOf ==
  ASSUME NEW S, NEW s \in Seq(S)
  PROVE  /\ Len(s) \in Nat /\ ToSet(s) \subseteq S /\ s \in Seq(ToSet(s))
         /\ \A i \in 1 .. Len(s) : s[i] \in ToSet(s)
         /\ \A x \in ToSet(s) : \E i \in 1 .. Len(s) : s[i] = x
         /\ \A x : Contains(s, x) <=> x \in ToSet(s)
<1>1. Len(s) \in Nat /\ DOMAIN s = 1 .. Len(s) /\ \A i \in 1 .. Len(s) : s[i] \in S
  OBVIOUS
<1>2. \A i \in 1 .. Len(s) : s[i] \in ToSet(s)
  BY <1>1 DEF ToSet
<1>3. s \in Seq(ToSet(s))
  BY <1>1, <1>2
<1> QED BY <1>1, <1>2, <1>3 DEF ToSet, Contains

LEMMA WithoutIs ==
  ASSUME NEW S, NEW list \in Seq(S), IsInjective(list), NEW r
  PROVE  /\ Without(list, r) \in Seq(S) /\ IsInjective(Without(list, r))
         /\ ToSet(Without(list, r)) = ToSet(list) \ {r}
         /\ Len(Without(list, r)) <= Len(list)
         /\ r \in ToSet(list) => Without(list, r) # list
<1>1. Len(list) \in Nat /\ DOMAIN list = 1 .. Len(list) /\ (Contains(list, r) <=> r \in ToSet(list))
  BY ListOf
<1>2. CASE ~Contains(list, r)
  <2>1. Without(list, r) = list /\ r \notin ToSet(list)
    BY <1>1, <1>2 DEF Without
  <2> QED BY <2>1, <1>1
<1>3. CASE Contains(list, r)
  <2> DEFINE p == CHOOSE i \in DOMAIN list : list[i] = r
             u == SubSeq(list, 1, p - 1)
             v == SubSeq(list, p + 1, Len(list))
             w == u \o v
             L == Len(list)
  <2>1. Without(list, r) = w
    BY <1>3 DEF Without, RemoveAt
  <2>2. p \in 1 .. L /\ list[p] = r
    BY <1>1, <1>3 DEF Contains
  <2> HIDE DEF p, L
  <2>3. L \in Nat /\ \A i \in 1 .. L : list[i] \in S
    BY DEF L
  <2>4. u \in Seq(S) /\ Len(u) = p - 1 /\ \A i \in 1 .. p - 1 : u[i] = list[i]
    <3>1. \A i \in 1 .. p - 1 : list[i] \in S
      BY <2>2, <2>3
    <3>2. p - 1 \in Int
      BY <2>2
    <3>3. u \in Seq(S) /\ Len(u) = (IF 1 <= p - 1 THEN (p - 1) - 1 + 1 ELSE 0)
          /\ \A i \in 1 .. (p - 1) - 1 + 1 : u[i] = list[1 + i - 1]
      BY <3>1, <3>2, SubSeqProperties
    <3> HIDE DEF u
    <3>4. \A i \in 1 .. p - 1 : u[i] = list[i]
      <4> TAKE i \in 1 .. p - 1
      <4>1. i \in 1 .. (p - 1) - 1 + 1 /\ 1 + i - 1 = i
        BY <2>2
      <4> QED BY <4>1, <3>3
    <3> QED BY <3>3, <3>4, <2>2
  <2>5. v \in Seq(S) /\ Len(v) = L - p /\ \A i \in 1 .. L - p : v[i] = list[p + i]
    <3>1. \A i \in p + 1 .. L : list[i] \in S
      BY <2>2, <2>3
    <3>2. p + 1 \in Int /\ L \in Int
      BY <2>2, <2>3
    <3>3. v \in Seq(S) /\ Len(v) = (IF p + 1 <= L THEN L - (p + 1) + 1 ELSE 0)
          /\ \A i \in 1 .. L - (p + 1) + 1 : v[i] = list[p + 1 + i - 1]
      BY <3>1, <3>2, SubSeqProperties DEF L
    <3> HIDE DEF v
    <3>4. \A i \in 1 .. L - p : v[i] = list[p + i]
      <4> TAKE i \in 1 .. L - p
      <4>1. i \in 1 .. L - (p + 1) + 1 /\ p + 1 + i - 1 = p + i
        BY <2>2, <2>3
      <4> QED BY <4>1, <3>3
    <3> QED BY <3>3, <3>4, <2>2, <2>3
  <2> HIDE DEF u, v
  <2>6. w \in Seq(S) /\ Len(w) = L - 1
        /\ \A i \in 1 .. L - 1 : w[i] = IF i < p THEN list[i] ELSE list[i + 1]
    <3>1. /\ w \in Seq(S) /\ Len(w) = Len(u) + Len(v)
          /\ \A i \in 1 .. Len(u) + Len(v) : w[i] = IF i <= Len(u) THEN u[i] ELSE v[i - Len(u)]
      BY <2>4, <2>5, ConcatProperties
    <3> HIDE DEF w
    <3>2. Len(w) = L - 1
      BY <3>1, <2>2, <2>3, <2>4, <2>5
    <3>3. ASSUME NEW i \in 1 .. L - 1 PROVE w[i] = IF i < p THEN list[i] ELSE list[i + 1]
      <4>1. CASE i < p
        <5>1. i \in 1 .. Len(u) + Len(v) /\ i <= Len(u) /\ i \in 1 .. p - 1
          BY <4>1, <2>2, <2>3, <2>4, <2>5
        <5> QED BY <5>1, <4>1, <3>1, <2>4
      <4>2. CASE ~(i < p)
        <5>1. i \in 1 .. Len(u) + Len(v) /\ ~(i <= Len(u)) /\ i - Len(u) \in 1 .. L - p
              /\ p + (i - Len(u)) = i + 1
          BY <4>2, <2>2, <2>3, <2>4, <2>5
        <5>2. w[i] = v[i - Len(u)] /\ v[i - Len(u)] = list[p + (i - Len(u))]
          BY <5>1, <3>1, <2>5
        <5> QED BY <5>1, <5>2, <4>2
      <4> QED BY <4>1, <4>2
    <3> QED BY <3>1, <3>2, <3>3
  <2> HIDE DEF w
  <2>7. DOMAIN w = 1 .. L - 1 /\ DOMAIN list = 1 .. L
    BY <2>6 DEF L
  <2>8. IsInjective(w)
    <3> SUFFICES ASSUME NEW i \in 1 .. L - 1, NEW j \in 1 .. L - 1, w[i] = w[j] PROVE i = j
      BY <2>7 DEF IsInjective
    <3> DEFINE m == IF i < p THEN i ELSE i + 1
               n == IF j < p THEN j ELSE j + 1
    <3>1. m \in 1 .. L /\ n \in 1 .. L
      BY <2>2, <2>3
    <3>2. list[m] = list[n]
      BY <2>6
    <3>3. m = n
      <4> HIDE DEF m, n
      <4> QED BY <3>1, <3>2, <2>7 DEF IsInjective
    <3> QED BY <3>3, <2>2, <2>3
  <2>9. ToSet(w) = ToSet(list) \ {r}
    <3>1. ASSUME NEW i \in 1 .. L - 1 PROVE w[i] \in ToSet(list) \ {r}
      <4> DEFINE m == IF i < p THEN i ELSE i + 1
      <4>1. m \in 1 .. L /\ m # p
        BY <2>2, <2>3
      <4>2. w[i] = list[m]
        BY <2>6
      <4> HIDE DEF m
      <4> QED BY <4>1, <4>2, <2>2, <2>7 DEF ToSet, IsInjective
    <3>2. ASSUME NEW x \in ToSet(list) \ {r} PROVE \E i \in 1 .. L - 1 : w[i] = x
      <4>1. PICK m \in 1 .. L : list[m] = x
        BY <2>7 DEF ToSet
      <4> DEFINE i == IF m < p THEN m ELSE m - 1
      <4>2. m # p
        BY <4>1, <2>2
      <4>3. i \in 1 .. L - 1 /\ (IF i < p THEN i ELSE i + 1) = m
        BY <4>2, <2>2, <2>3
      <4>4. w[i] = list[m]
        <5> HIDE DEF i
        <5> QED BY <4>3, <2>6
      <4> QED BY <4>1, <4>3, <4>4
    <3> QED BY <3>1, <3>2, <2>7 DEF ToSet
  <2>10. w # list /\ Len(w) <= Len(list)
    BY <2>2, <2>3, <2>6 DEF L
  <2> QED BY <2>1, <2>6, <2>8, <2>9, <2>10
<1> QED BY <1>2, <1>3

-----------------------------------------------------------------------------
(* The state, and the groups.                                              *)

\* What the session has, without the order of the list and what it is fed by.
Had ==
    /\ routes \in Seq(Routes) /\ Present \subseteq Routes
    /\ solo \in [soloed : SUBSET Present, muted : SUBSET Present, soloing : BOOLEAN]
    /\ groups \in [Groups -> Seq(Present)] /\ \A g \in Groups : IsInjective(groups[g])
    /\ \A g, h \in Groups : g # h => ToSet(groups[g]) \cap ToSet(groups[h]) = {}
    /\ active \subseteq Groups

\* The states of solo there may be with the routes there are.
Typed == [soloed : SUBSET Present, muted : SUBSET Present, soloing : BOOLEAN]

LEMMA StateHad ==
  ASSUME TypeOK
  PROVE  Had /\ solo \in Typed
<1>1. Present \subseteq Routes
  BY ListOf DEF TypeOK, Present
<1> QED BY <1>1 DEF TypeOK, Had, Typed

LEMMA TypedIs ==
  ASSUME Had, NEW s \in Typed
  PROVE  /\ s \in SoloState /\ s.soloed \subseteq Present /\ s.muted \subseteq Present
         /\ s.soloing \in BOOLEAN
         /\ \A S \in SUBSET Present : [s EXCEPT !.soloed = S] \in Typed
                                    /\ [s EXCEPT !.soloed = S].soloed = S
                                    /\ [s EXCEPT !.soloed = S].muted = s.muted
                                    /\ [s EXCEPT !.soloed = S].soloing = s.soloing
BY DEF Typed, SoloState, Had

\* The routes that set_solo() on r goes to: its active group, or r alone.
LEMMA MembersAre ==
  ASSUME Had, NEW r \in Present
  PROVE  /\ Members(r) \in Seq(Present) /\ r \in ToSet(Members(r))
         /\ \/ /\ Members(r) = <<r>> /\ ToSet(Members(r)) = {r}
               /\ \A g \in active : r \notin ToSet(groups[g])
            \/ \E g \in active : r \in ToSet(groups[g]) /\ Members(r) = groups[g]
<1> DEFINE own == {g \in active : Contains(groups[g], r)}
<1>1. \A g \in active : Contains(groups[g], r) <=> r \in ToSet(groups[g])
  BY ListOf DEF Had
<1>2. CASE own = {}
  <2>1. Members(r) = <<r>>
    BY <1>2 DEF Members
  <2>2. <<r>> \in Seq(Present) /\ ToSet(<<r>>) = {r}
    BY DEF ToSet
  <2> QED BY <1>1, <1>2, <2>1, <2>2
<1>3. CASE own # {}
  <2> DEFINE g == CHOOSE h \in own : TRUE
  <2>1. g \in own /\ Members(r) = groups[g]
    BY <1>3 DEF Members
  <2> HIDE DEF g
  <2> QED BY <1>1, <2>1 DEF Had
<1> QED BY <1>2, <1>3

LEMMA TogetherIs ==
  ASSUME Had, NEW r \in Present, NEW o \in Present
  PROVE  /\ o \in ToSet(Members(r)) <=> Together(o, r)
         /\ Together(o, r) => Members(o) = Members(r)
         /\ ~Together(o, r) => ToSet(Members(o)) \cap ToSet(Members(r)) = {}
<1>1. \A g, h \in active : g # h => ToSet(groups[g]) \cap ToSet(groups[h]) = {}
  BY DEF Had
<1>2. /\ r \in ToSet(Members(r))
      /\ \/ /\ Members(r) = <<r>> /\ ToSet(Members(r)) = {r}
            /\ \A g \in active : r \notin ToSet(groups[g])
         \/ \E g \in active : r \in ToSet(groups[g]) /\ Members(r) = groups[g]
  BY MembersAre
<1>3. /\ o \in ToSet(Members(o))
      /\ \/ /\ Members(o) = <<o>> /\ ToSet(Members(o)) = {o}
            /\ \A g \in active : o \notin ToSet(groups[g])
         \/ \E g \in active : o \in ToSet(groups[g]) /\ Members(o) = groups[g]
  BY MembersAre
<1>4. CASE \A g \in active : r \notin ToSet(groups[g])
  <2>1. ToSet(Members(r)) = {r} /\ (Together(o, r) <=> o = r)
    BY <1>2, <1>4 DEF Together
  <2> QED BY <2>1, <1>3, <1>4
<1>5. CASE \E g \in active : r \in ToSet(groups[g])
  <2>1. PICK g \in active : r \in ToSet(groups[g]) /\ Members(r) = groups[g]
    BY <1>2, <1>5
  <2>2. Together(o, r) <=> o \in ToSet(groups[g])
    BY <2>1, <1>1 DEF Together
  <2>3. o \in ToSet(groups[g]) => Members(o) = groups[g]
    BY <1>1, <1>3
  <2>4. o \notin ToSet(groups[g]) => ToSet(Members(o)) \cap ToSet(groups[g]) = {}
    BY <1>1, <1>3, <2>1
  <2> QED BY <2>1, <2>2, <2>3, <2>4
<1> QED BY <1>4, <1>5

-----------------------------------------------------------------------------
(* What the solo operators do.                                             *)

LEMMA UnsoloIs ==
  ASSUME Had, NEW s \in Typed, NEW o \in Present
  PROVE  /\ Unsolo(s, o) \in Typed
         /\ Unsolo(s, o).soloed = s.soloed \ (IF o \in soloSafe THEN {} ELSE ToSet(Members(o)) \ soloSafe)
         /\ Unsolo(s, o).muted = s.muted /\ Unsolo(s, o).soloing = s.soloing
<1> DEFINE S == s.soloed \ (ToSet(Members(o)) \ soloSafe)
<1>1. S \in SUBSET Present
  BY TypedIs
<1>2. Unsolo(s, o) = IF o \in soloSafe THEN s ELSE [s EXCEPT !.soloed = S]
  BY DEF Unsolo
<1> HIDE DEF S
<1>3. [s EXCEPT !.soloed = S] \in Typed /\ [s EXCEPT !.soloed = S].soloed = S
      /\ [s EXCEPT !.soloed = S].muted = s.muted /\ [s EXCEPT !.soloed = S].soloing = s.soloing
  BY <1>1, TypedIs
<1> QED BY <1>2, <1>3 DEF S

\* o is switched off for the sake of r.
Switched(u, o, r, is_track) ==
    IsTrack(o) = is_track /\ ~Together(o, r) /\ ~(latched /\ o \in u.soloed)

LEMMA UnsoloOthersStays ==
  ASSUME Had, NEW r, NEW is_track, NEW I \in SUBSET Typed, NEW s \in I,
         \A u \in I, o \in Present : Switched(u, o, r, is_track) => Unsolo(u, o) \in I
  PROVE  UnsoloOthers(s, r, is_track) \in I
<1> DEFINE switch == [o \in Routes |-> [u \in SoloState |->
                        IF IsTrack(o) # is_track \/ Together(o, r) \/ (latched /\ o \in u.soloed)
                        THEN u ELSE Unsolo(u, o)]]
<1>1. UnsoloOthers(s, r, is_track) = Folded(switch, s, routes)
  BY DEF UnsoloOthers
<1>2. routes \in Seq(Present) /\ Present \subseteq Routes
  BY ListOf DEF Had, Present
<1>3. \A u \in I, o \in Present : switch[o][u] \in I
  <2> TAKE u \in I, o \in Present
  <2>1. u \in SoloState /\ o \in Routes
    BY <1>2, TypedIs
  <2>2. switch[o][u] = IF Switched(u, o, r, is_track) THEN Unsolo(u, o) ELSE u
    BY <2>1 DEF Switched
  <2> QED BY <2>2
<1> HIDE DEF switch
<1> QED BY <1>1, <1>2, <1>3, FoldedStays

\* Of the others only some are switched off, never a route of r's own active group.
LEMMA UnsoloOthersIs ==
  ASSUME Had, NEW r \in Present, NEW is_track, NEW s \in Typed
  PROVE  LET u == UnsoloOthers(s, r, is_track)
         IN /\ u \in Typed /\ u.soloed \subseteq s.soloed
            /\ u.muted = s.muted /\ u.soloing = s.soloing
            /\ s.soloed \cap ToSet(Members(r)) \subseteq u.soloed
<1> DEFINE I == {u \in Typed : /\ u.soloed \subseteq s.soloed /\ u.muted = s.muted /\ u.soloing = s.soloing
                               /\ s.soloed \cap ToSet(Members(r)) \subseteq u.soloed}
<1>1. \A u \in I, o \in Present : Switched(u, o, r, is_track) => Unsolo(u, o) \in I
  <2> SUFFICES ASSUME NEW u \in I, NEW o \in Present, Switched(u, o, r, is_track)
               PROVE  Unsolo(u, o) \in I
    BY Zenon
  <2>1. /\ Unsolo(u, o) \in Typed /\ Unsolo(u, o).muted = u.muted /\ Unsolo(u, o).soloing = u.soloing
        /\ Unsolo(u, o).soloed = u.soloed \ (IF o \in soloSafe THEN {} ELSE ToSet(Members(o)) \ soloSafe)
    BY UnsoloIs
  <2>2. ToSet(Members(o)) \cap ToSet(Members(r)) = {}
    BY TogetherIs DEF Switched
  <2> QED BY <2>1, <2>2
<1>2. UnsoloOthers(s, r, is_track) \in I
  <2>1. I \in SUBSET Typed /\ s \in I
    OBVIOUS
  <2> HIDE DEF I
  <2> QED BY <1>1, <2>1, UnsoloOthersStays
<1> QED BY <1>2

\* A track, or a route that is none, of those that are soloed.
Sort(is_track) == {r \in Present : IsTrack(r) = is_track}

Ordinary(S) == {r \in S : ~Special(r)}

LEMMA ModifyIs ==
  ASSUME Had, NEW s \in Typed, NEW is_track \in BOOLEAN, NEW mute \in BOOLEAN
  PROVE  LET u == ModifySoloMute(s, is_track, mute)
         IN /\ u \in Typed /\ u.soloed = s.soloed /\ u.soloing = s.soloing
            /\ Ordinary(s.muted) = s.muted => Ordinary(u.muted) = u.muted
            /\ is_track => u.muted \cap Sort(TRUE)
                             = IF mute THEN Sort(TRUE) \ s.soloed ELSE Sort(TRUE) \cap s.soloed
            /\ ~is_track /\ Ordinary(s.muted) = s.muted => u.muted \cap Sort(FALSE)
                             = IF mute THEN Ordinary(Sort(FALSE) \ s.soloed) ELSE {}
<1> DEFINE tracks == {r \in Present : IsTrack(r)}
           lit    == {r \in Present \ tracks : r \in s.soloed}
           others == {r \in Present \ tracks : r \notin s.soloed /\ ~Special(r)}
           M == IF is_track
                THEN (s.muted \ tracks) \cup (IF mute THEN tracks \ s.soloed ELSE tracks \cap s.soloed)
                ELSE (s.muted \ (lit \cup others)) \cup (IF mute THEN others ELSE {})
           u == ModifySoloMute(s, is_track, mute)
<1>1. u = [s EXCEPT !.muted = M]
  BY DEF ModifySoloMute
<1>2. s.soloed \subseteq Present /\ s.muted \subseteq Present
  BY TypedIs
<1>3. M \subseteq Present
  BY <1>2
<1>4. \A r : IsTrack(r) \in BOOLEAN
  BY DEF IsTrack
<1>5. tracks = Sort(TRUE) /\ Present \ tracks = Sort(FALSE)
  BY <1>4 DEF Sort
<1>6. \A r \in tracks : ~Special(r)
  BY DEF IsTrack, Special
<1>7. Ordinary(s.muted) = s.muted => Ordinary(M) = M
  BY <1>6 DEF Ordinary
<1>8. is_track => M \cap tracks = IF mute THEN tracks \ s.soloed ELSE tracks \cap s.soloed
  OBVIOUS
<1>9. ~is_track /\ Ordinary(s.muted) = s.muted =>
         M \cap (Present \ tracks) = IF mute THEN Ordinary((Present \ tracks) \ s.soloed) ELSE {}
  BY DEF Ordinary
<1> HIDE DEF M, u
<1>10. u \in Typed /\ u.soloed = s.soloed /\ u.soloing = s.soloing /\ u.muted = M
  BY <1>1, <1>3 DEF Typed
<1> QED BY <1>5, <1>7, <1>8, <1>9, <1>10 DEF u

LEMMA FirstIs ==
  ASSUME Had, NEW s \in Typed, NEW is_track \in BOOLEAN, s.soloed \subseteq Sort(is_track)
  PROVE  FirstSoloedIs(s, is_track) <=> s.soloed # {}
<1>1. s.soloed \subseteq Present
  BY TypedIs
<1>2. /\ Len(routes) \in Nat /\ DOMAIN routes = 1 .. Len(routes)
      /\ \A x \in Present : \E i \in 1 .. Len(routes) : routes[i] = x
  BY ListOf DEF Had, Present
<1>3. ASSUME s.soloed # {} PROVE FirstSoloedIs(s, is_track)
  <2> DEFINE N == {i \in 1 .. Len(routes) : routes[i] \in s.soloed}
  <2>1. N \in SUBSET Nat /\ N # {}
    BY <1>1, <1>2, <1>3
  <2>2. PICK i \in N : \A j \in N : i <= j
    <3> HIDE DEF N
    <3> QED BY <2>1, LeastOf
  <2>3. i \in 1 .. Len(routes) /\ routes[i] \in s.soloed
    OBVIOUS
  <2>4. \A j \in 1 .. i - 1 : routes[j] \notin s.soloed
    <3> SUFFICES ASSUME NEW j \in 1 .. i - 1, routes[j] \in s.soloed PROVE FALSE
      OBVIOUS
    <3>1. j \in 1 .. Len(routes) /\ ~(i <= j)
      BY <1>2, <2>3
    <3> QED BY <2>2, <3>1
  <2>5. IsTrack(routes[i]) = is_track
    BY <2>3 DEF Sort
  <2> QED BY <1>2, <2>3, <2>4, <2>5 DEF FirstSoloedIs
<1> QED BY <1>3 DEF FirstSoloedIs

\* Who is muted, when only the tracks, or only the busses, are soloed.
Muted(S, soloed) == IF soloed = {} THEN {} ELSE S \ soloed

LEMMA ChangedIs ==
  ASSUME Had, NEW r \in Present, NEW s \in Typed
  PROVE  LET u == RouteSoloChanged(s, r)
         IN /\ u \in Typed
            /\ u.soloed = UnsoloOthers(s, r, Kind[r] = "audio").soloed
            /\ u.soloing = (u.soloed # {})
            /\ Ordinary(s.muted) = s.muted => Ordinary(u.muted) = u.muted
            /\ Kind[r] = "audio" /\ u.soloed \subseteq Sort(TRUE)
                 => u.muted \cap Sort(TRUE) = Muted(Sort(TRUE), u.soloed)
            /\ Kind[r] # "audio" /\ u.soloed \subseteq Sort(FALSE) /\ Ordinary(s.muted) = s.muted
                 => u.muted \cap Sort(FALSE) = Ordinary(Muted(Sort(FALSE), u.soloed))
<1> DEFINE is_track == Kind[r] = "audio"
           v == UnsoloOthers(s, r, is_track)
           same == FirstSoloedIs(v, is_track)
           w == ModifySoloMute(v, is_track, same)
           soloing == Present \cap v.soloed # {}
           u == RouteSoloChanged(s, r)
<1>1. u = [w EXCEPT !.soloing = soloing]
  BY DEF RouteSoloChanged
<1>2. v \in Typed /\ v.muted = s.muted /\ v.soloed \subseteq Present
  <2>1. v \in Typed /\ v.muted = s.muted
    BY UnsoloOthersIs
  <2> HIDE DEF v
  <2> QED BY <2>1, TypedIs
<1>3. is_track \in BOOLEAN /\ soloing \in BOOLEAN /\ same \in BOOLEAN
  BY DEF FirstSoloedIs
<1> HIDE DEF is_track, v, same
<1>0. w = ModifySoloMute(v, is_track, same)
  OBVIOUS
<1> HIDE DEF w, u
<1>4. /\ w \in Typed /\ w.soloed = v.soloed
      /\ Ordinary(v.muted) = v.muted => Ordinary(w.muted) = w.muted
      /\ is_track => w.muted \cap Sort(TRUE)
                       = IF same THEN Sort(TRUE) \ v.soloed ELSE Sort(TRUE) \cap v.soloed
      /\ ~is_track /\ Ordinary(v.muted) = v.muted => w.muted \cap Sort(FALSE)
                       = IF same THEN Ordinary(Sort(FALSE) \ v.soloed) ELSE {}
  BY <1>0, <1>2, <1>3, ModifyIs, Zenon
<1>5. u \in Typed /\ u.soloed = v.soloed /\ u.muted = w.muted /\ u.soloing = (u.soloed # {})
  BY <1>1, <1>2, <1>3, <1>4 DEF Typed
<1>6. v.soloed \subseteq Sort(is_track) => (same <=> v.soloed # {})
  BY <1>2, <1>3, FirstIs DEF same
<1>7. is_track /\ v.soloed \subseteq Sort(TRUE) => w.muted \cap Sort(TRUE) = Muted(Sort(TRUE), v.soloed)
  BY <1>4, <1>6 DEF Muted
<1>8. ~is_track /\ v.soloed \subseteq Sort(FALSE) /\ Ordinary(v.muted) = v.muted
        => w.muted \cap Sort(FALSE) = Ordinary(Muted(Sort(FALSE), v.soloed))
  <2>1. Ordinary({}) = {}
    BY DEF Ordinary
  <2>2. ~is_track => is_track = FALSE
    BY <1>3
  <2> QED BY <1>4, <1>6, <2>1, <2>2 DEF Muted
<1> QED BY <1>2, <1>4, <1>5, <1>7, <1>8 DEF u, v, is_track

\* Switching r on or off.
Turned(s, r, yn) == [s EXCEPT !.soloed = IF yn THEN @ \cup {r} ELSE @ \ {r}]

LEMMA SetOneIs ==
  ASSUME Had, NEW r \in Present, NEW s \in Typed, NEW yn \in BOOLEAN
  PROVE  LET t == Turned(s, r, yn)
         IN /\ t \in Typed /\ t.muted = s.muted
            /\ t.soloed = IF yn THEN s.soloed \cup {r} ELSE s.soloed \ {r}
            /\ SetOne(s, r, yn) \in Typed
            /\ r \in soloSafe \/ (r \in s.soloed) = yn => SetOne(s, r, yn) = s
            /\ ~(r \in soloSafe \/ (r \in s.soloed) = yn) => SetOne(s, r, yn) = RouteSoloChanged(t, r)
<1> DEFINE S == IF yn THEN s.soloed \cup {r} ELSE s.soloed \ {r}
           t == Turned(s, r, yn)
<1>1. S \in SUBSET Present
  BY TypedIs
<1>2. t = [s EXCEPT !.soloed = S]
  BY DEF Turned
<1> HIDE DEF S, t
<1>3. t \in Typed /\ t.muted = s.muted /\ t.soloed = S
  BY <1>1, <1>2, TypedIs
<1>4. RouteSoloChanged(t, r) \in Typed
  BY <1>3, ChangedIs
<1>5. /\ r \in soloSafe \/ (r \in s.soloed) = yn => SetOne(s, r, yn) = s
      /\ ~(r \in soloSafe \/ (r \in s.soloed) = yn) => SetOne(s, r, yn) = RouteSoloChanged(t, r)
  BY DEF SetOne, t, Turned
<1> QED BY <1>3, <1>4, <1>5 DEF t, S

LEMMA SetStays ==
  ASSUME Had, NEW r \in Present, NEW yn \in BOOLEAN, NEW I \in SUBSET Typed, NEW s \in I,
         \A u \in I, m \in ToSet(Members(r)) : SetOne(u, m, yn) \in I
  PROVE  Set(s, r, yn) \in I
<1> DEFINE one == [m \in Routes |-> [u \in SoloState |-> SetOne(u, m, yn)]]
<1>1. Set(s, r, yn) = IF r \in soloSafe THEN s ELSE Folded(one, s, Members(r))
  BY DEF Set
<1>2. Members(r) \in Seq(Present)
  BY MembersAre
<1>3. Members(r) \in Seq(ToSet(Members(r))) /\ ToSet(Members(r)) \subseteq Present /\ Present \subseteq Routes
  BY <1>2, ListOf DEF Had
<1>4. \A u \in I, m \in ToSet(Members(r)) : one[m][u] \in I
  <2> TAKE u \in I, m \in ToSet(Members(r))
  <2>1. u \in SoloState /\ m \in Routes
    BY <1>3, TypedIs
  <2> QED BY <2>1
<1> HIDE DEF one
<1>5. Folded(one, s, Members(r)) \in I
  BY <1>3, <1>4, FoldedStays
<1> QED BY <1>1, <1>5

LEMMA SetEachStays ==
  ASSUME Had, NEW list \in Seq(Present), NEW yn \in BOOLEAN, NEW I \in SUBSET Typed, NEW s \in I,
         \A u \in I, r \in Present : Set(u, r, yn) \in I
  PROVE  SetEach(s, list, yn) \in I
<1> DEFINE one == [r \in Routes |-> [u \in SoloState |-> Set(u, r, yn)]]
<1>1. SetEach(s, list, yn) = Folded(one, s, list)
  BY DEF SetEach
<1>2. \A u \in I, r \in Present : one[r][u] \in I
  <2> TAKE u \in I, r \in Present
  <2>1. u \in SoloState /\ r \in Routes
    BY TypedIs DEF Had
  <2> QED BY <2>1
<1> HIDE DEF one
<1> QED BY <1>1, <1>2, FoldedStays

\* What the user's solo operations do to solo.
SoloOperation(yn) ==
    \/ \E r \in Present : solo' = Set(solo, r, yn)
    \/ \E list \in Seq(Present) : solo' = SetEach(solo, list, yn)

LEMMA OperationStays ==
  ASSUME Had, NEW yn \in BOOLEAN, SoloOperation(yn), NEW I \in SUBSET Typed, solo \in I,
         \A u \in I, r \in Present : Set(u, r, yn) \in I
  PROVE  solo' \in I
BY SetEachStays DEF SoloOperation

-----------------------------------------------------------------------------
(* Solo, operation by operation.                                           *)

\* m was the last to be switched, in an operation that began with s.
LastSwitched(s, u, m, yn) ==
    /\ IF yn THEN m \in u.soloed ELSE m \in s.soloed \ u.soloed /\ u.soloed \subseteq s.soloed
    /\ u.soloing = (u.soloed # {})
    /\ Kind[m] = "audio" /\ u.soloed \subseteq Sort(TRUE)
         => u.muted \cap Sort(TRUE) = Muted(Sort(TRUE), u.soloed)
    /\ Kind[m] # "audio" /\ u.soloed \subseteq Sort(FALSE)
         => u.muted \cap Sort(FALSE) = Ordinary(Muted(Sort(FALSE), u.soloed))

\* What an operation that began with s may have come to.
During(s, yn) ==
    {u \in Typed : /\ Ordinary(u.muted) = u.muted
                   /\ u = s \/ \E m \in Present : LastSwitched(s, u, m, yn)}

LEMMA SetDuring ==
  ASSUME Had, NEW r \in Present, NEW yn \in BOOLEAN, NEW s, NEW u \in During(s, yn)
  PROVE  Set(u, r, yn) \in During(s, yn)
<1> SUFFICES ASSUME NEW v \in During(s, yn), NEW m \in ToSet(Members(r))
             PROVE  SetOne(v, m, yn) \in During(s, yn)
  <2>1. During(s, yn) \in SUBSET Typed
    BY DEF During
  <2> QED BY <2>1, SetStays
<1>1. m \in Present
  <2>1. Members(r) \in Seq(Present)
    BY MembersAre
  <2> QED BY <2>1, ListOf
<1>2. v \in Typed /\ Ordinary(v.muted) = v.muted
      /\ (v = s \/ ((~yn) => v.soloed \subseteq s.soloed))
  BY DEF During, LastSwitched
<1>3. CASE m \in soloSafe \/ (m \in v.soloed) = yn
  <2>1. SetOne(v, m, yn) = v
    BY <1>3 DEF SetOne
  <2> QED BY <2>1
<1>4. CASE ~(m \in soloSafe \/ (m \in v.soloed) = yn)
  <2> DEFINE t == Turned(v, m, yn)
             w == RouteSoloChanged(t, m)
  <2>1. /\ t \in Typed /\ t.muted = v.muted
        /\ t.soloed = IF yn THEN v.soloed \cup {m} ELSE v.soloed \ {m}
        /\ SetOne(v, m, yn) = w
    BY <1>1, <1>2, <1>4, SetOneIs
  <2>2. Ordinary(t.muted) = t.muted
    BY <1>2, <2>1
  <2>3. /\ w \in Typed /\ w.soloing = (w.soloed # {})
        /\ w.soloed = UnsoloOthers(t, m, Kind[m] = "audio").soloed
        /\ Ordinary(w.muted) = w.muted
        /\ Kind[m] = "audio" /\ w.soloed \subseteq Sort(TRUE)
             => w.muted \cap Sort(TRUE) = Muted(Sort(TRUE), w.soloed)
        /\ Kind[m] # "audio" /\ w.soloed \subseteq Sort(FALSE)
             => w.muted \cap Sort(FALSE) = Ordinary(Muted(Sort(FALSE), w.soloed))
    <3> HIDE DEF t
    <3> QED BY <1>1, <2>1, <2>2, ChangedIs
  <2>4. w.soloed \subseteq t.soloed /\ t.soloed \cap ToSet(Members(m)) \subseteq w.soloed
    <3> HIDE DEF t
    <3> QED BY <1>1, <2>1, <2>3, UnsoloOthersIs
  <2>5. m \in ToSet(Members(m))
    BY <1>1, MembersAre
  <2> HIDE DEF t, w
  <2>6. IF yn THEN m \in w.soloed ELSE m \in s.soloed \ w.soloed /\ w.soloed \subseteq s.soloed
    BY <1>2, <1>4, <2>1, <2>4, <2>5
  <2>7. LastSwitched(s, w, m, yn)
    BY <2>3, <2>6 DEF LastSwitched
  <2> QED BY <1>1, <2>1, <2>3, <2>7 DEF During
<1> QED BY <1>3, <1>4

\* The master and the control outs are never muted for solo.
SpecialHeard == \A r \in solo.muted : ~Special(r)

LEMMA OperationDuring ==
  ASSUME Had, solo \in Typed, SpecialHeard, NEW yn \in BOOLEAN, SoloOperation(yn)
  PROVE  solo' \in During(solo, yn)
<1>1. Ordinary(solo.muted) = solo.muted
  BY DEF SpecialHeard, Ordinary
<1>2. solo \in During(solo, yn) /\ During(solo, yn) \in SUBSET Typed
  BY <1>1 DEF During
<1> QED BY <1>2, SetDuring, OperationStays

\* After the operation: the light, and who is muted.
LEMMA OperationShown ==
  ASSUME Had, solo \in Typed, SpecialHeard, NEW yn \in BOOLEAN, SoloOperation(yn),
         solo'.soloed # solo.soloed
  PROVE  /\ solo'.soloing = (solo'.soloed # {})
         /\ LET switched == (solo'.soloed \ solo.soloed) \cup (solo.soloed \ solo'.soloed)
            IN /\ switched \cup solo'.soloed \subseteq {r \in Present : Kind[r] = "audio"}
                    => solo'.muted \cap Sort(TRUE) = Muted(Sort(TRUE), solo'.soloed)
               /\ switched \cup solo'.soloed \subseteq Sort(FALSE)
                    => solo'.muted \cap Sort(FALSE) = Ordinary(Muted(Sort(FALSE), solo'.soloed))
<1> DEFINE switched == (solo'.soloed \ solo.soloed) \cup (solo.soloed \ solo'.soloed)
<1>1. solo' \in During(solo, yn)
  BY OperationDuring
<1>2. PICK m \in Present : LastSwitched(solo, solo', m, yn)
  BY <1>1 DEF During
<1>3. m \in switched \cup solo'.soloed
  BY <1>2 DEF LastSwitched
<1>4. ASSUME switched \cup solo'.soloed \subseteq {r \in Present : Kind[r] = "audio"}
      PROVE  solo'.muted \cap Sort(TRUE) = Muted(Sort(TRUE), solo'.soloed)
  <2>1. Kind[m] = "audio" /\ solo'.soloed \subseteq Sort(TRUE)
    BY <1>3, <1>4 DEF Sort, IsTrack
  <2> QED BY <1>2, <2>1 DEF LastSwitched
<1>5. ASSUME switched \cup solo'.soloed \subseteq Sort(FALSE)
      PROVE  solo'.muted \cap Sort(FALSE) = Ordinary(Muted(Sort(FALSE), solo'.soloed))
  <2>1. Kind[m] # "audio"
    BY <1>3, <1>5 DEF Sort, IsTrack
  <2> QED BY <1>2, <1>5, <2>1 DEF LastSwitched
<1> QED BY <1>2, <1>4, <1>5 DEF LastSwitched

\* Of r's kind only its own active group and the solo safe routes are soloed.
Exclusive(u, r) ==
    \A o \in u.soloed : IsTrack(o) = IsTrack(r) => o \in soloSafe \/ Together(o, r)

LEMMA UnsoloOthersExclusive ==
  ASSUME Had, ~latched, NEW r \in Present, NEW s \in Typed
  PROVE  Exclusive(UnsoloOthers(s, r, IsTrack(r)), r)
<1> DEFINE is_track == IsTrack(r)
           switch == [o \in Routes |-> [u \in SoloState |->
                        IF IsTrack(o) # is_track \/ Together(o, r) \/ (latched /\ o \in u.soloed)
                        THEN u ELSE Unsolo(u, o)]]
           Off(u, o) == IsTrack(o) = is_track /\ o \in u.soloed => o \in soloSafe \/ Together(o, r)
           J == [k \in 0 .. Len(routes) |-> {u \in Typed : \A i \in 1 .. k : Off(u, routes[i])}]
<1>1. UnsoloOthers(s, r, is_track) = Folded(switch, s, routes)
  BY DEF UnsoloOthers
<1>2. /\ routes \in Seq(Present) /\ Len(routes) \in Nat /\ \A i \in 1 .. Len(routes) : routes[i] \in Present
      /\ \A x \in Present : \E i \in 1 .. Len(routes) : routes[i] = x
  BY ListOf DEF Had, Present
<1>3. s \in J[0]
  <2>1. Len(routes) \in Nat
    BY <1>2
  <2> HIDE DEF Off
  <2>2. 0 \in 0 .. Len(routes) /\ \A i \in 1 .. 0 : Off(s, routes[i])
    BY <2>1
  <2> QED BY <2>2
<1>4. \A k \in 1 .. Len(routes) : \A u \in J[k - 1] : switch[routes[k]][u] \in J[k]
  <2> SUFFICES ASSUME NEW k \in 1 .. Len(routes), NEW u \in J[k - 1]
               PROVE  switch[routes[k]][u] \in J[k]
    BY Zenon
  <2> DEFINE o == routes[k]
             w == switch[o][u]
  <2>1. k - 1 \in 0 .. Len(routes) /\ k \in 0 .. Len(routes) /\ o \in Present
    <3> HIDE DEF J
    <3> QED BY <1>2
  <2>2. u \in Typed /\ \A i \in 1 .. k - 1 : Off(u, routes[i])
    <3> HIDE DEF Off
    <3> QED BY <2>1
  <2>3. o \in Routes /\ u \in SoloState
    <3> HIDE DEF o, J
    <3> QED BY <2>1, <2>2, TypedIs DEF Had
  <2>4. w = IF Switched(u, o, r, is_track) THEN Unsolo(u, o) ELSE u
    <3> HIDE DEF o, J
    <3> QED BY <2>3 DEF Switched
  <2>5. /\ Unsolo(u, o) \in Typed
        /\ Unsolo(u, o).soloed = u.soloed \ (IF o \in soloSafe THEN {} ELSE ToSet(Members(o)) \ soloSafe)
        /\ o \in ToSet(Members(o))
    <3> HIDE DEF o, J
    <3> QED BY <2>1, <2>2, UnsoloIs, MembersAre
  <2> HIDE DEF w
  <2>6. w \in Typed /\ w.soloed \subseteq u.soloed
    <3> HIDE DEF o, J
    <3> QED BY <2>2, <2>4, <2>5
  <2>7. Off(w, o)
    <3> HIDE DEF o, J
    <3> QED BY <2>4, <2>5 DEF Switched
  <2>8. \A i \in 1 .. k - 1 : Off(w, routes[i])
    <3> HIDE DEF o, J
    <3> QED BY <2>2, <2>6
  <2>9. \A i \in 1 .. k : Off(w, routes[i])
    <3>1. \A i \in 1 .. k : i = k \/ i \in 1 .. k - 1
      BY <2>1
    <3> HIDE DEF Off, J
    <3> QED BY <2>7, <2>8, <3>1
  <2>10. w \in J[k]
    <3> HIDE DEF Off
    <3> QED BY <2>1, <2>6, <2>9
  <2> HIDE DEF J
  <2> QED BY <2>10 DEF w
<1>5. Folded(switch, s, routes) \in J[Len(routes)]
  <2> HIDE DEF J, switch
  <2> QED BY <1>2, <1>3, <1>4, FoldedKeeps
<1> HIDE DEF switch
<1> DEFINE v == UnsoloOthers(s, r, is_track)
<1>6. v \in Typed /\ \A i \in 1 .. Len(routes) : Off(v, routes[i])
  <2> HIDE DEF Off, v
  <2>1. v \in J[Len(routes)]
    BY <1>1, <1>5 DEF v
  <2> QED BY <1>2, <2>1
<1>7. v.soloed \subseteq Present
  <2> HIDE DEF v
  <2> QED BY <1>6, TypedIs
<1> HIDE DEF v
<1>8. Exclusive(v, r)
  BY <1>2, <1>6, <1>7 DEF Exclusive
<1> QED BY <1>8 DEF v

LEMMA SetExclusive ==
  ASSUME Had, ~latched, NEW r \in Present, Kind[r] # "midi", NEW s \in Typed, r \notin s.soloed
  PROVE  LET u == Set(s, r, TRUE) IN r \in u.soloed => Exclusive(u, r)
<1> DEFINE I == {u \in Typed : r \in u.soloed => Exclusive(u, r)}
<1>1. I \in SUBSET Typed /\ s \in I
  OBVIOUS
<1>2. \A u \in I, m \in ToSet(Members(r)) : SetOne(u, m, TRUE) \in I
  <2> SUFFICES ASSUME NEW u \in I, NEW m \in ToSet(Members(r)) PROVE SetOne(u, m, TRUE) \in I
    BY Zenon
  <2>1. m \in Present /\ Together(m, r)
    <3>1. ToSet(Members(r)) \subseteq Present
      BY MembersAre, ListOf
    <3> QED BY <3>1, TogetherIs
  <2> DEFINE t == Turned(u, m, TRUE)
             w == RouteSoloChanged(t, m)
             o == UnsoloOthers(t, m, Kind[m] = "audio")
  <2>2. CASE m \in soloSafe \/ m \in u.soloed
    BY <2>2 DEF SetOne
  <2>3. CASE ~(m \in soloSafe \/ m \in u.soloed)
    <3>1. t \in Typed /\ t.soloed = u.soloed \cup {m} /\ SetOne(u, m, TRUE) = w
      BY <2>1, <2>3, SetOneIs
    <3>2. w \in Typed /\ w.soloed = o.soloed
      <4> HIDE DEF t
      <4> QED BY <2>1, <3>1, ChangedIs
    <3>3. o.soloed \subseteq t.soloed
      <4> HIDE DEF t
      <4> QED BY <2>1, <3>1, UnsoloOthersIs
    <3>4. CASE m = r
      <4>1. IsTrack(r) = (Kind[m] = "audio")
        BY <3>4 DEF IsTrack
      <4>2. Exclusive(o, r)
        <5> HIDE DEF t
        <5> QED BY <3>1, <3>4, <4>1, UnsoloOthersExclusive
      <4>3. Exclusive(w, r)
        BY <3>2, <4>2 DEF Exclusive
      <4> QED BY <3>1, <3>2, <4>3
    <3>5. CASE m # r
      <4>1. r \in w.soloed => r \in u.soloed
        BY <3>1, <3>2, <3>3, <3>5
      <4>2. Exclusive(u, r) => Exclusive(w, r)
        BY <2>1, <3>1, <3>2, <3>3 DEF Exclusive
      <4> HIDE DEF w
      <4> QED BY <3>1, <3>2, <4>1, <4>2
    <3> QED BY <3>4, <3>5
  <2> QED BY <2>2, <2>3
<1>3. Set(s, r, TRUE) \in I
  <2> HIDE DEF I
  <2> QED BY <1>1, <1>2, SetStays
<1> QED BY <1>3

\* With latching, soloing leaves a soloed route in no active group as it is.
LEMMA SetLatches ==
  ASSUME Had, latched, NEW r \in Present, NEW s \in Typed,
         NEW o \in s.soloed, Len(Members(o)) = 1
  PROVE  o \in Set(s, r, TRUE).soloed
<1> DEFINE I == {u \in Typed : o \in u.soloed}
<1>1. I \in SUBSET Typed /\ s \in I /\ o \in Present
  BY TypedIs
<1>2. ASSUME NEW p \in Present, o \in ToSet(Members(p)) PROVE p = o
  <2>1. Together(o, p) /\ Members(o) = Members(p) /\ p \in ToSet(Members(p))
    BY <1>1, <1>2, TogetherIs, MembersAre
  <2>2. Members(p) \in Seq(Present) /\ Len(Members(p)) = 1
    BY <2>1, MembersAre
  <2> DEFINE q == Members(p)
  <2> HIDE DEF q
  <2>3. \A x \in ToSet(q) : \E i \in 1 .. Len(q) : q[i] = x
    BY <2>2, ListOf DEF q
  <2>4. Len(q) = 1 /\ p \in ToSet(q) /\ o \in ToSet(q)
    BY <1>2, <2>1, <2>2 DEF q
  <2>5. p = q[1] /\ o = q[1]
    BY <2>3, <2>4
  <2> QED BY <2>5
<1>3. ASSUME NEW t \in I, NEW m \in Present, NEW is_track
      PROVE  UnsoloOthers(t, m, is_track) \in I
  <2> SUFFICES ASSUME NEW u \in I, NEW p \in Present, Switched(u, p, m, is_track)
               PROVE  Unsolo(u, p) \in I
    <3> HIDE DEF I
    <3> QED BY <1>1, UnsoloOthersStays
  <2>1. p # o /\ o \notin ToSet(Members(p))
    BY <1>2 DEF Switched
  <2>2. /\ Unsolo(u, p) \in Typed
        /\ Unsolo(u, p).soloed = u.soloed \ (IF p \in soloSafe THEN {} ELSE ToSet(Members(p)) \ soloSafe)
    BY UnsoloIs
  <2> QED BY <2>1, <2>2
<1>4. \A u \in I, m \in ToSet(Members(r)) : SetOne(u, m, TRUE) \in I
  <2> SUFFICES ASSUME NEW u \in I, NEW m \in ToSet(Members(r)) PROVE SetOne(u, m, TRUE) \in I
    BY Zenon
  <2>1. m \in Present
    BY MembersAre, ListOf
  <2> DEFINE t == Turned(u, m, TRUE)
  <2>2. CASE m \in soloSafe \/ m \in u.soloed
    BY <2>2 DEF SetOne
  <2>3. CASE ~(m \in soloSafe \/ m \in u.soloed)
    <3>1. t \in Typed /\ t.soloed = u.soloed \cup {m} /\ SetOne(u, m, TRUE) = RouteSoloChanged(t, m)
      BY <2>1, <2>3, SetOneIs
    <3> HIDE DEF t
    <3>2. t \in I
      BY <3>1
    <3>3. RouteSoloChanged(t, m) \in Typed
          /\ RouteSoloChanged(t, m).soloed = UnsoloOthers(t, m, Kind[m] = "audio").soloed
      BY <2>1, <3>1, ChangedIs
    <3>4. UnsoloOthers(t, m, Kind[m] = "audio") \in I
      <4> HIDE DEF I
      <4> QED BY <1>3, <2>1, <3>2
    <3> QED BY <3>1, <3>3, <3>4
  <2> QED BY <2>2, <2>3
<1>5. Set(s, r, TRUE) \in I
  <2> HIDE DEF I
  <2> QED BY <1>1, <1>4, SetStays
<1> QED BY <1>5

\* The group's members are as in s, or those not solo safe are all soloed, or none of them.
AsOne(s, u, g) ==
    LET members == ToSet(groups[g])
        lit == members \cap u.soloed
    IN lit # members \cap s.soloed => lit \ soloSafe \in {{}, members \ soloSafe}

LEMMA GroupOrNot ==
  ASSUME Had, NEW r \in Present, NEW g \in active
  PROVE  /\ r \in ToSet(groups[g]) => Members(r) = groups[g]
         /\ r \notin ToSet(groups[g]) => ToSet(Members(r)) \cap ToSet(groups[g]) = {}
<1>1. /\ Members(r) = <<r>> /\ ToSet(Members(r)) = {r} /\ r \notin ToSet(groups[g])
      \/ \E h \in active : r \in ToSet(groups[h]) /\ Members(r) = groups[h]
  BY MembersAre
<1>2. \A h \in active : g # h => ToSet(groups[g]) \cap ToSet(groups[h]) = {}
  BY DEF Had
<1> QED BY <1>1, <1>2

LEMMA ChangedAsOne ==
  ASSUME Had, NEW r \in Present, NEW g \in active, NEW s, NEW t \in Typed, AsOne(s, t, g)
  PROVE  AsOne(s, RouteSoloChanged(t, r), g)
<1> DEFINE members == ToSet(groups[g])
           I == {u \in Typed : AsOne(s, u, g)}
           v == UnsoloOthers(t, r, Kind[r] = "audio")
           w == RouteSoloChanged(t, r)
<1>1. \A u \in I, o \in Present : Switched(u, o, r, Kind[r] = "audio") => Unsolo(u, o) \in I
  <2> SUFFICES ASSUME NEW u \in I, NEW o \in Present PROVE Unsolo(u, o) \in I
    OBVIOUS
  <2>1. /\ Unsolo(u, o) \in Typed
        /\ Unsolo(u, o).soloed = u.soloed \ (IF o \in soloSafe THEN {} ELSE ToSet(Members(o)) \ soloSafe)
    BY UnsoloIs
  <2>2. Members(o) = groups[g] \/ ToSet(Members(o)) \cap members = {}
    BY GroupOrNot
  <2>3. AsOne(s, Unsolo(u, o), g)
    <3>1. CASE o \in soloSafe
      BY <2>1, <3>1 DEF AsOne
    <3>2. CASE o \notin soloSafe /\ Members(o) = groups[g]
      <4>1. (members \cap Unsolo(u, o).soloed) \ soloSafe = {}
        BY <2>1, <3>2
      <4> QED BY <4>1 DEF AsOne
    <3>3. CASE o \notin soloSafe /\ ToSet(Members(o)) \cap members = {}
      <4>1. members \cap Unsolo(u, o).soloed = members \cap u.soloed
        BY <2>1, <3>3
      <4> QED BY <4>1 DEF AsOne
    <3> QED BY <2>2, <3>1, <3>2, <3>3
  <2> QED BY <2>1, <2>3
<1>2. v \in I
  <2>1. t \in I /\ I \in SUBSET Typed
    OBVIOUS
  <2> HIDE DEF I
  <2> QED BY <1>1, <2>1, UnsoloOthersStays
<1>3. w.soloed = v.soloed
  BY ChangedIs
<1> HIDE DEF v, w
<1>4. AsOne(s, w, g)
  BY <1>2, <1>3 DEF AsOne
<1> QED BY <1>4 DEF w

\* One route of the group after the other.
LEMMA SetOneOfGroup ==
  ASSUME Had, NEW m \in Present, NEW yn \in BOOLEAN, NEW v \in Typed
  PROVE  LET w == SetOne(v, m, yn)
         IN /\ w \in Typed
            /\ m \notin soloSafe => (m \in w.soloed <=> yn)
            /\ yn => v.soloed \cap ToSet(Members(m)) \subseteq w.soloed
            /\ ~yn => w.soloed \subseteq v.soloed
<1> DEFINE t == Turned(v, m, yn)
           w == RouteSoloChanged(t, m)
<1>1. CASE m \in soloSafe \/ (m \in v.soloed) = yn
  <2>1. SetOne(v, m, yn) = v
    BY <1>1 DEF SetOne
  <2> QED BY <1>1, <2>1
<1>2. CASE ~(m \in soloSafe \/ (m \in v.soloed) = yn)
  <2>1. /\ t \in Typed /\ t.soloed = IF yn THEN v.soloed \cup {m} ELSE v.soloed \ {m}
        /\ SetOne(v, m, yn) = w
    BY <1>2, SetOneIs
  <2> HIDE DEF t
  <2>2. w \in Typed /\ w.soloed = UnsoloOthers(t, m, Kind[m] = "audio").soloed
    BY <2>1, ChangedIs
  <2>3. w.soloed \subseteq t.soloed /\ t.soloed \cap ToSet(Members(m)) \subseteq w.soloed
    BY <2>1, <2>2, UnsoloOthersIs
  <2>4. m \in ToSet(Members(m))
    BY MembersAre
  <2> HIDE DEF w
  <2> QED BY <2>1, <2>2, <2>3, <2>4
<1> QED BY <1>1, <1>2

LEMMA SetAsOne ==
  ASSUME Had, NEW r \in Present, NEW yn \in BOOLEAN, NEW g \in active, NEW s,
         NEW u \in Typed, AsOne(s, u, g)
  PROVE  Set(u, r, yn) \in Typed /\ AsOne(s, Set(u, r, yn), g)
<1> DEFINE members == ToSet(groups[g])
<1>1. CASE r \notin members
  <2> DEFINE I == {v \in Typed : AsOne(s, v, g)}
  <2>1. ASSUME NEW v \in I, NEW m \in ToSet(Members(r)) PROVE SetOne(v, m, yn) \in I
    <3>1. m \in Present /\ m \notin members
      BY <1>1, GroupOrNot, MembersAre, ListOf
    <3> DEFINE t == Turned(v, m, yn)
    <3>2. CASE m \in soloSafe \/ (m \in v.soloed) = yn
      BY <3>2 DEF SetOne
    <3>3. CASE ~(m \in soloSafe \/ (m \in v.soloed) = yn)
      <4>1. /\ t \in Typed /\ t.soloed = IF yn THEN v.soloed \cup {m} ELSE v.soloed \ {m}
            /\ SetOne(v, m, yn) = RouteSoloChanged(t, m) /\ SetOne(v, m, yn) \in Typed
        BY <3>1, <3>3, SetOneIs
      <4> HIDE DEF t
      <4>2. members \cap t.soloed = members \cap v.soloed
        BY <3>1, <4>1
      <4>3. AsOne(s, t, g)
        BY <4>2 DEF AsOne
      <4>4. AsOne(s, RouteSoloChanged(t, m), g)
        BY <3>1, <4>1, <4>3, ChangedAsOne
      <4> QED BY <4>1, <4>4
    <3> QED BY <3>2, <3>3
  <2>2. u \in I /\ I \in SUBSET Typed
    OBVIOUS
  <2>3. Set(u, r, yn) \in I
    <3> HIDE DEF I
    <3> QED BY <2>1, <2>2, SetStays
  <2> QED BY <2>3
<1>2. CASE r \in soloSafe
  BY <1>2 DEF Set
<1>3. CASE r \in members /\ r \notin soloSafe
  <2> DEFINE list == groups[g]
             one == [m \in Routes |-> [v \in SoloState |-> SetOne(v, m, yn)]]
             Done(v, m) == m \notin soloSafe => (m \in v.soloed <=> yn)
             J == [k \in 0 .. Len(list) |-> {v \in Typed : \A i \in 1 .. k : Done(v, list[i])}]
             w == Set(u, r, yn)
  <2>1. w = Folded(one, u, list)
    BY <1>3, GroupOrNot DEF Set
  <2>2. list \in Seq(Present) /\ Len(list) \in Nat
    BY DEF Had
  <2> HIDE DEF list
  <2>3. /\ \A i \in 1 .. Len(list) : list[i] \in Present /\ list[i] \in members
        /\ \A x \in members : \E i \in 1 .. Len(list) : list[i] = x
    BY <2>2, ListOf DEF list
  <2>4. \A m \in members : m \in Present => Members(m) = list
    BY GroupOrNot DEF list
  <2>5. u \in J[0]
    <3> HIDE DEF Done
    <3>1. 0 \in 0 .. Len(list) /\ \A i \in 1 .. 0 : Done(u, list[i])
      BY <2>2
    <3> QED BY <3>1
  <2>6. \A k \in 1 .. Len(list) : \A v \in J[k - 1] : one[list[k]][v] \in J[k]
    <3> SUFFICES ASSUME NEW k \in 1 .. Len(list), NEW v \in J[k - 1]
                 PROVE  one[list[k]][v] \in J[k]
      BY Zenon
    <3> DEFINE m == list[k]
               x == SetOne(v, m, yn)
    <3>1. k - 1 \in 0 .. Len(list) /\ k \in 0 .. Len(list) /\ m \in Present /\ m \in members
      <4> HIDE DEF J
      <4> QED BY <2>2, <2>3
    <3>2. v \in Typed /\ \A i \in 1 .. k - 1 : Done(v, list[i])
      <4> HIDE DEF Done
      <4> QED BY <3>1
    <3>3. one[m][v] = x
      <4> HIDE DEF J, m
      <4>1. v \in SoloState /\ m \in Routes
        BY <3>1, <3>2, TypedIs DEF Had
      <4> QED BY <4>1
    <3>4. /\ x \in Typed /\ Done(x, m)
          /\ yn => v.soloed \cap members \subseteq x.soloed
          /\ ~yn => x.soloed \subseteq v.soloed
      <4>1. ToSet(Members(m)) = members
        BY <2>4, <3>1 DEF list
      <4> HIDE DEF J, m
      <4> QED BY <3>1, <3>2, <4>1, SetOneOfGroup
    <3> HIDE DEF x
    <3>5. ASSUME NEW i \in 1 .. k PROVE Done(x, list[i])
      <4>1. CASE i = k
        BY <3>4, <4>1
      <4>2. CASE i # k
        <5>1. i \in 1 .. k - 1 /\ i \in 1 .. Len(list)
          <6> HIDE DEF J
          <6> QED BY <2>2, <4>2
        <5>2. Done(v, list[i]) /\ list[i] \in members
          BY <2>3, <3>2, <5>1
        <5> HIDE DEF J
        <5> QED BY <3>4, <5>2
      <4> QED BY <4>1, <4>2
    <3>6. x \in J[k]
      <4> HIDE DEF Done
      <4> QED BY <3>1, <3>4, <3>5
    <3> HIDE DEF J
    <3> QED BY <3>3, <3>6
  <2>7. Folded(one, u, list) \in J[Len(list)]
    <3> HIDE DEF J, one
    <3> QED BY <2>2, <2>5, <2>6, FoldedKeeps
  <2> HIDE DEF w
  <2>8. w \in Typed /\ \A i \in 1 .. Len(list) : Done(w, list[i])
    <3> HIDE DEF Done, one
    <3>1. w \in J[Len(list)]
      BY <2>1, <2>7
    <3> QED BY <2>2, <3>1
  <2>9. \A m \in members : Done(w, m)
    <3> HIDE DEF Done
    <3> QED BY <2>3, <2>8
  <2>10. (members \cap w.soloed) \ soloSafe \in {{}, members \ soloSafe}
    BY <2>9
  <2> QED BY <2>8, <2>10 DEF AsOne, w
<1> QED BY <1>1, <1>2, <1>3

-----------------------------------------------------------------------------
(* The list and its connections.                                           *)

LEMMA ConnectionsAre ==
  ASSUME TypeOK
  PROVE  /\ Connections \in SUBSET (Present \X Present)
         /\ \A w \in wires : w = <<w[1], w[2]>>
<1>1. wires \subseteq Routes \X Routes /\ \A w \in wires : {w[1], w[2]} \subseteq Present
  BY RoutesAssumption DEF TypeOK
<1>2. Control(routes) \subseteq Present /\ outs \subseteq Present
  BY DEF Control, Present, TypeOK
<1>3. \A w \in wires : w = <<w[1], w[2]>>
  BY <1>1
<1>4. wires \subseteq Present \X Present
  BY <1>1, <1>3
<1> QED BY <1>2, <1>3, <1>4 DEF Connections

\* A session with control outs has their route.
ControlKept == outs # {} => Control(routes) # {}

IInv == TypeOK /\ ControlKept /\ SpecialHeard

LEMMA InitIInv == Init => IInv
<1> SUFFICES ASSUME Init PROVE IInv
  OBVIOUS
<1>1. <<>> \in Seq(Routes) /\ ToSet(<<>>) = {} /\ IsInjective(<<>>) /\ <<>> \in Seq(Present)
  BY DEF ToSet, IsInjective
<1>2. fedBy \in [Routes -> SUBSET Routes] /\ groups \in [Groups -> Seq(Present)]
  BY <1>1 DEF Init
<1>3. \A g \in Groups : groups[g] = <<>>
  BY DEF Init
<1> QED BY <1>1, <1>2, <1>3 DEF Init, IInv, TypeOK, ControlKept, SpecialHeard

LEMMA UpdateIs ==
  ASSUME Had, NEW s \in Typed, Ordinary(s.muted) = s.muted
  PROVE  LET u == UpdateRouteSoloState(s)
         IN u \in Typed /\ Ordinary(u.muted) = u.muted
<1> DEFINE mute == Present \cap s.soloed # {}
           is_track == FirstSoloedIs(s, TRUE)
           t == [s EXCEPT !.soloing = mute]
           u == UpdateRouteSoloState(s)
<1>1. mute \in BOOLEAN /\ is_track \in BOOLEAN
  BY DEF FirstSoloedIs
<1>2. t \in Typed /\ t.muted = s.muted
  BY <1>1 DEF Typed
<1>3. u = IF ~mute THEN [t EXCEPT !.muted = @ \ Present] ELSE ModifySoloMute(t, is_track, mute)
  BY DEF UpdateRouteSoloState
<1> HIDE DEF t, is_track, u
<1>4. CASE ~mute
  <2>1. u = [t EXCEPT !.muted = @ \ Present]
    BY <1>3, <1>4
  <2>2. u \in Typed /\ u.muted = t.muted \ Present
    BY <1>2, <2>1 DEF Typed
  <2>3. Ordinary(u.muted) = u.muted
    BY <1>2, <2>2 DEF Ordinary
  <2> QED BY <2>2, <2>3 DEF u
<1>5. CASE mute
  <2>1. u = ModifySoloMute(t, is_track, mute)
    BY <1>3, <1>5
  <2> HIDE DEF mute
  <2>2. ModifySoloMute(t, is_track, mute) \in Typed
        /\ (Ordinary(t.muted) = t.muted =>
              Ordinary(ModifySoloMute(t, is_track, mute).muted) = ModifySoloMute(t, is_track, mute).muted)
    BY <1>1, <1>2, ModifyIs, Zenon
  <2>3. u \in Typed /\ Ordinary(u.muted) = u.muted
    BY <1>2, <2>1, <2>2
  <2> QED BY <2>3 DEF u
<1> QED BY <1>4, <1>5

\* What a resort publishes has the routes it was given.
LEMMA PublishIs ==
  ASSUME TypeOK, NEW list \in Seq(Routes), IsInjective(list),
         NEW edges \in SUBSET (ToSet(list) \X ToSet(list)), Publish(list, edges)
  PROVE  /\ routes' \in Seq(Routes) /\ IsInjective(routes')
         /\ fedBy' \in [Routes -> SUBSET Routes] /\ running' \in BOOLEAN
         /\ running' => Present' = ToSet(list)
         /\ ~running' => routes' = routes /\ fedBy' = fedBy /\ HasLongLoop(ToSet(list), edges)
         /\ ~HasFeedback(ToSet(list), edges) =>
               /\ running'
               /\ \A r \in ToSet(list) : fedBy'[r] = Upstream(ToSet(list), edges)[r] \ {r}
               /\ \A z \in ToSet(list) : Upstream(ToSet(list), edges)[z] = ToSet(list) => Last(routes') = z
<1> DEFINE sorted == Resorted(list, edges, fedBy)
<1>1. fedBy \in [Routes -> SUBSET Routes] /\ routes \in Seq(Routes) /\ IsInjective(routes)
  BY DEF TypeOK
<1>2. /\ sorted.fedBy \in [Routes -> SUBSET Routes] /\ sorted.returns \in BOOLEAN
      /\ ~HasLongLoop(ToSet(list), edges) => sorted.returns
      /\ ~HasFeedback(ToSet(list), edges) =>
            \A r \in ToSet(list) : sorted.fedBy[r] = Upstream(ToSet(list), edges)[r] \ {r}
  <2>1. FeedsRight(list, edges, Resorted(list, edges, fedBy))
    BY <1>1, ResortedFeeds
  <2> QED BY <2>1 DEF FeedsRight
<1>3. /\ sorted.list \in Seq(Routes) /\ IsInjective(sorted.list) /\ ToSet(sorted.list) = ToSet(list)
      /\ ~HasFeedback(ToSet(list), edges) =>
            \A z \in ToSet(list) : Upstream(ToSet(list), edges)[z] = ToSet(list) => Last(sorted.list) = z
  <2>1. ListRight(list, edges, Resorted(list, edges, fedBy).list)
    BY <1>1, ResortedList
  <2> QED BY <2>1 DEF ListRight
<1>4. ~HasFeedback(ToSet(list), edges) => ~HasLongLoop(ToSet(list), edges)
  BY FeedbackShort
<1>5. IF sorted.returns
      THEN routes' = sorted.list /\ fedBy' = sorted.fedBy /\ running' = TRUE
      ELSE routes' = routes /\ fedBy' = fedBy /\ running' = FALSE
  BY DEF Publish
<1> HIDE DEF sorted
<1>6. CASE sorted.returns
  <2>1. routes' = sorted.list /\ fedBy' = sorted.fedBy /\ running' = TRUE
    BY <1>5, <1>6
  <2>2. Present' = ToSet(list)
    BY <1>3, <2>1 DEF Present
  <2> QED BY <1>2, <1>3, <2>1, <2>2
<1>7. CASE ~sorted.returns
  <2>1. routes' = routes /\ fedBy' = fedBy /\ running' = FALSE
    BY <1>5, <1>7
  <2> QED BY <1>1, <1>2, <1>4, <1>7, <2>1
<1> QED BY <1>6, <1>7

LEMMA AppendedIs ==
  ASSUME TypeOK, NEW r \in Routes \ Present
  PROVE  /\ Append(routes, r) \in Seq(Routes) /\ IsInjective(Append(routes, r))
         /\ ToSet(Append(routes, r)) = Present \cup {r}
<1> DEFINE list == Append(routes, r)
           L == Len(routes)
<1>1. /\ routes \in Seq(Routes) /\ L \in Nat /\ DOMAIN routes = 1 .. L /\ IsInjective(routes)
      /\ Present = {routes[i] : i \in 1 .. L}
  BY DEF TypeOK, Present, ToSet
<1>2. list \in Seq(Routes) /\ DOMAIN list = 1 .. L + 1 /\ list[L + 1] = r
      /\ \A i \in 1 .. L : list[i] = routes[i]
  BY <1>1
<1> HIDE DEF list, L
<1>3. ToSet(list) = Present \cup {r}
  <2>1. ToSet(list) = {list[i] : i \in 1 .. L + 1}
    BY <1>2 DEF ToSet
  <2>2. 1 .. L + 1 = (1 .. L) \cup {L + 1}
    BY <1>1
  <2>3. ToSet(list) = {list[i] : i \in 1 .. L} \cup {r}
    BY <1>2, <2>1, <2>2
  <2>4. {list[i] : i \in 1 .. L} = Present
    BY <1>1, <1>2
  <2> QED BY <2>3, <2>4
<1>4. IsInjective(list)
  <2> SUFFICES ASSUME NEW i \in 1 .. L + 1, NEW j \in 1 .. L + 1, list[i] = list[j] PROVE i = j
    BY <1>2 DEF IsInjective
  <2>1. \A k \in 1 .. L + 1 : k # L + 1 => k \in 1 .. L /\ list[k] \in Present
    BY <1>1, <1>2
  <2>2. i = L + 1 <=> j = L + 1
    BY <1>2, <2>1
  <2>3. i # L + 1 => routes[i] = routes[j] /\ i \in DOMAIN routes /\ j \in DOMAIN routes
    BY <1>1, <1>2, <2>1, <2>2
  <2> QED BY <1>1, <2>2, <2>3 DEF IsInjective
<1> QED BY <1>2, <1>3, <1>4 DEF list

-----------------------------------------------------------------------------
(* Types.                                                                  *)

LEMMA AddRouteKeeps ==
  ASSUME IInv, NEW r \in Routes, AddRoute(r)
  PROVE  IInv'
<1> DEFINE list == Append(routes, r)
           connected == running' /\ ~Special(r) /\ Control(routes) # {}
<1>1. TypeOK /\ ControlKept /\ SpecialHeard /\ r \in Routes \ Present
  BY DEF IInv, AddRoute
<1>2. list \in Seq(Routes) /\ IsInjective(list) /\ ToSet(list) = Present \cup {r}
  BY <1>1, AppendedIs
<1> HIDE DEF list
<1>3. Publish(list, Connections) /\ Connections \in SUBSET (ToSet(list) \X ToSet(list))
  <2>1. Connections \in SUBSET (Present \X Present)
    BY <1>1, ConnectionsAre
  <2> QED BY <1>2, <2>1 DEF AddRoute, list
<1>4. /\ routes' \in Seq(Routes) /\ IsInjective(routes') /\ fedBy' \in [Routes -> SUBSET Routes]
      /\ running' \in BOOLEAN
      /\ running' => Present' = ToSet(list)
      /\ ~running' => routes' = routes
  BY <1>1, <1>2, <1>3, PublishIs
<1>5. Present \subseteq Present' /\ (running' => r \in Present')
  BY <1>2, <1>4 DEF Present
<1>6. outs' = (IF connected THEN outs \cup {r} ELSE outs) /\ reordered' = (reordered \/ connected)
  BY DEF AddRoute
<1>7. UNCHANGED <<wires, solo, soloSafe, latched, groups, active>>
  BY DEF AddRoute
<1>8. groups' \in [Groups -> Seq(Present')]
  BY <1>1, <1>5, <1>7 DEF TypeOK
<1>9. outs' \subseteq {o \in Present' : ~Special(o)}
  BY <1>1, <1>5, <1>6 DEF TypeOK
<1>10. reordered' \in BOOLEAN
  BY <1>1, <1>6 DEF TypeOK
<1>11. TypeOK'
  BY <1>1, <1>4, <1>5, <1>7, <1>8, <1>9, <1>10 DEF TypeOK
<1>12. Control(routes) \subseteq Control(routes)'
  BY <1>5 DEF Control, Present
<1>13. ControlKept'
  BY <1>1, <1>6, <1>12 DEF ControlKept
<1> QED BY <1>1, <1>7, <1>11, <1>13 DEF IInv, SpecialHeard

LEMMA RemoveRouteKeeps ==
  ASSUME IInv, NEW r \in Routes, RemoveRoute(r)
  PROVE  IInv'
<1> DEFINE u == UpdateRouteSoloState(solo)
           off == IF Kind[r] = "control" THEN outs ELSE outs \cap {r}
<1>1. TypeOK /\ ControlKept /\ SpecialHeard /\ r \in Present /\ Had /\ solo \in Typed
  BY StateHad DEF IInv, RemoveRoute
<1>2. /\ routes' = Without(routes, r) /\ wires' = wires \ {w \in wires : r \in {w[1], w[2]}}
      /\ outs' = outs \ off /\ solo' = [u EXCEPT !.soloed = @ \ {r}, !.muted = @ \ {r}]
      /\ fedBy' = [fedBy EXCEPT ![r] = {}] /\ soloSafe' = soloSafe \ {r}
      /\ groups' = [g \in Groups |-> Without(groups[g], r)]
      /\ UNCHANGED <<latched, active, running>>
      /\ reordered' = (reordered \/ {w \in wires : r \in {w[1], w[2]}} \cup off # {})
  BY DEF RemoveRoute
<1>3. routes' \in Seq(Routes) /\ IsInjective(routes') /\ Present' = Present \ {r}
  <2> DEFINE q == Without(routes, r)
  <2>1. routes \in Seq(Routes) /\ IsInjective(routes)
    BY <1>1 DEF TypeOK
  <2>2. q \in Seq(Routes) /\ IsInjective(q) /\ ToSet(q) = ToSet(routes) \ {r}
    BY <2>1, WithoutIs
  <2>3. routes' = q
    BY <1>2
  <2> HIDE DEF q
  <2> QED BY <2>2, <2>3 DEF Present
<1>4. u \in Typed /\ Ordinary(u.muted) = u.muted
  BY <1>1, UpdateIs DEF SpecialHeard, Ordinary
<1> HIDE DEF u
<1>5. /\ solo' \in [soloed : SUBSET Present', muted : SUBSET Present', soloing : BOOLEAN]
      /\ solo'.muted \subseteq u.muted
  BY <1>2, <1>3, <1>4 DEF Typed
<1>6. ASSUME NEW g \in Groups
      PROVE  /\ groups'[g] \in Seq(Present') /\ IsInjective(groups'[g])
             /\ ToSet(groups'[g]) \subseteq ToSet(groups[g])
  <2> DEFINE q == Without(groups[g], r)
  <2>1. q \in Seq(Present) /\ IsInjective(q) /\ ToSet(q) = ToSet(groups[g]) \ {r}
    BY <1>1, WithoutIs DEF TypeOK
  <2>2. groups'[g] = q
    BY <1>2
  <2> HIDE DEF q
  <2>3. q \in Seq(ToSet(q)) /\ ToSet(q) \subseteq Present'
    BY <1>3, <2>1, ListOf
  <2> QED BY <2>1, <2>2, <2>3
<1>7. groups' \in [Groups -> Seq(Present')]
  BY <1>2, <1>6
<1>8. \A g, h \in Groups : g # h => ToSet(groups'[g]) \cap ToSet(groups'[h]) = {}
  BY <1>1, <1>6 DEF TypeOK
<1>9. wires' \subseteq MayFeed /\ \A w \in wires' : {w[1], w[2]} \subseteq Present'
  BY <1>1, <1>2, <1>3 DEF TypeOK
<1>10. outs' \subseteq {o \in Present' : ~Special(o)}
  BY <1>1, <1>2, <1>3 DEF TypeOK, Special
<1>11. reordered' \in BOOLEAN /\ fedBy' \in [Routes -> SUBSET Routes] /\ soloSafe' \subseteq Present'
  BY <1>1, <1>2, <1>3 DEF TypeOK
<1>12. TypeOK'
  BY <1>1, <1>2, <1>3, <1>5, <1>6, <1>7, <1>8, <1>9, <1>10, <1>11 DEF TypeOK
<1>13. ControlKept'
  <2>1. Kind[r] = "control" => outs' = {}
    BY <1>2
  <2>2. Kind[r] # "control" => Control(routes)' = Control(routes)
    BY <1>3 DEF Control, Present
  <2> QED BY <1>1, <1>2, <2>1, <2>2 DEF ControlKept
<1> QED BY <1>4, <1>5, <1>12, <1>13 DEF IInv, SpecialHeard, Ordinary

\* What changes solo, and nothing else, keeps its type.
LEMMA OperationKeeps ==
  ASSUME IInv, NEW yn \in BOOLEAN, SoloOperation(yn),
         UNCHANGED <<routes, wires, outs, fedBy, reordered, soloSafe, latched, groups, active, running>>
  PROVE  IInv'
<1>1. TypeOK /\ ControlKept /\ SpecialHeard /\ Had /\ solo \in Typed
  BY StateHad DEF IInv
<1>2. solo' \in Typed /\ Ordinary(solo'.muted) = solo'.muted
  <2>1. solo' \in During(solo, yn)
    BY <1>1, OperationDuring
  <2> QED BY <2>1 DEF During
<1>3. SpecialHeard'
  BY <1>2 DEF SpecialHeard, Ordinary
<1>4. Present' = Present /\ Control(routes)' = Control(routes)
  BY DEF Present, Control
<1>5. TypeOK'
  BY <1>1, <1>2, <1>4 DEF TypeOK, Typed
<1> QED BY <1>1, <1>3, <1>4, <1>5 DEF IInv, ControlKept

\* The steps of the user's solo operations.
LEMMA SoloSteps ==
  ASSUME TypeOK, NEW yn \in BOOLEAN,
         \/ \E r \in Routes : SetSolo(r, yn)
         \/ SetAllSolo(yn)
         \/ \E g \in Groups : SetGroupSolo(g, yn)
  PROVE  /\ SoloOperation(yn)
         /\ UNCHANGED <<routes, wires, outs, fedBy, reordered, soloSafe, latched, groups, active, running>>
<1>1. routes \in Seq(Present) /\ \A g \in Groups : groups[g] \in Seq(Present)
  BY ListOf DEF TypeOK, Present
<1>2. ASSUME NEW r \in Routes, SetSolo(r, yn) PROVE SoloOperation(yn)
  BY <1>2 DEF SetSolo, SoloOperation
<1>3. ASSUME SetAllSolo(yn) PROVE SoloOperation(yn)
  BY <1>1, <1>3 DEF SetAllSolo, SoloOperation
<1>4. ASSUME NEW g \in Groups, SetGroupSolo(g, yn) PROVE SoloOperation(yn)
  BY <1>1, <1>4 DEF SetGroupSolo, SoloOperation
<1> QED BY <1>2, <1>3, <1>4 DEF SetSolo, SetAllSolo, SetGroupSolo

LEMMA SetMixGroupKeeps ==
  ASSUME IInv, NEW r \in Routes, NEW into \in SUBSET Groups, SetMixGroup(r, into)
  PROVE  IInv'
<1>1. TypeOK /\ ControlKept /\ SpecialHeard /\ r \in Present
  BY DEF IInv, SetMixGroup
<1>2. /\ groups' = [g \in Groups |-> IF g \in into THEN Append(groups[g], r) ELSE Without(groups[g], r)]
      /\ UNCHANGED <<routes, wires, outs, fedBy, reordered, solo, soloSafe, latched, active, running>>
      /\ into # {g \in Groups : Contains(groups[g], r)} /\ \A g, h \in into : g = h
  BY DEF SetMixGroup
<1>3. \A g \in Groups : groups[g] \in Seq(Present) /\ (Contains(groups[g], r) <=> r \in ToSet(groups[g]))
  BY <1>1, ListOf DEF TypeOK
<1>4. ASSUME NEW g \in into PROVE r \notin ToSet(groups[g]) /\ g \in Groups
  <2>1. into = {g}
    BY <1>2
  <2>2. r \in ToSet(groups[g]) => {h \in Groups : Contains(groups[h], r)} = {g}
    BY <1>1, <1>3 DEF TypeOK
  <2> QED BY <1>2, <2>1, <2>2
<1>5. ASSUME NEW g \in Groups
      PROVE  /\ groups'[g] \in Seq(Present) /\ IsInjective(groups'[g])
             /\ ToSet(groups'[g]) = IF g \in into THEN ToSet(groups[g]) \cup {r} ELSE ToSet(groups[g]) \ {r}
  <2>1. CASE g \in into
    <3> DEFINE q == Append(groups[g], r)
               L == Len(groups[g])
    <3>1. groups'[g] = q
      BY <1>2, <2>1
    <3>2. /\ groups[g] \in Seq(Present) /\ L \in Nat /\ IsInjective(groups[g]) /\ DOMAIN groups[g] = 1 .. L
          /\ ToSet(groups[g]) = {groups[g][i] : i \in 1 .. L} /\ r \notin ToSet(groups[g])
      BY <1>1, <1>3, <1>4, <2>1 DEF TypeOK, ToSet
    <3>3. q \in Seq(Present) /\ DOMAIN q = 1 .. L + 1 /\ q[L + 1] = r
          /\ \A i \in 1 .. L : q[i] = groups[g][i]
      BY <1>1, <3>2
    <3> HIDE DEF q, L
    <3>4. ToSet(q) = ToSet(groups[g]) \cup {r}
      <4>1. ToSet(q) = {q[i] : i \in 1 .. L + 1}
        BY <3>3 DEF ToSet
      <4>2. 1 .. L + 1 = (1 .. L) \cup {L + 1}
        BY <3>2
      <4>3. ToSet(q) = {q[i] : i \in 1 .. L} \cup {r}
        BY <3>3, <4>1, <4>2
      <4>4. {q[i] : i \in 1 .. L} = {groups[g][i] : i \in 1 .. L}
        BY <3>3
      <4> QED BY <3>2, <4>3, <4>4
    <3>5. IsInjective(q)
      <4> SUFFICES ASSUME NEW i \in 1 .. L + 1, NEW j \in 1 .. L + 1, q[i] = q[j] PROVE i = j
        BY <3>3 DEF IsInjective
      <4>1. \A k \in 1 .. L + 1 : k # L + 1 => k \in 1 .. L /\ q[k] \in ToSet(groups[g])
        BY <3>2, <3>3
      <4>2. i = L + 1 <=> j = L + 1
        BY <3>2, <3>3, <4>1
      <4>3. i # L + 1 => groups[g][i] = groups[g][j] /\ i \in DOMAIN groups[g] /\ j \in DOMAIN groups[g]
        BY <3>2, <3>3, <4>1, <4>2
      <4> QED BY <3>2, <4>2, <4>3 DEF IsInjective
    <3> QED BY <2>1, <3>1, <3>3, <3>4, <3>5
  <2>2. CASE g \notin into
    <3>1. groups'[g] = Without(groups[g], r)
      BY <1>2, <2>2
    <3> QED BY <1>1, <2>2, <3>1, WithoutIs DEF TypeOK
  <2> QED BY <2>1, <2>2
<1>6. groups' \in [Groups -> Seq(Present)]
  BY <1>2, <1>5
<1>7. \A g, h \in Groups : g # h => ToSet(groups'[g]) \cap ToSet(groups'[h]) = {}
  <2> SUFFICES ASSUME NEW g \in Groups, NEW h \in Groups, g # h
               PROVE  ToSet(groups'[g]) \cap ToSet(groups'[h]) = {}
    OBVIOUS
  <2>1. ToSet(groups[g]) \cap ToSet(groups[h]) = {}
    BY <1>1 DEF TypeOK
  <2>2. ~(g \in into /\ h \in into)
    BY <1>2
  <2> QED BY <1>5, <2>1, <2>2
<1>8. Present' = Present /\ Control(routes)' = Control(routes)
  BY <1>2 DEF Present, Control
<1>9. TypeOK'
  BY <1>1, <1>2, <1>5, <1>6, <1>7, <1>8 DEF TypeOK
<1> QED BY <1>1, <1>2, <1>8, <1>9 DEF IInv, ControlKept, SpecialHeard

LEMMA NextKeeps == IInv /\ [Next]_vars => IInv'
<1> SUFFICES ASSUME IInv, [Next]_vars PROVE IInv'
  OBVIOUS
<1>1. TypeOK /\ ControlKept /\ SpecialHeard
  BY DEF IInv
<1>2. ASSUME NEW r \in Routes, AddRoute(r) \/ RemoveRoute(r) PROVE IInv'
  BY <1>2, AddRouteKeeps, RemoveRouteKeeps
<1>3. ASSUME NEW a \in Routes, NEW b \in Routes, Rewire(a, b) PROVE IInv'
  <2>1. Present' = Present /\ Control(routes)' = Control(routes)
    BY <1>3 DEF Rewire, Present, Control
  <2>2. wires' \subseteq MayFeed /\ \A w \in wires' : {w[1], w[2]} \subseteq Present'
    BY <1>1, <1>3, <2>1 DEF Rewire, TypeOK
  <2>3. TypeOK'
    BY <1>1, <1>3, <2>1, <2>2 DEF Rewire, TypeOK
  <2> QED BY <1>1, <1>3, <2>1, <2>3 DEF Rewire, IInv, ControlKept, SpecialHeard
<1>4. ASSUME GraphReordered PROVE IInv'
  <2>1. routes \in Seq(Routes) /\ IsInjective(routes) /\ ToSet(routes) = Present
    BY <1>1 DEF TypeOK, Present
  <2>2. Publish(routes, Connections) /\ Connections \in SUBSET (ToSet(routes) \X ToSet(routes))
    BY <1>1, <1>4, <2>1, ConnectionsAre DEF GraphReordered
  <2>3. /\ routes' \in Seq(Routes) /\ IsInjective(routes')
        /\ fedBy' \in [Routes -> SUBSET Routes] /\ running' \in BOOLEAN
        /\ running' => Present' = ToSet(routes)
        /\ ~running' => routes' = routes
    BY <1>1, <2>1, <2>2, PublishIs
  <2>4. Present' = Present
    BY <2>1, <2>3 DEF Present
  <2>5. Control(routes)' = Control(routes)
    BY <2>4 DEF Control, Present
  <2>6. reordered' = FALSE /\ UNCHANGED <<wires, outs, solo, soloSafe, latched, groups, active>>
    BY <1>4 DEF GraphReordered
  <2>7. TypeOK'
    BY <1>1, <2>3, <2>4, <2>6 DEF TypeOK
  <2> QED BY <1>1, <2>5, <2>6, <2>7 DEF IInv, ControlKept, SpecialHeard
<1>5. ASSUME NEW yn \in BOOLEAN,
             \/ \E r \in Routes : SetSolo(r, yn)
             \/ SetAllSolo(yn)
             \/ \E g \in Groups : SetGroupSolo(g, yn)
      PROVE  IInv'
  BY <1>1, <1>5, SoloSteps, OperationKeeps
<1>6. ASSUME NEW r \in Routes, SetSoloSafe(r) PROVE IInv'
  <2>1. Present' = Present /\ Control(routes)' = Control(routes)
    BY <1>6 DEF SetSoloSafe, Present, Control
  <2> QED BY <1>1, <1>6, <2>1 DEF SetSoloSafe, TypeOK, IInv, ControlKept, SpecialHeard
<1>7. ASSUME SetLatched PROVE IInv'
  <2>1. Present' = Present /\ Control(routes)' = Control(routes)
    BY <1>7 DEF SetLatched, Present, Control
  <2> QED BY <1>1, <1>7, <2>1 DEF SetLatched, TypeOK, IInv, ControlKept, SpecialHeard
<1>8. ASSUME NEW r \in Routes, NEW into \in SUBSET Groups, SetMixGroup(r, into) PROVE IInv'
  BY <1>8, SetMixGroupKeeps
<1>9. ASSUME NEW g \in Groups, SetActive(g) PROVE IInv'
  <2>1. Present' = Present /\ Control(routes)' = Control(routes)
    BY <1>9 DEF SetActive, Present, Control
  <2> QED BY <1>1, <1>9, <2>1 DEF SetActive, TypeOK, IInv, ControlKept, SpecialHeard
<1>10. ASSUME UNCHANGED vars PROVE IInv'
  <2>1. Present' = Present /\ Control(routes)' = Control(routes)
    BY <1>10 DEF vars, Present, Control
  <2> QED BY <1>1, <1>10, <2>1 DEF vars, TypeOK, IInv, ControlKept, SpecialHeard
<1> QED BY <1>2, <1>3, <1>4, <1>5, <1>6, <1>7, <1>8, <1>9, <1>10 DEF Next, NextList, NextSolo

-----------------------------------------------------------------------------
(* The order.                                                              *)

\* A node without edges is in nobody's way.
LEMMA UpstreamMore ==
  ASSUME NEW nodes, NEW more, nodes \subseteq more, NEW edges \in SUBSET (nodes \X nodes),
         NEW n \in nodes
  PROVE  Upstream(more, edges)[n] = Upstream(nodes, edges)[n]
<1>1. edges \in SUBSET (more \X more)
  OBVIOUS
<1>2. /\ n \in more /\ n \in Upstream(nodes, edges)[n] /\ Closed(Upstream(nodes, edges)[n], edges)
      /\ Upstream(nodes, edges)[n] \in SUBSET nodes /\ Upstream(nodes, edges)[n] \in SUBSET more
  BY UpstreamHas, UpstreamClosed
<1>3. Upstream(more, edges)[n] \subseteq Upstream(nodes, edges)[n]
  BY <1>2, UpstreamLeast
<1>4. n \in Upstream(more, edges)[n] /\ Closed(Upstream(more, edges)[n], edges)
  BY <1>1, <1>2, UpstreamHas, UpstreamClosed
<1>5. Upstream(nodes, edges)[n] \subseteq Upstream(more, edges)[n]
  BY <1>2, <1>3, <1>4, UpstreamLeast
<1> QED BY <1>3, <1>5

LEMMA UpstreamAlone ==
  ASSUME NEW more, NEW edges, NEW n \in more, \A e \in edges : e[2] # n
  PROVE  Upstream(more, edges)[n] = {n}
<1>1. Closed({n}, edges) /\ {n} \in SUBSET more
  BY DEF Closed
<1>2. Upstream(more, edges)[n] \subseteq {n}
  BY <1>1, UpstreamLeast
<1> QED BY <1>2, UpstreamHas

LEMMA LoopsMore ==
  ASSUME NEW nodes, NEW more, nodes \subseteq more, NEW edges \in SUBSET (nodes \X nodes)
  PROVE  /\ HasFeedback(more, edges) => HasFeedback(nodes, edges)
         /\ HasLongLoop(more, edges) => HasLongLoop(nodes, edges)
<1>1. /\ \A n \in nodes : Upstream(more, edges)[n] = Upstream(nodes, edges)[n]
      /\ \A n \in more \ nodes : Upstream(more, edges)[n] = {n}
      /\ \A n \in nodes : Upstream(nodes, edges)[n] \in SUBSET nodes
  <2>1. \A n \in nodes : Upstream(nodes, edges)[n] \in SUBSET nodes
    BY UpstreamHas
  <2>2. ASSUME NEW n \in nodes PROVE Upstream(more, edges)[n] = Upstream(nodes, edges)[n]
    BY UpstreamMore
  <2>3. ASSUME NEW n \in more \ nodes PROVE Upstream(more, edges)[n] = {n}
    <3>1. \A e \in edges : e[2] # n
      OBVIOUS
    <3> QED BY <3>1, UpstreamAlone
  <2> QED BY <2>1, <2>2, <2>3
<1>2. HasFeedback(more, edges) => HasFeedback(nodes, edges)
  <2> SUFFICES ASSUME NEW a \in more, NEW b \in more, a # b,
                      a \in Upstream(more, edges)[b], b \in Upstream(more, edges)[a]
               PROVE  HasFeedback(nodes, edges)
    BY DEF HasFeedback
  <2>1. a \in nodes /\ b \in nodes
    BY <1>1
  <2> QED BY <1>1, <2>1 DEF HasFeedback
<1>3. HasLongLoop(more, edges) => HasLongLoop(nodes, edges)
  <2> SUFFICES ASSUME NEW a \in more, NEW b \in more, NEW c \in more, Cardinality({a, b, c}) = 3,
                      a \in Upstream(more, edges)[b], b \in Upstream(more, edges)[c],
                      c \in Upstream(more, edges)[a]
               PROVE  HasLongLoop(nodes, edges)
    BY DEF HasLongLoop
  <2>1. CASE b \notin nodes \/ c \notin nodes \/ a \notin nodes
    <3>1. a = b /\ b = c
      BY <1>1, <2>1
    <3>2. {a, b, c} = {a}
      BY <3>1
    <3>3. Cardinality({a}) = 1
      BY FS_Singleton
    <3>4. Cardinality({a, b, c}) = 1
      BY <3>2, <3>3, Zenon
    <3> QED BY <3>4
  <2>2. CASE a \in nodes /\ b \in nodes /\ c \in nodes
    BY <1>1, <2>2 DEF HasLongLoop
  <2> QED BY <2>1, <2>2
<1> QED BY <1>2, <1>3

\* What the session knows of the order.
Ordered == IInv /\ FedByIsClosure /\ LongLoopsOnly

LEMMA AddRouteOrders ==
  ASSUME Ordered, NEW r \in Routes, AddRoute(r)
  PROVE  FedByIsClosure' /\ LongLoopsOnly'
<1> DEFINE list == Append(routes, r)
           edges == Connections
           connected == running' /\ ~Special(r) /\ Control(routes) # {}
<1>1. IInv /\ TypeOK /\ ControlKept /\ r \in Routes \ Present
  BY DEF Ordered, IInv, AddRoute
<1>2. list \in Seq(Routes) /\ IsInjective(list) /\ ToSet(list) = Present \cup {r}
  BY <1>1, AppendedIs
<1>3. edges \in SUBSET (Present \X Present)
  BY <1>1, ConnectionsAre
<1>4. Publish(list, edges)
  BY DEF AddRoute
<1> HIDE DEF list, edges
<1>5. edges \in SUBSET (ToSet(list) \X ToSet(list))
  BY <1>2, <1>3
<1>6. /\ running' => Present' = ToSet(list)
      /\ ~running' => routes' = routes /\ HasLongLoop(ToSet(list), edges)
      /\ ~HasFeedback(ToSet(list), edges) =>
            \A o \in ToSet(list) : fedBy'[o] = Upstream(ToSet(list), edges)[o] \ {o}
  BY <1>1, <1>2, <1>4, <1>5, PublishIs
<1>7. /\ outs' = (IF connected THEN outs \cup {r} ELSE outs) /\ wires' = wires
      /\ reordered' = (reordered \/ connected)
  BY DEF AddRoute
<1>8. FedByIsClosure'
  <2> SUFFICES ASSUME Sorted', ~HasFeedback(Present', Connections')
               PROVE  \A o \in Present' : fedBy'[o] = Upstream(Present', Connections')[o] \ {o}
    BY DEF FedByIsClosure
  <2>1. running' /\ ~connected /\ Present' = ToSet(list)
    BY <1>6, <1>7 DEF Sorted
  <2>2. outs # {} => Control(routes)' = Control(routes)
    <3> SUFFICES ASSUME outs # {} PROVE Control(routes)' = Control(routes)
      OBVIOUS
    <3>1. PICK c \in Present : Kind[c] = "control"
      BY <1>1 DEF ControlKept, Control, Present
    <3>2. c \in Routes /\ c # r
      BY <1>1, ListOf DEF TypeOK, Present
    <3>3. Kind[r] # "control"
      BY <1>1, <3>1, <3>2, RoutesAssumption
    <3> QED BY <1>2, <2>1, <3>3 DEF Control, Present
  <2>3. Connections' = edges
    BY <1>7, <2>1, <2>2 DEF Connections, edges
  <2> QED BY <1>6, <2>1, <2>3
<1>9. LongLoopsOnly'
  <2> SUFFICES ASSUME ~running' PROVE HasLongLoop(Present', Connections')
    BY DEF LongLoopsOnly
  <2>1. routes' = routes /\ outs' = outs
    BY <1>6, <1>7
  <2>2. Present' = Present /\ Connections' = edges
    BY <1>7, <2>1 DEF Present, Connections, edges, Control
  <2>3. HasLongLoop(Present, edges)
    BY <1>2, <1>3, <1>6, LoopsMore
  <2> QED BY <2>2, <2>3
<1> QED BY <1>8, <1>9

LEMMA RemoveRouteOrders ==
  ASSUME Ordered, NEW r \in Routes, RemoveRoute(r)
  PROVE  FedByIsClosure' /\ LongLoopsOnly'
<1> DEFINE off == IF Kind[r] = "control" THEN outs ELSE outs \cap {r}
           edges == Connections
<1>1. TypeOK /\ FedByIsClosure /\ r \in Present /\ running
  BY DEF Ordered, IInv, RemoveRoute
<1>2. /\ routes' = Without(routes, r) /\ wires' = wires \ {w \in wires : r \in {w[1], w[2]}}
      /\ outs' = outs \ off /\ fedBy' = [fedBy EXCEPT ![r] = {}] /\ running' = running
      /\ reordered' = (reordered \/ {w \in wires : r \in {w[1], w[2]}} \cup off # {})
  BY DEF RemoveRoute
<1>3. Present' = Present \ {r}
  <2> DEFINE q == Without(routes, r)
  <2>1. routes \in Seq(Routes) /\ IsInjective(routes)
    BY <1>1 DEF TypeOK
  <2>2. ToSet(q) = ToSet(routes) \ {r}
    BY <2>1, WithoutIs
  <2>3. routes' = q
    BY <1>2
  <2> HIDE DEF q
  <2> QED BY <2>2, <2>3 DEF Present
<1>4. ASSUME Sorted', ~HasFeedback(Present', Connections'), NEW o \in Present'
      PROVE  fedBy'[o] = Upstream(Present', Connections')[o] \ {o}
  <2>1. ~reordered /\ off = {} /\ \A w \in wires : r \notin {w[1], w[2]}
    BY <1>1, <1>2, <1>4 DEF Sorted, TypeOK
  <2>2. wires' = wires /\ outs' = outs
    BY <1>2, <2>1
  <2>3. Kind[r] = "control" => outs = {}
    BY <2>1
  <2>4. r \notin outs
    BY <2>1 DEF Special
  <2>5. Kind[r] # "control" => Control(routes)' = Control(routes)
    BY <1>3 DEF Control, Present
  <2>6. Connections' = edges
    BY <2>2, <2>3, <2>5 DEF Connections
  <2>7. edges \in SUBSET (Present \X Present) /\ \A w \in wires : w = <<w[1], w[2]>>
    BY <1>1, ConnectionsAre
  <2>8. Kind[r] # "control" => r \notin Control(routes)
    BY DEF Control
  <2>9. edges \in SUBSET (Present' \X Present')
    <3>1. wires \subseteq Present' \X Present'
      BY <1>3, <2>1, <2>7 DEF Connections
    <3>2. outs \X Control(routes) \subseteq Present' \X Present'
      BY <1>3, <2>3, <2>4, <2>7, <2>8 DEF Connections
    <3> QED BY <3>1, <3>2 DEF Connections
  <2> HIDE DEF edges
  <2>10. ~HasFeedback(Present, edges) /\ Upstream(Present, edges)[o] = Upstream(Present', edges)[o]
    <3> DEFINE nodes == Present \ {r}
    <3>1. nodes \subseteq Present /\ edges \in SUBSET (nodes \X nodes) /\ o \in nodes
          /\ Present' = nodes /\ ~HasFeedback(nodes, edges)
      BY <1>3, <1>4, <2>6, <2>9
    <3> HIDE DEF nodes
    <3>2. ~HasFeedback(Present, edges)
      BY <3>1, LoopsMore
    <3>3. Upstream(Present, edges)[o] = Upstream(nodes, edges)[o]
      BY <3>1, UpstreamMore
    <3> QED BY <3>1, <3>2, <3>3
  <2>11. fedBy[o] = Upstream(Present, edges)[o] \ {o} /\ fedBy'[o] = fedBy[o]
    BY <1>1, <1>2, <1>3, <1>4, <2>1, <2>10 DEF FedByIsClosure, Sorted, edges, TypeOK
  <2> QED BY <2>6, <2>10, <2>11
<1>5. FedByIsClosure'
  BY <1>4 DEF FedByIsClosure
<1> QED BY <1>1, <1>2, <1>5 DEF LongLoopsOnly

\* A resort of the list for the connections there are.
LEMMA GraphReorderedOrders ==
  ASSUME TypeOK, GraphReordered
  PROVE  /\ FedByIsClosure' /\ LongLoopsOnly'
         /\ ~HasFeedback(Present, Connections) =>
               \A z \in Present : Upstream(Present, Connections)[z] = Present => Last(routes') = z
<1>1. routes \in Seq(Routes) /\ IsInjective(routes) /\ ToSet(routes) = Present
  BY DEF TypeOK, Present
<1>2. Publish(routes, Connections) /\ Connections \in SUBSET (ToSet(routes) \X ToSet(routes))
  BY <1>1, ConnectionsAre DEF GraphReordered
<1>3. /\ running' => Present' = ToSet(routes)
      /\ ~running' => routes' = routes /\ HasLongLoop(ToSet(routes), Connections)
      /\ ~HasFeedback(ToSet(routes), Connections) =>
            /\ \A r \in ToSet(routes) : fedBy'[r] = Upstream(ToSet(routes), Connections)[r] \ {r}
            /\ \A z \in ToSet(routes) :
                  Upstream(ToSet(routes), Connections)[z] = ToSet(routes) => Last(routes') = z
  BY <1>1, <1>2, PublishIs
<1>4. running' \in BOOLEAN
  BY <1>1, <1>2, PublishIs
<1>5. Present' = Present
  BY <1>1, <1>3, <1>4 DEF Present
<1>6. Connections' = Connections
  BY <1>5 DEF Connections, Control, Present, GraphReordered
<1> QED BY <1>1, <1>3, <1>5, <1>6 DEF FedByIsClosure, LongLoopsOnly

LEMMA OrderKept == Ordered /\ [Next]_vars => Ordered'
<1> SUFFICES ASSUME Ordered, [Next]_vars PROVE Ordered'
  OBVIOUS
<1>1. IInv /\ TypeOK /\ FedByIsClosure /\ LongLoopsOnly /\ IInv'
  BY NextKeeps DEF Ordered, IInv
<1>2. ASSUME NEW r \in Routes, AddRoute(r) \/ RemoveRoute(r) PROVE FedByIsClosure' /\ LongLoopsOnly'
  BY <1>2, AddRouteOrders, RemoveRouteOrders
<1>3. ASSUME NEW a \in Routes, NEW b \in Routes, Rewire(a, b) PROVE FedByIsClosure' /\ LongLoopsOnly'
  BY <1>3 DEF Rewire, FedByIsClosure, LongLoopsOnly, Sorted
<1>4. ASSUME GraphReordered PROVE FedByIsClosure' /\ LongLoopsOnly'
  BY <1>1, <1>4, GraphReorderedOrders
<1>5. ASSUME NextSolo \/ UNCHANGED vars PROVE FedByIsClosure' /\ LongLoopsOnly'
  <2>1. UNCHANGED <<routes, wires, outs, fedBy, reordered, running>>
    BY <1>5 DEF NextSolo, SetSolo, SetAllSolo, SetGroupSolo, SetSoloSafe, SetLatched, SetMixGroup,
                SetActive, vars
  <2>2. Present' = Present /\ Connections' = Connections /\ Sorted' = Sorted
    BY <2>1 DEF Present, Connections, Control, Sorted
  <2> QED BY <1>1, <2>1, <2>2 DEF FedByIsClosure, LongLoopsOnly
<1> QED BY <1>1, <1>2, <1>3, <1>4, <1>5 DEF Next, NextList, Ordered

LEMMA InitOrdered == Init => Ordered
<1> SUFFICES ASSUME Init PROVE Ordered
  OBVIOUS
<1>1. Present = {}
  BY DEF Init, Present, ToSet
<1> QED BY <1>1, InitIInv DEF Init, Ordered, FedByIsClosure, LongLoopsOnly

\* A step that solos or unsolos someone without a change of the list is an operation of the user.
LEMMA SoloStepIs ==
  ASSUME TypeOK, [Next]_vars, SoloStep
  PROVE  \E yn \in BOOLEAN : SoloOperation(yn)
<1>1. solo' # solo /\ routes' = routes
  BY DEF SoloStep
<1>2. ASSUME NEW r \in Routes, RemoveRoute(r) PROVE FALSE
  <2>1. routes \in Seq(Routes) /\ IsInjective(routes) /\ r \in ToSet(routes) /\ routes' = Without(routes, r)
    BY <1>2 DEF TypeOK, RemoveRoute, Present
  <2> QED BY <1>1, <2>1, WithoutIs
<1>3. \/ \E r \in Routes, yn \in BOOLEAN : SetSolo(r, yn)
      \/ \E yn \in BOOLEAN : SetAllSolo(yn)
      \/ \E g \in Groups, yn \in BOOLEAN : SetGroupSolo(g, yn)
  BY <1>1, <1>2 DEF Next, NextList, NextSolo, AddRoute, Rewire, GraphReordered, SetSoloSafe,
                    SetLatched, SetMixGroup, SetActive, vars
<1> QED BY <1>3, SoloSteps

-----------------------------------------------------------------------------
(* The theorems.                                                           *)

\* Whatever the user adds, removes, connects, groups and solos, the session only knows of
\* routes it has: remove_route() (session.cc:2025) leaves nothing behind in the connections,
\* the control outs, the solo state or the mix groups, and a route is in one group at most.
THEOREM TypeCorrect == Spec => []TypeOK
<1>1. IInv => TypeOK
  BY DEF IInv
<1> QED BY <1>1, InitIInv, NextKeeps, PTL DEF Spec

LEMMA OrderInvariant == Spec => []Ordered
BY InitOrdered, OrderKept, PTL DEF Spec

\* However many routes there are and whatever their connections, when there is no feedback
\* and the graph order callback has been delivered, fed_by is the transitive closure of the
\* connections: trace_terminal() (session.cc:1368) reaches every route upstream, although it
\* stops at a loop of two and marks no route twice.
THEOREM FedByClosed == Spec => []FedByIsClosure
<1>1. Ordered => FedByIsClosure
  BY DEF Ordered
<1> QED BY <1>1, OrderInvariant, PTL

\* trace_terminal() (session.cc:1368) overflows the stack only when three routes or more feed
\* each other in a circle: without such a loop every call returns, whatever the connections.
THEOREM OnlyLongLoops == Spec => []LongLoopsOnly
<1>1. Ordered => LongLoopsOnly
  BY DEF Ordered
<1> QED BY <1>1, OrderInvariant, PTL

\* list::sort with a comparison that is no strict weak order (RouteSorter, session.cc:1345)
\* still puts the route that all others feed last, of every list in every order.
THEOREM SinkComesLast == Spec => SinkLast
<1>1. ASSUME TypeOK, [Next]_vars, reordered, ~reordered', ~HasFeedback(Present, Connections)
      PROVE  \A z \in Present : Upstream(Present, Connections)[z] = Present => Last(routes') = z
  <2>1. GraphReordered
    BY <1>1 DEF Next, NextList, NextSolo, AddRoute, RemoveRoute, Rewire, SetSolo, SetAllSolo,
                SetGroupSolo, SetSoloSafe, SetLatched, SetMixGroup, SetActive, vars
  <2> QED BY <1>1, <2>1, GraphReorderedOrders
<1>2. TypeOK /\ [Next]_vars =>
        [reordered /\ ~reordered' /\ ~HasFeedback(Present, Connections)
           => \A z \in Present : Upstream(Present, Connections)[z] = Present => Last(routes') = z]_vars
  BY <1>1
<1> QED BY <1>2, TypeCorrect, PTL DEF Spec, SinkLast

LEMMA Invariance == Spec => []IInv
BY InitIInv, NextKeeps, PTL DEF Spec

\* The solo light tells the truth after every operation, also those that switch many routes
\* one after the other while each is carried out on the list (route_solo_changed,
\* session.cc:2111).
THEOREM SoloLightRight == Spec => SoloingShown
<1>1. ASSUME IInv, [Next]_vars, SoloStep PROVE solo'.soloing = (solo'.soloed # {})
  <2>1. Had /\ solo \in Typed /\ SpecialHeard /\ solo'.soloed # solo.soloed
    BY <1>1, StateHad DEF IInv, SoloStep
  <2>2. PICK yn \in BOOLEAN : SoloOperation(yn)
    BY <1>1, SoloStepIs DEF IInv
  <2> QED BY <2>1, <2>2, OperationShown
<1>2. IInv /\ [Next]_vars => [SoloStep => solo'.soloing = (solo'.soloed # {})]_vars
  BY <1>1
<1> QED BY <1>2, Invariance, PTL DEF Spec, SoloingShown

\* Without latching, soloing a route leaves soloed, of its kind, only its own active group
\* and the solo safe: the first loop of route_solo_changed() (session.cc:2129) over the list
\* while it changes what it looks at, again for each member of the group.
THEOREM SoloingExcludes == Spec => SoloExclusive
<1>1. ASSUME TypeOK, ~latched, NEW r \in Routes, r \in solo'.soloed, r \notin solo.soloed,
             Kind[r] # "midi", SetSolo(r, TRUE), NEW o \in solo'.soloed, IsTrack(o) = IsTrack(r)
      PROVE  o \in soloSafe \/ Members(o) = Members(r)
  <2>1. r \in Present /\ solo' = Set(solo, r, TRUE) /\ Had /\ solo \in Typed
    BY <1>1, StateHad DEF SetSolo
  <2>2. Exclusive(solo', r)
    BY <1>1, <2>1, SetExclusive
  <2>3. o \in Present
    <3>1. SoloOperation(TRUE)
      BY <2>1 DEF SoloOperation
    <3>2. solo' \in Typed
      <4>1. \A u \in Typed, p \in Present : Set(u, p, TRUE) \in Typed
        <5> TAKE u \in Typed, p \in Present
        <5>1. \A v \in Typed, m \in ToSet(Members(p)) : SetOne(v, m, TRUE) \in Typed
          <6>1. ToSet(Members(p)) \subseteq Present
            BY <2>1, MembersAre, ListOf
          <6> QED BY <2>1, <6>1, SetOneIs
        <5> QED BY <2>1, <5>1, SetStays
      <4> QED BY <2>1, <4>1
    <3> QED BY <1>1, <2>1, <3>2, TypedIs
  <2> QED BY <1>1, <2>1, <2>2, <2>3, TogetherIs DEF Exclusive
<1>2. ASSUME TypeOK, ~latched, NEW r \in solo'.soloed \ solo.soloed, SetSolo(r, TRUE) PROVE r \in Routes
  <2>1. r \in Present
    BY <1>2 DEF SetSolo
  <2> QED BY <1>2, <2>1, StateHad DEF Had
<1>3. TypeOK =>
        [SoloStep /\ ~latched =>
          \A r \in {n \in solo'.soloed \ solo.soloed : Kind[n] # "midi"} :
             SetSolo(r, TRUE) =>
                \A o \in solo'.soloed :
                   IsTrack(o) = IsTrack(r) => o \in soloSafe \/ Members(o) = Members(r)]_vars
  BY <1>1, <1>2
<1> QED BY <1>3, TypeCorrect, PTL DEF SoloExclusive

\* With latching, soloing one route never switches off another that is in no active group
\* (route_solo_changed, session.cc:2159), through whatever group the new one is in.
THEOREM LatchingKeeps == Spec => LatchKeeps
<1>1. ASSUME TypeOK, latched, NEW o \in solo.soloed, o \notin solo'.soloed, Len(Members(o)) = 1,
             NEW r \in Routes, SetSolo(r, TRUE)
      PROVE  FALSE
  <2>1. r \in Present /\ solo' = Set(solo, r, TRUE) /\ Had /\ solo \in Typed
    BY <1>1, StateHad DEF SetSolo
  <2> QED BY <1>1, <2>1, SetLatches
<1>2. TypeOK =>
        [latched /\ SoloStep =>
          \A o \in solo.soloed \ solo'.soloed :
             Len(Members(o)) = 1 => \A r \in Routes : ~SetSolo(r, TRUE)]_vars
  BY <1>1
<1> QED BY <1>2, TypeCorrect, PTL DEF LatchKeeps

\* No operation leaves an active group soloed in part, the solo safe members aside, unless it
\* did not touch it: the members follow each other through RouteGroup::apply
\* (route_group.h:79), also when they are switched off for the sake of another route.
THEOREM GroupsSoloTogether == Spec => GroupSolosTogether
<1>1. ASSUME TypeOK, [Next]_vars, SoloStep, NEW g \in active PROVE AsOne(solo, solo', g)
  <2>1. Had /\ solo \in Typed
    BY <1>1, StateHad
  <2>2. PICK yn \in BOOLEAN : SoloOperation(yn)
    BY <1>1, SoloStepIs
  <2> DEFINE I == {u \in Typed : AsOne(solo, u, g)}
  <2>3. solo \in I /\ I \in SUBSET Typed
    BY <2>1 DEF AsOne
  <2>4. \A u \in I, r \in Present : Set(u, r, yn) \in I
    BY <2>1, SetAsOne
  <2>5. solo' \in I
    <3> HIDE DEF I
    <3> QED BY <2>1, <2>2, <2>3, <2>4, OperationStays
  <2> QED BY <2>5
<1>2. TypeOK /\ [Next]_vars =>
        [SoloStep =>
          \A g \in active :
             LET members == ToSet(groups[g])
                 lit == members \cap solo'.soloed
             IN lit # members \cap solo.soloed =>
                   lit \ soloSafe \in {{}, members \ soloSafe}]_vars
  BY <1>1 DEF AsOne
<1> QED BY <1>2, TypeCorrect, PTL DEF Spec, GroupSolosTogether

\* "soloing a track mutes all other tracks, soloing a bus mutes all other busses"
\* (session.cc:2133; modify_solo_mute, session.cc:2265), and unsoloing the last one mutes nobody; the master
\* and the control outs are never muted for solo.
THEOREM SoloingMutes == Spec => SoloMutes
<1> DEFINE switched == (solo'.soloed \ solo.soloed) \cup (solo.soloed \ solo'.soloed)
           all(sort) == switched \cup solo'.soloed \subseteq sort
           muted(sort) == IF solo'.soloed = {} THEN {} ELSE sort \ solo'.soloed
           audio == {r \in Present : Kind[r] = "audio"}
           tracks == {r \in Present : IsTrack(r)}
           busses == Present \ tracks
<1>1. ASSUME IInv, [Next]_vars, SoloStep
      PROVE  /\ all(audio) => solo'.muted \cap tracks = muted(tracks)
             /\ all(busses) => solo'.muted \cap busses = {r \in muted(busses) : ~Special(r)}
  <2>1. Had /\ solo \in Typed /\ SpecialHeard /\ solo'.soloed # solo.soloed
    BY <1>1, StateHad DEF IInv, SoloStep
  <2>2. PICK yn \in BOOLEAN : SoloOperation(yn)
    BY <1>1, SoloStepIs DEF IInv
  <2>3. tracks = Sort(TRUE) /\ busses = Sort(FALSE)
    BY DEF Sort, IsTrack
  <2>4. /\ all(audio) => solo'.muted \cap Sort(TRUE) = Muted(Sort(TRUE), solo'.soloed)
        /\ all(Sort(FALSE)) => solo'.muted \cap Sort(FALSE) = Ordinary(Muted(Sort(FALSE), solo'.soloed))
    BY <2>1, <2>2, OperationShown
  <2> QED BY <2>3, <2>4 DEF Muted, Ordinary
<1>2. IInv /\ [Next]_vars =>
        [SoloStep => /\ all(audio) => solo'.muted \cap tracks = muted(tracks)
                     /\ all(busses) => solo'.muted \cap busses = {r \in muted(busses) : ~Special(r)}]_vars
  BY <1>1
<1> QED BY <1>2, Invariance, PTL DEF Spec, SoloMutes
=============================================================================
