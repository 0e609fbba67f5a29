----------------------------- MODULE RouteGraph -----------------------------
(***************************************************************************)
(* The order in which a Session runs its routes (libs/ardour/session.cc,   *)
(* resort_routes_using): who feeds whom is read off the connections, closed*)
(* over the routes in between by trace_terminal(), and the list is sorted  *)
(* with RouteSorter.                                                       *)
(*                                                                         *)
(* A list of routes is a sequence; connections are pairs <<from, to>>;     *)
(* fedBy[r] is Route::fed_by of r.                                         *)
(***************************************************************************)
EXTENDS Naturals, Sequences, FiniteSets, SequencesExt

CONSTANTS
    Routes,     \* the routes there may be
    Key,        \* Route::order_key ("signal") of each, set by the mixer
    Address     \* the routes as std::set<shared_ptr<Route>> orders them

ASSUME GraphAssumption ==
    /\ IsFiniteSet(Routes)
    /\ Key \in [Routes -> Nat]
    /\ Address \in Seq(Routes) /\ ToSet(Address) = Routes

\* The elements of seq in turn: step[x] says what x makes of a state.
Folded(step, base, seq) ==
    LET upto[k \in 0 .. Len(seq)] == IF k = 0 THEN base ELSE step[seq[k]][upto[k - 1]]
    IN upto[Len(seq)]

\* A set that has, with each node, those with an edge to it.
Closed(S, edges) == \A e \in edges : e[2] \in S => e[1] \in S

\* Of each node, those with a way to it, and itself.
Upstream(nodes, edges) ==
    [n \in nodes |-> {o \in nodes : \A S \in SUBSET nodes : n \in S /\ Closed(S, edges) => o \in S}]

\* Some node gets back what it sends, through others: a, b, a.
HasFeedback(nodes, edges) ==
    LET upstream == Upstream(nodes, edges)
    IN \E a, b \in nodes : a # b /\ a \in upstream[b] /\ b \in upstream[a]

\* Three nodes or more are all upstream of each other.
HasLongLoop(nodes, edges) ==
    LET upstream == Upstream(nodes, edges)
    IN \E a, b, c \in nodes :
          Cardinality({a, b, c}) = 3 /\ a \in upstream[b] /\ b \in upstream[c] /\ c \in upstream[a]

\* A path of calls longer than this has met a route twice with nothing learnt since.
MaxDepth == Cardinality(Routes) * (Cardinality(Routes) + 1) + 1

\* fed_by cleared and filled from the connections; a route that feeds itself is ignored.
DirectFeeds(list, connections, fedBy) ==
    [r \in Routes |->
        IF Contains(list, r) THEN {o \in ToSet(list) \ {r} : <<o, r>> \in connections}
        ELSE fedBy[r]]

\* Mutant: loops of two routes are not noticed.
FeedbackUnseen(fedBy, r1, r2) == FALSE

\* "feedback loop detection": each is fed by the other.
Feedback(fedBy, r1, r2) == r2 \in fedBy[r1] /\ r1 \in fedBy[r2]

\* fed_by of every route, and whether every call so far has returned.
Trace == [fedBy : [Routes -> SUBSET Routes], returns : BOOLEAN]

\* rbase->fed_by.insert (r2)
Marked(u, rbase, r2) == [u EXCEPT !.fedBy[rbase] = @ \cup {r2}]

\* For each route that feeds r1 in turn: it feeds rbase, and what feeds it is looked at one
\* call deeper.
Visits(deeper, rbase, r1, s) ==
    [r2 \in Routes |-> [u \in Trace |->
        LET marked == Marked(u, rbase, r2)
        IN IF r2 \notin s.fedBy[r1] THEN u
           ELSE IF r2 = rbase \/ Feedback(marked.fedBy, r1, r2) \/ ~u.returns THEN marked
           ELSE deeper[r2][marked]]]

\* Mutant: the routes that feed the routes that feed rbase are not marked.
TraceTerminalShallow(t, rbase) == t

\* trace_terminal (rbase, rbase): everything that feeds a route that feeds rbase
\* feeds rbase.  trace[depth][r1] is a call with room for that many more on the stack.
TraceTerminal(t, rbase) ==
    LET trace[depth \in 0 .. MaxDepth] ==
          [r1 \in Routes |-> [s \in Trace |->
             IF depth = 0 THEN [s EXCEPT !.returns = FALSE]
             ELSE IF Feedback(s.fedBy, r1, rbase) THEN s
             ELSE Folded(Visits(trace[depth - 1], rbase, r1, s), s, Address)]]
    IN trace[MaxDepth][rbase][t]

\* Mutant: the connections are left to the order keys.
RouteSorterByKey(fedBy, r1, r2) == Key[r1] < Key[r2]

\* RouteSorter: does r1 go in front of r2?
RouteSorter(fedBy, r1, r2) ==
    IF r2 \in fedBy[r1] THEN FALSE
    ELSE IF r1 \in fedBy[r2] THEN TRUE
    ELSE IF fedBy[r1] = {} /\ fedBy[r2] # {} THEN TRUE
    ELSE Key[r1] < Key[r2]

\* list::merge of the C++ library: b's front goes ahead of a's when it is the smaller.
ListMerge(fedBy, a, b) ==
    LET Lists == [a : Seq(Routes), b : Seq(Routes), done : Seq(Routes)]
        merge == [n \in Nat |-> [m \in Lists |->
          IF m.b # <<>> /\ (m.a = <<>> \/ RouteSorter(fedBy, Head(m.b), Head(m.a)))
          THEN [m EXCEPT !.b = Tail(@), !.done = Append(@, Head(m.b))]
          ELSE [m EXCEPT !.a = Tail(@), !.done = Append(@, Head(m.a))]]]
    IN Folded(merge, [a |-> a, b |-> b, done |-> <<>>], [n \in 1 .. Len(a) + Len(b) |-> n]).done

\* list::sort of the C++ library: a merge sort whose k-th bin is empty or holds 2^(k-1)
\* elements.  RouteSorter is not a strict weak order, so how it sorts matters.
ListSort(fedBy, list) ==
    LET onto == [bin \in Seq(Routes) |-> [c \in Seq(Routes) |-> ListMerge(fedBy, bin, c)]]
        carry == [r \in Routes |-> [bins \in Seq(Seq(Routes)) |->
          LET full == {k \in DOMAIN bins : \A l \in 1 .. k : bins[l] # <<>>}
              n == Cardinality(full)
          IN [k \in 1 .. (IF n = Len(bins) THEN n + 1 ELSE Len(bins)) |->
                IF k <= n THEN <<>>
                ELSE IF k = n + 1 THEN Folded(onto, <<r>>, SubSeq(bins, 1, n))
                ELSE bins[k]]]]
    IN Folded(onto, <<>>, Folded(carry, <<>>, list))

\* resort_routes_using(): the list in its new order, the closed fed_by, and whether the
\* recursion came back at all.
Resorted(list, connections, fedBy) ==
    LET traced == [r \in Routes |-> [u \in Trace |-> TraceTerminal(u, r)]]
        t == Folded(traced, [fedBy |-> DirectFeeds(list, connections, fedBy), returns |-> TRUE], list)
    IN [list |-> ListSort(t.fedBy, list), fedBy |-> t.fedBy, returns |-> t.returns]
=============================================================================
