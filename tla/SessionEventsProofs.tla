------------------------- MODULE SessionEventsProofs -------------------------
(***************************************************************************)
(* For any types of events, frames and lengths of the queue: it stays in   *)
(* order, next_event is the first event that is due, and no event is there *)
(* twice.                                                                  *)
(***************************************************************************)
EXTENDS SessionEvents, EventQueueProofs

-----------------------------------------------------------------------------
(* Lists of events.                                                        *)

Queues == [events : Seq(Events), next : Nat, imm : Seq(Events), frame : Frames]

InOrder(s) == \A i, j \in DOMAIN s : i <= j => s[i].at <= s[j].at

\* The types that are replaced; there is never a second event of one of these.
Alone == {"PunchIn", "PunchOut", "AutoLoop", "StopOnce"}

Once(s) == \A i, j \in DOMAIN s :
              s[i].type = s[j].type /\ i # j => s[i].type \notin Alone /\ s[i].at # s[j].at

EventList(s) == s \in Seq(Events) /\ InOrder(s) /\ Once(s)

\* ev is an event that s may take.
Welcome(s, ev) == \A i \in DOMAIN s : s[i].type = ev.type => ev.type \notin Alone /\ s[i].at # ev.at

LEMMA EventTimes == \A ev \in Events : ev.at \in Nat /\ ev.at \in Frames /\ ev.at # 0
  BY FramesAssumption DEF Events, Immediate

LEMMA SplicedList ==
  ASSUME NEW s, EventList(s), NEW ev \in Events, Welcome(s, ev),
         NEW B \in SUBSET DOMAIN s, \A j \in B : \A i \in 1 .. j : i \in B,
         \A j \in DOMAIN s : IF j \in B THEN s[j].at <= ev.at ELSE ev.at <= s[j].at
  PROVE  EventList(Spliced(s, B, ev)) /\ Len(Spliced(s, B, ev)) = Len(s) + 1
<1> DEFINE t == Spliced(s, B, ev)
           k == Cardinality(B)
<1>1. s \in Seq(Events)
  BY DEF EventList
<1>2. /\ t \in Seq(Events) /\ Len(t) = Len(s) + 1
      /\ k \in 0 .. Len(s) /\ B = 1 .. k
      /\ \A i \in DOMAIN t : /\ i <= k => t[i] = s[i]
                             /\ i = k + 1 => t[i] = ev
                             /\ i > k + 1 => t[i] = s[i - 1]
  BY <1>1, SplicedAt
<1> HIDE DEF t, k
<1>3. \A i \in DOMAIN t : \/ i \in 1 .. k /\ i \in DOMAIN s /\ t[i] = s[i] /\ s[i].at <= ev.at
                          \/ i = k + 1 /\ t[i] = ev
                          \/ i \in k + 2 .. Len(t) /\ i - 1 \in DOMAIN s /\ t[i] = s[i - 1]
                             /\ ev.at <= s[i - 1].at
  <2> TAKE i \in DOMAIN t
  <2>1. i \in 1 .. Len(s) + 1 /\ DOMAIN s = 1 .. Len(s) /\ k \in Nat
    BY <1>1, <1>2
  <2>2. CASE i <= k
    BY <1>2, <2>1, <2>2
  <2>3. CASE i = k + 1
    BY <1>2, <2>3
  <2>4. CASE i > k + 1
    <3>1. i - 1 \in DOMAIN s /\ i - 1 \notin B
      BY <1>2, <2>1, <2>4
    <3> QED BY <1>2, <2>1, <2>4, <3>1
  <2> QED BY <2>1, <2>2, <2>3, <2>4
<1>4. /\ ev.at \in Nat /\ k \in Nat
      /\ \A i \in DOMAIN s : s[i].at \in Nat /\ i \in Nat
  BY <1>1, <1>2, EventTimes
<1>5. InOrder(t)
  <2> SUFFICES ASSUME NEW i \in DOMAIN t, NEW j \in DOMAIN t, i <= j PROVE t[i].at <= t[j].at
    BY DEF InOrder
  <2>1. \A m, n \in DOMAIN s : m <= n => s[m].at <= s[n].at
    BY DEF EventList, InOrder
  <2>2. i \in Nat /\ j \in Nat
    BY <1>2
  <2>3. CASE i \in 1 .. k
    BY <1>3, <1>4, <2>1, <2>2, <2>3
  <2>4. CASE i = k + 1
    BY <1>3, <1>4, <2>1, <2>2, <2>4
  <2>5. CASE i \in k + 2 .. Len(t)
    BY <1>3, <1>4, <2>1, <2>2, <2>5
  <2> QED BY <1>3, <2>3, <2>4, <2>5
<1>6. Once(t)
  <2> SUFFICES ASSUME NEW i \in DOMAIN t, NEW j \in DOMAIN t, t[i].type = t[j].type, i # j
               PROVE  t[i].type \notin Alone /\ t[i].at # t[j].at
    BY DEF Once
  <2>1. \A m, n \in DOMAIN s :
           s[m].type = s[n].type /\ m # n => s[m].type \notin Alone /\ s[m].at # s[n].at
    BY DEF EventList, Once
  <2>2. \A m \in DOMAIN s : s[m].type = ev.type => ev.type \notin Alone /\ s[m].at # ev.at
    BY DEF Welcome
  <2>3. i \in Nat /\ j \in Nat
    BY <1>2
  <2>4. CASE i \in 1 .. k
    BY <1>3, <1>4, <2>1, <2>2, <2>3, <2>4
  <2>5. CASE i = k + 1
    BY <1>3, <1>4, <2>1, <2>2, <2>3, <2>5
  <2>6. CASE i \in k + 2 .. Len(t)
    <3>1. i - 1 \in DOMAIN s /\ t[i] = s[i - 1]
      BY <1>3, <1>4, <2>6
    <3>2. CASE j \in 1 .. k
      BY <1>3, <1>4, <2>1, <2>3, <2>6, <3>1, <3>2
    <3>3. CASE j = k + 1
      BY <1>3, <1>4, <2>2, <2>3, <3>1, <3>3
    <3>4. CASE j \in k + 2 .. Len(t)
      <4>1. j - 1 \in DOMAIN s /\ t[j] = s[j - 1] /\ i - 1 # j - 1
        BY <1>3, <1>4, <2>3, <3>4
      <4> QED BY <2>1, <3>1, <4>1
    <3> QED BY <1>3, <3>2, <3>3, <3>4
  <2> QED BY <1>3, <2>4, <2>5, <2>6
<1> QED BY <1>2, <1>5, <1>6 DEF EventList, t

LEMMA InsertedList ==
  ASSUME NEW s, EventList(s), NEW ev \in Events, Welcome(s, ev)
  PROVE  EventList(Inserted(s, ev)) /\ Len(Inserted(s, ev)) = Len(s) + 1
<1> DEFINE B == {i \in DOMAIN s : s[i].at < ev.at}
<1>1. s \in Seq(Events) /\ ev.at \in Nat /\ \A i \in DOMAIN s : s[i].at \in Nat /\ i \in Nat
  BY EventTimes DEF EventList
<1>2. \A j \in B : \A i \in 1 .. j : i \in B
  <2> TAKE j \in B
  <2> TAKE i \in 1 .. j
  <2>1. i \in DOMAIN s /\ i <= j /\ j \in DOMAIN s
    BY <1>1
  <2>2. s[i].at <= s[j].at
    BY <2>1 DEF EventList, InOrder
  <2> QED BY <1>1, <2>1, <2>2
<1>3. \A j \in DOMAIN s : IF j \in B THEN s[j].at <= ev.at ELSE ev.at <= s[j].at
  BY <1>1
<1>4. B \in SUBSET DOMAIN s
  OBVIOUS
<1>5. Inserted(s, ev) = Spliced(s, B, ev)
  BY DEF Inserted
<1> HIDE DEF B
<1> QED BY <1>2, <1>3, <1>4, <1>5, SplicedList

LEMMA WithoutList ==
  ASSUME NEW s, EventList(s), NEW i \in DOMAIN s
  PROVE  EventList(Without(s, i)) /\ Len(Without(s, i)) = Len(s) - 1
<1> DEFINE t == Without(s, i)
           at(j) == IF j < i THEN j ELSE j + 1
<1>1. /\ s \in Seq(Events) /\ t \in Seq(Events) /\ Len(t) = Len(s) - 1
      /\ \A j \in DOMAIN t : t[j] = s[at(j)]
  BY WithoutAt DEF EventList
<1> HIDE DEF t
<1>2. \A j \in DOMAIN t : j \in Nat /\ at(j) \in DOMAIN s
  BY <1>1
<1>3. \A j, k \in DOMAIN t : (j <= k => at(j) <= at(k)) /\ (j # k => at(j) # at(k))
  BY <1>1
<1> HIDE DEF at
<1> QED BY <1>1, <1>2, <1>3 DEF EventList, InOrder, Once, t

LEMMA MovedList ==
  ASSUME NEW s, EventList(s), NEW i \in DOMAIN s, NEW ev \in Events,
         s[i].type = ev.type, ev.type \in Alone
  PROVE  EventList(Moved(s, i, ev)) /\ Len(Moved(s, i, ev)) = Len(s)
<1> DEFINE t == Without(s, i)
           B == {j \in DOMAIN t : IF j < i THEN t[j].at <= ev.at ELSE t[j].at < ev.at}
<1>1. EventList(t) /\ Len(t) = Len(s) - 1
  BY WithoutList
<1>2. \A j \in DOMAIN t : t[j] = s[IF j < i THEN j ELSE j + 1]
  BY WithoutAt DEF EventList
<1>3. s \in Seq(Events) /\ t \in Seq(Events) /\ ev.at \in Nat
  BY <1>1, EventTimes DEF EventList
<1> HIDE DEF t
<1>4. \A j \in DOMAIN t : t[j].at \in Nat /\ j \in Nat
  BY <1>3, EventTimes
<1>5. Welcome(t, ev)
  <2> SUFFICES ASSUME NEW j \in DOMAIN t, t[j].type = ev.type PROVE FALSE
    BY DEF Welcome
  <2> DEFINE m == IF j < i THEN j ELSE j + 1
  <2>1. m \in DOMAIN s /\ m # i /\ s[m].type = s[i].type
    BY <1>1, <1>2, <1>3, <1>4
  <2> HIDE DEF m
  <2>2. s[m].type \notin Alone
    BY <2>1 DEF EventList, Once
  <2> QED BY <2>1, <2>2
<1>6. \A j \in B : \A k \in 1 .. j : k \in B
  <2> TAKE j \in B
  <2> TAKE k \in 1 .. j
  <2>1. k \in DOMAIN t /\ k <= j /\ j \in DOMAIN t /\ i \in Nat
    BY <1>3, <1>4
  <2>2. t[k].at <= t[j].at
    BY <1>1, <2>1 DEF EventList, InOrder
  <2> QED BY <1>3, <1>4, <2>1, <2>2
<1>7. \A j \in DOMAIN t : IF j \in B THEN t[j].at <= ev.at ELSE ev.at <= t[j].at
  BY <1>3, <1>4
<1>8. B \in SUBSET DOMAIN t
  OBVIOUS
<1>9. Moved(s, i, ev) = Spliced(t, B, ev)
  BY DEF Moved, t
<1>10. Len(s) \in Nat
  BY <1>3
<1> HIDE DEF B
<1> QED BY <1>1, <1>5, <1>6, <1>7, <1>8, <1>9, <1>10, SplicedList

\* Clearing a type from a list that is not one of timed events.
LEMMA ChosenSeq ==
  ASSUME NEW s \in Seq(Events), NEW type
  PROVE  Chosen(s, Others(s, type)) \in Seq(Events) /\ Len(Chosen(s, Others(s, type))) <= Len(s)
<1>1. \A i \in Others(s, type) : i \in Nat /\ 1 <= i /\ i <= Len(s)
  BY DEF Others
<1> HIDE DEF Others
<1> QED BY <1>1, ChosenAt

\* How many of the events that stay are before next.
Skipped(s, type, next) == Cardinality({i \in Others(s, type) : i < next})

LEMMA ChosenList ==
  ASSUME NEW s, EventList(s), NEW type, NEW next \in 1 .. Len(s) + 1
  PROVE  LET I == Others(s, type)
             t == Chosen(s, I)
             skipped == Skipped(s, type, next)
         IN /\ EventList(t) /\ Len(t) <= Len(s)
            /\ \A j \in DOMAIN t : t[j].type # type
            /\ skipped \in 0 .. Len(t)
            /\ \A j \in DOMAIN t : \E i \in DOMAIN s : t[j] = s[i] /\ (j <= skipped <=> i < next)
<1> DEFINE I == Others(s, type)
           t == Chosen(s, I)
           skipped == Skipped(s, type, next)
<1>1. s \in Seq(Events) /\ Len(s) \in Nat /\ DOMAIN s = 1 .. Len(s) /\ next - 1 \in Nat
  BY DEF EventList
<1>2. \A i \in I : i \in DOMAIN s /\ s[i].type # type /\ i \in Nat /\ 1 <= i /\ i <= Len(s)
  BY <1>1 DEF Others
<1>0. skipped = Cardinality({i \in I : i < next})
  BY DEF Skipped
<1> HIDE DEF I, skipped
<1>3. /\ t \in Seq(Events) /\ Len(t) = Cardinality(I) /\ Len(t) <= Len(s)
      /\ \A j \in DOMAIN t : \E i \in I : Rank(I, i) = j /\ t[j] = s[i]
  BY <1>1, <1>2, ChosenAt
<1>4. skipped = Rank(I, next - 1)
  <2>1. {i \in I : i < next} = {i \in I : i <= next - 1}
    BY <1>2
  <2> QED BY <1>0, <2>1 DEF Rank
<1> HIDE DEF t
<1>5. skipped \in 0 .. Len(t)
  <2>1. /\ \A n \in Nat : Rank(I, n) \in Nat
        /\ Rank(I, Len(s)) = Cardinality(I)
        /\ \A m, n \in Nat : m <= n => Rank(I, m) <= Rank(I, n)
    BY <1>1, <1>2, Ranks
  <2> QED BY <1>1, <1>3, <1>4, <2>1
<1>6. \A m \in Nat, i \in I : Rank(I, i) <= Rank(I, m) <=> i <= m
  BY <1>1, <1>2, RankOrder
<1> DEFINE from(j) == CHOOSE i \in I : Rank(I, i) = j /\ t[j] = s[i]
<1>7. \A j \in DOMAIN t : from(j) \in I /\ Rank(I, from(j)) = j /\ t[j] = s[from(j)]
  BY <1>3
<1> HIDE DEF from
<1>8. \A j, k \in DOMAIN t : j <= k <=> from(j) <= from(k)
  BY <1>2, <1>6, <1>7
<1>9. \A j \in DOMAIN t : j <= skipped <=> from(j) < next
  <2> TAKE j \in DOMAIN t
  <2>1. j <= skipped <=> from(j) <= next - 1
    BY <1>1, <1>4, <1>6, <1>7
  <2> QED BY <1>1, <1>2, <1>7, <2>1
<1>10. InOrder(t)
  BY <1>2, <1>7, <1>8 DEF EventList, InOrder
<1>11. Once(t)
  <2>1. \A j, k \in DOMAIN t : j # k => from(j) # from(k)
    BY <1>7
  <2> QED BY <1>2, <1>7, <2>1 DEF EventList, Once
<1>12. \A j \in DOMAIN t : t[j].type # type
  BY <1>2, <1>7
<1>13. \A j \in DOMAIN t : \E i \in DOMAIN s : t[j] = s[i] /\ (j <= skipped <=> i < next)
  BY <1>2, <1>7, <1>9
<1> QED BY <1>3, <1>5, <1>10, <1>11, <1>12, <1>13 DEF EventList, I, t, skipped

-----------------------------------------------------------------------------
(* The operations on the queue.                                            *)

\* next_event is the first of the events of its frame: the invariant that holds also
\* after a locate, when nothing can be said of the frame it is at.
StartsRun(p) ==
    /\ p.next \in 1 .. Len(p.events) + 1
    /\ \A i \in DOMAIN p.events :
          i < p.next /\ p.next <= Len(p.events) => p.events[i].at < p.events[p.next].at

FirstDue(p) == \A i \in DOMAIN p.events : i < p.next <=> p.events[i].at < p.frame

Queue(p) == p \in Queues /\ EventList(p.events) /\ StartsRun(p)

LEMMA NextSet ==
  ASSUME NEW p \in Queues, NEW next \in Nat
  PROVE  LET n == [p EXCEPT !.next = next]
         IN n \in Queues /\ n.events = p.events /\ n.imm = p.imm /\ n.frame = p.frame /\ n.next = next
BY DEF Queues

LEMMA SetNextEventQueue ==
  ASSUME NEW p, Queue(p)
  PROVE  LET n == SetNextEvent(p)
         IN /\ Queue(n) /\ FirstDue(n)
            /\ n.events = p.events /\ n.imm = p.imm /\ n.frame = p.frame
<1> DEFINE s == p.events
           L == Len(s)
           from == IF AtEnd(p) \/ s[p.next].at > p.frame THEN 1 ELSE p.next
           due  == {i \in from .. L : s[i].at >= p.frame}
           next == IF due = {} THEN L + 1 ELSE CHOOSE i \in due : \A j \in due : i <= j
           n == [p EXCEPT !.next = next]
<1>1. SetNextEvent(p) = n
  BY Zenon DEF SetNextEvent
<1>2. /\ p \in Queues /\ s \in Seq(Events) /\ L \in Nat /\ DOMAIN s = 1 .. L
      /\ p.next \in 1 .. L + 1 /\ p.frame \in Nat
      /\ \A i \in 1 .. L : s[i].at \in Nat
  <2> HIDE DEF n, next, due, from
  <2>1. p \in Queues /\ p.next \in 1 .. L + 1
    BY DEF Queue, StartsRun
  <2>2. s \in Seq(Events) /\ p.frame \in Frames
    BY <2>1 DEF Queues
  <2>3. \A i \in 1 .. L : s[i] \in Events
    BY <2>2
  <2>4. \A i \in 1 .. L : s[i].at \in Nat
    <3> HIDE DEF s, L
    <3> QED BY <2>3, EventTimes
  <2>5. L \in Nat /\ DOMAIN s = 1 .. L
    BY <2>2
  <2>6. p.frame \in Nat
    BY <2>2, FramesAssumption
  <2> QED BY <2>1, <2>2, <2>4, <2>5, <2>6
<1>3. \A i, j \in 1 .. L : i <= j => s[i].at <= s[j].at
  BY <1>2 DEF Queue, EventList, InOrder
<1>4. from \in 1 .. L + 1 /\ \A i \in 1 .. L : i < from => s[i].at < p.frame
  <2>1. CASE from = 1
    BY <1>2, <2>1
  <2>2. CASE from # 1
    <3>1. from = p.next /\ p.next <= L /\ s[p.next].at <= p.frame
      BY <1>2, <2>2 DEF AtEnd
    <3>2. \A i \in 1 .. L : i < p.next => s[i].at < s[p.next].at
      BY <1>2, <3>1 DEF Queue, StartsRun
    <3> QED BY <1>2, <3>1, <3>2
  <2> QED BY <2>1, <2>2
<1> HIDE DEF from
<1>5. next \in 1 .. L + 1 /\ \A i \in 1 .. L : i < next <=> s[i].at < p.frame
  <2>1. CASE due = {}
    BY <1>2, <1>4, <2>1
  <2>2. CASE due # {}
    <3>1. due \in SUBSET Nat
      BY <1>4
    <3>2. \E i \in due : \A j \in due : i <= j
      <4> HIDE DEF due
      <4> QED BY <2>2, <3>1, Smallest
    <3>3. next \in due /\ \A j \in due : next <= j
      <4> HIDE DEF due
      <4> QED BY <2>2, <3>2
    <3> HIDE DEF next
    <3>4. next \in from .. L /\ s[next].at >= p.frame
      BY <3>3
    <3>5. \A i \in 1 .. L : i < next => s[i].at < p.frame
      BY <1>2, <1>4, <3>3, <3>4
    <3>6. \A i \in 1 .. L : next <= i => ~ (s[i].at < p.frame)
      BY <1>2, <1>3, <1>4, <3>4
    <3> QED BY <1>2, <1>4, <3>4, <3>5, <3>6
  <2> QED BY <2>1, <2>2
<1> HIDE DEF next
<1>6. n \in Queues /\ n.events = s /\ n.imm = p.imm /\ n.frame = p.frame /\ n.next = next
  <2>1. next \in Nat
    BY <1>2, <1>5
  <2> QED BY <1>2, <2>1, NextSet
<1> HIDE DEF n
<1>7. FirstDue(n)
  BY <1>2, <1>5, <1>6 DEF FirstDue
<1>8. StartsRun(n)
  <2> SUFFICES ASSUME NEW i \in 1 .. L, i < next, next <= L PROVE s[i].at < s[next].at
    BY <1>2, <1>5, <1>6 DEF StartsRun
  <2>1. s[i].at < p.frame /\ ~ (s[next].at < p.frame) /\ next \in 1 .. L
    BY <1>2, <1>5
  <2> QED BY <1>2, <2>1
<1> QED BY <1>1, <1>6, <1>7, <1>8 DEF Queue

LEMMA SameType ==
  ASSUME NEW s \in Seq(Events), NEW I \in SUBSET DOMAIN s, I # {}
  PROVE  LET i == CHOOSE i \in I : \A j \in I : i <= j
         IN i \in I /\ \A j \in I : i <= j
<1>1. I \in SUBSET Nat
  OBVIOUS
<1>2. \E i \in I : \A j \in I : i <= j
  BY <1>1, Smallest
<1> QED BY <1>2

\* Taking an event off the list, and next_event off the event.
LEMMA TakeOff ==
  ASSUME NEW p, Queue(p), NEW i \in DOMAIN p.events
  PROVE  LET r == [p EXCEPT !.events = Without(@, i), !.next = IF i < @ THEN @ - 1 ELSE @]
         IN Queue(r) /\ r.events = Without(p.events, i) /\ r.imm = p.imm /\ r.frame = p.frame
<1> DEFINE s == p.events
           t == Without(s, i)
           next == IF i < p.next THEN p.next - 1 ELSE p.next
           r == [p EXCEPT !.events = Without(@, i), !.next = IF i < @ THEN @ - 1 ELSE @]
<1>1. /\ p \in Queues /\ EventList(s) /\ p.next \in 1 .. Len(s) + 1
      /\ \A j \in DOMAIN s : j < p.next /\ p.next <= Len(s) => s[j].at < s[p.next].at
  BY DEF Queue, StartsRun
<1>2. s \in Seq(Events) /\ Len(s) \in Nat /\ DOMAIN s = 1 .. Len(s) /\ i \in 1 .. Len(s)
  BY <1>1 DEF EventList
<1>3. /\ EventList(t) /\ t \in Seq(Events) /\ Len(t) = Len(s) - 1 /\ DOMAIN t = 1 .. Len(s) - 1
      /\ \A j \in DOMAIN t : t[j] = s[IF j < i THEN j ELSE j + 1]
  <2>1. EventList(t) /\ Len(t) = Len(s) - 1
    BY <1>1, WithoutList
  <2>2. t \in Seq(Events) /\ \A j \in DOMAIN t : t[j] = s[IF j < i THEN j ELSE j + 1]
    BY <1>2, WithoutAt
  <2> HIDE DEF t
  <2> QED BY <2>1, <2>2, <1>2
<1>4. next \in 1 .. Len(t) + 1 /\ next \in Nat
  <2> HIDE DEF t
  <2> QED BY <1>1, <1>2, <1>3
<1>5. r \in Queues /\ r.events = t /\ r.next = next /\ r.imm = p.imm /\ r.frame = p.frame
  <2> HIDE DEF t
  <2>1. r = [p EXCEPT !.events = t, !.next = next]
    BY Zenon, <1>1 DEF Queues, t
  <2>2. p \in Queues /\ t \in Seq(Events) /\ next \in Nat
    BY <1>1, <1>3, <1>4
  <2> HIDE DEF next, r
  <2> QED BY <2>1, <2>2 DEF Queues
<1>6. \A j \in 1 .. Len(t) : j < next /\ next <= Len(t) => t[j].at < t[next].at
  <2> SUFFICES ASSUME NEW j \in 1 .. Len(t), j < next, next <= Len(t) PROVE t[j].at < t[next].at
    OBVIOUS
  <2> HIDE DEF t
  <2>1. \A m \in 1 .. Len(s) : s[m].at \in Nat
    BY <1>2, EventTimes
  <2>2. \A m, n \in 1 .. Len(s) : m <= n => s[m].at <= s[n].at
    BY <1>1, <1>2 DEF EventList, InOrder
  <2> DEFINE from(k) == IF k < i THEN k ELSE k + 1
  <2>3. t[j] = s[from(j)] /\ t[next] = s[from(next)]
    <3> HIDE DEF s
    <3> QED BY <1>3, <1>4
  <2>4. from(j) \in 1 .. Len(s) /\ from(next) \in 1 .. Len(s)
    <3> HIDE DEF s
    <3> QED BY <1>2, <1>3, <1>4
  <2>5. from(j) < p.next /\ p.next <= Len(s) /\ p.next <= from(next)
    <3> HIDE DEF s
    <3> QED BY <1>1, <1>2, <1>3, <1>4
  <2> HIDE DEF from, next
  <2>6. s[from(j)].at < s[p.next].at /\ s[p.next].at <= s[from(next)].at
    BY <1>1, <1>2, <2>2, <2>4, <2>5
  <2>7. s[p.next].at \in Nat /\ s[from(j)].at \in Nat /\ s[from(next)].at \in Nat
    BY <1>1, <1>2, <2>1, <2>4, <2>5
  <2> HIDE DEF s
  <2> QED BY <2>3, <2>6, <2>7
<1> HIDE DEF r, next, t
<1>7. StartsRun(r)
  BY <1>3, <1>4, <1>5, <1>6 DEF StartsRun
<1> QED BY <1>3, <1>5, <1>7 DEF Queue, r, t

\* What merging an event leaves: a queue whose next event is the first that is due, unless
\* nothing is changed.
Merged(p, r) == Queue(r) /\ (r = p \/ FirstDue(r)) /\ r.frame = p.frame

LEMMA RemoveEventQueue ==
  ASSUME NEW p, Queue(p), NEW ev
  PROVE  LET r == RemoveEvent(p, ev)
         IN /\ Merged(p, r) /\ (Named(p, ev) # {} => FirstDue(r))
            /\ Len(r.events) <= Len(p.events) /\ r.imm = p.imm
<1>1. p.events \in Seq(Events) /\ Len(p.events) \in Nat /\ EventList(p.events)
  BY DEF Queue, EventList
<1>2. CASE Named(p, ev) = {}
  BY <1>1, <1>2 DEF RemoveEvent, Merged
<1>3. CASE Named(p, ev) # {}
  <2> DEFINE i == CHOOSE i \in Named(p, ev) : \A j \in Named(p, ev) : i <= j
             r == [p EXCEPT !.events = Without(@, i), !.next = IF i < @ THEN @ - 1 ELSE @]
  <2>1. Named(p, ev) \in SUBSET DOMAIN p.events
    BY DEF Named
  <2>2. i \in DOMAIN p.events
    <3>1. i \in Named(p, ev)
      BY <1>1, <1>3, <2>1, SameType
    <3> HIDE DEF i
    <3> QED BY <2>1, <3>1
  <2>3. RemoveEvent(p, ev) = SetNextEvent(r)
    BY Zenon, <1>3 DEF RemoveEvent
  <2> HIDE DEF i
  <2>4. Queue(r) /\ r.events = Without(p.events, i) /\ r.imm = p.imm /\ r.frame = p.frame
    BY <2>2, TakeOff
  <2> HIDE DEF r
  <2>5. Len(r.events) = Len(p.events) - 1
    BY <1>1, <2>2, <2>4, WithoutList
  <2>6. /\ Queue(SetNextEvent(r)) /\ FirstDue(SetNextEvent(r))
        /\ SetNextEvent(r).events = r.events /\ SetNextEvent(r).imm = r.imm
        /\ SetNextEvent(r).frame = r.frame
    BY <2>4, SetNextEventQueue
  <2> QED BY <1>1, <2>3, <2>4, <2>5, <2>6 DEF Merged
<1> QED BY <1>2, <1>3

\* A new list with next_event at its end or its start, before set_next_event().
Relisted(p, t, next) == SetNextEvent([p EXCEPT !.events = t, !.next = next])

LEMMA NewList ==
  ASSUME NEW p, Queue(p), NEW t, EventList(t), NEW next \in {1, Len(t) + 1}
  PROVE  LET r == Relisted(p, t, next)
         IN Queue(r) /\ FirstDue(r) /\ r.events = t /\ r.imm = p.imm /\ r.frame = p.frame
<1> DEFINE r == [p EXCEPT !.events = t, !.next = next]
<1>1. p \in Queues /\ t \in Seq(Events) /\ Len(t) \in Nat /\ next \in Nat
  BY DEF Queue, EventList
<1>2. r \in Queues /\ r.events = t /\ r.next = next /\ r.imm = p.imm /\ r.frame = p.frame
  BY <1>1 DEF Queues
<1> HIDE DEF r
<1>3. \A i \in DOMAIN t : i \in 1 .. Len(t)
  BY <1>1
<1>4. StartsRun(r)
  BY <1>1, <1>2, <1>3 DEF StartsRun
<1>5. Queue(r)
  BY <1>2, <1>4 DEF Queue
<1>6. /\ Queue(SetNextEvent(r)) /\ FirstDue(SetNextEvent(r))
      /\ SetNextEvent(r).events = r.events /\ SetNextEvent(r).imm = r.imm
      /\ SetNextEvent(r).frame = r.frame
  BY <1>5, SetNextEventQueue
<1> QED BY <1>2, <1>6 DEF r, Relisted

LEMMA ReplaceEventQueue ==
  ASSUME NEW p, Queue(p), NEW ev \in Events, ev.type \in Alone
  PROVE  LET r == ReplaceEvent(p, ev)
         IN /\ Merged(p, r) /\ Len(r.events) <= Len(p.events) + 1 /\ r.imm = p.imm
<1> DEFINE same == {i \in DOMAIN p.events : p.events[i].type = ev.type}
           i == CHOOSE i \in same : \A j \in same : i <= j
           moved == [p.events[i] EXCEPT !.at = ev.at, !.target = ev.target]
           t == IF same = {} THEN Inserted(p.events, ev) ELSE Moved(p.events, i, moved)
           next == Len(t) + 1
<1>1. p.events \in Seq(Events) /\ Len(p.events) \in Nat /\ EventList(p.events)
  BY DEF Queue, EventList
<1>2. ReplaceEvent(p, ev) = Relisted(p, t, next)
  BY Zenon DEF ReplaceEvent, Relisted
<1>3. EventList(t) /\ Len(t) <= Len(p.events) + 1
  <2>1. CASE same = {}
    <3>1. Welcome(p.events, ev)
      BY <2>1 DEF Welcome
    <3>2. EventList(Inserted(p.events, ev)) /\ Len(Inserted(p.events, ev)) = Len(p.events) + 1
      BY <1>1, <3>1, InsertedList
    <3> QED BY <1>1, <2>1, <3>2
  <2>2. CASE same # {}
    <3>1. i \in same
      <4>1. same \in SUBSET DOMAIN p.events
        OBVIOUS
      <4> HIDE DEF same
      <4> QED BY <1>1, <2>2, <4>1, SameType
    <3> HIDE DEF i
    <3>2. i \in DOMAIN p.events /\ p.events[i].type = ev.type /\ p.events[i] \in Events
      BY <1>1, <3>1
    <3>3. moved \in Events /\ moved.type = ev.type
      <4> DEFINE old == p.events[i]
      <4>1. old \in Events /\ old.type = ev.type
        BY <3>2
      <4> HIDE DEF old
      <4>2. [old EXCEPT !.at = ev.at, !.target = ev.target] \in Events
        BY <4>1 DEF Events
      <4>3. [old EXCEPT !.at = ev.at, !.target = ev.target].type = old.type
        BY <4>1 DEF Events
      <4> QED BY <4>1, <4>2, <4>3 DEF old
    <3> HIDE DEF moved
    <3>4. EventList(Moved(p.events, i, moved)) /\ Len(Moved(p.events, i, moved)) = Len(p.events)
      BY <1>1, <3>2, <3>3, MovedList
    <3> QED BY <1>1, <2>2, <3>4
  <2> QED BY <2>1, <2>2
<1> HIDE DEF t
<1>4. next \in {1, Len(t) + 1}
  OBVIOUS
<1> HIDE DEF same, i, moved, next
<1> DEFINE r == Relisted(p, t, next)
<1>5. EventList(t)
  BY <1>3
<1>6. Queue(r) /\ FirstDue(r) /\ r.events = t /\ r.imm = p.imm /\ r.frame = p.frame
  BY <1>4, <1>5, NewList
<1> HIDE DEF r
<1>7. ReplaceEvent(p, ev) = r
  BY <1>2 DEF r
<1> QED BY <1>3, <1>6, <1>7 DEF Merged

LEMMA ClearEventTypeQueue ==
  ASSUME NEW p, Queue(p), NEW type
  PROVE  LET r == ClearEventType(p, type)
         IN /\ Merged(p, r) /\ FirstDue(r)
            /\ Len(r.events) <= Len(p.events) /\ Len(r.imm) <= Len(p.imm)
            /\ \A i \in DOMAIN r.events : r.events[i].type # type
<1> DEFINE s == p.events
           t == Chosen(s, Others(s, type))
           imm == Chosen(p.imm, Others(p.imm, type))
           skipped == Skipped(s, type, p.next)
           next == skipped + 1
           r == [p EXCEPT !.events = t, !.next = next, !.imm = imm]
<1>1. ClearEventType(p, type) = SetNextEvent(r)
  BY Zenon DEF ClearEventType, Skipped
<1>2. /\ p \in Queues /\ EventList(s) /\ s \in Seq(Events) /\ p.next \in 1 .. Len(s) + 1
      /\ \A i \in DOMAIN s : i < p.next /\ p.next <= Len(s) => s[i].at < s[p.next].at
  BY DEF Queue, StartsRun, EventList
<1>3. imm \in Seq(Events) /\ Len(imm) <= Len(p.imm)
  <2>1. p.imm \in Seq(Events)
    BY <1>2 DEF Queues
  <2> QED BY <2>1, ChosenSeq
<1>4. /\ EventList(t) /\ Len(t) <= Len(s)
      /\ \A j \in DOMAIN t : t[j].type # type
      /\ skipped \in 0 .. Len(t)
      /\ \A j \in DOMAIN t : \E i \in DOMAIN s : t[j] = s[i] /\ (j <= skipped <=> i < p.next)
  <2> HIDE DEF s
  <2> QED BY <1>2, ChosenList
<1> HIDE DEF t, imm, skipped
<1>5. t \in Seq(Events) /\ Len(t) \in Nat /\ DOMAIN t = 1 .. Len(t) /\ next \in 1 .. Len(t) + 1
      /\ next \in Nat
  BY <1>4 DEF EventList
<1>6. r \in Queues /\ r.events = t /\ r.next = next /\ r.imm = imm /\ r.frame = p.frame
  <2> HIDE DEF next
  <2> QED BY <1>2, <1>3, <1>5 DEF Queues
<1>7. \A j \in 1 .. Len(t) : j < next /\ next <= Len(t) => t[j].at < t[next].at
  <2> SUFFICES ASSUME NEW j \in 1 .. Len(t), j < next, next <= Len(t) PROVE t[j].at < t[next].at
    OBVIOUS
  <2>1. j \in DOMAIN t /\ next \in DOMAIN t /\ j <= skipped /\ ~ (next <= skipped)
    BY <1>4, <1>5
  <2> HIDE DEF next, s
  <2>2. PICK a \in DOMAIN s : t[j] = s[a] /\ a < p.next
    BY <1>4, <2>1
  <2>3. PICK b \in DOMAIN s : t[next] = s[b] /\ ~ (b < p.next)
    BY <1>4, <2>1
  <2>4. DOMAIN s = 1 .. Len(s) /\ Len(s) \in Nat
    BY <1>2
  <2>5. p.next \in DOMAIN s /\ p.next <= b /\ p.next <= Len(s)
    BY <1>2, <2>3, <2>4
  <2>6. s[p.next].at <= s[b].at
    BY <1>2, <2>5 DEF EventList, InOrder
  <2>7. s[a].at < s[p.next].at
    BY <1>2, <2>2, <2>5
  <2>8. \A i \in DOMAIN s : s[i].at \in Nat
    BY <1>2, EventTimes
  <2> QED BY <2>2, <2>3, <2>5, <2>6, <2>7, <2>8
<1> HIDE DEF r, next
<1>8. StartsRun(r)
  BY <1>5, <1>6, <1>7 DEF StartsRun
<1>9. Queue(r)
  BY <1>4, <1>6, <1>8 DEF Queue
<1>10. /\ Queue(SetNextEvent(r)) /\ FirstDue(SetNextEvent(r))
       /\ SetNextEvent(r).events = r.events /\ SetNextEvent(r).imm = r.imm
       /\ SetNextEvent(r).frame = r.frame
  BY <1>9, SetNextEventQueue
<1> QED BY <1>1, <1>3, <1>4, <1>6, <1>10 DEF Merged

LEMMA AddTimedQueue ==
  ASSUME NEW p, Queue(p), NEW ev \in Events, ev.type \in Alone => ev.type \in Singletons
  PROVE  LET r == AddTimed(p, ev)
         IN /\ Merged(p, r)
            /\ Len(r.events) <= Len(p.events) + 1 /\ Len(r.imm) <= Len(p.imm)
<1> DEFINE c == IF ev.type \in Singletons THEN ClearEventType(p, ev.type) ELSE p
           t == Inserted(c.events, ev)
           one == 1
<1>1. /\ Merged(p, c) /\ Len(c.events) <= Len(p.events) /\ Len(c.imm) <= Len(p.imm)
      /\ ev.type \in Singletons => \A i \in DOMAIN c.events : c.events[i].type # ev.type
  <2>1. CASE ev.type \in Singletons
    <3> DEFINE d == ClearEventType(p, ev.type)
    <3>1. c = d
      BY <2>1
    <3>2. /\ Merged(p, d) /\ Len(d.events) <= Len(p.events) /\ Len(d.imm) <= Len(p.imm)
          /\ \A i \in DOMAIN d.events : d.events[i].type # ev.type
      BY ClearEventTypeQueue
    <3> HIDE DEF c, d
    <3> QED BY <3>1, <3>2
  <2>2. CASE ev.type \notin Singletons
    <3>1. Len(p.events) \in Nat /\ Len(p.imm) \in Nat
      BY DEF Queue, Queues
    <3> QED BY <2>2, <3>1 DEF Merged
  <2> QED BY <2>1, <2>2
<1>2. AddTimed(p, ev) = IF Named(c, ev) # {} THEN c ELSE Relisted(c, t, one)
  BY Zenon DEF AddTimed, Relisted
<1> HIDE DEF c
<1>3. Queue(c) /\ EventList(c.events)
  BY <1>1 DEF Merged, Queue
<1>4. CASE Named(c, ev) # {}
  <2>1. Len(p.events) \in Nat /\ Len(c.events) \in Nat
    BY <1>3 DEF Queue, Queues
  <2> QED BY <1>1, <1>2, <1>4, <2>1
<1>5. CASE Named(c, ev) = {}
  <2>1. Welcome(c.events, ev)
    <3> SUFFICES ASSUME NEW i \in DOMAIN c.events, c.events[i].type = ev.type
                 PROVE  ev.type \notin Alone /\ c.events[i].at # ev.at
      BY DEF Welcome
    <3>1. ev.type \notin Alone
      BY <1>1
    <3>2. c.events[i].at # ev.at
      BY <1>5 DEF Named
    <3> QED BY <3>1, <3>2
  <2>2. EventList(t) /\ Len(t) = Len(c.events) + 1
    BY <1>3, <2>1, InsertedList
  <2> HIDE DEF t
  <2>3. one \in {1, Len(t) + 1}
    OBVIOUS
  <2> HIDE DEF one
  <2> DEFINE r == Relisted(c, t, one)
  <2>4. Queue(r) /\ FirstDue(r) /\ r.events = t /\ r.imm = c.imm /\ r.frame = c.frame
    BY <1>3, <2>2, <2>3, NewList
  <2> HIDE DEF r
  <2>5. AddTimed(p, ev) = r
    BY <1>2, <1>5 DEF r
  <2>6. Len(p.events) \in Nat /\ Len(c.events) \in Nat
    BY <1>3 DEF Queue, Queues
  <2> QED BY <1>1, <2>2, <2>4, <2>5, <2>6 DEF Merged
<1> QED BY <1>4, <1>5

LEMMA MergeTimedQueue ==
  ASSUME NEW p, Queue(p), NEW ev \in Events, NEW action, <<ev.type, action>> \in Uses
  PROVE  LET r == MergeTimed(p, action, ev)
         IN /\ Merged(p, r) /\ Len(r.imm) <= Len(p.imm)
            /\ Len(r.events) <= IF action \in {"Add", "Replace"} THEN Len(p.events) + 1
                                ELSE Len(p.events)
<1>1. Len(p.imm) \in Nat /\ Len(p.events) \in Nat
  BY DEF Queue, Queues
<1>2. CASE action = "Remove"
  <2>1. MergeTimed(p, action, ev) = RemoveEvent(p, ev)
    BY <1>2 DEF MergeTimed
  <2> QED BY <1>1, <1>2, <2>1, RemoveEventQueue
<1>3. CASE action = "Replace"
  <2>1. MergeTimed(p, action, ev) = ReplaceEvent(p, ev)
    BY <1>3 DEF MergeTimed
  <2>2. ev.type \in Alone
    BY <1>3 DEF Uses, Alone
  <2> QED BY <1>1, <1>3, <2>1, <2>2, ReplaceEventQueue
<1>4. CASE action = "Clear"
  <2>1. MergeTimed(p, action, ev) = ClearEventType(p, ev.type)
    BY <1>4 DEF MergeTimed
  <2> QED BY <1>4, <2>1, ClearEventTypeQueue
<1>5. CASE action = "Add"
  <2>1. MergeTimed(p, action, ev) = AddTimed(p, ev)
    BY <1>5 DEF MergeTimed
  <2>2. ev.type \in Alone => ev.type \in Singletons
    BY <1>5 DEF Uses, Alone, Singletons
  <2> QED BY <1>5, <2>1, <2>2, AddTimedQueue
<1>6. action \in {"Remove", "Replace", "Clear", "Add"}
  BY DEF Uses
<1> QED BY <1>2, <1>3, <1>4, <1>5, <1>6

-----------------------------------------------------------------------------
(* The invariant.                                                          *)

IInv ==
    /\ Queue(q)
    /\ ~stale => FirstDue(q)
    /\ Len(q.events) <= MaxEvents /\ Len(q.imm) <= MaxImm
    /\ stale \in BOOLEAN

LEMMA Initially == Init => IInv
<1> SUFFICES ASSUME Init PROVE IInv
  OBVIOUS
<1>1. q.events = <<>> /\ q.next = 1 /\ q.imm = <<>> /\ q.frame = 0 /\ stale = FALSE
  BY DEF Init
<1>2. q \in Queues
  BY FramesAssumption DEF Init, Queues
<1>3. Queue(q) /\ FirstDue(q)
  BY <1>1, <1>2 DEF Queue, EventList, InOrder, Once, StartsRun, FirstDue
<1>4. Len(q.events) = 0 /\ Len(q.imm) = 0
  BY <1>1
<1>5. Len(q.events) <= MaxEvents /\ Len(q.imm) <= MaxImm
  BY <1>4, MaxEventsAssumption
<1>6. stale \in BOOLEAN
  BY <1>1
<1> QED BY <1>3, <1>5, <1>6 DEF IInv

LEMMA MergeKeeps ==
  ASSUME IInv, NEW action \in Actions, NEW ev \in Events, Merge(action, ev)
  PROVE  IInv'
<1>1. /\ Merged(q, q') /\ Len(q'.imm) <= Len(q.imm)
      /\ Len(q'.events) <= IF action \in {"Add", "Replace"} THEN Len(q.events) + 1
                           ELSE Len(q.events)
  <2>1. Queue(q) /\ <<ev.type, action>> \in Uses /\ q' = MergeTimed(q, action, ev)
    BY DEF IInv, Merge
  <2> QED BY <2>1, MergeTimedQueue
<1>2. Queue(q') /\ (~stale' => FirstDue(q'))
  <2>1. Queue(q') /\ (q' = q \/ FirstDue(q'))
    BY <1>1 DEF Merged
  <2>2. (~stale => FirstDue(q)) /\ stale' = (stale /\ q' = q)
    BY DEF IInv, Merge
  <2>3. ASSUME q' = q, ~stale' PROVE FirstDue(q')
    BY <2>2, <2>3
  <2> QED BY <2>1, <2>3
<1>3. Len(q'.events) <= MaxEvents /\ Len(q'.imm) <= MaxImm
  <2>1. /\ Len(q.events) \in Nat /\ Len(q'.events) \in Nat
        /\ Len(q.imm) \in Nat /\ Len(q'.imm) \in Nat
    BY <1>2 DEF IInv, Queue, Queues
  <2>2. /\ Len(q.events) <= MaxEvents /\ Len(q.imm) <= MaxImm
        /\ action \in {"Add", "Replace"} => Len(q.events) < MaxEvents
    BY DEF IInv, Merge
  <2> QED BY <1>1, <2>1, <2>2, MaxEventsAssumption
<1>4. stale' \in BOOLEAN
  BY DEF Merge
<1> QED BY <1>2, <1>3, <1>4 DEF IInv

LEMMA DeferKeeps ==
  ASSUME IInv, NEW i, Defer(i)
  PROVE  IInv'
<1> DEFINE ev == q.events[i]
           imm == Append(q.imm, ev)
           p == [q EXCEPT !.imm = imm]
           r == RemoveEvent(p, ev)
<1>1. q' = r /\ stale' = FALSE /\ i \in DOMAIN q.events /\ Len(q.imm) < MaxImm
  BY Zenon DEF Defer
<1>2. /\ q \in Queues /\ q.events \in Seq(Events) /\ Len(q.events) \in Nat
      /\ q.imm \in Seq(Events) /\ Len(q.imm) \in Nat /\ ev \in Events
  BY <1>1 DEF IInv, Queue, Queues
<1>3. imm \in Seq(Events) /\ Len(imm) = Len(q.imm) + 1
  <2> HIDE DEF ev
  <2> QED BY <1>2
<1>4. p \in Queues /\ p.events = q.events /\ p.next = q.next /\ p.imm = imm /\ p.frame = q.frame
  <2> HIDE DEF imm
  <2> QED BY <1>2, <1>3 DEF Queues
<1>5. Queue(p)
  <2>1. EventList(q.events) /\ StartsRun(q)
    BY DEF IInv, Queue
  <2> HIDE DEF p
  <2> QED BY <1>4, <2>1 DEF Queue, StartsRun
<1> HIDE DEF p
<1>6. Named(p, ev) # {}
  BY <1>1, <1>4 DEF Named
<1> HIDE DEF ev, imm
<1>7. Queue(r) /\ FirstDue(r) /\ Len(r.events) <= Len(p.events) /\ r.imm = p.imm
  BY <1>5, <1>6, RemoveEventQueue DEF Merged
<1> HIDE DEF r
<1>8. Len(q'.events) <= MaxEvents /\ Len(q'.imm) <= MaxImm
  <2>1. Len(q.events) <= MaxEvents /\ Len(r.events) \in Nat
    BY <1>7 DEF IInv, Queue, Queues
  <2> QED BY <1>1, <1>2, <1>3, <1>4, <1>7, <2>1, MaxEventsAssumption
<1> QED BY <1>1, <1>7, <1>8 DEF IInv

LEMMA TakeUpKeeps ==
  ASSUME IInv, TakeUp
  PROVE  IInv'
<1> DEFINE imm == Tail(q.imm)
<1>1. q' = [q EXCEPT !.imm = imm] /\ q.imm # <<>> /\ stale' = stale
  BY DEF TakeUp
<1>2. q \in Queues /\ q.imm \in Seq(Events) /\ Len(q.imm) \in Nat /\ Len(q.imm) <= MaxImm
  BY DEF IInv, Queue, Queues
<1>3. imm \in Seq(Events) /\ Len(imm) = Len(q.imm) - 1
  BY <1>1, <1>2
<1> HIDE DEF imm
<1>4. /\ q' \in Queues /\ q'.events = q.events /\ q'.next = q.next
      /\ q'.imm = imm /\ q'.frame = q.frame
  BY <1>1, <1>2, <1>3 DEF Queues
<1>5. Len(q'.imm) <= MaxImm
  BY <1>2, <1>3, <1>4, MaxEventsAssumption
<1> QED BY <1>1, <1>4, <1>5 DEF IInv, Queue, StartsRun, FirstDue

\* The queue with the transport somewhere else.
LEMMA FrameSet ==
  ASSUME NEW p, Queue(p), NEW f \in Frames
  PROVE  LET r == [p EXCEPT !.frame = f]
         IN Queue(r) /\ r.events = p.events /\ r.imm = p.imm
<1> DEFINE r == [p EXCEPT !.frame = f]
<1>1. p \in Queues
  BY DEF Queue
<1>2. /\ r \in Queues /\ r.events = p.events /\ r.next = p.next
      /\ r.imm = p.imm /\ r.frame = f
  BY <1>1 DEF Queues
<1> HIDE DEF r
<1>3. Queue(r)
  BY <1>2 DEF Queue, StartsRun
<1> QED BY <1>2, <1>3 DEF r

LEMMA AdvanceKeeps ==
  ASSUME IInv, NEW f \in Frames, Advance(f)
  PROVE  IInv'
<1> DEFINE r == [q EXCEPT !.frame = f]
<1>1. q' = SetNextEvent(r) /\ stale' = FALSE
  BY Zenon DEF Advance
<1>2. Queue(r) /\ r.events = q.events /\ r.imm = q.imm
  BY FrameSet DEF IInv
<1> HIDE DEF r
<1>3. /\ Queue(SetNextEvent(r)) /\ FirstDue(SetNextEvent(r))
      /\ SetNextEvent(r).events = r.events /\ SetNextEvent(r).imm = r.imm
  BY <1>2, SetNextEventQueue
<1> QED BY <1>1, <1>2, <1>3 DEF IInv

LEMMA RelocateKeeps ==
  ASSUME IInv, NEW f \in Frames, Relocate(f)
  PROVE  IInv'
<1> DEFINE r == [q EXCEPT !.frame = f]
<1>1. q' = r /\ stale' = TRUE
  BY Zenon DEF Relocate
<1>2. Queue(r) /\ r.events = q.events /\ r.imm = q.imm
  BY FrameSet DEF IInv
<1> HIDE DEF r
<1> QED BY <1>1, <1>2 DEF IInv

LEMMA PostTransportKeeps ==
  ASSUME IInv, PostTransport
  PROVE  IInv'
<1>1. q' = SetNextEvent(q) /\ stale' = FALSE /\ Queue(q)
  BY DEF PostTransport, IInv
<1>2. /\ Queue(SetNextEvent(q)) /\ FirstDue(SetNextEvent(q))
      /\ SetNextEvent(q).events = q.events /\ SetNextEvent(q).imm = q.imm
  BY <1>1, SetNextEventQueue
<1> QED BY <1>1, <1>2 DEF IInv

\* Every step keeps the invariant.
LEMMA StepKeeps == IInv /\ [Next]_vars => IInv'
<1> SUFFICES ASSUME IInv, [Next]_vars PROVE IInv'
  OBVIOUS
<1>1. ASSUME NEW action \in Actions, NEW ev \in Events, Merge(action, ev) PROVE IInv'
  BY <1>1, MergeKeeps
<1>2. ASSUME NEW i \in 1 .. MaxEvents, Defer(i) PROVE IInv'
  BY <1>2, DeferKeeps
<1>3. CASE TakeUp
  BY <1>3, TakeUpKeeps
<1>4. ASSUME NEW f \in Frames, Advance(f) PROVE IInv'
  BY <1>4, AdvanceKeeps
<1>5. ASSUME NEW f \in Frames, Relocate(f) PROVE IInv'
  BY <1>5, RelocateKeeps
<1>6. CASE PostTransport
  BY <1>6, PostTransportKeeps
<1>7. CASE UNCHANGED vars
  BY <1>7 DEF vars, IInv, Queue, StartsRun, FirstDue
<1> QED BY <1>1, <1>2, <1>3, <1>4, <1>5, <1>6, <1>7 DEF Next

LEMMA Inductive == Spec => []IInv
BY Initially, StepKeeps, PTL DEF Spec

-----------------------------------------------------------------------------
(* What the operations leave of the events of other types.                 *)

LEMMA SearchKeepsList ==
  ASSUME NEW r \in Queues, r.next # 0
  PROVE  SetNextEvent(r).events = r.events
<1>1. Len(r.events) \in Nat /\ r.next \in Nat \ {0}
  BY DEF Queues
<1>2. PICK n \in 1 .. Len(r.events) + 1 : SetNextEvent(r) = [r EXCEPT !.next = n]
  BY <1>1, NextIn
<1> QED BY <1>2 DEF Queues

LEMMA RemoveEventRest ==
  ASSUME NEW p, Queue(p), NEW ev
  PROVE  Rest(RemoveEvent(p, ev).events, ev.type) = Rest(p.events, ev.type)
<1>1. p \in Queues /\ p.events \in Seq(Events) /\ p.next \in 1 .. Len(p.events) + 1
  BY DEF Queue, EventList, StartsRun
<1>2. CASE Named(p, ev) = {}
  BY <1>2 DEF RemoveEvent
<1>3. CASE Named(p, ev) # {}
  <2> DEFINE i == CHOOSE i \in Named(p, ev) : \A j \in Named(p, ev) : i <= j
             r == [p EXCEPT !.events = Without(@, i), !.next = IF i < @ THEN @ - 1 ELSE @]
  <2>1. Named(p, ev) \in SUBSET DOMAIN p.events
    BY DEF Named
  <2>2. i \in DOMAIN p.events /\ p.events[i].type = ev.type
    <3>1. i \in Named(p, ev)
      BY <1>1, <1>3, <2>1, SameType
    <3> HIDE DEF i
    <3> QED BY <2>1, <3>1 DEF Named
  <2>3. RemoveEvent(p, ev) = SetNextEvent(r)
    BY Zenon, <1>3 DEF RemoveEvent
  <2> HIDE DEF i
  <2>4. Queue(r) /\ r.events = Without(p.events, i)
    BY <2>2, TakeOff
  <2> HIDE DEF r
  <2>5. SetNextEvent(r).events = Without(p.events, i)
    <3>1. r \in Queues /\ r.next # 0
      BY <2>4 DEF Queue, StartsRun
    <3> QED BY <2>4, <3>1, SearchKeepsList
  <2>6. Rest(Without(p.events, i), p.events[i].type) = Rest(p.events, p.events[i].type)
    BY <1>1, <2>2, WithoutRest
  <2> QED BY <2>2, <2>3, <2>5, <2>6
<1> QED BY <1>2, <1>3

LEMMA InsertedRest ==
  ASSUME NEW s \in Seq(Events), NEW ev \in Events
  PROVE  Inserted(s, ev) \in Seq(Events) /\ Rest(Inserted(s, ev), ev.type) = Rest(s, ev.type)
<1> DEFINE B == {i \in DOMAIN s : s[i].at < ev.at}
<1>1. B \in SUBSET DOMAIN s
  OBVIOUS
<1>2. Inserted(s, ev) = Spliced(s, B, ev)
  BY DEF Inserted
<1> HIDE DEF B
<1> QED BY <1>1, <1>2, SplicedIn, SplicedRest

LEMMA MovedRest ==
  ASSUME NEW s \in Seq(Events), NEW i \in DOMAIN s, NEW ev \in Events, s[i].type = ev.type
  PROVE  Moved(s, i, ev) \in Seq(Events) /\ Rest(Moved(s, i, ev), ev.type) = Rest(s, ev.type)
<1> DEFINE t == Without(s, i)
           B == {j \in DOMAIN t : IF j < i THEN t[j].at <= ev.at ELSE t[j].at < ev.at}
<1>1. t \in Seq(Events) /\ Rest(t, s[i].type) = Rest(s, s[i].type)
  BY WithoutAt, WithoutRest
<1>2. B \in SUBSET DOMAIN t
  OBVIOUS
<1>3. Moved(s, i, ev) = Spliced(t, B, ev)
  BY Zenon DEF Moved
<1> HIDE DEF t, B
<1>4. Spliced(t, B, ev) \in Seq(Events) /\ Rest(Spliced(t, B, ev), ev.type) = Rest(t, ev.type)
  BY <1>1, <1>2, SplicedIn, SplicedRest
<1> QED BY <1>1, <1>3, <1>4

LEMMA ReplaceEventRest ==
  ASSUME NEW p, Queue(p), NEW ev \in Events
  PROVE  Rest(ReplaceEvent(p, ev).events, ev.type) = Rest(p.events, ev.type)
<1> DEFINE same == {i \in DOMAIN p.events : p.events[i].type = ev.type}
           i == CHOOSE i \in same : \A j \in same : i <= j
           moved == [p.events[i] EXCEPT !.at = ev.at, !.target = ev.target]
           t == IF same = {} THEN Inserted(p.events, ev) ELSE Moved(p.events, i, moved)
           r == [p EXCEPT !.events = t, !.next = Len(t) + 1]
<1>1. p \in Queues /\ p.events \in Seq(Events)
  BY DEF Queue, EventList
<1>2. ReplaceEvent(p, ev) = SetNextEvent(r)
  BY Zenon DEF ReplaceEvent
<1>3. t \in Seq(Events) /\ Rest(t, ev.type) = Rest(p.events, ev.type)
  <2>1. CASE same = {}
    BY <1>1, <2>1, InsertedRest
  <2>2. CASE same # {}
    <3>1. i \in same
      <4>1. same \in SUBSET DOMAIN p.events
        OBVIOUS
      <4> HIDE DEF same
      <4> QED BY <1>1, <2>2, <4>1, SameType
    <3> HIDE DEF i
    <3>2. i \in DOMAIN p.events /\ p.events[i].type = ev.type /\ p.events[i] \in Events
      BY <1>1, <3>1
    <3>3. moved \in Events /\ moved.type = ev.type
      <4> DEFINE old == p.events[i]
      <4>1. old \in Events /\ old.type = ev.type
        BY <3>2
      <4> HIDE DEF old
      <4>2. [old EXCEPT !.at = ev.at, !.target = ev.target] \in Events
        BY <4>1 DEF Events
      <4>3. [old EXCEPT !.at = ev.at, !.target = ev.target].type = old.type
        BY <4>1 DEF Events
      <4> QED BY <4>1, <4>2, <4>3 DEF old
    <3> HIDE DEF moved
    <3>4. /\ Moved(p.events, i, moved) \in Seq(Events)
          /\ Rest(Moved(p.events, i, moved), moved.type) = Rest(p.events, moved.type)
      BY <1>1, <3>2, <3>3, MovedRest
    <3> QED BY <2>2, <3>3, <3>4
  <2> QED BY <2>1, <2>2
<1> HIDE DEF t
<1>4. r \in Queues /\ r.next # 0 /\ r.events = t
  <2>1. Len(t) + 1 \in Nat /\ Len(t) + 1 # 0
    BY <1>3
  <2> QED BY <1>1, <1>3, <2>1 DEF Queues
<1> HIDE DEF r
<1> QED BY <1>2, <1>3, <1>4, SearchKeepsList

LEMMA ClearEventTypeRest ==
  ASSUME NEW p, Queue(p), NEW type
  PROVE  Rest(ClearEventType(p, type).events, type) = Rest(p.events, type)
<1> DEFINE r == ClearEventType(p, type)
           t == Rest(p.events, type)
           imm == Chosen(p.imm, Others(p.imm, type))
           skipped == {i \in Others(p.events, type) : i < p.next}
           u == [p EXCEPT !.events = t, !.next = Cardinality(skipped) + 1, !.imm = imm]
<1>1. p \in Queues /\ p.events \in Seq(Events) /\ p.imm \in Seq(Events)
  BY DEF Queue, Queues, EventList
<1>2. /\ Queue(r) /\ \A i \in DOMAIN r.events : r.events[i].type # type
  BY ClearEventTypeQueue DEF Merged
<1>3. r = SetNextEvent(u)
  BY Zenon DEF ClearEventType, Rest
<1>4. t \in Seq(Events) /\ imm \in Seq(Events)
  BY <1>1, ChosenSeq DEF Rest
<1>5. Cardinality(skipped) + 1 \in Nat /\ Cardinality(skipped) + 1 # 0
  <2>1. IsFiniteSet(1 .. Len(p.events)) /\ skipped \subseteq 1 .. Len(p.events)
    BY <1>1, FS_Interval DEF Others
  <2>2. IsFiniteSet(skipped)
    BY <2>1, FS_Subset
  <2> HIDE DEF skipped
  <2> QED BY <2>2, FS_CardinalityType
<1> HIDE DEF t, imm, skipped
<1>6. u \in Queues /\ u.next # 0 /\ u.events = t
  BY <1>1, <1>4, <1>5 DEF Queues
<1> HIDE DEF u
<1>7. r.events = t
  BY <1>3, <1>6, SearchKeepsList
<1>8. Rest(t, type) = t
  BY <1>2, <1>4, <1>7, RestOfRest
<1> QED BY <1>7, <1>8 DEF t

LEMMA AddTimedRest ==
  ASSUME NEW p, Queue(p), NEW ev \in Events
  PROVE  Rest(AddTimed(p, ev).events, ev.type) = Rest(p.events, ev.type)
<1> DEFINE c == IF ev.type \in Singletons THEN ClearEventType(p, ev.type) ELSE p
           t == Inserted(c.events, ev)
           one == 1
           r == [c EXCEPT !.events = t, !.next = one]
<1>1. Queue(c) /\ Rest(c.events, ev.type) = Rest(p.events, ev.type)
  <2>1. CASE ev.type \in Singletons
    BY <2>1, ClearEventTypeQueue, ClearEventTypeRest DEF Merged
  <2>2. CASE ev.type \notin Singletons
    BY <2>2
  <2> QED BY <2>1, <2>2
<1>2. AddTimed(p, ev) = IF Named(c, ev) # {} THEN c ELSE SetNextEvent(r)
  BY Zenon DEF AddTimed
<1> HIDE DEF c
<1>3. c \in Queues /\ c.events \in Seq(Events)
  BY <1>1 DEF Queue, EventList
<1>4. t \in Seq(Events) /\ Rest(t, ev.type) = Rest(c.events, ev.type)
  BY <1>3, InsertedRest
<1>5. one \in Nat /\ one # 0
  OBVIOUS
<1> HIDE DEF t, one
<1>6. r \in Queues /\ r.next # 0 /\ r.events = t
  BY <1>3, <1>4, <1>5 DEF Queues
<1> HIDE DEF r
<1>7. SetNextEvent(r).events = t
  BY <1>6, SearchKeepsList
<1> QED BY <1>1, <1>2, <1>4, <1>7

-----------------------------------------------------------------------------
(* The theorems.                                                           *)

\* Whatever is merged, deferred and located, the queue keeps its shape: next_event points
\* into the list or to its end (session_events.cc:273), and no bound is passed.
THEOREM QueueTyped == Spec => []TypeOK
<1>1. IInv => TypeOK
  <2> SUFFICES ASSUME IInv PROVE TypeOK
    OBVIOUS
  <2>1. /\ q.events \in Seq(Events) /\ q.next \in 1 .. Len(q.events) + 1 /\ q.frame \in Frames
    BY DEF IInv, Queue, Queues, StartsRun
  <2>2. \A i \in DOMAIN q.events : q.events[i].at \in Frames
    BY <2>1, EventTimes
  <2> QED BY <2>1, <2>2 DEF IInv, TypeOK
<1> QED BY <1>1, Inductive, PTL

\* The list is in order of time after every merge, although _replace_event() changes the
\* frame of an event in place and merge_event() inserts at the front: the sorts they end
\* in (session_events.cc:169 and 199) are enough.
THEOREM QueueOrdered == Spec => []Ordered
<1>1. IInv => Ordered
  <2> SUFFICES ASSUME IInv, NEW i \in 1 .. Len(q.events) - 1
               PROVE  q.events[i].at <= q.events[i + 1].at
    BY DEF Ordered
  <2>1. q.events \in Seq(Events) /\ InOrder(q.events)
    BY DEF IInv, Queue, EventList
  <2>2. i \in DOMAIN q.events /\ i + 1 \in DOMAIN q.events /\ i <= i + 1
    BY <2>1
  <2> QED BY <2>1, <2>2 DEF InOrder
<1> QED BY <1>1, Inductive, PTL

\* Outside the window between a locate and post_transport(), next_event is the first event
\* the transport has not passed.  set_next_event() starts from the old next_event when that
\* is not late, so this rests on nothing due ever being left in front of it.
THEOREM NextFirstDue == Spec => []NextIsFirstDue
<1>1. IInv => NextIsFirstDue
  BY DEF IInv, FirstDue, NextIsFirstDue
<1> QED BY <1>1, Inductive, PTL

\* No event that is replaced is ever in the list twice, and no two of a type are at the
\* same frame.
THEOREM QueueOnce == Spec => []OneOfEach
<1>1. IInv => OneOfEach
  <2>1. IInv => Once(q.events)
    BY DEF IInv, Queue, EventList
  <2>2. Singletons \subseteq Alone
    BY DEF Singletons, Alone
  <2> QED BY <2>1, <2>2 DEF Once, OneOfEach
<1> QED BY <1>1, Inductive, PTL
\* Merging an event adds, moves or removes events of its type: what the list holds of the
\* other types, which other parts of the session have queued, is the same and in the same
\* order.
THEOREM OthersLeftAlone == Spec => OtherTypesAlone
<1> DEFINE Same(ev) == Rest(q'.events, ev.type) = Rest(q.events, ev.type)
<1>1. ASSUME IInv, NEW action \in Actions, NEW ev \in Events, Merge(action, ev)
      PROVE  Same(ev)
  <2>1. Queue(q) /\ q' = MergeTimed(q, action, ev)
    BY <1>1 DEF IInv, Merge
  <2>2. CASE action = "Remove"
    BY <2>1, <2>2, RemoveEventRest DEF MergeTimed
  <2>3. CASE action = "Replace"
    BY <2>1, <2>3, ReplaceEventRest DEF MergeTimed
  <2>4. CASE action = "Clear"
    BY <2>1, <2>4, ClearEventTypeRest DEF MergeTimed
  <2>5. CASE action = "Add"
    BY <2>1, <2>5, AddTimedRest DEF MergeTimed
  <2> QED BY <2>2, <2>3, <2>4, <2>5 DEF Actions
<1>2. IInv => [\A action \in Actions, ev \in Events : Merge(action, ev) => Same(ev)]_vars
  BY <1>1
<1>3. IInv => [\A action \in Actions, ev \in Events :
                 LET rest(events) == Chosen(events, Others(events, ev.type))
                 IN Merge(action, ev) => rest(q'.events) = rest(q.events)]_vars
  BY <1>2 DEF Rest
<1> QED BY <1>3, Inductive, PTL DEF OtherTypesAlone

=============================================================================
