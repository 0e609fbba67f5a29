--------------------------- MODULE TransportProofs ---------------------------
(***************************************************************************)
(* For any frames, block, settings and number of requests: the session     *)
(* keeps to its types, comes to rest when it was told to stop, rests where *)
(* it was told to go, and has its diskstreams where its transport is.      *)
(*                                                                         *)
(* Each handler is an operator from record to record; a lemma says of each *)
(* which fields it changes and what holds of the result.  The step of an   *)
(* action then follows from the handlers it calls.                         *)
(***************************************************************************)
EXTENDS Transport, EventQueueProofs

-----------------------------------------------------------------------------
(* The types of the session.                                               *)

\* The types that timed events have under these settings, and those of commands.
TimedTypes == {type \in {"AutoLoop"} : HasLoop}
              \cup {type \in {"PunchIn", "PunchOut"} : conf.auto_punch.there}
              \cup {type \in {"StopOnce"} : Latency > Block \/ "BoundedRoll" \in Asks}
CommandTypes == {"Play", "Stop", "Locate", "LocateRoll", "LoopOn", "LoopOff"}
                \cup {type \in {"RollAndReturn"} : type \in Asks}

Timed    == [type : TimedTypes, at : Frames, target : Frames, from : Frames]
Commands == [type : CommandTypes, at : {Immediate}, target : Frames, from : Frames]
Pending  == [action : {"Add"}, ev : Commands]
            \cup [action : {"Clear"}, ev : {Event("AutoLoop", 0, 0)}]
            \cup {c \in [action : {"Replace"}, ev : Timed] : c.ev.type = "StopOnce"}

Goals    == [kind : {"stop", "stay", "roll"}, at : Frames]

Session ==
    [frame : Frames, speed : {0, 1}, work : SUBSET Works, count : Nat, sub : SUBSET SubStates,
     plFrame : Frames, plRoll : BOOLEAN, rec : {"Disabled", "Enabled", "Recording"},
     loop : BOOLEAN, lsf : Frames, rrf : Frames \cup {-1},
     events : Seq(Timed), next : Nat, imm : Seq(Timed \cup Commands), pend : Seq(Pending),
     disk : Frames, goal : Goals]

Typed(t) == t \in Session /\ t.next \in 1 .. Len(t.events) + 1

\* A stop is among the deferred events.
HasStop(t) == \E i \in DOMAIN t.imm : t.imm[i].type = "Stop"

\* r is t but for its lists of events, and no deferred stop is lost.
SameButLists(t, r) ==
    /\ r.frame = t.frame /\ r.speed = t.speed /\ r.work = t.work /\ r.count = t.count
    /\ r.sub = t.sub /\ r.plFrame = t.plFrame /\ r.plRoll = t.plRoll /\ r.rec = t.rec
    /\ r.loop = t.loop /\ r.lsf = t.lsf /\ r.rrf = t.rrf /\ r.pend = t.pend
    /\ r.disk = t.disk /\ r.goal = t.goal
Requeued(t, r) == Typed(r) /\ SameButLists(t, r) /\ (HasStop(t) => HasStop(r))

LEMMA ConfTypes ==
  ASSUME conf \in Confs
  PROVE  /\ Latency \in Frames
         /\ AutoReturn \in BOOLEAN /\ PunchInOn \in BOOLEAN /\ PunchOutOn \in BOOLEAN
         /\ HasLoop \in BOOLEAN /\ LoopStart \in Frames /\ LoopEnd \in Frames
         /\ conf.auto_punch.there \in BOOLEAN
         /\ conf.auto_punch.start \in Frames /\ conf.auto_punch.end \in Frames
         /\ Asks \subseteq AllAsks /\ conf.requests \in Nat
<1>1. /\ conf.latency \in Frames
      /\ {conf.auto_return, conf.punch_in, conf.punch_out} \subseteq BOOLEAN
      /\ {conf.auto_loop, conf.auto_punch} \subseteq Ranges
      /\ conf.asks \subseteq AllAsks /\ conf.requests \in Nat
  BY ConfAssumption
<1>2. \A r \in Ranges : r.there \in BOOLEAN /\ r.start \in Frames /\ r.end \in Frames
  <2>1. 0 \in Frames
    BY FramesAssumption DEF Frames
  <2> TAKE r \in Ranges
  <2>2. CASE r = NoRange
    BY <2>1, <2>2 DEF NoRange
  <2>3. CASE r \in [there : {TRUE}, start : Frames, end : Frames]
    BY <2>3
  <2> QED BY <2>2, <2>3 DEF Ranges
<1>3. /\ conf.auto_loop \in Ranges /\ conf.auto_punch \in Ranges
      /\ conf.auto_return \in BOOLEAN /\ conf.punch_in \in BOOLEAN /\ conf.punch_out \in BOOLEAN
  BY <1>1
<1> QED BY <1>1, <1>2, <1>3
        DEF Latency, AutoReturn, PunchInOn, PunchOutOn, HasLoop, LoopStart, LoopEnd, Asks

LEMMA WrappedIn == \A f \in Int : Wrapped(f) \in Frames
  BY FramesAssumption DEF Wrapped, Frames

LEMMA WrappedSmall == \A f \in Frames : Wrapped(f) = f
  BY FramesAssumption DEF Wrapped, Frames

LEMMA FramesAre ==
  /\ MaxFrames \in Nat /\ Block \in Nat /\ 1 <= Block /\ Block <= MaxFrames
  /\ SessionEnd \in Frames /\ 0 \in Frames /\ MaxFrames \in Frames
  /\ Frames \subseteq Int
  /\ \A f \in Int : f \in Frames <=> 0 <= f /\ f <= MaxFrames
  BY FramesAssumption DEF Frames

-----------------------------------------------------------------------------
(* The queue operators on the session.                                     *)

\* New lists in the place of the old.
\* t with another list of timed events.
WithTimed(t, es, n) == [t EXCEPT !.events = es, !.next = n]

LEMMA WithLists ==
  ASSUME NEW t, t \in Session, NEW es \in Seq(Timed), NEW n, n \in 1 .. Len(es) + 1
  PROVE  LET r == WithTimed(t, es, n)
         IN  Requeued(t, r) /\ r.events = es /\ r.imm = t.imm
<1> DEFINE r == [t EXCEPT !.events = es, !.next = n]
<1>1. r \in Session
  <2>1. n \in Nat
    OBVIOUS
  <2> QED BY <2>1 DEF Session
<1>2. r.events = es /\ r.next = n /\ r.imm = t.imm
  BY DEF Session
<1>3. SameButLists(t, r)
  BY DEF Session, SameButLists
<1>4. r = WithTimed(t, es, n)
  BY DEF WithTimed
<1> HIDE DEF r
<1>5. Typed(r)
  BY <1>1, <1>2 DEF Typed
<1>6. Requeued(t, r)
  BY <1>2, <1>3, <1>5 DEF Requeued, HasStop
<1> QED BY <1>2, <1>4, <1>6

LEMMA SetNextEventRequeues ==
  ASSUME NEW t, t \in Session, t.next # 0
  PROVE  LET r == SetNextEvent(t) IN Requeued(t, r) /\ r.events = t.events /\ r.imm = t.imm
<1>1. Len(t.events) \in Nat /\ t.next \in Nat \ {0} /\ t.events \in Seq(Timed)
  BY DEF Session
<1>2. PICK n \in 1 .. Len(t.events) + 1 : SetNextEvent(t) = [t EXCEPT !.next = n]
  BY <1>1, NextIn
<1> DEFINE r == [t EXCEPT !.next = n]
<1>3. r \in Session
  <2>1. n \in Nat
    BY <1>1
  <2> QED BY <2>1 DEF Session
<1>4. r.next = n /\ r.events = t.events /\ r.imm = t.imm
  BY DEF Session
<1>5. SameButLists(t, r)
  BY DEF Session, SameButLists
<1> HIDE DEF r
<1>6. Typed(r)
  BY <1>3, <1>4 DEF Typed
<1>7. Requeued(t, r)
  BY <1>4, <1>5, <1>6 DEF Requeued, HasStop
<1>8. SetNextEvent(t) = r
  BY <1>2 DEF r
<1> QED BY <1>4, <1>7, <1>8

LEMMA RequeuedTwice ==
  ASSUME NEW t, NEW r, NEW u, Requeued(t, r), Requeued(r, u)
  PROVE  Requeued(t, u)
<1>1. SameButLists(t, u)
  BY DEF Requeued, SameButLists
<1> QED BY <1>1 DEF Requeued

LEMMA RequeuedNot == ASSUME NEW t, Typed(t) PROVE Requeued(t, t)
  BY DEF Requeued, SameButLists

LEMMA Least ==
  ASSUME NEW L \in Nat, NEW S \in SUBSET (1 .. L), S # {}
  PROVE  (CHOOSE i \in S : \A j \in S : i <= j) \in S
<1>1. S \in SUBSET Nat
  OBVIOUS
<1>2. \E i \in S : \A j \in S : i <= j
  BY <1>1, Smallest
<1> QED BY <1>2

LEMMA RemoveEventRequeues ==
  ASSUME NEW t, Typed(t), NEW ev
  PROVE  Requeued(t, RemoveEvent(t, ev)) /\ RemoveEvent(t, ev).imm = t.imm
<1> DEFINE i  == CHOOSE i \in Named(t, ev) : \A j \in Named(t, ev) : i <= j
           es == Without(t.events, i)
           n  == IF i < t.next THEN t.next - 1 ELSE t.next
           m  == [t EXCEPT !.events = es, !.next = n]
<1>1. CASE Named(t, ev) = {}
  BY <1>1, RequeuedNot DEF RemoveEvent
<1>2. CASE Named(t, ev) # {}
  <2>1. t.events \in Seq(Timed) /\ Len(t.events) \in Nat /\ t.next \in 1 .. Len(t.events) + 1
        /\ DOMAIN t.events = 1 .. Len(t.events) /\ t \in Session
    BY DEF Typed, Session
  <2>2. i \in 1 .. Len(t.events)
    <3>1. Named(t, ev) \in SUBSET (1 .. Len(t.events))
      BY <2>1 DEF Named
    <3>2. i \in Named(t, ev)
      BY <2>1, <1>2, <3>1, Least
    <3> QED BY <3>1, <3>2
  <2>3. RemoveEvent(t, ev) = SetNextEvent(m)
    BY <1>2, Zenon DEF RemoveEvent
  <2> HIDE DEF i
  <2>4. es \in Seq(Timed) /\ Len(es) = Len(t.events) - 1
    BY <2>1, <2>2, WithoutAt
  <2>5. n \in 1 .. Len(es) + 1
    BY <2>1, <2>2, <2>4
  <2> HIDE DEF es, n
  <2>a. m = WithTimed(t, es, n)
    BY DEF WithTimed
  <2> HIDE DEF m
  <2>6. Requeued(t, m) /\ m.imm = t.imm
    BY <2>1, <2>4, <2>5, <2>a, WithLists
  <2>7. m \in Session /\ m.next # 0
    BY <2>6 DEF Requeued, Typed
  <2>8. Requeued(m, SetNextEvent(m)) /\ SetNextEvent(m).imm = m.imm
    BY <2>7, SetNextEventRequeues
  <2> QED BY <2>3, <2>6, <2>8, RequeuedTwice
<1> QED BY <1>1, <1>2

LEMMA InsertedIn ==
  ASSUME NEW s0 \in Seq(Timed), NEW ev \in Timed
  PROVE  Inserted(s0, ev) \in Seq(Timed) /\ Len(Inserted(s0, ev)) = Len(s0) + 1
<1> DEFINE B == {i \in DOMAIN s0 : s0[i].at < ev.at}
<1>1. B \in SUBSET DOMAIN s0
  OBVIOUS
<1>2. Inserted(s0, ev) = Spliced(s0, B, ev)
  BY DEF Inserted
<1> HIDE DEF B
<1> QED BY <1>1, <1>2, SplicedIn

LEMMA MovedIn ==
  ASSUME NEW s0 \in Seq(Timed), NEW i \in DOMAIN s0, NEW ev \in Timed
  PROVE  Moved(s0, i, ev) \in Seq(Timed)
<1> DEFINE rest == Without(s0, i)
           B == {j \in DOMAIN rest : IF j < i THEN rest[j].at <= ev.at ELSE rest[j].at < ev.at}
<1>1. rest \in Seq(Timed)
  BY WithoutAt
<1>2. B \in SUBSET DOMAIN rest
  OBVIOUS
<1>3. Moved(s0, i, ev) = Spliced(rest, B, ev)
  BY Zenon DEF Moved
<1> HIDE DEF rest, B
<1> QED BY <1>1, <1>2, <1>3, SplicedIn

LEMMA ReplaceEventRequeues ==
  ASSUME NEW t, Typed(t), NEW ev \in Timed
  PROVE  Requeued(t, ReplaceEvent(t, ev)) /\ ReplaceEvent(t, ev).imm = t.imm
<1> DEFINE same == {i \in DOMAIN t.events : t.events[i].type = ev.type}
           i  == CHOOSE i \in same : \A j \in same : i <= j
           at == [t.events[i] EXCEPT !.at = ev.at, !.target = ev.target]
           es == IF same = {} THEN Inserted(t.events, ev) ELSE Moved(t.events, i, at)
           m  == [t EXCEPT !.events = es, !.next = Len(es) + 1]
<1>1. t.events \in Seq(Timed) /\ Len(t.events) \in Nat
      /\ DOMAIN t.events = 1 .. Len(t.events) /\ t \in Session
  BY DEF Typed, Session
<1>2. es \in Seq(Timed)
  <2>1. CASE same = {}
    BY <1>1, <2>1, InsertedIn
  <2>2. CASE same # {}
    <3>1. same \in SUBSET (1 .. Len(t.events))
      BY <1>1
    <3>2. i \in same
      <4> HIDE DEF same
      <4> QED BY <1>1, <2>2, <3>1, Least
    <3>3. i \in DOMAIN t.events
      BY <3>1, <3>2
    <3> HIDE DEF i
    <3>4. t.events[i] \in Timed
      BY <1>1, <3>3
    <3>5. at \in Timed
      BY <3>4 DEF Timed
    <3> HIDE DEF at, same
    <3>6. Moved(t.events, i, at) \in Seq(Timed)
      BY <1>1, <3>3, <3>5, MovedIn
    <3> QED BY <2>2, <3>6
  <2> QED BY <2>1, <2>2
<1>3. ReplaceEvent(t, ev) = SetNextEvent(m)
  BY Zenon DEF ReplaceEvent
<1> HIDE DEF es
<1>4. Len(es) + 1 \in 1 .. Len(es) + 1
  BY <1>2
<1>a. m = WithTimed(t, es, Len(es) + 1)
  BY DEF WithTimed
<1> HIDE DEF m
<1>5. Requeued(t, m) /\ m.imm = t.imm
  BY <1>1, <1>2, <1>4, <1>a, WithLists
<1>6. m \in Session /\ m.next # 0
  BY <1>5 DEF Requeued, Typed
<1>7. Requeued(m, SetNextEvent(m)) /\ SetNextEvent(m).imm = m.imm
  BY <1>6, SetNextEventRequeues
<1> QED BY <1>3, <1>5, <1>7, RequeuedTwice

\* Clearing another type leaves a deferred stop where it is.
LEMMA StopKept ==
  ASSUME NEW A, NEW v \in Seq(A), NEW type, type # "Stop",
         NEW i \in DOMAIN v, v[i].type = "Stop"
  PROVE  \E j \in DOMAIN Chosen(v, Others(v, type)) : Chosen(v, Others(v, type))[j].type = "Stop"
<1> DEFINE J == Others(v, type)
<1>1. i \in J
  BY DEF Others
<1>2. \A k \in J : k \in Nat /\ 1 <= k /\ k <= Len(v)
  BY DEF Others
<1> HIDE DEF J
<1>3. \E j \in DOMAIN Chosen(v, J) : Chosen(v, J)[j] = v[i]
  BY <1>1, <1>2, ChosenHas
<1> QED BY <1>3 DEF J

LEMMA ClearEventTypeRequeues ==
  ASSUME NEW t, Typed(t), NEW type, type # "Stop"
  PROVE  Requeued(t, ClearEventType(t, type))
<1> DEFINE I  == Others(t.events, type)
           J  == Others(t.imm, type)
           skipped == {i \in I : i < t.next}
           es == Chosen(t.events, I)
           im == Chosen(t.imm, J)
           n  == Cardinality(skipped) + 1
           m  == [t EXCEPT !.events = es, !.next = n, !.imm = im]
<1>1. /\ t \in Session /\ t.next \in Nat
      /\ t.events \in Seq(Timed) /\ Len(t.events) \in Nat /\ DOMAIN t.events = 1 .. Len(t.events)
      /\ t.imm \in Seq(Timed \cup Commands) /\ Len(t.imm) \in Nat /\ DOMAIN t.imm = 1 .. Len(t.imm)
  BY DEF Typed, Session
<1> HIDE DEF I, J
<1>2. \A i \in I : i \in Nat /\ 1 <= i /\ i <= Len(t.events)
  BY <1>1 DEF I, Others
<1>15. \A i \in J : i \in Nat /\ 1 <= i /\ i <= Len(t.imm)
  BY <1>1 DEF J, Others
<1>3. ClearEventType(t, type) = SetNextEvent(m)
  BY Zenon DEF ClearEventType, I, J
<1>4. HasStop(t) => \E j \in DOMAIN im : im[j].type = "Stop"
  <2> SUFFICES ASSUME NEW i \in DOMAIN t.imm, t.imm[i].type = "Stop"
               PROVE  \E j \in DOMAIN im : im[j].type = "Stop"
    BY DEF HasStop
  <2> QED BY <1>1, StopKept DEF J
<1>5. I \subseteq 1 .. Len(t.events)
  BY <1>1 DEF I, Others
<1>6. es \in Seq(Timed) /\ Len(es) = Cardinality(I) /\ im \in Seq(Timed \cup Commands)
  <2>1. t.events \in Seq(Timed) /\ t.imm \in Seq(Timed \cup Commands)
    BY <1>1
  <2>2. es \in Seq(Timed) /\ Len(es) = Cardinality(I)
    BY <1>2, <2>1, ChosenAt
  <2>3. im \in Seq(Timed \cup Commands)
    BY <1>15, <2>1, ChosenAt
  <2> QED BY <2>2, <2>3
<1>7. n \in 1 .. Len(es) + 1
  <2>1. IsFiniteSet(I)
    <3>1. IsFiniteSet(1 .. Len(t.events))
      BY <1>1, FS_Interval
    <3> QED BY <1>5, <3>1, FS_Subset
  <2>2. skipped \subseteq I
    OBVIOUS
  <2>3. IsFiniteSet(skipped) /\ Cardinality(skipped) <= Cardinality(I)
        /\ Cardinality(skipped) \in Nat /\ Cardinality(I) \in Nat
    BY <2>1, <2>2, FS_Subset, FS_CardinalityType
  <2> QED BY <1>6, <2>3
<1> HIDE DEF es, im, n
<1>8. n \in Nat /\ n # 0
  BY <1>6, <1>7
<1>9. m \in Session
  BY <1>1, <1>6, <1>8 DEF Session
<1>10. m.next = n /\ m.events = es /\ m.imm = im
  BY <1>1 DEF Session
<1>11. SameButLists(t, m)
  BY <1>1 DEF Session, SameButLists
<1> HIDE DEF m
<1>12. Requeued(t, m)
  BY <1>4, <1>7, <1>9, <1>10, <1>11 DEF Requeued, Typed, HasStop
<1>13. Requeued(m, SetNextEvent(m))
  BY <1>8, <1>9, <1>10, SetNextEventRequeues
<1> QED BY <1>3, <1>12, <1>13, RequeuedTwice

-----------------------------------------------------------------------------
(* What holds of the session between any two steps.                        *)

Waits == {"DeclickOut", "PendingLocate", "StopPendingCapture"}

Sound(t) ==
    /\ Typed(t)
    /\ t.count > 0 => t.work # {}
    /\ t.work # {} => "Stop" \in t.work \/ "Locate" \in t.work
    /\ "Roll" \in t.work => "Locate" \in t.work
    /\ t.work # {} /\ t.speed # 0 => "Stop" \notin t.work /\ "Roll" \in t.work
    /\ t.speed = 0 => t.sub \cap Waits = {}
    /\ "PendingLocate" \in t.sub => "DeclickOut" \in t.sub
    /\ PunchInOn /\ Recording(t) => t.work = {}
    /\ ~HasLoop => ~t.loop
    /\ "RollAndReturn" \notin Asks => t.rrf = -1
    /\ "Record" \notin Asks => t.rec = "Disabled"

\* The segment that fades out ahead of a locate, whose position has been assigned.
Faded(t) == {"DeclickOut", "PendingLocate"} \subseteq t.sub /\ t.frame = t.plFrame

\* A handler leaves the diskstreams alone, and schedules work if it moves or stops the
\* transport, unless it begins such a fade.
Steady(t, r) ==
    /\ r.disk = t.disk /\ t.count <= r.count /\ t.work \subseteq r.work
    /\ r.count = t.count =>
          /\ r.work = t.work
          /\ r.speed = 0 => t.speed = 0 /\ r.frame = t.frame
          /\ Faded(t) => Faded(r)
          /\ r.frame = t.frame \/ Faded(r)

\* A stop has been made, or is on its way.
Stopping(t) ==
    \/ HasStop(t)
    \/ t.speed = 0 /\ "Roll" \notin t.work
    \/ "StopPendingCapture" \in t.sub
    \/ "DeclickOut" \in t.sub /\ "PendingLocate" \notin t.sub

\* The transport is at the frame, or on its way there.
Nearing(t, at) ==
    /\ t.speed = 0 => t.frame = at \/ "Roll" \in t.work
    /\ "DeclickOut" \in t.sub => "PendingLocate" \in t.sub /\ (t.plRoll \/ t.plFrame = at)

LEMMA SteadyTwice ==
  ASSUME NEW t, NEW r, NEW u, Typed(t), Typed(r), Typed(u), Steady(t, r), Steady(r, u)
  PROVE  Steady(t, u)
<1>1. t.count \in Nat /\ r.count \in Nat /\ u.count \in Nat
  BY DEF Typed, Session
<1>2. u.disk = t.disk /\ t.count <= u.count
  BY <1>1 DEF Steady
<1>3. u.count = t.count => u.count = r.count /\ r.count = t.count
  BY <1>1 DEF Steady
<1> QED BY <1>2, <1>3 DEF Steady

\* Moving events about changes none of this.
LEMMA RequeuedKeeps ==
  ASSUME NEW t, NEW r, Typed(t), Requeued(t, r)
  PROVE  /\ Sound(t) => Sound(r)
         /\ Steady(t, r)
         /\ Stopping(t) => Stopping(r)
         /\ \A at : Nearing(t, at) => Nearing(r, at)
<1>1. Typed(r) /\ SameButLists(t, r) /\ (HasStop(t) => HasStop(r))
  BY DEF Requeued
<1>2. Sound(t) => Sound(r)
  BY <1>1 DEF SameButLists, Sound, Recording
<1>3. Steady(t, r)
  <2>1. t.count \in Nat
    BY DEF Typed, Session
  <2> QED BY <1>1, <2>1 DEF SameButLists, Steady, Faded
<1>4. Stopping(t) => Stopping(r)
  BY <1>1 DEF SameButLists, Stopping
<1>5. \A at : Nearing(t, at) => Nearing(r, at)
  BY <1>1 DEF SameButLists, Nearing
<1> QED BY <1>2, <1>3, <1>4, <1>5

-----------------------------------------------------------------------------
(* Stopping.                                                               *)

LEMMA Decrement ==
  ASSUME NEW t, Typed(t), NEW n \in Frames
  PROVE  LET f == Decremented(t, n).frame
         IN f \in Frames /\ Decremented(t, n) = [t EXCEPT !.frame = f]
<1>1. t.frame \in Frames /\ t \in Session
  BY DEF Typed, Session
<1> DEFINE g == IF n < t.frame THEN t.frame - n ELSE 0
<1>2. g \in Frames
  BY <1>1, FramesAssumption DEF Frames
<1>3. Decremented(t, n) = [t EXCEPT !.frame = g]
  BY DEF Decremented
<1> HIDE DEF g
<1>4. [t EXCEPT !.frame = g].frame = g
  BY <1>1 DEF Session
<1> QED BY <1>2, <1>3, <1>4

\* r is t after realtime_stop().
Halted(t, r) ==
    /\ Typed(r)
    /\ r.speed = 0 /\ r.sub \cap Waits = {} /\ r.rec # "Recording"
    /\ t.work \cup {"Stop"} \subseteq r.work /\ r.work \subseteq t.work \cup {"Stop", "Duration"}
    /\ ~Recording(t) => r.frame = t.frame
    /\ t.rec = "Disabled" => r.rec = "Disabled"
    /\ r.count = t.count /\ r.plFrame = t.plFrame /\ r.plRoll = t.plRoll /\ r.loop = t.loop
    /\ r.lsf = t.lsf /\ r.rrf = t.rrf /\ r.disk = t.disk /\ r.goal = t.goal /\ r.pend = t.pend
    /\ HasStop(t) => HasStop(r)

LEMMA RealtimeStopHalts ==
  ASSUME conf \in Confs, NEW t, Typed(t)
  PROVE  Halted(t, RealtimeStop(t))
<1> DEFINE f == Decremented(t, Latency).frame
           back == IF Recording(t)
                   THEN [Decremented(t, Latency) EXCEPT !.work = @ \cup {"Duration"}] ELSE t
           c1 == ClearEventType(back, "StopOnce")
           c2 == ClearEventType(c1, "RangeStop")
           c3 == ClearEventType(c2, "RangeLocate")
           d  == DisableRecord(c3)
           r  == [d EXCEPT !.work = @ \cup {"Stop"}, !.speed = 0,
                           !.sub = IF AutoReturn THEN {"AutoReturning"} ELSE {}]
<1>1. RealtimeStop(t) = r
  BY Zenon DEF RealtimeStop
<1>2. /\ Typed(back)
      /\ t.work \subseteq back.work /\ back.work \subseteq t.work \cup {"Duration"}
      /\ ~Recording(t) => back.frame = t.frame
      /\ back.rec = t.rec /\ back.count = t.count /\ back.plFrame = t.plFrame
      /\ back.plRoll = t.plRoll /\ back.loop = t.loop /\ back.lsf = t.lsf /\ back.rrf = t.rrf
      /\ back.disk = t.disk /\ back.goal = t.goal /\ back.pend = t.pend /\ back.imm = t.imm
  <2>1. CASE ~Recording(t)
    BY <2>1
  <2>2. CASE Recording(t)
    <3>1. f \in Frames /\ Decremented(t, Latency) = [t EXCEPT !.frame = f]
      BY ConfTypes, Decrement
    <3> HIDE DEF f
    <3>2. back = [[t EXCEPT !.frame = f] EXCEPT !.work = @ \cup {"Duration"}]
      BY <2>2, <3>1
    <3> HIDE DEF back
    <3>3. back = [t EXCEPT !.frame = f, !.work = t.work \cup {"Duration"}]
      BY <3>2 DEF Typed, Session
    <3>4. "Duration" \in Works
      BY DEF Works
    <3>5. back \in Session
      BY <3>1, <3>3, <3>4 DEF Typed, Session
    <3>6. back.next = t.next /\ back.events = t.events /\ back.work = t.work \cup {"Duration"}
      BY <3>3 DEF Typed, Session
    <3>7. /\ back.rec = t.rec /\ back.count = t.count /\ back.plFrame = t.plFrame
          /\ back.plRoll = t.plRoll /\ back.loop = t.loop /\ back.lsf = t.lsf /\ back.rrf = t.rrf
          /\ back.disk = t.disk /\ back.goal = t.goal /\ back.pend = t.pend /\ back.imm = t.imm
      BY <3>3 DEF Typed, Session
    <3> QED BY <2>2, <3>5, <3>6, <3>7 DEF Typed
  <2> QED BY <2>1, <2>2
<1> HIDE DEF back
<1>3. Requeued(back, c3)
  <2>1. Requeued(back, c1)
    BY <1>2, ClearEventTypeRequeues
  <2> HIDE DEF c1
  <2>2. Typed(c1)
    BY <2>1 DEF Requeued
  <2>3. Requeued(c1, c2)
    BY <2>2, ClearEventTypeRequeues
  <2> HIDE DEF c2
  <2>4. Typed(c2)
    BY <2>3 DEF Requeued
  <2>5. Requeued(c2, c3)
    BY <2>4, ClearEventTypeRequeues
  <2> HIDE DEF c3
  <2> QED BY <2>1, <2>3, <2>5, RequeuedTwice
<1> HIDE DEF c3
<1>4. Typed(c3) /\ SameButLists(back, c3) /\ (HasStop(back) => HasStop(c3))
  BY <1>3 DEF Requeued
<1> DEFINE rec == IF ~Latched /\ ~c3.loop THEN "Disabled"
                  ELSE IF c3.rec = "Recording" THEN "Enabled" ELSE c3.rec
           sub == IF AutoReturn THEN {"AutoReturning"} ELSE {}
<1>5. /\ rec \in {"Disabled", "Enabled", "Recording"} /\ rec # "Recording"
      /\ c3.rec = "Disabled" => rec = "Disabled"
  BY <1>4 DEF Typed, Session
<1>6. d = [c3 EXCEPT !.rec = rec]
  BY DEF DisableRecord
<1>7. sub \in SUBSET SubStates /\ sub \cap Waits = {}
  BY DEF SubStates, Waits
<1> HIDE DEF rec, sub
<1>8. r = [c3 EXCEPT !.rec = rec, !.work = c3.work \cup {"Stop"}, !.speed = 0, !.sub = sub]
  BY <1>4, <1>6 DEF Typed, Session, sub
<1> HIDE DEF r, d
<1>9. r \in Session
  <2>1. "Stop" \in Works
    BY DEF Works
  <2> QED BY <1>4, <1>5, <1>7, <1>8, <2>1 DEF Typed, Session
<1>10. /\ r.speed = 0 /\ r.sub = sub /\ r.rec = rec /\ r.work = c3.work \cup {"Stop"}
       /\ r.next = c3.next /\ r.events = c3.events /\ r.imm = c3.imm
  BY <1>4, <1>8 DEF Typed, Session
<1>11. /\ r.frame = c3.frame /\ r.count = c3.count /\ r.plFrame = c3.plFrame
       /\ r.plRoll = c3.plRoll /\ r.loop = c3.loop /\ r.lsf = c3.lsf /\ r.rrf = c3.rrf
       /\ r.disk = c3.disk /\ r.goal = c3.goal /\ r.pend = c3.pend
  BY <1>4, <1>8 DEF Typed, Session
<1>12. Typed(r) /\ (HasStop(c3) => HasStop(r))
  BY <1>4, <1>9, <1>10 DEF Typed, HasStop
<1>13. HasStop(t) => HasStop(r)
  BY <1>2, <1>4, <1>12 DEF HasStop
<1>14. /\ t.work \cup {"Stop"} \subseteq r.work
       /\ r.work \subseteq t.work \cup {"Stop", "Duration"}
  BY <1>2, <1>4, <1>10 DEF SameButLists
<1>15. Halted(t, r)
  BY <1>2, <1>4, <1>5, <1>7, <1>10, <1>11, <1>12, <1>13, <1>14 DEF SameButLists, Halted
<1> QED BY <1>1, <1>15

LEMMA Flags ==
  ASSUME NEW t, Typed(t), NEW flags \in SUBSET SubStates
  PROVE  LET r == [t EXCEPT !.sub = @ \cup flags] IN
         /\ Typed(r)
         /\ r.sub = t.sub \cup flags /\ r.frame = t.frame /\ r.speed = t.speed /\ r.work = t.work
         /\ r.count = t.count /\ r.plFrame = t.plFrame /\ r.plRoll = t.plRoll /\ r.rec = t.rec
         /\ r.loop = t.loop /\ r.lsf = t.lsf /\ r.rrf = t.rrf /\ r.pend = t.pend
         /\ r.disk = t.disk /\ r.goal = t.goal /\ r.imm = t.imm /\ r.events = t.events
<1> DEFINE r == [t EXCEPT !.sub = @ \cup flags]
<1>1. r \in Session
  BY DEF Typed, Session
<1>2. /\ r.sub = t.sub \cup flags /\ r.frame = t.frame /\ r.speed = t.speed /\ r.work = t.work
      /\ r.count = t.count /\ r.plFrame = t.plFrame /\ r.plRoll = t.plRoll /\ r.rec = t.rec
      /\ r.loop = t.loop /\ r.lsf = t.lsf /\ r.rrf = t.rrf /\ r.pend = t.pend
      /\ r.disk = t.disk /\ r.goal = t.goal /\ r.imm = t.imm /\ r.events = t.events
      /\ r.next = t.next
  BY DEF Typed, Session
<1> HIDE DEF r
<1> QED BY <1>1, <1>2 DEF Typed, r

LEMMA Schedules ==
  ASSUME NEW t, Typed(t)
  PROVE  LET r == Schedule(t) IN
         /\ Typed(r)
         /\ r.count = t.count + 1
         /\ r.sub = t.sub /\ r.frame = t.frame /\ r.speed = t.speed /\ r.work = t.work
         /\ r.plFrame = t.plFrame /\ r.plRoll = t.plRoll /\ r.rec = t.rec
         /\ r.loop = t.loop /\ r.lsf = t.lsf /\ r.rrf = t.rrf /\ r.pend = t.pend
         /\ r.disk = t.disk /\ r.goal = t.goal /\ r.imm = t.imm /\ r.events = t.events
<1> DEFINE r == [t EXCEPT !.count = @ + 1]
<1>1. r \in Session
  <2>1. t.count + 1 \in Nat
    BY DEF Typed, Session
  <2> QED BY <2>1 DEF Typed, Session
<1>2. /\ r.count = t.count + 1
      /\ r.sub = t.sub /\ r.frame = t.frame /\ r.speed = t.speed /\ r.work = t.work
      /\ r.plFrame = t.plFrame /\ r.plRoll = t.plRoll /\ r.rec = t.rec
      /\ r.loop = t.loop /\ r.lsf = t.lsf /\ r.rrf = t.rrf /\ r.pend = t.pend
      /\ r.disk = t.disk /\ r.goal = t.goal /\ r.imm = t.imm /\ r.events = t.events
      /\ r.next = t.next
  BY DEF Typed, Session
<1>3. Schedule(t) = r
  BY DEF Schedule
<1> HIDE DEF r
<1> QED BY <1>1, <1>2, <1>3 DEF Typed

\* A stop comes in three: capture what is under way, then fade out, then halt.
LEMMA StopTransportCases ==
  ASSUME conf \in Confs, NEW t, Typed(t), t.speed # 0
  PROVE  \/ \E q : Requeued(t, q) /\ StopTransport(t) = [q EXCEPT !.sub = @ \cup {"StopPendingCapture"}]
         \/ "DeclickOut" \notin t.sub /\ StopTransport(t) = [t EXCEPT !.sub = @ \cup {"DeclickOut"}]
         \/ "DeclickOut" \in t.sub /\ StopTransport(t) = Schedule(RealtimeStop(t))
<1> DEFINE late == Wrapped(t.frame + Latency - Block)
           ev   == Event("StopOnce", late, 0)
           q    == ReplaceEvent(t, ev)
<1>1. CASE Recording(t) /\ "StopPendingCapture" \notin t.sub /\ Latency > Block
  <2>1. StopTransport(t) = [q EXCEPT !.sub = @ \cup {"StopPendingCapture"}]
    BY <1>1 DEF StopTransport
  <2>2. late \in Frames
    <3>1. t.frame \in Int /\ Latency \in Int /\ Block \in Int
      <4>1. t.frame \in Frames /\ Latency \in Frames
        BY ConfTypes DEF Typed, Session
      <4> QED BY <4>1, FramesAssumption DEF Frames
    <3>2. t.frame + Latency - Block \in Int
      BY <3>1
    <3> QED BY <3>2, WrappedIn
  <2> HIDE DEF late
  <2>3. ev \in Timed
    <3>1. "StopOnce" \in TimedTypes
      BY <1>1 DEF TimedTypes
    <3> QED BY <2>2, <3>1, FramesAre DEF Timed, Event
  <2>4. Requeued(t, q)
    <3> HIDE DEF ev
    <3> QED BY <2>3, ReplaceEventRequeues
  <2> QED BY <2>1, <2>4
<1>2. CASE ~ (Recording(t) /\ "StopPendingCapture" \notin t.sub /\ Latency > Block)
  <2>1. StopTransport(t) = IF "DeclickOut" \notin t.sub THEN [t EXCEPT !.sub = @ \cup {"DeclickOut"}]
                           ELSE Schedule(RealtimeStop(t))
    BY <1>2, Zenon DEF StopTransport
  <2> QED BY <2>1
<1> QED BY <1>1, <1>2

LEMMA HaltedSound ==
  ASSUME NEW t, NEW h, Sound(t), Halted(t, h)
  PROVE  Sound(Schedule(h)) /\ Steady(t, Schedule(h))
<1> DEFINE r == Schedule(h)
<1>1. /\ Typed(h)
      /\ h.speed = 0 /\ h.sub \cap Waits = {} /\ h.rec # "Recording"
      /\ t.work \cup {"Stop"} \subseteq h.work /\ h.work \subseteq t.work \cup {"Stop", "Duration"}
      /\ t.rec = "Disabled" => h.rec = "Disabled"
      /\ h.count = t.count /\ h.loop = t.loop /\ h.rrf = t.rrf /\ h.disk = t.disk
  BY DEF Halted
<1>2. /\ Typed(r)
      /\ r.count = h.count + 1 /\ r.sub = h.sub /\ r.speed = h.speed /\ r.work = h.work
      /\ r.rec = h.rec /\ r.loop = h.loop /\ r.rrf = h.rrf /\ r.disk = h.disk
  BY <1>1, Schedules
<1> HIDE DEF r
<1>3. t.count \in Nat
  BY DEF Sound, Typed, Session
<1>4. Steady(t, r)
  BY <1>1, <1>2, <1>3 DEF Steady
<1>5. "Roll" \in r.work => "Locate" \in r.work
  BY <1>1, <1>2 DEF Sound
<1>6. "Stop" \in r.work /\ r.speed = 0 /\ r.sub \cap Waits = {} /\ ~Recording(r)
  BY <1>1, <1>2 DEF Recording
<1>7. /\ ~HasLoop => ~r.loop
      /\ "RollAndReturn" \notin Asks => r.rrf = -1
      /\ "Record" \notin Asks => r.rec = "Disabled"
  BY <1>1, <1>2 DEF Sound
<1>8. "PendingLocate" \notin r.sub
  BY <1>6 DEF Waits
<1>9. Sound(r)
  BY <1>2, <1>5, <1>6, <1>7, <1>8 DEF Sound
<1> QED BY <1>4, <1>9 DEF r

LEMMA FlagsKeep ==
  ASSUME NEW t, Sound(t), t.speed # 0, NEW flags \in SUBSET SubStates,
         "PendingLocate" \in flags => "DeclickOut" \in flags
  PROVE  LET r == [t EXCEPT !.sub = @ \cup flags] IN Sound(r) /\ Steady(t, r)
<1> DEFINE r == [t EXCEPT !.sub = @ \cup flags]
<1>1. /\ Typed(r)
      /\ r.sub = t.sub \cup flags /\ r.frame = t.frame /\ r.speed = t.speed /\ r.work = t.work
      /\ r.count = t.count /\ r.plFrame = t.plFrame /\ r.rec = t.rec
      /\ r.loop = t.loop /\ r.rrf = t.rrf /\ r.disk = t.disk
  BY Flags DEF Sound
<1> HIDE DEF r
<1>2. t.count \in Nat
  BY DEF Sound, Typed, Session
<1>3. Steady(t, r)
  BY <1>1, <1>2 DEF Steady, Faded
<1>4. Sound(r)
  BY <1>1 DEF Sound, Recording
<1> QED BY <1>3, <1>4 DEF r

LEMMA StopTransportKeeps ==
  ASSUME conf \in Confs, NEW t, Sound(t)
  PROVE  LET r == StopTransport(t) IN
         /\ Sound(r) /\ Steady(t, r) /\ r.goal = t.goal
         /\ t.work = {} => Stopping(r)
<1> DEFINE r == StopTransport(t)
<1>1. CASE t.speed = 0
  <2>1. r = t
    BY <1>1 DEF StopTransport
  <2>2. t.count \in Nat
    BY DEF Sound, Typed, Session
  <2> QED BY <1>1, <2>1, <2>2 DEF Steady, Stopping
<1>2. CASE t.speed # 0
  <2>1. CASE \E q : Requeued(t, q) /\ r = [q EXCEPT !.sub = @ \cup {"StopPendingCapture"}]
    <3>1. PICK q : Requeued(t, q) /\ r = [q EXCEPT !.sub = @ \cup {"StopPendingCapture"}]
      BY <2>1
    <3>2. Typed(t)
      BY DEF Sound
    <3>3. Sound(q) /\ Steady(t, q) /\ q.speed = t.speed /\ q.goal = t.goal
      BY <3>1, <3>2, RequeuedKeeps DEF Requeued, SameButLists
    <3> HIDE DEF r
    <3>4. Typed(q)
      BY <3>3 DEF Sound
    <3> DEFINE flags == {"StopPendingCapture"}
    <3>5. flags \in SUBSET SubStates /\ "PendingLocate" \notin flags /\ "StopPendingCapture" \in flags
      BY DEF SubStates
    <3>6. r = [q EXCEPT !.sub = @ \cup flags]
      BY <3>1
    <3> HIDE DEF flags
    <3>7. Sound(r) /\ Steady(q, r)
      BY <1>2, <3>3, <3>5, <3>6, FlagsKeep
    <3>8. r.goal = q.goal /\ r.sub = q.sub \cup flags
      BY <3>4, <3>5, <3>6, Flags
    <3>9. Steady(t, r)
      BY <3>2, <3>3, <3>4, <3>7, SteadyTwice DEF Sound
    <3>10. Stopping(r)
      BY <3>5, <3>8 DEF Stopping
    <3> QED BY <3>3, <3>7, <3>8, <3>9, <3>10 DEF r
  <2>2. CASE "DeclickOut" \notin t.sub /\ r = [t EXCEPT !.sub = @ \cup {"DeclickOut"}]
    <3> HIDE DEF r
    <3> DEFINE flags == {"DeclickOut"}
    <3>1. flags \in SUBSET SubStates /\ "PendingLocate" \notin flags /\ "DeclickOut" \in flags
      BY DEF SubStates
    <3>2. r = [t EXCEPT !.sub = @ \cup flags]
      BY <2>2
    <3> HIDE DEF flags
    <3>3. Sound(r) /\ Steady(t, r)
      BY <1>2, <3>1, <3>2, FlagsKeep
    <3>4. r.goal = t.goal /\ r.sub = t.sub \cup flags
      BY <3>1, <3>2, Flags DEF Sound
    <3>5. "PendingLocate" \notin t.sub
      BY <2>2 DEF Sound
    <3>6. Stopping(r)
      BY <3>1, <3>4, <3>5 DEF Stopping
    <3> QED BY <3>3, <3>4, <3>6 DEF r
  <2>3. CASE r = Schedule(RealtimeStop(t))
    <3> DEFINE h == RealtimeStop(t)
    <3>1. Halted(t, h)
      BY RealtimeStopHalts DEF Sound
    <3> HIDE DEF h
    <3>2. Sound(Schedule(h)) /\ Steady(t, Schedule(h))
      BY <3>1, HaltedSound
    <3>3. /\ Schedule(h).goal = h.goal /\ Schedule(h).speed = h.speed /\ Schedule(h).work = h.work
      BY <3>1, Schedules DEF Halted
    <3>4. r = Schedule(h)
      BY <2>3 DEF h
    <3> HIDE DEF r
    <3>5. t.work = {} => Stopping(r)
      BY <3>1, <3>3, <3>4 DEF Halted, Stopping
    <3>6. r.goal = t.goal
      BY <3>1, <3>3, <3>4 DEF Halted
    <3> QED BY <3>2, <3>4, <3>5, <3>6 DEF r
  <2> QED BY <1>2, <2>1, <2>2, <2>3, StopTransportCases DEF Sound
<1> QED BY <1>1, <1>2

-----------------------------------------------------------------------------
(* Starting, looping and locating.                                         *)

\* r is t after start_transport().
Started(t, r) ==
    /\ Typed(r)
    /\ r.speed = 1 /\ r.sub = t.sub \cup {"DeclickIn"}
    /\ r.frame = t.frame /\ r.work = t.work /\ r.count = t.count /\ r.plFrame = t.plFrame
    /\ r.plRoll = t.plRoll /\ r.loop = t.loop /\ r.lsf = t.lsf /\ r.rrf = t.rrf
    /\ r.pend = t.pend /\ r.disk = t.disk /\ r.goal = t.goal /\ r.imm = t.imm
    /\ r.events = t.events

LEMMA StartedWith ==
  ASSUME NEW t, Typed(t), NEW rec \in {"Disabled", "Enabled", "Recording"},
         NEW r, r = [[t EXCEPT !.rec = rec] EXCEPT !.sub = @ \cup {"DeclickIn"}, !.speed = 1]
  PROVE  Started(t, r) /\ r.rec = rec
<1> DEFINE sub == t.sub \cup {"DeclickIn"}
<1>1. sub \in SUBSET SubStates
  BY DEF SubStates, Typed, Session
<1>2. r = [t EXCEPT !.rec = rec, !.sub = sub, !.speed = 1]
  BY DEF Typed, Session
<1> HIDE DEF sub
<1>3. r \in Session
  BY <1>1, <1>2 DEF Typed, Session
<1>4. /\ r.speed = 1 /\ r.sub = sub /\ r.rec = rec
      /\ r.frame = t.frame /\ r.work = t.work /\ r.count = t.count /\ r.plFrame = t.plFrame
      /\ r.plRoll = t.plRoll /\ r.loop = t.loop /\ r.lsf = t.lsf /\ r.rrf = t.rrf
      /\ r.pend = t.pend /\ r.disk = t.disk /\ r.goal = t.goal /\ r.imm = t.imm
      /\ r.events = t.events /\ r.next = t.next
  BY <1>2 DEF Typed, Session
<1>5. Typed(r)
  BY <1>3, <1>4 DEF Typed
<1> QED BY <1>4, <1>5 DEF sub, Started

LEMMA Starts ==
  ASSUME conf \in Confs, NEW t, Typed(t)
  PROVE  LET r == StartTransport(t) IN
         /\ Started(t, r)
         /\ t.rec = "Disabled" => r.rec = "Disabled"
         /\ PunchInOn /\ ~Recording(t) => ~Recording(r)
<1> DEFINE dis == IF ~Latched /\ ~t.loop THEN "Disabled"
                  ELSE IF t.rec = "Recording" THEN "Enabled" ELSE t.rec
           r   == StartTransport(t)
<1>1. t.rec \in {"Disabled", "Enabled", "Recording"} /\ t \in Session
  BY DEF Typed, Session
<1>2. CASE t.rec = "Enabled" /\ ~PunchInOn
  <2>1. r = [[t EXCEPT !.rec = "Recording"] EXCEPT !.sub = @ \cup {"DeclickIn"}, !.speed = 1]
    BY <1>2 DEF StartTransport, EnableRecord
  <2> HIDE DEF r
  <2>2. Started(t, r) /\ r.rec = "Recording"
    BY <2>1, StartedWith
  <2> QED BY <1>2, <2>2 DEF r
<1>3. CASE t.rec = "Recording" /\ ~t.loop
  <2>1. r = [[t EXCEPT !.rec = dis] EXCEPT !.sub = @ \cup {"DeclickIn"}, !.speed = 1]
    BY <1>3 DEF StartTransport, DisableRecord
  <2>2. dis \in {"Disabled", "Enabled", "Recording"} /\ dis # "Recording"
    BY <1>1, <1>3
  <2> HIDE DEF dis, r
  <2>3. Started(t, r) /\ r.rec = dis
    BY <2>1, <2>2, StartedWith
  <2> QED BY <1>3, <2>2, <2>3 DEF Recording, r
<1>4. CASE ~ (t.rec = "Enabled" /\ ~PunchInOn) /\ ~ (t.rec = "Recording" /\ ~t.loop)
  <2>1. r = [t EXCEPT !.sub = @ \cup {"DeclickIn"}, !.speed = 1]
    BY <1>4 DEF StartTransport
  <2>2. [t EXCEPT !.rec = t.rec] = t
    BY <1>1 DEF Session
  <2>3. r = [[t EXCEPT !.rec = t.rec] EXCEPT !.sub = @ \cup {"DeclickIn"}, !.speed = 1]
    BY <2>1, <2>2
  <2> HIDE DEF r
  <2>4. Started(t, r) /\ r.rec = t.rec
    BY <1>1, <2>3, StartedWith
  <2> QED BY <2>4 DEF Recording, r
<1> QED BY <1>2, <1>3, <1>4

\* Starting a transport at rest, with nothing under way.
LEMMA StartKeeps ==
  ASSUME conf \in Confs, NEW t, Sound(t), t.work = {}, t.speed = 0
  PROVE  LET r == StartTransport(t) IN
         /\ Sound(r) /\ Steady(t, r) /\ r.goal = t.goal
         /\ HasStop(t) => HasStop(r)
         /\ \A at : Nearing(r, at)
<1> DEFINE r == StartTransport(t)
<1>1. /\ Started(t, r)
      /\ t.rec = "Disabled" => r.rec = "Disabled"
      /\ PunchInOn /\ ~Recording(t) => ~Recording(r)
  BY Starts DEF Sound
<1> HIDE DEF r
<1>2. t.count \in Nat
  BY DEF Sound, Typed, Session
<1>3. r.sub \cap Waits = {}
  BY <1>1 DEF Started, Sound, Waits
<1>4. Steady(t, r)
  BY <1>1, <1>2 DEF Started, Steady, Faded
<1>5. Sound(r)
  BY <1>1, <1>3 DEF Started, Sound, Waits
<1>6. \A at : Nearing(r, at)
  BY <1>1, <1>3 DEF Started, Nearing, Waits
<1>7. r.goal = t.goal /\ (HasStop(t) => HasStop(r))
  BY <1>1 DEF Started, HasStop
<1> QED BY <1>4, <1>5, <1>6, <1>7 DEF r

\* r is t but for the loop, which goes off, and a command that is queued.
LEMMA LoopOffKeeps ==
  ASSUME conf \in Confs, NEW t, Typed(t)
  PROVE  LET r == LoopOff(t) IN
         /\ Typed(r)
         /\ r.loop => t.loop
         /\ r.frame = t.frame /\ r.speed = t.speed /\ r.work = t.work /\ r.count = t.count
         /\ r.sub = t.sub /\ r.plFrame = t.plFrame /\ r.plRoll = t.plRoll /\ r.rec = t.rec
         /\ r.lsf = t.lsf /\ r.rrf = t.rrf /\ r.disk = t.disk /\ r.goal = t.goal
         /\ r.imm = t.imm /\ r.events = t.events
<1> DEFINE c == [action |-> "Clear", ev |-> Event("AutoLoop", 0, 0)]
           r == [t EXCEPT !.loop = FALSE, !.pend = Append(@, c)]
<1>1. CASE ~HasLoop
  BY <1>1 DEF LoopOff
<1>2. CASE HasLoop
  <2>1. LoopOff(t) = r
    BY <1>2 DEF LoopOff
  <2>2. c \in Pending
    BY DEF Pending
  <2> HIDE DEF c
  <2>3. t \in Session /\ t.pend \in Seq(Pending)
    BY DEF Typed, Session
  <2>4. Append(t.pend, c) \in Seq(Pending)
    BY <2>2, <2>3
  <2>5. r \in Session
    BY <2>3, <2>4 DEF Session
  <2>6. /\ ~r.loop
        /\ r.frame = t.frame /\ r.speed = t.speed /\ r.work = t.work /\ r.count = t.count
        /\ r.sub = t.sub /\ r.plFrame = t.plFrame /\ r.plRoll = t.plRoll /\ r.rec = t.rec
        /\ r.lsf = t.lsf /\ r.rrf = t.rrf /\ r.disk = t.disk /\ r.goal = t.goal
        /\ r.imm = t.imm /\ r.events = t.events /\ r.next = t.next
    BY <2>3 DEF Session
  <2> HIDE DEF r
  <2>7. Typed(r)
    BY <2>5, <2>6 DEF Typed
  <2> QED BY <2>1, <2>6, <2>7
<1> QED BY <1>1, <1>2

\* r is t after the second half of locate().
LocatedAt(t, r, roll) ==
    /\ Typed(r)
    /\ r.frame = t.frame /\ r.disk = t.disk /\ r.count = t.count + 1 /\ r.goal = t.goal
    /\ r.plFrame = t.plFrame /\ r.plRoll = t.plRoll /\ r.lsf = t.lsf /\ r.rrf = t.rrf
    /\ r.speed = IF roll THEN t.speed ELSE 0
    /\ t.work \cup {"Locate"} \subseteq r.work
    /\ r.work \subseteq t.work \cup {"Locate", "Stop", "Duration"} \cup (IF roll THEN {"Roll"} ELSE {})
    /\ roll => "Roll" \in r.work /\ ("Stop" \in r.work => "Stop" \in t.work)
    /\ IF roll \/ t.speed = 0 THEN r.sub = t.sub ELSE r.sub \cap Waits = {}
    /\ ~Recording(r)
    /\ t.rec = "Disabled" => r.rec = "Disabled"
    /\ r.loop => t.loop
    /\ HasStop(t) => HasStop(r)

LEMMA LocatedIs ==
  ASSUME conf \in Confs, NEW t, Typed(t), ~Recording(t), NEW roll \in BOOLEAN
  PROVE  LocatedAt(t, Located(t, roll), roll)
<1> DEFINE stopped == IF t.speed # 0 /\ ~roll THEN RealtimeStop(t) ELSE t
           flags   == {"Locate"} \cup (IF roll THEN {"Roll"} ELSE {})
           flagged == [stopped EXCEPT !.work = @ \cup flags]
           asks    == Schedule(flagged)
           outside == asks.frame < LoopStart \/ asks.frame > LoopEnd
           r       == IF asks.loop /\ HasLoop /\ outside THEN LoopOff(asks) ELSE asks
<1>1. Located(t, roll) = r
  BY Zenon DEF Located
<1>2. /\ Typed(stopped)
      /\ stopped.frame = t.frame /\ stopped.disk = t.disk /\ stopped.count = t.count
      /\ stopped.goal = t.goal /\ stopped.plFrame = t.plFrame /\ stopped.plRoll = t.plRoll
      /\ stopped.lsf = t.lsf /\ stopped.rrf = t.rrf
      /\ stopped.speed = IF roll THEN t.speed ELSE 0
      /\ t.work \subseteq stopped.work /\ stopped.work \subseteq t.work \cup {"Stop", "Duration"}
      /\ roll => stopped.work = t.work
      /\ IF roll \/ t.speed = 0 THEN stopped.sub = t.sub ELSE stopped.sub \cap Waits = {}
      /\ stopped.rec # "Recording"
      /\ t.rec = "Disabled" => stopped.rec = "Disabled"
      /\ stopped.loop = t.loop
      /\ HasStop(t) => HasStop(stopped)
  <2>1. CASE t.speed # 0 /\ ~roll
    <3>1. Halted(t, stopped)
      BY <2>1, RealtimeStopHalts
    <3> HIDE DEF stopped
    <3> QED BY <2>1, <3>1 DEF Halted
  <2>2. CASE ~ (t.speed # 0 /\ ~roll)
    BY <2>2 DEF Recording
  <2> QED BY <2>1, <2>2
<1> HIDE DEF stopped
<1>3. flags \in SUBSET Works /\ "Locate" \in flags /\ (roll => "Roll" \in flags)
      /\ flags \subseteq {"Locate"} \cup (IF roll THEN {"Roll"} ELSE {}) /\ "Stop" \notin flags
  BY DEF Works
<1> HIDE DEF flags
<1>4. /\ flagged \in Session
      /\ flagged.work = stopped.work \cup flags
      /\ flagged.next = stopped.next /\ flagged.events = stopped.events /\ flagged.imm = stopped.imm
  BY <1>2, <1>3 DEF Typed, Session
<1>5. /\ flagged.frame = stopped.frame /\ flagged.disk = stopped.disk
      /\ flagged.count = stopped.count /\ flagged.goal = stopped.goal
      /\ flagged.plFrame = stopped.plFrame /\ flagged.plRoll = stopped.plRoll
      /\ flagged.lsf = stopped.lsf /\ flagged.rrf = stopped.rrf
      /\ flagged.speed = stopped.speed /\ flagged.sub = stopped.sub
      /\ flagged.rec = stopped.rec /\ flagged.loop = stopped.loop
  BY <1>2 DEF Typed, Session
<1> HIDE DEF flagged
<1>6. Typed(flagged)
  BY <1>2, <1>4 DEF Typed
<1>7. /\ Typed(asks)
      /\ asks.count = flagged.count + 1
      /\ asks.sub = flagged.sub /\ asks.frame = flagged.frame /\ asks.speed = flagged.speed
      /\ asks.work = flagged.work /\ asks.plFrame = flagged.plFrame
      /\ asks.plRoll = flagged.plRoll /\ asks.rec = flagged.rec /\ asks.loop = flagged.loop
      /\ asks.lsf = flagged.lsf /\ asks.rrf = flagged.rrf /\ asks.disk = flagged.disk
      /\ asks.goal = flagged.goal /\ asks.imm = flagged.imm
  BY <1>6, Schedules
<1> HIDE DEF asks
<1>8. /\ Typed(r)
      /\ r.loop => asks.loop
      /\ r.frame = asks.frame /\ r.speed = asks.speed /\ r.work = asks.work /\ r.count = asks.count
      /\ r.sub = asks.sub /\ r.plFrame = asks.plFrame /\ r.plRoll = asks.plRoll
      /\ r.rec = asks.rec /\ r.lsf = asks.lsf /\ r.rrf = asks.rrf /\ r.disk = asks.disk
      /\ r.goal = asks.goal /\ r.imm = asks.imm
  BY <1>7, LoopOffKeeps
<1> HIDE DEF r, outside
<1>9. /\ r.work = stopped.work \cup flags /\ r.sub = stopped.sub /\ r.speed = stopped.speed
      /\ r.count = stopped.count + 1 /\ r.rec = stopped.rec /\ r.imm = stopped.imm
      /\ r.loop => stopped.loop
  BY <1>4, <1>5, <1>7, <1>8
<1>10. /\ r.frame = t.frame /\ r.disk = t.disk /\ r.goal = t.goal /\ r.plFrame = t.plFrame
       /\ r.plRoll = t.plRoll /\ r.lsf = t.lsf /\ r.rrf = t.rrf /\ r.count = t.count + 1
  BY <1>2, <1>5, <1>7, <1>8
<1>11. /\ t.work \cup {"Locate"} \subseteq r.work
       /\ r.work \subseteq t.work \cup {"Locate", "Stop", "Duration"} \cup (IF roll THEN {"Roll"} ELSE {})
       /\ roll => "Roll" \in r.work /\ ("Stop" \in r.work => "Stop" \in t.work)
  BY <1>2, <1>3, <1>9
<1>12. /\ r.speed = IF roll THEN t.speed ELSE 0
       /\ IF roll \/ t.speed = 0 THEN r.sub = t.sub ELSE r.sub \cap Waits = {}
       /\ r.rec # "Recording"
       /\ t.rec = "Disabled" => r.rec = "Disabled"
       /\ r.loop => t.loop
  BY <1>2, <1>9
<1>13. HasStop(t) => HasStop(r)
  BY <1>2, <1>9 DEF HasStop
<1>14. Typed(r)
  BY <1>8
<1> QED BY <1>1, <1>10, <1>11, <1>12, <1>13, <1>14 DEF LocatedAt, Recording

\* r is t with a locate to wait for the fade.
Pended(t, r, f, roll) ==
    /\ Typed(r)
    /\ r.frame = f /\ r.plFrame = f /\ r.plRoll = roll
    /\ r.sub = t.sub \cup {"DeclickOut", "PendingLocate"}
    /\ r.speed = t.speed /\ r.work = t.work /\ r.count = t.count /\ r.rec = t.rec
    /\ r.loop = t.loop /\ r.lsf = t.lsf /\ r.rrf = t.rrf /\ r.disk = t.disk /\ r.goal = t.goal
    /\ r.imm = t.imm

\* t with its position assigned.
LEMMA Moves ==
  ASSUME NEW t, Typed(t), NEW f \in Frames
  PROVE  LET r == [t EXCEPT !.frame = f] IN
         /\ Typed(r)
         /\ r.frame = f /\ r.speed = t.speed /\ r.work = t.work /\ r.count = t.count
         /\ r.sub = t.sub /\ r.plFrame = t.plFrame /\ r.plRoll = t.plRoll /\ r.rec = t.rec
         /\ r.loop = t.loop /\ r.lsf = t.lsf /\ r.rrf = t.rrf /\ r.disk = t.disk
         /\ r.goal = t.goal /\ r.imm = t.imm /\ r.events = t.events /\ r.pend = t.pend
<1> DEFINE r == [t EXCEPT !.frame = f]
<1>1. r \in Session
  BY DEF Typed, Session
<1>2. /\ r.frame = f /\ r.speed = t.speed /\ r.work = t.work /\ r.count = t.count
      /\ r.sub = t.sub /\ r.plFrame = t.plFrame /\ r.plRoll = t.plRoll /\ r.rec = t.rec
      /\ r.loop = t.loop /\ r.lsf = t.lsf /\ r.rrf = t.rrf /\ r.disk = t.disk
      /\ r.goal = t.goal /\ r.imm = t.imm /\ r.events = t.events /\ r.pend = t.pend
      /\ r.next = t.next
  BY DEF Typed, Session
<1> HIDE DEF r
<1> QED BY <1>1, <1>2 DEF Typed, r

LEMMA SpeedOne ==
  ASSUME NEW t, Typed(t)
  PROVE  \/ (t.speed = 1 \/ AtSessionEnd(t)) /\ SetTransportSpeed(t, 1) = t
         \/ t.speed = 0 /\ ~AtSessionEnd(t) /\ SetTransportSpeed(t, 1) = StartTransport(t)
<1>1. t.speed \in {0, 1}
  BY DEF Typed, Session
<1> QED BY <1>1 DEF SetTransportSpeed

LEMMA LocateCases ==
  ASSUME conf \in Confs, NEW t, Typed(t), NEW f \in Frames, NEW roll \in BOOLEAN
  PROVE  LET r == Locate(t, f, roll) IN
         \/ /\ Recording(t) \/ (t.frame = f /\ (roll => t.speed = 1 \/ AtSessionEnd(t)))
            /\ r = t
         \/ /\ ~Recording(t) /\ t.frame = f /\ roll /\ t.speed = 0 /\ ~AtSessionEnd(t)
            /\ r = StartTransport(t)
         \/ /\ ~Recording(t) /\ t.frame # f /\ t.speed # 0 /\ "DeclickOut" \notin t.sub
            /\ Pended(t, r, f, roll)
         \/ /\ ~Recording(t) /\ t.frame # f /\ (t.speed = 0 \/ "DeclickOut" \in t.sub)
            /\ LocatedAt([t EXCEPT !.frame = f], r, roll)
<1> DEFINE r == Locate(t, f, roll)
           there == [t EXCEPT !.frame = f]
           flags == {"DeclickOut", "PendingLocate"}
<1>1. CASE Recording(t)
  BY <1>1 DEF Locate
<1>2. CASE ~Recording(t) /\ t.frame = f
  <2>1. r = IF roll THEN SetTransportSpeed(t, 1) ELSE t
    BY <1>2, Zenon DEF Locate
  <2> HIDE DEF r
  <2>2. CASE roll
    BY <1>2, <2>1, <2>2, SpeedOne DEF r
  <2>3. CASE ~roll
    BY <1>2, <2>1, <2>3 DEF r
  <2> QED BY <2>2, <2>3
<1>3. CASE ~Recording(t) /\ t.frame # f
  <2>1. r = IF t.speed # 0 /\ "DeclickOut" \notin t.sub
            THEN [there EXCEPT !.sub = @ \cup flags, !.plFrame = f, !.plRoll = roll]
            ELSE Located(there, roll)
    BY <1>3, Zenon DEF Locate
  <2>2. Typed(there) /\ there.rec = t.rec
    BY Moves
  <2>3. CASE t.speed # 0 /\ "DeclickOut" \notin t.sub
    <3> DEFINE sub == t.sub \cup flags
    <3>1. sub \in SUBSET SubStates
      BY DEF Typed, Session, SubStates
    <3>2. r = [there EXCEPT !.sub = @ \cup flags, !.plFrame = f, !.plRoll = roll]
      BY <2>1, <2>3
    <3> HIDE DEF r
    <3>3. r = [t EXCEPT !.frame = f, !.sub = sub, !.plFrame = f, !.plRoll = roll]
      BY <3>2 DEF Typed, Session
    <3> HIDE DEF sub, there
    <3>4. r \in Session
      BY <3>1, <3>3 DEF Typed, Session
    <3>5. /\ r.frame = f /\ r.plFrame = f /\ r.plRoll = roll /\ r.sub = sub
          /\ r.speed = t.speed /\ r.work = t.work /\ r.count = t.count /\ r.rec = t.rec
          /\ r.loop = t.loop /\ r.lsf = t.lsf /\ r.rrf = t.rrf /\ r.disk = t.disk
          /\ r.goal = t.goal /\ r.imm = t.imm /\ r.events = t.events /\ r.next = t.next
      BY <3>3 DEF Typed, Session
    <3>6. Typed(r)
      BY <3>4, <3>5 DEF Typed
    <3>7. Pended(t, r, f, roll)
      BY <3>5, <3>6 DEF Pended, sub
    <3> QED BY <1>3, <2>3, <3>7 DEF r
  <2>4. CASE ~ (t.speed # 0 /\ "DeclickOut" \notin t.sub)
    <3>1. r = Located(there, roll)
      BY <2>1, <2>4
    <3> HIDE DEF r, there
    <3>2. LocatedAt(there, r, roll)
      BY <1>3, <2>2, <3>1, LocatedIs DEF Recording
    <3> QED BY <1>3, <2>4, <3>2 DEF r, there
  <2> QED BY <2>3, <2>4
<1> QED BY <1>1, <1>2, <1>3

LEMMA PendedKeeps ==
  ASSUME NEW t, Sound(t), NEW r, NEW f \in Frames, NEW roll \in BOOLEAN,
         t.speed # 0, Pended(t, r, f, roll)
  PROVE  Sound(r) /\ Steady(t, r)
<1>1. t.count \in Nat
  BY DEF Sound, Typed, Session
<1>2. Steady(t, r)
  BY <1>1 DEF Pended, Steady, Faded
<1>3. Sound(r)
  BY DEF Pended, Sound, Recording
<1> QED BY <1>2, <1>3

LEMMA LocatedKeeps ==
  ASSUME NEW t, Sound(t), NEW r, NEW f \in Frames, NEW roll \in BOOLEAN,
         NEW there, there = [t EXCEPT !.frame = f], LocatedAt(there, r, roll)
  PROVE  Sound(r) /\ Steady(t, r) /\ r.frame = f /\ r.goal = t.goal
<1>1. /\ there.frame = f /\ there.speed = t.speed /\ there.work = t.work
      /\ there.count = t.count /\ there.sub = t.sub /\ there.rec = t.rec
      /\ there.loop = t.loop /\ there.rrf = t.rrf /\ there.disk = t.disk
      /\ there.goal = t.goal /\ there.imm = t.imm
  BY Moves DEF Sound
<1>2. LocatedAt(there, r, roll)
  OBVIOUS
<1>3. t.count \in Nat
  BY DEF Sound, Typed, Session
<1>4. Steady(t, r)
  BY <1>1, <1>2, <1>3 DEF LocatedAt, Steady
<1>5. /\ "Locate" \in r.work
      /\ r.speed # 0 => "Stop" \notin r.work /\ "Roll" \in r.work
  <2>1. r.speed # 0 => roll /\ t.speed # 0
    BY <1>1, <1>2 DEF LocatedAt
  <2>2. roll => "Roll" \in r.work /\ ("Stop" \in r.work => "Stop" \in t.work)
    BY <1>1, <1>2 DEF LocatedAt
  <2>3. t.speed # 0 => "Stop" \notin t.work
    BY DEF Sound
  <2>4. "Locate" \in r.work
    BY <1>2 DEF LocatedAt
  <2> QED BY <2>1, <2>2, <2>3, <2>4
<1>6. /\ r.speed = 0 => r.sub \cap Waits = {}
      /\ "PendingLocate" \in r.sub => "DeclickOut" \in r.sub
  BY <1>1, <1>2 DEF LocatedAt, Sound, Waits
<1>7. /\ ~Recording(r)
      /\ ~HasLoop => ~r.loop
      /\ "RollAndReturn" \notin Asks => r.rrf = -1
      /\ "Record" \notin Asks => r.rec = "Disabled"
      /\ Typed(r) /\ r.frame = f /\ r.goal = t.goal
  BY <1>1, <1>2 DEF LocatedAt, Sound
<1>8. Sound(r)
  BY <1>5, <1>6, <1>7 DEF Sound
<1> QED BY <1>4, <1>7, <1>8

LEMMA LocateKeeps ==
  ASSUME conf \in Confs, NEW t, Sound(t), NEW f \in Frames, NEW roll \in BOOLEAN,
         roll => t.work = {}
  PROVE  LET r == Locate(t, f, roll) IN
         /\ Sound(r) /\ Steady(t, r) /\ r.goal = t.goal
         /\ HasStop(t) => HasStop(r)
<1> DEFINE r == Locate(t, f, roll)
<1>1. Typed(t) /\ t.count \in Nat
  BY DEF Sound, Typed, Session
<1>2. CASE r = t
  BY <1>1, <1>2 DEF Steady
<1>3. CASE roll /\ t.speed = 0 /\ r = StartTransport(t)
  <2> HIDE DEF r
  <2> QED BY <1>3, StartKeeps DEF r
<1>4. CASE t.speed # 0 /\ Pended(t, r, f, roll)
  <2> HIDE DEF r
  <2>1. Sound(r) /\ Steady(t, r)
    BY <1>4, PendedKeeps
  <2>2. r.goal = t.goal /\ (HasStop(t) => HasStop(r))
    BY <1>4 DEF Pended, HasStop
  <2> QED BY <2>1, <2>2 DEF r
<1>5. CASE LocatedAt([t EXCEPT !.frame = f], r, roll)
  <2> DEFINE there == [t EXCEPT !.frame = f]
  <2>1. there.imm = t.imm
    BY <1>1, Moves
  <2>2. there = [t EXCEPT !.frame = f] /\ LocatedAt(there, r, roll)
    BY <1>5
  <2> HIDE DEF r, there
  <2>3. Sound(r) /\ Steady(t, r) /\ r.goal = t.goal
    BY <2>2, LocatedKeeps
  <2>4. HasStop(t) => HasStop(r)
    BY <2>1, <2>2 DEF LocatedAt, HasStop
  <2> QED BY <2>3, <2>4 DEF r
<1> HIDE DEF r
<1>6. \/ r = t
      \/ roll /\ t.speed = 0 /\ r = StartTransport(t)
      \/ t.speed # 0 /\ Pended(t, r, f, roll)
      \/ LocatedAt([t EXCEPT !.frame = f], r, roll)
  BY <1>1, LocateCases DEF r
<1> QED BY <1>2, <1>3, <1>4, <1>5, <1>6 DEF r

\* A locate without roll takes the transport to its target, unless it does nothing.
LEMMA LocateNears ==
  ASSUME conf \in Confs, NEW t, Sound(t), NEW f \in Frames, ~Recording(t), t.frame # f
  PROVE  Nearing(Locate(t, f, FALSE), f)
<1> DEFINE r == Locate(t, f, FALSE)
           there == [t EXCEPT !.frame = f]
<1>1. Typed(t) /\ t.speed \in {0, 1}
  BY DEF Sound, Typed, Session
<1>2. \/ t.speed # 0 /\ Pended(t, r, f, FALSE)
      \/ LocatedAt(there, r, FALSE)
  BY <1>1, LocateCases
<1>3. there.frame = f /\ there.sub = t.sub /\ there.speed = t.speed
  BY <1>1, Moves
<1> HIDE DEF r, there
<1>4. CASE t.speed # 0 /\ Pended(t, r, f, FALSE)
  BY <1>4 DEF Pended, Nearing, r
<1>5. CASE LocatedAt(there, r, FALSE)
  <2>1. r.frame = f /\ (IF t.speed = 0 THEN r.sub = t.sub ELSE r.sub \cap Waits = {})
    BY <1>3, <1>5 DEF LocatedAt
  <2>2. "DeclickOut" \notin r.sub
    BY <2>1 DEF Sound, Waits
  <2> QED BY <2>1, <2>2 DEF Nearing, r
<1> QED BY <1>2, <1>4, <1>5

\* One with roll, as by the loop event, leaves the transport where it was told to be, or rolls.
LEMMA LocateRollNears ==
  ASSUME conf \in Confs, NEW t, Sound(t), NEW f \in Frames, t.work = {},
         NEW at, Nearing(t, at)
  PROVE  Nearing(Locate(t, f, TRUE), at)
<1> DEFINE r == Locate(t, f, TRUE)
           there == [t EXCEPT !.frame = f]
<1>1. Typed(t) /\ t.speed \in {0, 1}
  BY DEF Sound, Typed, Session
<1>2. \/ r = t
      \/ t.speed = 0 /\ r = StartTransport(t)
      \/ t.speed # 0 /\ Pended(t, r, f, TRUE)
      \/ LocatedAt(there, r, TRUE)
  BY <1>1, LocateCases
<1>3. /\ there.frame = f /\ there.sub = t.sub /\ there.speed = t.speed
      /\ there.plRoll = t.plRoll /\ there.plFrame = t.plFrame
  BY <1>1, Moves
<1> HIDE DEF r, there
<1>4. CASE r = t
  BY <1>4 DEF r
<1>5. CASE t.speed = 0 /\ r = StartTransport(t)
  BY <1>5, StartKeeps DEF r
<1>6. CASE t.speed # 0 /\ Pended(t, r, f, TRUE)
  BY <1>6 DEF Pended, Nearing, r
<1>7. CASE LocatedAt(there, r, TRUE)
  BY <1>3, <1>7 DEF LocatedAt, Nearing, r
<1> QED BY <1>2, <1>4, <1>5, <1>6, <1>7

\* The locate that was waiting for the fade.
LEMMA LocateFaded ==
  ASSUME conf \in Confs, NEW t, Sound(t), NEW f \in Frames, NEW roll \in BOOLEAN,
         "DeclickOut" \in t.sub, t.speed # 0, t.work = {}
  PROVE  LET r == Locate(t, f, roll) IN
         /\ r.speed = 0 => ~roll /\ r.frame = f
         /\ "StopPendingCapture" \in t.sub =>
                "StopPendingCapture" \in r.sub \/ (r.speed = 0 /\ "Roll" \notin r.work)
         /\ r.count = t.count => r = t /\ (Recording(t) \/ t.frame = f)
<1> DEFINE r == Locate(t, f, roll)
           there == [t EXCEPT !.frame = f]
<1>1. Typed(t) /\ t.count \in Nat
  BY DEF Sound, Typed, Session
<1>2. \/ r = t /\ (Recording(t) \/ t.frame = f)
      \/ LocatedAt(there, r, roll)
  BY <1>1, LocateCases
<1>3. /\ there.frame = f /\ there.sub = t.sub /\ there.speed = t.speed
      /\ there.work = t.work /\ there.count = t.count
  BY <1>1, Moves
<1> HIDE DEF r, there
<1>4. CASE r = t /\ (Recording(t) \/ t.frame = f)
  BY <1>4 DEF r
<1>5. CASE LocatedAt(there, r, roll)
  <2>1. r.count # t.count
    BY <1>1, <1>3, <1>5 DEF LocatedAt
  <2>2. CASE roll
    BY <1>3, <1>5, <2>1, <2>2 DEF LocatedAt, r
  <2>3. CASE ~roll
    <3>1. r.speed = 0 /\ r.frame = f /\ "Roll" \notin r.work
      BY <1>3, <1>5, <2>3 DEF LocatedAt
    <3> QED BY <2>1, <2>3, <3>1 DEF r
  <2> QED BY <2>2, <2>3
<1> QED BY <1>2, <1>4, <1>5

\* A stop that does not schedule work yet.
LEMMA StopTransportWaits ==
  ASSUME conf \in Confs, NEW t, Sound(t)
  PROVE  LET r == StopTransport(t) IN
         /\ r.count = t.count => /\ r.frame = t.frame /\ r.plFrame = t.plFrame /\ r.plRoll = t.plRoll
                                 /\ r.speed = t.speed /\ t.sub \subseteq r.sub
         /\ r.work = t.work \/ "DeclickOut" \notin r.sub
         /\ HasStop(t) => HasStop(r)
         /\ "DeclickOut" \in t.sub => "StopPendingCapture" \in r.sub \/ r.speed = 0
<1> DEFINE r == StopTransport(t)
<1>1. Typed(t) /\ t.count \in Nat
  BY DEF Sound, Typed, Session
<1>2. CASE t.speed = 0
  <2>1. r = t
    BY <1>2 DEF StopTransport
  <2> QED BY <1>2, <2>1
<1>3. CASE t.speed # 0
  <2>1. CASE \E q : Requeued(t, q) /\ r = [q EXCEPT !.sub = @ \cup {"StopPendingCapture"}]
    <3>1. PICK q : Requeued(t, q) /\ r = [q EXCEPT !.sub = @ \cup {"StopPendingCapture"}]
      BY <2>1
    <3>2. /\ Typed(q) /\ q.frame = t.frame /\ q.plFrame = t.plFrame /\ q.plRoll = t.plRoll
          /\ q.speed = t.speed /\ q.sub = t.sub /\ q.work = t.work
          /\ HasStop(t) => HasStop(q)
      BY <3>1 DEF Requeued, SameButLists
    <3> HIDE DEF r
    <3> DEFINE flags == {"StopPendingCapture"}
    <3>3. flags \in SUBSET SubStates /\ "StopPendingCapture" \in flags
      BY DEF SubStates
    <3>4. r = [q EXCEPT !.sub = @ \cup flags]
      BY <3>1
    <3> HIDE DEF flags
    <3>5. /\ r.frame = q.frame /\ r.plFrame = q.plFrame /\ r.plRoll = q.plRoll
          /\ r.speed = q.speed /\ r.sub = q.sub \cup flags /\ r.work = q.work /\ r.imm = q.imm
      BY <3>2, <3>3, <3>4, Flags
    <3>6. HasStop(t) => HasStop(r)
      BY <3>2, <3>5 DEF HasStop
    <3> QED BY <3>2, <3>3, <3>5, <3>6 DEF r
  <2>2. CASE "DeclickOut" \notin t.sub /\ r = [t EXCEPT !.sub = @ \cup {"DeclickOut"}]
    <3> HIDE DEF r
    <3> DEFINE flags == {"DeclickOut"}
    <3>1. flags \in SUBSET SubStates
      BY DEF SubStates
    <3>2. r = [t EXCEPT !.sub = @ \cup flags]
      BY <2>2
    <3> HIDE DEF flags
    <3>3. /\ r.frame = t.frame /\ r.plFrame = t.plFrame /\ r.plRoll = t.plRoll
          /\ r.speed = t.speed /\ r.sub = t.sub \cup flags /\ r.work = t.work /\ r.imm = t.imm
      BY <1>1, <3>1, <3>2, Flags
    <3> QED BY <2>2, <3>3 DEF r, HasStop
  <2>3. CASE r = Schedule(RealtimeStop(t))
    <3> DEFINE h == RealtimeStop(t)
    <3>1. Halted(t, h)
      BY <1>1, RealtimeStopHalts
    <3> HIDE DEF h
    <3>2. r = Schedule(h)
      BY <2>3 DEF h
    <3> HIDE DEF r
    <3>3. r.count = h.count + 1 /\ r.sub = h.sub /\ r.speed = h.speed /\ r.imm = h.imm
      BY <3>1, <3>2, Schedules DEF Halted
    <3>4. r.count # t.count /\ "DeclickOut" \notin r.sub /\ r.speed = 0
      BY <1>1, <3>1, <3>3 DEF Halted, Waits
    <3>5. HasStop(t) => HasStop(r)
      BY <3>1, <3>3 DEF Halted, HasStop
    <3> QED BY <3>4, <3>5 DEF r
  <2> QED BY <1>1, <1>3, <2>1, <2>2, <2>3, StopTransportCases
<1> QED BY <1>2, <1>3

-----------------------------------------------------------------------------
(* The end of a segment.                                                   *)

LEMMA Unflags ==
  ASSUME NEW t, Typed(t), NEW flags
  PROVE  LET r == [t EXCEPT !.sub = @ \ flags] IN
         /\ Typed(r)
         /\ r.sub = t.sub \ flags /\ r.frame = t.frame /\ r.speed = t.speed /\ r.work = t.work
         /\ r.count = t.count /\ r.plFrame = t.plFrame /\ r.plRoll = t.plRoll /\ r.rec = t.rec
         /\ r.loop = t.loop /\ r.lsf = t.lsf /\ r.rrf = t.rrf /\ r.pend = t.pend
         /\ r.disk = t.disk /\ r.goal = t.goal /\ r.imm = t.imm /\ r.events = t.events
<1> DEFINE r == [t EXCEPT !.sub = @ \ flags]
<1>1. r \in Session
  BY DEF Typed, Session
<1>2. /\ r.sub = t.sub \ flags /\ r.frame = t.frame /\ r.speed = t.speed /\ r.work = t.work
      /\ r.count = t.count /\ r.plFrame = t.plFrame /\ r.plRoll = t.plRoll /\ r.rec = t.rec
      /\ r.loop = t.loop /\ r.lsf = t.lsf /\ r.rrf = t.rrf /\ r.pend = t.pend
      /\ r.disk = t.disk /\ r.goal = t.goal /\ r.imm = t.imm /\ r.events = t.events
      /\ r.next = t.next
  BY DEF Typed, Session
<1> HIDE DEF r
<1> QED BY <1>1, <1>2 DEF Typed, r

LEMMA UnflagsKeep ==
  ASSUME NEW t, Sound(t), NEW flags, "DeclickOut" \in flags => "PendingLocate" \in flags
  PROVE  Sound([t EXCEPT !.sub = @ \ flags])
<1> DEFINE r == [t EXCEPT !.sub = @ \ flags]
<1>1. /\ Typed(r)
      /\ r.sub = t.sub \ flags /\ r.speed = t.speed /\ r.work = t.work
      /\ r.count = t.count /\ r.rec = t.rec /\ r.loop = t.loop /\ r.rrf = t.rrf
  BY Unflags DEF Sound
<1> HIDE DEF r
<1>2. Sound(r)
  BY <1>1 DEF Sound, Recording
<1> QED BY <1>2 DEF r

LEMMA CheckDeclickOutKeeps ==
  ASSUME conf \in Confs, NEW t, Sound(t), "DeclickOut" \in t.sub => t.work = {}
  PROVE  LET r == CheckDeclickOut(t) IN
         /\ Sound(r) /\ r.goal = t.goal /\ r.disk = t.disk /\ t.count <= r.count
         /\ r.count = t.count =>
               /\ r.work = t.work /\ r.speed = t.speed /\ r.frame = t.frame
               /\ {"DeclickOut", "PendingLocate"} \subseteq t.sub =>
                     Recording(t) \/ t.frame = t.plFrame
         /\ Stopping(t) => Stopping(r)
         /\ \A at : Nearing(t, at) => Nearing(r, at)
<1> DEFINE locate == Locate(t, t.plFrame, t.plRoll)
           stop   == StopTransport(t)
           flags  == {"DeclickOut", "PendingLocate"}
           done   == IF "PendingLocate" \in t.sub THEN locate ELSE stop
           r      == [done EXCEPT !.sub = @ \ flags]
<1>1. Typed(t) /\ t.count \in Nat /\ t.plFrame \in Frames /\ t.plRoll \in BOOLEAN
  BY DEF Sound, Typed, Session
<1>2. CASE "DeclickOut" \notin t.sub
  <2>1. CheckDeclickOut(t) = t
    BY <1>2, Zenon DEF CheckDeclickOut
  <2> QED BY <1>1, <1>2, <2>1
<1>3. CASE "DeclickOut" \in t.sub
  <2>1. CheckDeclickOut(t) = r
    BY <1>3, Zenon DEF CheckDeclickOut
  <2>2. t.work = {} /\ t.speed # 0
    BY <1>3 DEF Sound, Waits
  <2>3. /\ Sound(done) /\ Steady(t, done) /\ done.goal = t.goal
        /\ HasStop(t) => HasStop(done)
    <3>1. CASE "PendingLocate" \in t.sub
      <4>1. Sound(locate) /\ Steady(t, locate) /\ locate.goal = t.goal
            /\ (HasStop(t) => HasStop(locate))
        BY <1>1, <2>2, LocateKeeps
      <4> HIDE DEF locate
      <4> QED BY <3>1, <4>1
    <3>2. CASE "PendingLocate" \notin t.sub
      <4>1. Sound(stop) /\ Steady(t, stop) /\ stop.goal = t.goal
        BY StopTransportKeeps
      <4>2. HasStop(t) => HasStop(stop)
        BY StopTransportWaits
      <4> HIDE DEF stop
      <4> QED BY <3>2, <4>1, <4>2
    <3> QED BY <3>1, <3>2
  <2>4. done.count = t.count =>
          /\ done.speed = t.speed /\ done.frame = t.frame
          /\ flags \subseteq t.sub => Recording(t) \/ t.frame = t.plFrame
    <3>1. CASE "PendingLocate" \in t.sub
      <4>1. locate.count = t.count => locate = t /\ (Recording(t) \/ t.frame = t.plFrame)
        BY <1>1, <1>3, <2>2, LocateFaded
      <4> HIDE DEF locate
      <4> QED BY <3>1, <4>1
    <3>2. CASE "PendingLocate" \notin t.sub
      <4>1. stop.count = t.count => stop.frame = t.frame /\ stop.speed = t.speed
        BY StopTransportWaits
      <4> HIDE DEF stop
      <4> QED BY <3>2, <4>1
    <3> QED BY <3>1, <3>2
  <2>5. Stopping(t) => \/ HasStop(done)
                       \/ done.speed = 0 /\ "Roll" \notin done.work
                       \/ "StopPendingCapture" \in done.sub
    <3> SUFFICES ASSUME Stopping(t)
                 PROVE  \/ HasStop(done)
                        \/ done.speed = 0 /\ "Roll" \notin done.work
                        \/ "StopPendingCapture" \in done.sub
      OBVIOUS
    <3>1. CASE "PendingLocate" \in t.sub
      <4>1. HasStop(t) \/ "StopPendingCapture" \in t.sub
        BY <2>2, <3>1 DEF Stopping
      <4>2. "StopPendingCapture" \in t.sub =>
               "StopPendingCapture" \in locate.sub \/ (locate.speed = 0 /\ "Roll" \notin locate.work)
        BY <1>1, <1>3, <2>2, LocateFaded
      <4> HIDE DEF locate
      <4>3. done = locate
        BY <3>1
      <4> HIDE DEF done
      <4> QED BY <2>3, <4>1, <4>2, <4>3
    <3>2. CASE "PendingLocate" \notin t.sub
      <4>1. Sound(stop) /\ Stopping(stop)
        BY <2>2, StopTransportKeeps
      <4>2. "StopPendingCapture" \in stop.sub \/ stop.speed = 0
        BY <1>3, StopTransportWaits
      <4> HIDE DEF stop
      <4>3. stop.speed = 0 => "DeclickOut" \notin stop.sub
        BY <4>1 DEF Sound, Waits
      <4>4. \/ HasStop(stop)
            \/ stop.speed = 0 /\ "Roll" \notin stop.work
            \/ "StopPendingCapture" \in stop.sub
        BY <4>1, <4>2, <4>3 DEF Stopping
      <4> QED BY <3>2, <4>4
    <3> QED BY <3>1, <3>2
  <2>6. ASSUME NEW at, Nearing(t, at) PROVE done.speed = 0 => done.frame = at
    <3>1. "PendingLocate" \in t.sub /\ (t.plRoll \/ t.plFrame = at)
      BY <1>3, <2>6 DEF Nearing
    <3>2. locate.speed = 0 => ~t.plRoll /\ locate.frame = t.plFrame
      BY <1>1, <1>3, <2>2, LocateFaded
    <3> HIDE DEF locate
    <3> QED BY <3>1, <3>2
  <2> HIDE DEF done
  <2>7. Typed(done) /\ done.count \in Nat /\ t.count <= done.count
    BY <2>3 DEF Sound, Typed, Session, Steady
  <2>8. /\ r.sub = done.sub \ flags /\ r.frame = done.frame /\ r.speed = done.speed
        /\ r.work = done.work /\ r.count = done.count /\ r.disk = done.disk
        /\ r.goal = done.goal /\ r.imm = done.imm
    <3> HIDE DEF flags
    <3> QED BY <2>7, Unflags
  <2>9. Sound(r)
    <3>1. "DeclickOut" \in flags => "PendingLocate" \in flags
      OBVIOUS
    <3> HIDE DEF flags
    <3> QED BY <2>3, <3>1, UnflagsKeep
  <2> HIDE DEF r
  <2>10. Stopping(t) => Stopping(r)
    <3> SUFFICES ASSUME Stopping(t) PROVE Stopping(r)
      OBVIOUS
    <3>1. CASE HasStop(done)
      BY <2>8, <3>1 DEF HasStop, Stopping
    <3>2. CASE done.speed = 0 /\ "Roll" \notin done.work
      BY <2>8, <3>2 DEF Stopping
    <3>3. CASE "StopPendingCapture" \in done.sub
      BY <2>8, <3>3 DEF Stopping
    <3> QED BY <2>5, <3>1, <3>2, <3>3
  <2>11. \A at : Nearing(t, at) => Nearing(r, at)
    BY <2>6, <2>8 DEF Nearing
  <2>12. r.count = t.count =>
           /\ r.work = t.work /\ r.speed = t.speed /\ r.frame = t.frame
           /\ flags \subseteq t.sub => Recording(t) \/ t.frame = t.plFrame
    BY <2>3, <2>4, <2>8 DEF Steady
  <2>13. r.goal = t.goal /\ r.disk = t.disk /\ t.count <= r.count
    BY <2>3, <2>7, <2>8 DEF Steady
  <2> QED BY <2>1, <2>9, <2>10, <2>11, <2>12, <2>13
<1> QED BY <1>2, <1>3

LEMMA Aims ==
  ASSUME NEW t, Sound(t), NEW g \in Goals
  PROVE  LET r == [t EXCEPT !.goal = g] IN
         /\ Sound(r) /\ Steady(t, r) /\ r.goal = g
         /\ r.sub = t.sub /\ r.frame = t.frame /\ r.speed = t.speed /\ r.work = t.work
         /\ r.count = t.count /\ r.plFrame = t.plFrame /\ r.plRoll = t.plRoll /\ r.rec = t.rec
         /\ r.loop = t.loop /\ r.disk = t.disk /\ r.imm = t.imm /\ r.events = t.events
         /\ Stopping(r) <=> Stopping(t)
         /\ \A at : Nearing(r, at) <=> Nearing(t, at)
<1> DEFINE r == [t EXCEPT !.goal = g]
<1>1. t \in Session /\ t.next \in 1 .. Len(t.events) + 1 /\ t.count \in Nat
  BY DEF Sound, Typed, Session
<1>2. r \in Session
  BY <1>1 DEF Session
<1>3. /\ r.goal = g
      /\ r.sub = t.sub /\ r.frame = t.frame /\ r.speed = t.speed /\ r.work = t.work
      /\ r.count = t.count /\ r.plFrame = t.plFrame /\ r.plRoll = t.plRoll /\ r.rec = t.rec
      /\ r.loop = t.loop /\ r.lsf = t.lsf /\ r.rrf = t.rrf /\ r.pend = t.pend
      /\ r.disk = t.disk /\ r.imm = t.imm /\ r.events = t.events /\ r.next = t.next
  BY <1>1 DEF Session
<1> HIDE DEF r
<1>4. Typed(r)
  BY <1>1, <1>2, <1>3 DEF Typed
<1>5. Sound(r)
  BY <1>3, <1>4 DEF Sound, Recording
<1>6. Steady(t, r)
  BY <1>1, <1>3 DEF Steady, Faded
<1>7. Stopping(r) <=> Stopping(t)
  BY <1>3 DEF Stopping, HasStop
<1>8. \A at : Nearing(r, at) <=> Nearing(t, at)
  BY <1>3 DEF Nearing
<1> QED BY <1>3, <1>5, <1>6, <1>7, <1>8 DEF r

\* The goal of r is that of t, and r gets there if t does; or it is to stop, and r will.
Aimed(t, r) ==
    \/ /\ r.goal = t.goal
       /\ Stopping(t) => Stopping(r)
       /\ \A at : Nearing(t, at) => Nearing(r, at)
    \/ r.goal = Goal("stop", 0) /\ Stopping(r)

LEMMA MaybeStopKeeps ==
  ASSUME conf \in Confs, NEW t, Sound(t), t.work = {}, t.speed # 0, NEW limit
  PROVE  LET r == MaybeStop(t, limit) IN
         /\ Sound(r) /\ Steady(t, r) /\ Aimed(t, r)
         /\ r.count = t.count => r.frame = t.frame /\ r.plFrame = t.plFrame /\ t.sub \subseteq r.sub
         /\ "DeclickOut" \in r.sub => r.work = {}
<1> DEFINE stop == StopTransport(t)
           g    == Goal("stop", 0)
           r    == [stop EXCEPT !.goal = g]
<1>1. Typed(t) /\ t.count \in Nat
  BY DEF Sound, Typed, Session
<1>2. CASE ~Over(t, limit)
  <2>1. MaybeStop(t, limit) = t
    BY <1>2 DEF MaybeStop
  <2> QED BY <1>1, <2>1 DEF Steady, Aimed
<1>3. CASE Over(t, limit)
  <2>1. MaybeStop(t, limit) = r
    BY <1>3 DEF MaybeStop
  <2>2. Sound(stop) /\ Steady(t, stop) /\ stop.goal = t.goal /\ Stopping(stop)
    BY StopTransportKeeps
  <2>3. /\ stop.count = t.count => /\ stop.frame = t.frame /\ stop.plFrame = t.plFrame
                                   /\ t.sub \subseteq stop.sub
        /\ stop.work = t.work \/ "DeclickOut" \notin stop.sub
    BY StopTransportWaits
  <2> HIDE DEF stop
  <2>4. g \in Goals
    BY FramesAssumption DEF Goals, Goal, Frames
  <2> HIDE DEF g
  <2>5. /\ Sound(r) /\ Steady(stop, r) /\ r.goal = g
        /\ r.sub = stop.sub /\ r.frame = stop.frame /\ r.work = stop.work
        /\ r.count = stop.count /\ r.plFrame = stop.plFrame
        /\ Stopping(r) <=> Stopping(stop)
    BY <2>2, <2>4, Aims
  <2> HIDE DEF r
  <2>6. Steady(t, r)
    BY <1>1, <2>2, <2>5, SteadyTwice DEF Sound
  <2>7. Aimed(t, r)
    BY <2>2, <2>5 DEF Aimed, g
  <2> QED BY <2>1, <2>3, <2>5, <2>6, <2>7
<1> QED BY <1>2, <1>3

LEMMA RolledKeeps ==
  ASSUME conf \in Confs, NEW t, Sound(t), t.work = {}, t.speed # 0,
         NEW n \in 1 .. Block, NEW moved \in Nat, NEW limit
  PROVE  LET r == Rolled(t, n, moved, limit)
             f == IF MaxFrames - moved < t.frame THEN MaxFrames ELSE t.frame + moved
         IN /\ Sound(r) /\ Aimed(t, r) /\ r.disk = Wrapped(t.disk + n) /\ t.count <= r.count
            /\ r.count = t.count =>
                  /\ r.work = {} /\ r.speed # 0 /\ r.frame = f
                  /\ Faded(t) /\ "Record" \notin Asks => t.frame = f
<1> DEFINE f  == IF MaxFrames - moved < t.frame THEN MaxFrames ELSE t.frame + moved
           d  == Wrapped(t.disk + n)
           a0 == [t EXCEPT !.sub = @ \ {"DeclickIn"}]
           a1 == Incremented([a0 EXCEPT !.disk = Wrapped(@ + n)], moved)
           a2 == MaybeStop(a1, limit)
           r  == CheckDeclickOut(a2)
<1>1. Rolled(t, n, moved, limit) = r
  BY Zenon DEF Rolled, Declicked
<1>2. Typed(t) /\ t.frame \in Frames /\ t.disk \in Frames /\ t.count \in Nat
  BY DEF Sound, Typed, Session
<1>3. f \in Frames /\ d \in Frames
  <2>1. f \in Frames
    BY <1>2, FramesAssumption DEF Frames
  <2>2. t.disk + n \in Int
    BY <1>2, FramesAssumption DEF Frames
  <2> QED BY <2>1, <2>2, WrappedIn
<1>4. /\ Typed(a0)
      /\ a0.sub = t.sub \ {"DeclickIn"} /\ a0.frame = t.frame /\ a0.speed = t.speed
      /\ a0.work = t.work /\ a0.count = t.count /\ a0.plFrame = t.plFrame
      /\ a0.plRoll = t.plRoll /\ a0.rec = t.rec /\ a0.loop = t.loop /\ a0.rrf = t.rrf
      /\ a0.disk = t.disk /\ a0.goal = t.goal /\ a0.imm = t.imm
  <2> DEFINE flags == {"DeclickIn"}
  <2>1. a0 = [t EXCEPT !.sub = @ \ flags] /\ flags = {"DeclickIn"}
    OBVIOUS
  <2> HIDE DEF flags, a0
  <2>2. /\ Typed(a0)
        /\ a0.sub = t.sub \ flags /\ a0.frame = t.frame /\ a0.speed = t.speed
        /\ a0.work = t.work /\ a0.count = t.count /\ a0.plFrame = t.plFrame
        /\ a0.plRoll = t.plRoll /\ a0.rec = t.rec /\ a0.loop = t.loop /\ a0.rrf = t.rrf
        /\ a0.disk = t.disk /\ a0.goal = t.goal /\ a0.imm = t.imm
    BY <1>2, <2>1, Unflags
  <2> QED BY <2>1, <2>2
<1>5. Sound(a0)
  <2> DEFINE flags == {"DeclickIn"}
  <2>1. "DeclickOut" \in flags => "PendingLocate" \in flags
    OBVIOUS
  <2>2. a0 = [t EXCEPT !.sub = @ \ flags]
    OBVIOUS
  <2> HIDE DEF flags, a0
  <2> QED BY <2>1, <2>2, UnflagsKeep
<1> HIDE DEF a0
<1>6. a1 = [a0 EXCEPT !.disk = d, !.frame = f]
  BY <1>4 DEF Incremented, Typed, Session
<1> HIDE DEF f, d, a1
<1>7. a1 \in Session
  BY <1>3, <1>4, <1>6 DEF Typed, Session
<1>8. /\ a1.frame = f /\ a1.disk = d
      /\ a1.sub = a0.sub /\ a1.speed = a0.speed
      /\ a1.work = a0.work /\ a1.count = a0.count /\ a1.plFrame = a0.plFrame
      /\ a1.plRoll = a0.plRoll /\ a1.rec = a0.rec /\ a1.loop = a0.loop /\ a1.rrf = a0.rrf
      /\ a1.goal = a0.goal /\ a1.imm = a0.imm /\ a1.events = a0.events /\ a1.next = a0.next
  BY <1>4, <1>6 DEF Typed, Session
<1>9. Typed(a1)
  BY <1>4, <1>7, <1>8 DEF Typed
<1>10. Sound(a1)
  BY <1>5, <1>8, <1>9 DEF Sound, Recording
<1>11. /\ a1.work = {} /\ a1.speed # 0 /\ a1.count = t.count /\ a1.goal = t.goal
       /\ a1.plFrame = t.plFrame
       /\ {"DeclickOut", "PendingLocate"} \subseteq t.sub =>
             {"DeclickOut", "PendingLocate"} \subseteq a1.sub
  BY <1>4, <1>8
<1>12. /\ Stopping(t) => Stopping(a1)
       /\ \A at : Nearing(t, at) => Nearing(a1, at)
  BY <1>4, <1>8 DEF Stopping, HasStop, Nearing
<1>13. /\ Sound(a2) /\ Steady(a1, a2) /\ Aimed(a1, a2)
       /\ a2.count = a1.count =>
             a2.frame = a1.frame /\ a2.plFrame = a1.plFrame /\ a1.sub \subseteq a2.sub
       /\ "DeclickOut" \in a2.sub => a2.work = {}
  BY <1>10, <1>11, MaybeStopKeeps
<1> HIDE DEF a2
<1>14. /\ Sound(r) /\ r.goal = a2.goal /\ r.disk = a2.disk /\ a2.count <= r.count
       /\ r.count = a2.count =>
             /\ r.work = a2.work /\ r.speed = a2.speed /\ r.frame = a2.frame
             /\ {"DeclickOut", "PendingLocate"} \subseteq a2.sub =>
                   Recording(a2) \/ a2.frame = a2.plFrame
       /\ Stopping(a2) => Stopping(r)
       /\ \A at : Nearing(a2, at) => Nearing(r, at)
  BY <1>13, CheckDeclickOutKeeps
<1> HIDE DEF r
<1>15. a2.count \in Nat /\ r.count \in Nat
  BY <1>13, <1>14 DEF Sound, Typed, Session
<1>16. r.disk = d /\ t.count <= r.count
       /\ (r.count = t.count => r.count = a2.count /\ a2.count = a1.count)
  BY <1>2, <1>8, <1>11, <1>13, <1>14, <1>15 DEF Steady
<1>17. ASSUME r.count = t.count
       PROVE  /\ r.work = {} /\ r.speed # 0 /\ r.frame = f
              /\ Faded(t) /\ "Record" \notin Asks => t.frame = f
  <2>1. r.count = a2.count /\ a2.count = a1.count
    BY <1>16, <1>17
  <2>2. /\ r.work = {} /\ r.speed = a2.speed /\ r.frame = f /\ a2.frame = f
        /\ a2.speed # 0 /\ a2.plFrame = t.plFrame
    BY <1>8, <1>11, <1>13, <1>14, <2>1 DEF Steady
  <2>3. ASSUME Faded(t), "Record" \notin Asks PROVE t.frame = f
    <3>1. ~Recording(a2)
      BY <1>13, <2>3 DEF Sound, Recording
    <3>2. {"DeclickOut", "PendingLocate"} \subseteq a2.sub /\ t.frame = t.plFrame
      BY <1>11, <1>13, <2>1, <2>3 DEF Faded
    <3> QED BY <1>14, <2>1, <2>2, <3>1, <3>2
  <2> QED BY <2>2, <2>3
<1>18. Aimed(t, r)
  BY <1>11, <1>12, <1>13, <1>14 DEF Aimed
<1> QED BY <1>1, <1>14, <1>16, <1>17, <1>18 DEF f, d

-----------------------------------------------------------------------------
(* Events.                                                                 *)

LEMMA DeferredRequeues ==
  ASSUME NEW t, Typed(t), NEW ev \in Timed \cup Commands
  PROVE  LET r == Deferred(t, ev) IN Requeued(t, r) /\ (ev.type = "Stop" => HasStop(r))
<1> DEFINE im == Append(t.imm, ev)
           m  == [t EXCEPT !.imm = im]
           r  == RemoveEvent(m, ev)
<1>1. Deferred(t, ev) = r
  BY Zenon DEF Deferred
<1>2. t \in Session /\ t.imm \in Seq(Timed \cup Commands)
  BY DEF Typed, Session
<1>3. im \in Seq(Timed \cup Commands)
  BY <1>2
<1>4. /\ HasStop(t) => \E i \in DOMAIN im : im[i].type = "Stop"
      /\ ev.type = "Stop" => \E i \in DOMAIN im : im[i].type = "Stop"
  <2> DEFINE A == Timed \cup Commands
             v == t.imm
  <2>1. v \in Seq(A) /\ im = Append(v, ev)
    BY <1>2
  <2> HIDE DEF A, v, im
  <2>2. /\ \A i \in DOMAIN v : i \in DOMAIN im /\ im[i] = v[i]
        /\ Len(im) \in DOMAIN im /\ im[Len(im)] = ev
    BY <2>1
  <2>3. ev.type = "Stop" => \E i \in DOMAIN im : im[i].type = "Stop"
    BY <2>2
  <2>4. HasStop(t) => \E i \in DOMAIN im : im[i].type = "Stop"
    BY <2>2 DEF HasStop, v
  <2> QED BY <2>3, <2>4
<1> HIDE DEF im
<1>5. m \in Session
  BY <1>2, <1>3 DEF Session
<1>6. m.imm = im /\ m.events = t.events /\ m.next = t.next
  BY <1>2 DEF Session
<1>7. SameButLists(t, m)
  BY <1>2 DEF Session, SameButLists
<1> HIDE DEF m
<1>8. Typed(m)
  BY <1>5, <1>6 DEF Typed
<1>9. Requeued(t, m)
  BY <1>4, <1>6, <1>7, <1>8 DEF Requeued, HasStop
<1>10. Requeued(m, r) /\ r.imm = m.imm
  BY <1>8, RemoveEventRequeues
<1> HIDE DEF r
<1>11. ev.type = "Stop" => HasStop(r)
  BY <1>4, <1>6, <1>10 DEF HasStop
<1> QED BY <1>1, <1>9, <1>10, <1>11, RequeuedTwice

LEMMA LocateRollNowKeeps ==
  ASSUME conf \in Confs, NEW t, Sound(t), NEW f \in Frames
  PROVE  LET r == LocateRollNow(t, f) IN Sound(r) /\ Steady(t, r)
<1> DEFINE ev == Event("LocateRoll", Immediate, f)
           l  == Locate(t, f, TRUE)
<1>1. ev \in Timed \cup Commands
  BY FramesAssumption DEF Commands, CommandTypes, Event, Frames
<1>2. Typed(t)
  BY DEF Sound
<1> HIDE DEF ev
<1>3. CASE t.work # {}
  <2>1. LocateRollNow(t, f) = Deferred(t, ev)
    BY <1>3, Zenon DEF LocateRollNow, ev
  <2>2. Requeued(t, Deferred(t, ev))
    BY <1>1, <1>2, DeferredRequeues
  <2> QED BY <1>2, <2>1, <2>2, RequeuedKeeps
<1>4. CASE t.work = {}
  <2>1. LocateRollNow(t, f) = RemoveEvent(l, ev)
    BY <1>4, Zenon DEF LocateRollNow, ev
  <2>2. Sound(l) /\ Steady(t, l)
    BY <1>4, LocateKeeps
  <2> HIDE DEF l
  <2>3. Typed(l)
    BY <2>2 DEF Sound
  <2>4. Requeued(l, RemoveEvent(l, ev))
    BY <2>3, RemoveEventRequeues
  <2>5. Sound(RemoveEvent(l, ev)) /\ Steady(l, RemoveEvent(l, ev)) /\ Typed(RemoveEvent(l, ev))
    BY <2>2, <2>3, <2>4, RequeuedKeeps DEF Requeued
  <2> QED BY <1>2, <2>1, <2>2, <2>3, <2>5, SteadyTwice
<1> QED BY <1>3, <1>4

LEMMA LoopOnKeeps ==
  ASSUME conf \in Confs, NEW t, Sound(t), HasLoop, ~Recording(t)
  PROVE  LET r == LoopOn(t) IN Sound(r) /\ Steady(t, r)
<1> DEFINE ev == Event("AutoLoop", LoopEnd, LoopStart)
           l  == [t EXCEPT !.loop = TRUE]
           on == ReplaceEvent(l, ev)
           to == IF LoopStart <= t.frame /\ t.frame <= LoopEnd THEN Wrapped(t.frame + 1)
                 ELSE LoopStart
<1>1. LoopOn(t) = LocateRollNow(on, to)
  BY DEF LoopOn
<1>2. t \in Session /\ t.next \in 1 .. Len(t.events) + 1 /\ t.count \in Nat /\ t.frame \in Frames
  BY DEF Sound, Typed, Session
<1>3. to \in Frames
  <2>1. t.frame + 1 \in Int
    BY <1>2, FramesAssumption DEF Frames
  <2>2. LoopStart \in Frames
    BY ConfTypes
  <2> QED BY <2>1, <2>2, WrappedIn
<1> HIDE DEF to
<1>4. ev \in Timed
  <2>1. LoopStart \in Frames /\ LoopEnd \in Frames /\ 0 \in Frames
    BY ConfTypes, FramesAssumption DEF Frames
  <2>2. "AutoLoop" \in TimedTypes
    BY DEF TimedTypes
  <2> QED BY <2>1, <2>2 DEF Timed, Event
<1>5. l \in Session
  BY <1>2 DEF Session
<1>6. /\ l.frame = t.frame /\ l.speed = t.speed /\ l.work = t.work /\ l.count = t.count
      /\ l.sub = t.sub /\ l.plFrame = t.plFrame /\ l.rec = t.rec /\ l.rrf = t.rrf
      /\ l.disk = t.disk /\ l.events = t.events /\ l.next = t.next
  BY <1>2 DEF Session
<1> HIDE DEF l, ev
<1>7. Typed(l)
  BY <1>2, <1>5, <1>6 DEF Typed
<1>8. Sound(l)
  BY <1>6, <1>7 DEF Sound, Recording
<1>9. Steady(t, l)
  BY <1>2, <1>6 DEF Steady, Faded
<1>10. Requeued(l, on)
  BY <1>4, <1>7, ReplaceEventRequeues
<1> HIDE DEF on
<1>11. Sound(on) /\ Steady(l, on)
  BY <1>7, <1>8, <1>10, RequeuedKeeps
<1> DEFINE r == LocateRollNow(on, to)
<1>12. Sound(r) /\ Steady(on, r)
  BY <1>3, <1>11, LocateRollNowKeeps
<1> HIDE DEF r
<1>13. Steady(t, on)
  BY <1>7, <1>9, <1>11, SteadyTwice DEF Sound
<1>14. Steady(t, r)
  BY <1>11, <1>12, <1>13, SteadyTwice DEF Sound
<1> QED BY <1>1, <1>12, <1>14 DEF r

\* Given the goal g that an event leaves asked for, r goes on towards it as t did, or sets out.
Heads(t, r, g) ==
    \/ /\ g = t.goal
       /\ ~HasLoop => (Stopping(t) => Stopping(r))
       /\ \A at : Nearing(t, at) => Nearing(r, at)
    \/ g.kind = "stop" /\ Stopping(r)
    \/ g.kind = "roll"
    \/ g.kind = "stay" /\ Nearing(r, g.at)

Keeps(t, r, g) == Sound(r) /\ Steady(t, r) /\ g \in Goals /\ Heads(t, r, g)

LEMMA GoalIn == ASSUME NEW kind \in {"stop", "stay", "roll"}, NEW at \in Frames
                PROVE  Goal(kind, at) \in Goals /\ Goal(kind, at).kind = kind /\ Goal(kind, at).at = at
  BY DEF Goal, Goals

LEMMA KeepsAsIs ==
  ASSUME NEW t, Sound(t) PROVE Keeps(t, t, t.goal)
<1>1. t.count \in Nat /\ t.goal \in Goals
  BY DEF Sound, Typed, Session
<1> QED BY <1>1 DEF Keeps, Heads, Steady

\* Events that only set other members of the session.
LEMMA KeepsSetting ==
  ASSUME NEW t, Sound(t), NEW r, Sound(r),
         r.frame = t.frame, r.speed = t.speed, r.work = t.work, r.count = t.count,
         r.sub = t.sub, r.plFrame = t.plFrame, r.plRoll = t.plRoll, r.disk = t.disk,
         r.imm = t.imm
  PROVE  Keeps(t, r, t.goal)
<1>1. t.count \in Nat /\ t.goal \in Goals
  BY DEF Sound, Typed, Session
<1>2. Steady(t, r)
  BY <1>1 DEF Steady, Faded
<1>3. Stopping(t) => Stopping(r)
  BY DEF Stopping, HasStop
<1>4. \A at : Nearing(t, at) => Nearing(r, at)
  BY DEF Nearing
<1> QED BY <1>1, <1>2, <1>3, <1>4 DEF Keeps, Heads

LEMMA PlayKeeps ==
  ASSUME conf \in Confs, NEW t, Sound(t), t.work = {}
  PROVE  Keeps(t, SetTransportSpeed(t, 1), IF AtSessionEnd(t) THEN t.goal ELSE Goal("roll", 0))
<1> DEFINE r == SetTransportSpeed(t, 1)
<1>1. Typed(t) /\ t.count \in Nat /\ t.speed \in {0, 1} /\ 0 \in Frames
  BY FramesAssumption DEF Sound, Typed, Session, Frames
<1>2. Sound(r) /\ Steady(t, r)
  <2>1. CASE r = t
    BY <1>1, <2>1 DEF Steady
  <2>2. CASE t.speed = 0 /\ r = StartTransport(t)
    BY <2>2, StartKeeps
  <2> QED BY <1>1, <2>1, <2>2, SpeedOne
<1>3. CASE AtSessionEnd(t)
  <2>1. r = t
    BY <1>1, <1>3, SpeedOne
  <2> QED BY <1>3, <2>1, KeepsAsIs
<1>4. CASE ~AtSessionEnd(t)
  <2> HIDE DEF r
  <2> DEFINE g == Goal("roll", 0)
  <2>1. g \in Goals /\ g.kind = "roll"
    BY <1>1, GoalIn
  <2> HIDE DEF g
  <2>2. Keeps(t, r, g)
    BY <1>2, <2>1 DEF Keeps, Heads
  <2> QED BY <1>4, <2>2 DEF r, g
<1> QED BY <1>3, <1>4

LEMMA StopKeeps ==
  ASSUME conf \in Confs, NEW t, Sound(t), t.work = {}
  PROVE  Keeps(t, SetTransportSpeed(t, 0), Goal("stop", 0))
<1>1. SetTransportSpeed(t, 0) = StopTransport(t)
  BY DEF SetTransportSpeed, StopTransport
<1> DEFINE r == StopTransport(t)
           g == Goal("stop", 0)
<1>2. Sound(r) /\ Steady(t, r) /\ Stopping(r)
  BY StopTransportKeeps
<1>3. g \in Goals /\ g.kind = "stop"
  BY GoalIn, FramesAssumption DEF Frames
<1> HIDE DEF r, g
<1>4. Keeps(t, r, g)
  BY <1>2, <1>3 DEF Keeps, Heads
<1> QED BY <1>1, <1>4 DEF r, g

LEMMA StopOnceKeeps ==
  ASSUME conf \in Confs, NEW t, Sound(t), t.work = {}
  PROVE  Keeps(t, ClearEventType(StopTransport(t), "StopOnce"), Goal("stop", 0))
<1> DEFINE q == StopTransport(t)
           r == ClearEventType(q, "StopOnce")
           g == Goal("stop", 0)
<1>1. Sound(q) /\ Steady(t, q) /\ Stopping(q)
  BY StopTransportKeeps
<1>2. g \in Goals /\ g.kind = "stop"
  BY GoalIn, FramesAssumption DEF Frames
<1> HIDE DEF q, g
<1>3. Typed(q) /\ Typed(t)
  BY <1>1 DEF Sound
<1>4. Requeued(q, r)
  BY <1>3, ClearEventTypeRequeues
<1> HIDE DEF r
<1>5. Sound(r) /\ Steady(q, r) /\ Stopping(r) /\ Typed(r)
  BY <1>1, <1>3, <1>4, RequeuedKeeps DEF Requeued
<1>6. Steady(t, r)
  BY <1>1, <1>3, <1>5, SteadyTwice
<1>7. Keeps(t, r, g)
  BY <1>2, <1>5, <1>6 DEF Keeps, Heads
<1> QED BY <1>7 DEF r, q, g

LEMMA LocateStays ==
  ASSUME conf \in Confs, NEW t, Sound(t), NEW f \in Frames
  PROVE  Keeps(t, Locate(t, f, FALSE),
               IF Recording(t) \/ t.frame = f THEN t.goal ELSE Goal("stay", f))
<1> DEFINE r == Locate(t, f, FALSE)
           g == Goal("stay", f)
<1>1. CASE Recording(t) \/ t.frame = f
  <2>1. r = t
    BY <1>1 DEF Locate
  <2> QED BY <1>1, <2>1, KeepsAsIs
<1>2. CASE ~(Recording(t) \/ t.frame = f)
  <2>1. Sound(r) /\ Steady(t, r)
    BY LocateKeeps
  <2>2. Nearing(r, f)
    BY <1>2, LocateNears
  <2>3. g \in Goals /\ g.kind = "stay" /\ g.at = f
    BY GoalIn
  <2> HIDE DEF r, g
  <2>4. Keeps(t, r, g)
    BY <2>1, <2>2, <2>3 DEF Keeps, Heads
  <2> QED BY <1>2, <2>4 DEF r, g
<1> QED BY <1>1, <1>2

LEMMA LocateRolls ==
  ASSUME conf \in Confs, NEW t, Sound(t), t.work = {}, NEW f \in Frames
  PROVE  Keeps(t, Locate(t, f, TRUE),
               IF Recording(t) \/ (t.frame = f /\ AtSessionEnd(t)) THEN t.goal
               ELSE Goal("roll", 0))
<1> DEFINE r == Locate(t, f, TRUE)
           g == Goal("roll", 0)
<1>1. CASE Recording(t) \/ (t.frame = f /\ AtSessionEnd(t))
  <2>1. r = t
    BY <1>1, LocateCases DEF Sound
  <2> QED BY <1>1, <2>1, KeepsAsIs
<1>2. CASE ~(Recording(t) \/ (t.frame = f /\ AtSessionEnd(t)))
  <2>1. Sound(r) /\ Steady(t, r)
    BY LocateKeeps
  <2>2. g \in Goals /\ g.kind = "roll"
    BY GoalIn, FramesAssumption DEF Frames
  <2> HIDE DEF r, g
  <2>3. Keeps(t, r, g)
    BY <2>1, <2>2 DEF Keeps, Heads
  <2> QED BY <1>2, <2>3 DEF r, g
<1> QED BY <1>1, <1>2

LEMMA LoopRolls ==
  ASSUME conf \in Confs, NEW t, Sound(t), HasLoop, t.work = {}, NEW f \in Frames
  PROVE  Keeps(t, Locate(t, f, TRUE), t.goal)
<1> DEFINE r == Locate(t, f, TRUE)
<1>1. Sound(r) /\ Steady(t, r)
  BY LocateKeeps
<1>2. \A at : Nearing(t, at) => Nearing(r, at)
  BY LocateRollNears
<1>3. t.goal \in Goals
  BY DEF Sound, Typed, Session
<1> HIDE DEF r
<1>4. Keeps(t, r, t.goal)
  BY <1>1, <1>2, <1>3 DEF Keeps, Heads
<1> QED BY <1>4 DEF r

LEMMA LoopOnRolls ==
  ASSUME conf \in Confs, NEW t, Sound(t)
  PROVE  Keeps(t, LoopOn(t), IF Recording(t) \/ ~HasLoop THEN t.goal ELSE Goal("roll", 0))
<1> DEFINE r == LoopOn(t)
           g == Goal("roll", 0)
<1>1. CASE Recording(t) \/ ~HasLoop
  <2>1. r = t
    BY <1>1, Zenon DEF LoopOn
  <2> QED BY <1>1, <2>1, KeepsAsIs
<1>2. CASE ~(Recording(t) \/ ~HasLoop)
  <2>1. Sound(r) /\ Steady(t, r)
    BY <1>2, LoopOnKeeps
  <2>2. g \in Goals /\ g.kind = "roll"
    BY GoalIn, FramesAssumption DEF Frames
  <2> HIDE DEF r, g
  <2>3. Keeps(t, r, g)
    BY <2>1, <2>2 DEF Keeps, Heads
  <2> QED BY <1>2, <2>3 DEF r, g
<1> QED BY <1>1, <1>2

LEMMA LoopOffGoesOn ==
  ASSUME conf \in Confs, NEW t, Sound(t)
  PROVE  Keeps(t, LoopOff(t), t.goal)
<1> DEFINE r == LoopOff(t)
<1>1. /\ Typed(r)
      /\ r.loop => t.loop
      /\ r.frame = t.frame /\ r.speed = t.speed /\ r.work = t.work /\ r.count = t.count
      /\ r.sub = t.sub /\ r.plFrame = t.plFrame /\ r.plRoll = t.plRoll /\ r.rec = t.rec
      /\ r.rrf = t.rrf /\ r.disk = t.disk /\ r.imm = t.imm
  BY LoopOffKeeps DEF Sound
<1> HIDE DEF r
<1>2. Sound(r)
  BY <1>1 DEF Sound, Recording
<1>3. Keeps(t, r, t.goal)
  BY <1>1, <1>2, KeepsSetting
<1> QED BY <1>3 DEF r

\* A change of record status alone.
LEMMA RecKeeps ==
  ASSUME NEW t, Sound(t), NEW rec \in {"Disabled", "Enabled", "Recording"},
         PunchInOn /\ rec = "Recording" => t.work = {},
         "Record" \notin Asks => rec = "Disabled"
  PROVE  Keeps(t, [t EXCEPT !.rec = rec], t.goal)
<1> DEFINE r == [t EXCEPT !.rec = rec]
<1>1. t \in Session /\ t.next \in 1 .. Len(t.events) + 1
  BY DEF Sound, Typed
<1>2. r \in Session
  BY <1>1 DEF Session
<1>3. /\ r.rec = rec
      /\ r.frame = t.frame /\ r.speed = t.speed /\ r.work = t.work /\ r.count = t.count
      /\ r.sub = t.sub /\ r.plFrame = t.plFrame /\ r.plRoll = t.plRoll /\ r.loop = t.loop
      /\ r.rrf = t.rrf /\ r.disk = t.disk /\ r.imm = t.imm
      /\ r.events = t.events /\ r.next = t.next
  BY <1>1 DEF Session
<1> HIDE DEF r
<1>4. Typed(r)
  BY <1>1, <1>2, <1>3 DEF Typed
<1>5. Sound(r)
  BY <1>3, <1>4 DEF Sound, Recording
<1>6. Keeps(t, r, t.goal)
  BY <1>3, <1>5, KeepsSetting
<1> QED BY <1>6 DEF r

LEMMA PunchInKeeps ==
  ASSUME conf \in Confs, NEW t, Sound(t), t.work = {}
  PROVE  Keeps(t, IF PunchInOn /\ t.rec = "Enabled" THEN EnableRecord(t) ELSE t, t.goal)
<1>1. CASE PunchInOn /\ t.rec = "Enabled"
  <2>1. "Record" \in Asks
    BY <1>1 DEF Sound
  <2>2. Keeps(t, [t EXCEPT !.rec = "Recording"], t.goal)
    BY <2>1, RecKeeps
  <2> QED BY <1>1, <2>2 DEF EnableRecord
<1>2. CASE ~(PunchInOn /\ t.rec = "Enabled")
  BY <1>2, KeepsAsIs
<1> QED BY <1>1, <1>2

LEMMA PunchOutKeeps ==
  ASSUME conf \in Confs, NEW t, Sound(t)
  PROVE  Keeps(t, IF PunchOutOn THEN StepBackFromRecord(t) ELSE t, t.goal)
<1> DEFINE rec == IF t.rec = "Recording" THEN "Enabled" ELSE t.rec
<1>1. rec \in {"Disabled", "Enabled", "Recording"} /\ rec # "Recording"
      /\ ("Record" \notin Asks => rec = "Disabled")
  BY DEF Sound, Typed, Session, Recording
<1>2. StepBackFromRecord(t) = [t EXCEPT !.rec = rec]
  BY DEF StepBackFromRecord
<1> HIDE DEF rec
<1>3. Keeps(t, [t EXCEPT !.rec = rec], t.goal)
  BY <1>1, RecKeeps
<1> QED BY <1>2, <1>3, KeepsAsIs

LEMMA RollAndReturnKeeps ==
  ASSUME conf \in Confs, NEW t, Sound(t), "RollAndReturn" \in Asks,
         NEW to \in Frames, NEW from \in Frames
  PROVE  Keeps(t, [t EXCEPT !.rrf = to, !.pend = Append(@, Command("LocateRoll", from))], t.goal)
<1> DEFINE c == Command("LocateRoll", from)
           pend == Append(t.pend, c)
           r == [t EXCEPT !.rrf = to, !.pend = pend]
<1>1. t \in Session /\ t.next \in 1 .. Len(t.events) + 1 /\ t.pend \in Seq(Pending)
  BY DEF Sound, Typed, Session
<1>2. c \in Pending
  BY FramesAssumption DEF Command, Event, Pending, Commands, CommandTypes, Frames
<1> HIDE DEF c
<1>3. pend \in Seq(Pending)
  BY <1>1, <1>2
<1> HIDE DEF pend
<1>4. r \in Session
  BY <1>1, <1>3 DEF Session
<1>5. /\ r.frame = t.frame /\ r.speed = t.speed /\ r.work = t.work /\ r.count = t.count
      /\ r.sub = t.sub /\ r.plFrame = t.plFrame /\ r.plRoll = t.plRoll /\ r.loop = t.loop
      /\ r.rec = t.rec /\ r.disk = t.disk /\ r.imm = t.imm
      /\ r.events = t.events /\ r.next = t.next
  BY <1>1 DEF Session
<1> HIDE DEF r
<1>6. Typed(r)
  BY <1>1, <1>4, <1>5 DEF Typed
<1>7. Sound(r)
  BY <1>5, <1>6 DEF Sound, Recording
<1>8. Keeps(t, r, t.goal)
  BY <1>5, <1>7, KeepsSetting
<1> QED BY <1>8 DEF r, pend, c

LEMMA HandledKeeps ==
  ASSUME conf \in Confs, NEW t, Sound(t), NEW ev \in Timed \cup Commands,
         t.work = {} \/ ev.type = "Locate"
  PROVE  Keeps(t, Handled(t, ev), GoalAfter(t, ev))
<1>1. ev.target \in Frames /\ ev.from \in Frames
  BY DEF Timed, Commands
<1>2. CASE ev.type = "Play"
  <2>1. Handled(t, ev) = SetTransportSpeed(t, 1)
    BY <1>2 DEF Handled
  <2>2. GoalAfter(t, ev) = IF AtSessionEnd(t) THEN t.goal ELSE Goal("roll", 0)
    BY <1>2 DEF GoalAfter
  <2> QED BY <1>2, <2>1, <2>2, PlayKeeps
<1>3. CASE ev.type = "Stop"
  <2>1. Handled(t, ev) = SetTransportSpeed(t, 0)
    BY <1>3 DEF Handled
  <2>2. GoalAfter(t, ev) = Goal("stop", 0)
    BY <1>3 DEF GoalAfter
  <2> QED BY <1>3, <2>1, <2>2, StopKeeps
<1>4. CASE ev.type = "Locate"
  <2>1. Handled(t, ev) = Locate(t, ev.target, FALSE)
    BY <1>4 DEF Handled
  <2>2. GoalAfter(t, ev) = IF Recording(t) \/ t.frame = ev.target THEN t.goal
                           ELSE Goal("stay", ev.target)
    BY <1>4 DEF GoalAfter
  <2> QED BY <1>1, <2>1, <2>2, LocateStays
<1>5. CASE ev.type = "LocateRoll"
  <2>1. Handled(t, ev) = Locate(t, ev.target, TRUE)
    BY <1>5 DEF Handled
  <2>2. GoalAfter(t, ev) = IF Recording(t) \/ (t.frame = ev.target /\ AtSessionEnd(t)) THEN t.goal
                           ELSE Goal("roll", 0)
    BY <1>5 DEF GoalAfter
  <2> QED BY <1>1, <1>5, <2>1, <2>2, LocateRolls
<1>6. CASE ev.type = "LoopOn"
  <2>1. Handled(t, ev) = LoopOn(t)
    BY <1>6 DEF Handled
  <2>2. GoalAfter(t, ev) = IF Recording(t) \/ ~HasLoop THEN t.goal ELSE Goal("roll", 0)
    BY <1>6 DEF GoalAfter
  <2> QED BY <2>1, <2>2, LoopOnRolls
<1>7. CASE ev.type = "LoopOff"
  <2>1. Handled(t, ev) = LoopOff(t)
    BY <1>7 DEF Handled
  <2>2. GoalAfter(t, ev) = t.goal
    BY <1>7 DEF GoalAfter
  <2> QED BY <2>1, <2>2, LoopOffGoesOn
<1>8. CASE ev.type = "AutoLoop"
  <2>1. Handled(t, ev) = IF t.loop THEN Locate(t, ev.target, TRUE) ELSE t
    BY <1>8 DEF Handled
  <2>2. GoalAfter(t, ev) = t.goal
    BY <1>8 DEF GoalAfter
  <2>3. HasLoop
    BY <1>8 DEF Timed, Commands, TimedTypes, CommandTypes
  <2>4. Keeps(t, Locate(t, ev.target, TRUE), t.goal)
    BY <1>1, <1>8, <2>3, LoopRolls
  <2> QED BY <2>1, <2>2, <2>4, KeepsAsIs
<1>9. CASE ev.type = "PunchIn"
  <2>1. Handled(t, ev) = IF PunchInOn /\ t.rec = "Enabled" THEN EnableRecord(t) ELSE t
    BY <1>9 DEF Handled
  <2>2. GoalAfter(t, ev) = t.goal
    BY <1>9 DEF GoalAfter
  <2> QED BY <1>9, <2>1, <2>2, PunchInKeeps
<1>10. CASE ev.type = "PunchOut"
  <2>1. Handled(t, ev) = IF PunchOutOn THEN StepBackFromRecord(t) ELSE t
    BY <1>10 DEF Handled
  <2>2. GoalAfter(t, ev) = t.goal
    BY <1>10 DEF GoalAfter
  <2> QED BY <2>1, <2>2, PunchOutKeeps
<1>11. CASE ev.type = "StopOnce"
  <2>1. Handled(t, ev) = ClearEventType(StopTransport(t), "StopOnce")
    BY <1>11 DEF Handled
  <2>2. GoalAfter(t, ev) = Goal("stop", 0)
    BY <1>11 DEF GoalAfter
  <2> QED BY <1>11, <2>1, <2>2, StopOnceKeeps
<1>12. CASE ev.type = "RollAndReturn"
  <2>1. Handled(t, ev) =
          [t EXCEPT !.rrf = ev.target, !.pend = Append(@, Command("LocateRoll", ev.from))]
    BY <1>12 DEF Handled
  <2>2. GoalAfter(t, ev) = t.goal
    BY <1>12 DEF GoalAfter
  <2>3. "RollAndReturn" \in Asks
    BY <1>12 DEF Timed, Commands, TimedTypes, CommandTypes
  <2> QED BY <1>1, <2>1, <2>2, <2>3, RollAndReturnKeeps
<1>13. ev.type \in {"Play", "Stop", "Locate", "LocateRoll", "LoopOn", "LoopOff", "AutoLoop",
                    "PunchIn", "PunchOut", "StopOnce", "RollAndReturn"}
  BY DEF Timed, Commands, TimedTypes, CommandTypes
<1> QED BY <1>2, <1>3, <1>4, <1>5, <1>6, <1>7, <1>8, <1>9, <1>10, <1>11, <1>12, <1>13

\* The session is on its way to its goal: told to stop it stops, told to go somewhere it goes.
Honoured(t) == t.goal.kind = "stop" /\ ~HasLoop => Stopping(t)
Arriving(t) == t.goal.kind = "stay" /\ ~AutoReturn /\ "RollAndReturn" \notin Asks =>
                   Nearing(t, t.goal.at)
OnWay(t) == Honoured(t) /\ Arriving(t)

LEMMA HeadsOnWay ==
  ASSUME NEW t, NEW r, NEW g, Heads(t, r, g), OnWay(t), NEW u, u.goal = g,
         Stopping(r) => Stopping(u), \A at : Nearing(r, at) => Nearing(u, at)
  PROVE  OnWay(u)
  BY DEF Heads, OnWay, Honoured, Arriving

LEMMA AimedOnWay ==
  ASSUME NEW t, NEW r, Aimed(t, r), OnWay(t)
  PROVE  OnWay(r)
<1>1. CASE r.goal = Goal("stop", 0) /\ Stopping(r)
  <2>1. r.goal.kind = "stop"
    BY <1>1 DEF Goal
  <2> QED BY <1>1, <2>1 DEF OnWay, Honoured, Arriving
<1>2. CASE ~(r.goal = Goal("stop", 0) /\ Stopping(r))
  BY <1>2 DEF Aimed, OnWay, Honoured, Arriving
<1> QED BY <1>1, <1>2

LEMMA ProcessEventKeeps ==
  ASSUME conf \in Confs, NEW t, Sound(t), NEW ev \in Timed \cup Commands
  PROVE  LET r == ProcessEvent(t, ev) IN
         /\ Sound(r) /\ Steady(t, r)
         /\ OnWay(t) \/ ev.type = "Stop" => OnWay(r)
<1> DEFINE r == ProcessEvent(t, ev)
<1>1. Typed(t) /\ t.goal \in Goals
  BY DEF Sound, Typed, Session
<1>2. CASE t.work # {} /\ ev.type # "Locate"
  <2> DEFINE d == Deferred(t, ev)
             g == IF ev.type = "Stop" THEN Goal("stop", 0) ELSE d.goal
             u == [d EXCEPT !.goal = g]
  <2>1. r = u
    BY <1>2 DEF ProcessEvent
  <2>2. Requeued(t, d) /\ (ev.type = "Stop" => HasStop(d))
    BY <1>1, DeferredRequeues
  <2> HIDE DEF d
  <2>3. /\ Sound(d) /\ Steady(t, d) /\ d.goal = t.goal /\ Typed(d)
        /\ Stopping(t) => Stopping(d)
        /\ \A at : Nearing(t, at) => Nearing(d, at)
    BY <1>1, <2>2, RequeuedKeeps DEF Requeued, SameButLists
  <2>4. g \in Goals
    BY <1>1, <2>3, GoalIn, FramesAssumption DEF Frames
  <2> HIDE DEF g
  <2>5. /\ Sound(u) /\ Steady(d, u) /\ u.goal = g
        /\ Stopping(u) <=> Stopping(d)
        /\ \A at : Nearing(u, at) <=> Nearing(d, at)
    BY <2>3, <2>4, Aims
  <2> HIDE DEF u, r
  <2>6. Steady(t, u)
    BY <1>1, <2>3, <2>5, SteadyTwice DEF Sound
  <2>7. CASE ev.type = "Stop"
    <3>1. u.goal.kind = "stop" /\ Stopping(u)
      BY <2>2, <2>5, <2>7 DEF g, Goal, Stopping
    <3> QED BY <2>1, <2>5, <2>6, <3>1 DEF OnWay, Honoured, Arriving, r
  <2>8. CASE ev.type # "Stop"
    <3>1. u.goal = t.goal
      BY <2>3, <2>5, <2>8 DEF g
    <3>2. OnWay(t) => OnWay(u)
      BY <2>3, <2>5, <3>1 DEF OnWay, Honoured, Arriving
    <3> QED BY <2>1, <2>5, <2>6, <2>8, <3>2 DEF r
  <2> QED BY <2>7, <2>8
<1>3. CASE ~(t.work # {} /\ ev.type # "Locate")
  <2> DEFINE h == Handled(t, ev)
             g == GoalAfter(t, ev)
             u == [h EXCEPT !.goal = g]
  <2>1. r = IF ev.type \in Kept THEN u ELSE RemoveEvent(u, ev)
    BY <1>3, Zenon DEF ProcessEvent
  <2>2. Sound(h) /\ Steady(t, h) /\ g \in Goals /\ Heads(t, h, g)
    BY <1>3, HandledKeeps DEF Keeps
  <2>3. ev.type = "Stop" => g = Goal("stop", 0) /\ Stopping(h)
    <3> SUFFICES ASSUME ev.type = "Stop" PROVE g = Goal("stop", 0) /\ Stopping(h)
      OBVIOUS
    <3>1. g = Goal("stop", 0)
      BY DEF GoalAfter
    <3>2. h = StopTransport(t)
      BY DEF Handled, SetTransportSpeed, StopTransport
    <3>3. Stopping(StopTransport(t))
      BY <1>3, StopTransportKeeps
    <3> QED BY <3>1, <3>2, <3>3
  <2> HIDE DEF h, g
  <2>4. /\ Sound(u) /\ Steady(h, u) /\ u.goal = g
        /\ Stopping(u) <=> Stopping(h)
        /\ \A at : Nearing(u, at) <=> Nearing(h, at)
    BY <2>2, Aims
  <2> HIDE DEF u
  <2>5. /\ Sound(r) /\ Steady(u, r) /\ r.goal = u.goal
        /\ Stopping(u) => Stopping(r)
        /\ \A at : Nearing(u, at) => Nearing(r, at)
    <3>1. Typed(u)
      BY <2>4 DEF Sound
    <3>2. Requeued(u, RemoveEvent(u, ev))
      BY <3>1, RemoveEventRequeues
    <3>3. Requeued(u, u)
      BY <3>1, RequeuedNot
    <3>4. Requeued(u, r)
      BY <2>1, <3>2, <3>3
    <3> HIDE DEF r
    <3> QED BY <2>4, <3>1, <3>4, RequeuedKeeps DEF Requeued, SameButLists
  <2> HIDE DEF r
  <2>6. Steady(h, r)
    BY <2>2, <2>4, <2>5, SteadyTwice DEF Sound
  <2>7. Steady(t, r)
    BY <1>1, <2>2, <2>5, <2>6, SteadyTwice DEF Sound
  <2>8. /\ r.goal = g
        /\ Stopping(h) => Stopping(r)
        /\ \A at : Nearing(h, at) => Nearing(r, at)
    BY <2>4, <2>5
  <2>9. CASE ev.type = "Stop"
    <3>1. r.goal.kind = "stop" /\ Stopping(r)
      BY <2>3, <2>8, <2>9 DEF Goal
    <3> QED BY <2>5, <2>7, <3>1 DEF OnWay, Honoured, Arriving, r
  <2>10. CASE ev.type # "Stop"
    <3>1. OnWay(t) => OnWay(r)
      BY <2>2, <2>8, HeadsOnWay
    <3> QED BY <2>5, <2>7, <2>10, <3>1 DEF r
  <2> QED BY <2>9, <2>10
<1> QED BY <1>2, <1>3

\* r is t but for the commands that are pending.
LEMMA PendKeeps ==
  ASSUME NEW t, Sound(t), NEW pend \in Seq(Pending)
  PROVE  LET r == [t EXCEPT !.pend = pend] IN
         /\ Keeps(t, r, t.goal)
         /\ r.goal = t.goal /\ r.frame = t.frame /\ r.speed = t.speed /\ r.work = t.work
         /\ r.count = t.count /\ r.sub = t.sub /\ r.disk = t.disk /\ r.rec = t.rec
         /\ r.plFrame = t.plFrame
         /\ OnWay(t) => OnWay(r)
<1> DEFINE r == [t EXCEPT !.pend = pend]
<1>1. t \in Session /\ t.next \in 1 .. Len(t.events) + 1
  BY DEF Sound, Typed
<1>2. r \in Session
  BY <1>1 DEF Session
<1>3. /\ r.frame = t.frame /\ r.speed = t.speed /\ r.work = t.work /\ r.count = t.count
      /\ r.sub = t.sub /\ r.plFrame = t.plFrame /\ r.plRoll = t.plRoll /\ r.loop = t.loop
      /\ r.rec = t.rec /\ r.disk = t.disk /\ r.imm = t.imm /\ r.goal = t.goal
      /\ r.rrf = t.rrf /\ r.events = t.events /\ r.next = t.next
  BY <1>1 DEF Session
<1> HIDE DEF r
<1>4. Typed(r)
  BY <1>1, <1>2, <1>3 DEF Typed
<1>5. Sound(r)
  BY <1>3, <1>4 DEF Sound, Recording
<1>6. Keeps(t, r, t.goal)
  BY <1>3, <1>5, KeepsSetting
<1>7. OnWay(t) => OnWay(r)
  BY <1>3 DEF OnWay, Honoured, Arriving, Stopping, HasStop, Nearing
<1> QED BY <1>3, <1>6, <1>7 DEF r

LEMMA MergeEventKeeps ==
  ASSUME conf \in Confs, NEW t, Sound(t), NEW c \in Pending
  PROVE  LET r == MergeEvent(t, c) IN
         /\ Sound(r) /\ Steady(t, r)
         /\ OnWay(t) => OnWay(r)
<1> DEFINE r == MergeEvent(t, c)
<1>1. Typed(t)
  BY DEF Sound
<1>2. CASE c.action = "Add"
  <2>1. c.ev \in Timed \cup Commands /\ c.ev.at = Immediate
    BY <1>2 DEF Pending, Commands
  <2>2. r = ProcessEvent(t, c.ev)
    BY <1>2, <2>1 DEF MergeEvent
  <2> QED BY <2>1, <2>2, ProcessEventKeeps
<1>3. CASE c.action # "Add"
  <2>1. r = MergeTimed(t, c.action, c.ev)
    BY <1>3 DEF MergeEvent
  <2>2. \/ c.action = "Clear" /\ c.ev = Event("AutoLoop", 0, 0)
        \/ c.action = "Replace" /\ c.ev \in Timed
    BY <1>3 DEF Pending
  <2>3. Requeued(t, r)
    <3>1. CASE c.action = "Clear" /\ c.ev = Event("AutoLoop", 0, 0)
      <4>1. c.ev.type = "AutoLoop"
        BY <3>1 DEF Event
      <4>2. r = ClearEventType(t, c.ev.type)
        BY <2>1, <3>1 DEF MergeTimed
      <4>3. Requeued(t, ClearEventType(t, "AutoLoop"))
        BY <1>1, ClearEventTypeRequeues
      <4> QED BY <4>1, <4>2, <4>3
    <3>2. CASE c.action = "Replace" /\ c.ev \in Timed
      <4>1. r = ReplaceEvent(t, c.ev)
        BY <2>1, <3>2 DEF MergeTimed
      <4> QED BY <1>1, <3>2, <4>1, ReplaceEventRequeues
    <3> QED BY <2>2, <3>1, <3>2
  <2> HIDE DEF r
  <2>4. /\ Sound(r) /\ Steady(t, r) /\ r.goal = t.goal
        /\ Stopping(t) => Stopping(r)
        /\ \A at : Nearing(t, at) => Nearing(r, at)
    BY <1>1, <2>3, RequeuedKeeps DEF Requeued, SameButLists
  <2>5. OnWay(t) => OnWay(r)
    BY <2>4 DEF OnWay, Honoured, Arriving
  <2> QED BY <2>4, <2>5 DEF r
<1> QED BY <1>2, <1>3

-----------------------------------------------------------------------------
(* The end of a state change.                                              *)

\* l is t with its transport started again if the locate was to roll, and its declick done.
Relocated(t, l) ==
    /\ Typed(l)
    /\ l.frame = t.frame /\ l.disk = t.disk /\ l.count = t.count /\ l.goal = t.goal
    /\ l.plFrame = t.plFrame /\ l.plRoll = t.plRoll /\ l.loop = t.loop /\ l.rrf = t.rrf
    /\ l.imm = t.imm
    /\ l.speed = 0 <=> t.speed = 0 /\ "Roll" \notin t.work
    /\ t.rec = "Disabled" => l.rec = "Disabled"
    /\ IF t.speed # 0 THEN l.sub = t.sub \cup {"DeclickIn"} ELSE l.sub \cap Waits = {}

LEMMA PostTransportKeeps ==
  ASSUME conf \in Confs, NEW t, Sound(t), t.work # {}, t.count = 0
  PROVE  LET r == PostTransport(t) IN
         /\ Sound(r) /\ r.disk = t.disk /\ r.frame = t.frame /\ r.count = 0 /\ r.work = {}
         /\ r.speed = 0 => t.speed = 0
         /\ t.speed # 0 => (Faded(t) => Faded(r))
         /\ OnWay(t) => OnWay(r)
<1> DEFINE flat    == [t EXCEPT !.sub = {}]
           stopped == IF "Stop" \in t.work THEN flat ELSE t
           located == CASE "Locate" \notin t.work -> stopped
                        [] {"Locate", "Roll"} \subseteq t.work -> StartTransport(stopped)
                        [] OTHER -> [stopped EXCEPT !.sub = {}]
           n == SetNextEvent(located)
           r == [n EXCEPT !.work = {}]
<1>1. PostTransport(t) = r
  BY Zenon DEF PostTransport
<1>2. Typed(t) /\ t.speed \in {0, 1} /\ t \in Session
  BY DEF Sound, Typed, Session
<1>3. /\ "Stop" \in t.work \/ "Locate" \in t.work
      /\ "Roll" \in t.work => "Locate" \in t.work
      /\ t.speed # 0 => "Stop" \notin t.work /\ "Roll" \in t.work
      /\ t.speed = 0 => t.sub \cap Waits = {}
  BY DEF Sound
<1>4. /\ Typed(flat)
      /\ flat.frame = t.frame /\ flat.disk = t.disk /\ flat.count = t.count
      /\ flat.goal = t.goal /\ flat.plFrame = t.plFrame /\ flat.plRoll = t.plRoll
      /\ flat.loop = t.loop /\ flat.rrf = t.rrf /\ flat.imm = t.imm /\ flat.speed = t.speed
      /\ flat.rec = t.rec /\ flat.sub = {}
  <2>1. flat \in Session
    BY <1>2 DEF Session
  <2>2. /\ flat.frame = t.frame /\ flat.disk = t.disk /\ flat.count = t.count
        /\ flat.goal = t.goal /\ flat.plFrame = t.plFrame /\ flat.plRoll = t.plRoll
        /\ flat.loop = t.loop /\ flat.rrf = t.rrf /\ flat.imm = t.imm /\ flat.speed = t.speed
        /\ flat.rec = t.rec /\ flat.sub = {} /\ flat.events = t.events /\ flat.next = t.next
    BY <1>2 DEF Session
  <2> HIDE DEF flat
  <2> QED BY <1>2, <2>1, <2>2 DEF Typed
<1>5. [flat EXCEPT !.sub = {}] = flat
  BY <1>2 DEF Session
<1>6. Relocated(t, located)
  <2> HIDE DEF flat
  <2>1. CASE "Roll" \in t.work
    <3>1. located = StartTransport(stopped)
      BY <1>3, <2>1
    <3>2. Typed(stopped)
      BY <1>2, <1>4
    <3> HIDE DEF stopped, located
    <3>3. Started(stopped, located) /\ (stopped.rec = "Disabled" => located.rec = "Disabled")
      BY <3>1, <3>2, Starts
    <3>4. CASE "Stop" \in t.work
      <4>1. stopped = flat /\ t.speed = 0
        BY <1>2, <1>3, <3>4 DEF stopped
      <4> QED BY <1>4, <2>1, <3>3, <4>1 DEF Relocated, Started, Waits
    <3>5. CASE "Stop" \notin t.work
      <4>1. stopped = t
        BY <3>5 DEF stopped
      <4> QED BY <1>3, <2>1, <3>3, <4>1 DEF Relocated, Started, Waits
    <3> QED BY <3>4, <3>5
  <2>2. CASE "Roll" \notin t.work
    <3>1. t.speed = 0
      BY <1>3, <2>2
    <3>2. located = flat
      <4>1. CASE "Locate" \notin t.work
        BY <1>3, <4>1
      <4>2. CASE "Locate" \in t.work
        <5>1. located = [stopped EXCEPT !.sub = {}]
          BY <2>2, <4>2
        <5> HIDE DEF located
        <5>2. [t EXCEPT !.sub = {}] = flat
          BY DEF flat
        <5> QED BY <1>5, <5>1, <5>2
      <4> QED BY <4>1, <4>2
    <3> HIDE DEF located, stopped
    <3> QED BY <1>4, <2>2, <3>1, <3>2 DEF Relocated, Waits
  <2> QED BY <2>1, <2>2
<1> HIDE DEF flat, stopped, located
<1>7. Requeued(located, n) /\ n.imm = located.imm
  <2>1. located \in Session /\ located.next # 0
    BY <1>6 DEF Relocated, Typed
  <2> QED BY <2>1, SetNextEventRequeues
<1> HIDE DEF n
<1>8. /\ n \in Session /\ n.next \in 1 .. Len(n.events) + 1
      /\ n.frame = t.frame /\ n.disk = t.disk /\ n.count = 0 /\ n.goal = t.goal
      /\ n.plFrame = t.plFrame /\ n.plRoll = t.plRoll /\ n.loop = t.loop /\ n.rrf = t.rrf
      /\ n.imm = t.imm /\ n.speed = located.speed /\ n.sub = located.sub
      /\ n.rec = located.rec
  BY <1>6, <1>7 DEF Requeued, SameButLists, Relocated, Typed
<1>9. r \in Session
  BY <1>8 DEF Session
<1>10. /\ r.work = {} /\ r.events = n.events /\ r.next = n.next
       /\ r.frame = t.frame /\ r.disk = t.disk /\ r.count = 0 /\ r.goal = t.goal
       /\ r.plFrame = t.plFrame /\ r.plRoll = t.plRoll /\ r.loop = t.loop /\ r.rrf = t.rrf
       /\ r.imm = t.imm /\ r.speed = located.speed /\ r.sub = located.sub
       /\ r.rec = located.rec
  BY <1>8 DEF Session
<1> HIDE DEF r
<1>11. Typed(r)
  BY <1>8, <1>9, <1>10 DEF Typed
<1>12. /\ r.speed = 0 <=> t.speed = 0 /\ "Roll" \notin t.work
       /\ t.rec = "Disabled" => r.rec = "Disabled"
       /\ IF t.speed # 0 THEN r.sub = t.sub \cup {"DeclickIn"} ELSE r.sub \cap Waits = {}
  BY <1>6, <1>10 DEF Relocated
<1>13. Sound(r)
  <2>1. /\ r.speed = 0 => r.sub \cap Waits = {}
        /\ "PendingLocate" \in r.sub => "DeclickOut" \in r.sub
    BY <1>12 DEF Sound, Waits
  <2>2. /\ ~HasLoop => ~r.loop
        /\ "RollAndReturn" \notin Asks => r.rrf = -1
        /\ "Record" \notin Asks => r.rec = "Disabled"
    BY <1>10, <1>12 DEF Sound
  <2> QED BY <1>10, <1>11, <2>1, <2>2 DEF Sound
<1>14. t.speed # 0 => (Faded(t) => Faded(r))
  BY <1>10, <1>12 DEF Faded
<1>15. Stopping(t) => Stopping(r)
  <2>1. CASE HasStop(t)
    BY <1>10, <2>1 DEF HasStop, Stopping
  <2>2. CASE t.speed = 0 /\ "Roll" \notin t.work
    BY <1>10, <1>12, <2>2 DEF Stopping
  <2>3. CASE "StopPendingCapture" \in t.sub \/ ("DeclickOut" \in t.sub /\ "PendingLocate" \notin t.sub)
    BY <1>3, <1>12, <2>3 DEF Stopping, Waits
  <2> QED BY <2>1, <2>2, <2>3 DEF Stopping
<1>16. \A at : Nearing(t, at) => Nearing(r, at)
  BY <1>10, <1>12 DEF Nearing, Waits
<1>17. OnWay(t) => OnWay(r)
  BY <1>10, <1>15, <1>16 DEF OnWay, Honoured, Arriving
<1> QED BY <1>1, <1>10, <1>12, <1>13, <1>14, <1>17

LEMMA DeclickedKeeps ==
  ASSUME NEW t, Sound(t)
  PROVE  LET r == Declicked(t) IN
         /\ Sound(r) /\ Steady(t, r) /\ (OnWay(t) => OnWay(r))
         /\ r.work = t.work /\ r.frame = t.frame /\ r.disk = t.disk
<1> DEFINE flags == {"DeclickIn"}
           r == [t EXCEPT !.sub = @ \ flags]
<1>1. Declicked(t) = r
  BY DEF Declicked
<1>2. flags = {"DeclickIn"} /\ t.count \in Nat /\ Typed(t)
  BY DEF Sound, Typed, Session
<1> HIDE DEF flags
<1>3. Sound(r)
  BY <1>2, UnflagsKeep
<1>4. /\ r.sub = t.sub \ flags /\ r.frame = t.frame /\ r.speed = t.speed /\ r.work = t.work
      /\ r.count = t.count /\ r.plFrame = t.plFrame /\ r.plRoll = t.plRoll
      /\ r.disk = t.disk /\ r.goal = t.goal /\ r.imm = t.imm
  BY <1>2, Unflags
<1> HIDE DEF r
<1>5. Steady(t, r)
  BY <1>2, <1>4 DEF Steady, Faded
<1>6. OnWay(t) => OnWay(r)
  BY <1>2, <1>4 DEF OnWay, Honoured, Arriving, Stopping, HasStop, Nearing
<1> QED BY <1>1, <1>3, <1>4, <1>5, <1>6

-----------------------------------------------------------------------------
(* The timed events the session starts with.                               *)

LEMMA TimelineIn ==
  ASSUME conf \in Confs
  PROVE  /\ Timeline \in Seq(Timed)
         /\ Timeline = <<>> => ~HasLoop /\ ~conf.auto_punch.there
<1> DEFINE l == Event("AutoLoop", LoopEnd, LoopStart)
           i == Event("PunchIn", conf.auto_punch.start, 0)
           o == Event("PunchOut", conf.auto_punch.end, 0)
           t0 == <<>>
           t1 == IF HasLoop THEN Inserted(t0, l) ELSE t0
           t2 == IF conf.auto_punch.there THEN Inserted(t1, i) ELSE t1
           t3 == IF conf.auto_punch.there THEN Inserted(t2, o) ELSE t2
<1>1. Timeline = t3
  BY Zenon DEF Timeline
<1>2. /\ 0 \in Frames
      /\ LoopStart \in Frames /\ LoopEnd \in Frames
      /\ conf.auto_punch.start \in Frames /\ conf.auto_punch.end \in Frames
  BY ConfTypes, FramesAssumption DEF Frames
<1>3. /\ HasLoop => "AutoLoop" \in TimedTypes
      /\ conf.auto_punch.there => "PunchIn" \in TimedTypes /\ "PunchOut" \in TimedTypes
  BY DEF TimedTypes
<1>4. /\ HasLoop => l \in Timed
      /\ conf.auto_punch.there => i \in Timed /\ o \in Timed
  BY <1>2, <1>3 DEF Timed, Event
<1> HIDE DEF l, i, o
<1>5. t0 \in Seq(Timed) /\ Len(t0) = 0
  OBVIOUS
<1> HIDE DEF t0
<1>6. t1 \in Seq(Timed) /\ (HasLoop => Len(t1) = 1)
  <2>1. CASE HasLoop
    <3>1. l \in Timed
      BY <1>4, <2>1
    <3>2. Inserted(t0, l) \in Seq(Timed) /\ Len(Inserted(t0, l)) = Len(t0) + 1
      BY <1>5, <3>1, InsertedIn
    <3> QED BY <1>5, <2>1, <3>2
  <2>2. CASE ~HasLoop
    BY <1>5, <2>2
  <2> QED BY <2>1, <2>2
<1> HIDE DEF t1
<1>7. t2 \in Seq(Timed) /\ (~conf.auto_punch.there => t2 = t1)
  BY <1>4, <1>6, InsertedIn
<1> HIDE DEF t2
<1>8. /\ t3 \in Seq(Timed)
      /\ conf.auto_punch.there => Len(t3) = Len(t2) + 1
      /\ ~conf.auto_punch.there => t3 = t2
  BY <1>4, <1>7, InsertedIn
<1> HIDE DEF t3
<1>9. Len(t2) \in Nat /\ (t3 = <<>> => Len(t3) = 0)
  BY <1>7
<1> QED BY <1>1, <1>6, <1>7, <1>8, <1>9

LEMMA UntimedNone ==
  ASSUME conf \in Confs, Untimed
  PROVE  TimedTypes = {}
<1>1. ~HasLoop /\ ~conf.auto_punch.there
  BY TimelineIn DEF Untimed
<1>2. ~(Latency > Block \/ "BoundedRoll" \in Asks)
  BY ConfTypes, FramesAssumption DEF Untimed, Frames
<1> QED BY <1>1, <1>2 DEF TimedTypes

-----------------------------------------------------------------------------
(* The inductive invariant.                                                *)

WalkTypes == [left : 0 .. Block, moved : Frames, end : Frames, limit : Frames,
              this : Timed \cup {None}, next : Timed \cup {None}]

\* A segment is played with nothing else under way, up to the end of the cycle at most.
Walk ==
    /\ walk \in WalkTypes
    /\ pc \in {"idle", "merge", "immediate", "segment", "events"}
    /\ pc = "segment" => s.work = {} /\ walk.end = Wrapped(s.frame + walk.left)
    /\ pc \in {"segment", "events"} => TimedTypes # {} /\ (s.work = {} => s.speed # 0)

\* The butler has a pass to make, and those that go elsewhere are for a stop.
Pass ==
    /\ bpc \in {"idle", "locate", "stop", "return", "seek", "finish", "done"}
    /\ on_entry \in Nat
    /\ bpc # "idle" => 1 <= on_entry /\ on_entry <= s.count
    /\ bpc \in {"return", "seek", "finish"} => "Stop" \in s.work
    /\ bpc = "return" => AutoReturn \/ "RollAndReturn" \in Asks
    /\ gpc \in {"idle", "armed", "enable"}
    /\ gpc # "idle" => "Record" \in Asks
    /\ gpc = "enable" => ~PunchInOn

\* No locate of the diskstreams is to come.
Synced == \/ s.count = 0
          \/ /\ s.count = on_entry
             /\ \/ bpc \in {"finish", "done"}
                \/ bpc = "stop" /\ "Stop" \notin s.work

InSync ==
    Synced =>
        /\ s.speed = 0 => s.disk = s.frame
        /\ Untimed /\ "Record" \notin Asks /\ s.speed # 0 =>
               s.disk = s.frame \/ s.frame = MaxFrames \/ Faded(s)

IInv == conf \in Confs /\ Sound(s) /\ OnWay(s) /\ Walk /\ Pass /\ InSync

LEMMA SettingsStay ==
  ASSUME conf' = conf
  PROVE  /\ HasLoop' = HasLoop /\ AutoReturn' = AutoReturn /\ PunchInOn' = PunchInOn
         /\ Asks' = Asks /\ TimedTypes' = TimedTypes /\ Timed' = Timed /\ Session' = Session
         /\ Untimed' = Untimed
<1>1. /\ HasLoop' = HasLoop /\ AutoReturn' = AutoReturn /\ PunchInOn' = PunchInOn
      /\ Asks' = Asks /\ Latency' = Latency /\ LoopStart' = LoopStart /\ LoopEnd' = LoopEnd
  BY DEF HasLoop, AutoReturn, PunchInOn, Asks, Latency, LoopStart, LoopEnd
<1>2. TimedTypes' = TimedTypes /\ CommandTypes' = CommandTypes
  BY <1>1 DEF TimedTypes, CommandTypes
<1>3. Timed' = Timed /\ Commands' = Commands
  BY <1>2 DEF Timed, Commands
<1>4. Pending' = Pending
  BY <1>3 DEF Pending
<1>5. Session' = Session
  BY <1>3, <1>4 DEF Session
<1>6. Timeline' = Timeline
  BY <1>1 DEF Timeline
<1>7. Untimed' = Untimed
  BY <1>1, <1>6 DEF Untimed
<1> QED BY <1>1, <1>2, <1>3, <1>5, <1>7

LEMMA SoundThen ==
  ASSUME conf' = conf, Sound(s')
  PROVE  Sound(s)'
<1>1. HasLoop' = HasLoop /\ PunchInOn' = PunchInOn /\ Asks' = Asks /\ Session' = Session
  BY SettingsStay
<1>2. Typed(s)'
  BY <1>1 DEF Sound, Typed
<1> QED BY <1>1, <1>2 DEF Sound, Recording

LEMMA OnWayThen ==
  ASSUME conf' = conf, OnWay(s')
  PROVE  OnWay(s)'
<1>1. HasLoop' = HasLoop /\ AutoReturn' = AutoReturn /\ Asks' = Asks
  BY SettingsStay
<1> QED BY <1>1 DEF OnWay, Honoured, Arriving, Stopping, HasStop, Nearing

LEMMA Initially == Init => IInv
<1> SUFFICES ASSUME Init PROVE IInv
  OBVIOUS
<1>1. conf \in Confs /\ pc = "idle" /\ bpc = "idle" /\ on_entry = 0 /\ gpc = "idle"
  BY DEF Init
<1>2. 0 \in Frames /\ MaxFrames \in Nat /\ Block \in Nat
  BY FramesAssumption DEF Frames
<1>3. Timeline \in Seq(Timed) /\ Len(Timeline) \in Nat
  BY <1>1, TimelineIn
<1> DEFINE g == Goal("stop", 0)
<1>4. g \in Goals /\ g.kind = "stop"
  BY <1>2, GoalIn
<1> HIDE DEF g
<1>5. s = [frame |-> 0, speed |-> 0, work |-> {}, count |-> 0, sub |-> {},
           plFrame |-> 0, plRoll |-> FALSE, rec |-> "Disabled", loop |-> FALSE,
           lsf |-> 0, rrf |-> -1, events |-> Timeline, next |-> 1, imm |-> <<>>,
           pend |-> <<>>, disk |-> 0, goal |-> g]
  BY DEF Init, g
<1>6. s \in Session
  <2>1. <<>> \in Seq(Timed \cup Commands) /\ <<>> \in Seq(Pending)
    OBVIOUS
  <2> QED BY <1>2, <1>3, <1>4, <1>5, <2>1 DEF Session
<1>7. /\ s.frame = 0 /\ s.speed = 0 /\ s.work = {} /\ s.count = 0 /\ s.sub = {}
      /\ s.rec = "Disabled" /\ s.loop = FALSE /\ s.rrf = -1
      /\ s.events = Timeline /\ s.next = 1 /\ s.disk = 0 /\ s.goal = g
  BY <1>5
<1>8. Sound(s)
  <2>1. Typed(s)
    BY <1>3, <1>6, <1>7 DEF Typed
  <2> QED BY <1>7, <2>1 DEF Sound, Recording
<1>9. OnWay(s)
  BY <1>4, <1>7 DEF OnWay, Honoured, Arriving, Stopping
<1>10. Walk
  <2>1. walk = [left |-> 0, moved |-> 0, end |-> 0, limit |-> 0, this |-> None, next |-> None]
    BY DEF Init
  <2>2. walk \in WalkTypes
    BY <1>2, <2>1 DEF WalkTypes
  <2> QED BY <1>1, <2>2 DEF Walk
<1>11. Pass
  BY <1>1 DEF Pass
<1>12. InSync
  BY <1>7 DEF InSync
<1> QED BY <1>1, <1>8, <1>9, <1>10, <1>11, <1>12 DEF IInv

-----------------------------------------------------------------------------
(* The process thread.                                                     *)

\* Where the diskstreams are after a segment, or without one.
Played == {s.disk} \cup {Wrapped(s.disk + n) : n \in 1 .. Block}

\* A step of the process thread that leaves the diskstreams alone.
LEMMA SteadyStep ==
  ASSUME IInv, UNCHANGED othersOfProcess, Sound(s'), OnWay(s'), Steady(s, s')
  PROVE  /\ (conf \in Confs)' /\ Sound(s)' /\ OnWay(s)' /\ Pass' /\ InSync'
         /\ s'.disk \in Played
<1>1. conf' = conf /\ bpc' = bpc /\ on_entry' = on_entry /\ gpc' = gpc
  BY DEF othersOfProcess
<1>2. /\ AutoReturn' = AutoReturn /\ PunchInOn' = PunchInOn
      /\ Asks' = Asks /\ Untimed' = Untimed
  BY <1>1, SettingsStay
<1>3. Sound(s)' /\ OnWay(s)'
  BY <1>1, SoundThen, OnWayThen
<1>4. s.count \in Nat /\ s'.count \in Nat /\ on_entry \in Nat
  BY DEF IInv, Sound, Typed, Session, Pass
<1>5. /\ s'.disk = s.disk /\ s.count <= s'.count /\ s.work \subseteq s'.work
      /\ s'.count = s.count =>
            /\ s'.work = s.work
            /\ s'.speed = 0 => s.speed = 0 /\ s'.frame = s.frame
            /\ Faded(s) => Faded(s')
            /\ s'.frame = s.frame \/ Faded(s')
  BY DEF Steady
<1>6. Pass'
  BY <1>1, <1>2, <1>4, <1>5 DEF IInv, Pass
<1>7. InSync'
  <2>1. ASSUME Synced' PROVE Synced /\ s'.count = s.count
    BY <1>1, <1>4, <1>5, <2>1 DEF Synced, IInv, Pass
  <2>2. Faded(s)' <=> Faded(s')
    BY DEF Faded
  <2> QED BY <1>2, <1>5, <2>1, <2>2 DEF InSync, IInv
<1>8. s'.disk \in Played
  BY <1>5 DEF Played
<1> QED BY <1>1, <1>3, <1>6, <1>7, <1>8 DEF IInv

LEMMA WalkStays ==
  ASSUME Walk, conf' = conf, walk' = walk, pc' \in {"idle", "merge", "immediate"}
  PROVE  Walk'
<1>1. Timed' = Timed
  BY SettingsStay
<1>2. None' = None
  BY DEF None, Event
<1> QED BY <1>1, <1>2 DEF Walk, WalkTypes

LEMMA BeginCycleKeeps == ASSUME IInv, BeginCycle PROVE IInv' /\ s'.disk \in Played
<1>1. pc' = "merge" /\ walk' = walk /\ UNCHANGED othersOfProcess
  BY DEF BeginCycle
<1>2. /\ conf \in Confs /\ Sound(s) /\ OnWay(s) /\ Walk /\ Pass /\ InSync
      /\ s.count \in Nat /\ Typed(s)
  BY DEF IInv, Sound, Typed, Session
<1>3. Walk'
  BY <1>1, <1>2, WalkStays DEF othersOfProcess
<1>4. CASE ~(s.work # {} /\ s.count = 0)
  <2>1. s' = s
    BY <1>4 DEF BeginCycle
  <2>2. Steady(s, s')
    BY <1>2, <2>1 DEF Steady
  <2> QED BY <1>1, <1>2, <1>3, <2>1, <2>2, SteadyStep DEF IInv
<1>5. CASE s.work # {} /\ s.count = 0
  <2>1. s' = PostTransport(s)
    BY <1>5 DEF BeginCycle
  <2>2. /\ Sound(s') /\ s'.disk = s.disk /\ s'.frame = s.frame /\ s'.count = 0 /\ s'.work = {}
        /\ s'.speed = 0 => s.speed = 0
        /\ s.speed # 0 => (Faded(s) => Faded(s'))
        /\ OnWay(s) => OnWay(s')
    BY <1>2, <1>5, <2>1, PostTransportKeeps
  <2>3. conf' = conf /\ bpc' = bpc /\ on_entry' = on_entry /\ gpc' = gpc
    BY <1>1 DEF othersOfProcess
  <2>4. PunchInOn' = PunchInOn /\ Asks' = Asks /\ Untimed' = Untimed
    BY <2>3, SettingsStay
  <2>5. Sound(s)' /\ OnWay(s)' /\ (conf \in Confs)'
    BY <1>2, <2>2, <2>3, SoundThen, OnWayThen
  <2>6. bpc = "idle"
    BY <1>2, <1>5 DEF Pass
  <2>7. Pass'
    BY <1>2, <2>3, <2>4, <2>6 DEF Pass
  <2>8. InSync'
    <3>1. Synced
      BY <1>5 DEF Synced
    <3>2. Faded(s)' <=> Faded(s')
      BY DEF Faded
    <3> QED BY <1>2, <2>2, <2>4, <3>1, <3>2 DEF InSync
  <2>9. s'.disk \in Played
    BY <2>2 DEF Played
  <2> QED BY <1>3, <2>5, <2>7, <2>8, <2>9 DEF IInv
<1> QED BY <1>4, <1>5

LEMMA MergePendingKeeps == ASSUME IInv, MergePending PROVE IInv' /\ s'.disk \in Played
<1>1. /\ pc' = "merge" /\ walk' = walk /\ UNCHANGED othersOfProcess
      /\ s.pend # <<>> /\ s' = MergeEvent([s EXCEPT !.pend = Tail(@)], Head(s.pend))
  BY DEF MergePending
<1>2. conf \in Confs /\ Sound(s) /\ OnWay(s) /\ Walk /\ Typed(s) /\ s.pend \in Seq(Pending)
  BY DEF IInv, Sound, Typed, Session
<1> DEFINE pend == Tail(s.pend)
           c == Head(s.pend)
           t == [s EXCEPT !.pend = pend]
<1>3. pend \in Seq(Pending) /\ c \in Pending
  BY <1>1, <1>2
<1>4. s' = MergeEvent(t, c)
  BY <1>1
<1> HIDE DEF pend, c
<1>5. Keeps(s, t, s.goal) /\ OnWay(t)
  BY <1>2, <1>3, PendKeeps
<1> HIDE DEF t
<1>6. Sound(t) /\ Steady(s, t)
  BY <1>5 DEF Keeps
<1>7. Sound(s') /\ Steady(t, s') /\ OnWay(s')
  BY <1>2, <1>3, <1>4, <1>5, <1>6, MergeEventKeeps
<1>8. Steady(s, s')
  BY <1>2, <1>6, <1>7, SteadyTwice DEF Sound
<1>9. Walk'
  BY <1>1, <1>2, WalkStays DEF othersOfProcess
<1> QED BY <1>1, <1>7, <1>8, <1>9, SteadyStep DEF IInv

LEMMA PendingMergedKeeps == ASSUME IInv, PendingMerged PROVE IInv' /\ s'.disk \in Played
<1>1. pc' = "immediate" /\ s' = s /\ walk' = walk /\ UNCHANGED othersOfProcess
  BY DEF PendingMerged
<1>2. Sound(s) /\ OnWay(s) /\ Walk /\ s.count \in Nat
  BY DEF IInv, Sound, Typed, Session
<1>3. Steady(s, s')
  BY <1>1, <1>2 DEF Steady
<1>4. Walk'
  BY <1>1, <1>2, WalkStays DEF othersOfProcess
<1> QED BY <1>1, <1>2, <1>3, <1>4, SteadyStep DEF IInv

\* The session without the first of its deferred events: it goes on as it was, but for a stop.
LEMMA TakenKeeps ==
  ASSUME NEW t, Sound(t), t.imm # <<>>
  PROVE  LET r == [t EXCEPT !.imm = Tail(@)] IN
         /\ Head(t.imm) \in Timed \cup Commands
         /\ Sound(r) /\ Steady(t, r) /\ r.work = t.work
         /\ OnWay(t) => OnWay(r) \/ Head(t.imm).type = "Stop"
<1> DEFINE A == Timed \cup Commands
           v == t.imm
           w == Tail(v)
           r == [t EXCEPT !.imm = w]
<1>1. t \in Session /\ t.next \in 1 .. Len(t.events) + 1 /\ v \in Seq(A) /\ t.count \in Nat
  BY DEF Sound, Typed, Session
<1>2. v # <<>>
  OBVIOUS
<1>3. w \in Seq(A) /\ Head(v) \in A
  <2> HIDE DEF A, v
  <2> QED BY <1>1, <1>2
<1>4. \A i \in DOMAIN v : v[i] = Head(v) \/ \E j \in DOMAIN w : w[j] = v[i]
  <2> HIDE DEF A, v
  <2> TAKE i \in DOMAIN v
  <2>1. i \in 1 .. Len(v) /\ Len(v) \in Nat /\ Len(w) = Len(v) - 1 /\ Head(v) = v[1]
    BY <1>1, <1>2
  <2>2. CASE i = 1
    BY <2>1, <2>2
  <2>3. CASE i # 1
    <3>1. i - 1 \in DOMAIN w /\ w[i - 1] = v[i]
      BY <1>1, <1>2, <2>1, <2>3
    <3> QED BY <3>1
  <2> QED BY <2>2, <2>3
<1> HIDE DEF w
<1>5. r \in Session
  BY <1>1, <1>3 DEF Session
<1>6. /\ r.imm = w
      /\ r.frame = t.frame /\ r.speed = t.speed /\ r.work = t.work /\ r.count = t.count
      /\ r.sub = t.sub /\ r.plFrame = t.plFrame /\ r.plRoll = t.plRoll /\ r.loop = t.loop
      /\ r.rec = t.rec /\ r.disk = t.disk /\ r.goal = t.goal
      /\ r.rrf = t.rrf /\ r.events = t.events /\ r.next = t.next
  BY <1>1 DEF Session
<1>7. r = [t EXCEPT !.imm = Tail(@)]
  BY DEF w
<1> HIDE DEF r
<1>8. Typed(r)
  BY <1>1, <1>5, <1>6 DEF Typed
<1>9. Sound(r)
  BY <1>6, <1>8 DEF Sound, Recording
<1>10. Steady(t, r)
  BY <1>1, <1>6 DEF Steady, Faded
<1>11. HasStop(t) => HasStop(r) \/ Head(v).type = "Stop"
  BY <1>4, <1>6 DEF HasStop
<1>12. Stopping(t) => Stopping(r) \/ Head(v).type = "Stop"
  BY <1>6, <1>11 DEF Stopping
<1>13. OnWay(t) => OnWay(r) \/ Head(v).type = "Stop"
  BY <1>6, <1>12 DEF OnWay, Honoured, Arriving, Nearing
<1> QED BY <1>3, <1>6, <1>7, <1>9, <1>10, <1>13

LEMMA TakeImmediateKeeps == ASSUME IInv, TakeImmediate PROVE IInv' /\ s'.disk \in Played
<1>1. /\ pc' = "immediate" /\ walk' = walk /\ UNCHANGED othersOfProcess
      /\ s.imm # <<>> /\ s' = ProcessEvent([s EXCEPT !.imm = Tail(@)], Head(s.imm))
  BY DEF TakeImmediate
<1>2. conf \in Confs /\ Sound(s) /\ OnWay(s) /\ Walk
  BY DEF IInv
<1> DEFINE ev == Head(s.imm)
           t == [s EXCEPT !.imm = Tail(@)]
<1>3. /\ ev \in Timed \cup Commands
      /\ Sound(t) /\ Steady(s, t)
      /\ OnWay(t) \/ ev.type = "Stop"
  BY <1>1, <1>2, TakenKeeps
<1>4. s' = ProcessEvent(t, ev)
  BY <1>1
<1> HIDE DEF ev, t
<1>5. Sound(s') /\ Steady(t, s') /\ OnWay(s')
  BY <1>2, <1>3, <1>4, ProcessEventKeeps
<1>6. Steady(s, s')
  BY <1>2, <1>3, <1>5, SteadyTwice DEF Sound
<1>7. Walk'
  BY <1>1, <1>2, WalkStays DEF othersOfProcess
<1> QED BY <1>1, <1>5, <1>6, <1>7, SteadyStep DEF IInv

\* With nothing under way that holds up the cycle there is nothing under way.
LEMMA Proceeds ==
  ASSUME NEW t, Sound(t), t.work \cap CannotProceed = {}
  PROVE  t.work = {}
  BY DEF Sound, CannotProceed

LEMMA StopLimitIn == ASSUME NEW t PROVE StopLimit(t) \in Frames
  BY FramesAssumption DEF StopLimit, Frames

LEMMA NoRollKeeps == ASSUME IInv, NoRoll PROVE IInv' /\ s'.disk \in Played
<1>1. pc' = "idle" /\ walk' = walk /\ UNCHANGED othersOfProcess
  BY DEF NoRoll
<1>2. conf \in Confs /\ Sound(s) /\ OnWay(s) /\ Walk /\ s.count \in Nat
  BY DEF IInv, Sound, Typed, Session
<1>3. Sound(s') /\ OnWay(s') /\ Steady(s, s')
  <2>1. CASE s' = s
    BY <1>2, <2>1 DEF Steady
  <2>2. CASE s' = Declicked(s)
    BY <1>2, <2>2, DeclickedKeeps
  <2>3. CASE /\ s.work \cap CannotProceed = {} /\ Over(s, StopLimit(s))
             /\ s' = Declicked(MaybeStop(s, StopLimit(s)))
    <3> DEFINE m == MaybeStop(s, StopLimit(s))
    <3>1. s.work = {} /\ s.speed # 0
      BY <1>2, <2>3, Proceeds DEF Over
    <3>2. Sound(m) /\ Steady(s, m) /\ Aimed(s, m)
      BY <1>2, <3>1, MaybeStopKeeps
    <3> HIDE DEF m
    <3>3. OnWay(m)
      BY <1>2, <3>2, AimedOnWay
    <3>4. s' = Declicked(m)
      BY <2>3 DEF m
    <3>5. Sound(s') /\ Steady(m, s') /\ OnWay(s')
      BY <3>2, <3>3, <3>4, DeclickedKeeps
    <3> QED BY <1>2, <3>2, <3>5, SteadyTwice DEF Sound
  <2> QED BY <2>1, <2>2, <2>3 DEF NoRoll
<1>4. Walk'
  BY <1>1, <1>2, WalkStays DEF othersOfProcess
<1> QED BY <1>1, <1>3, <1>4, SteadyStep DEF IInv

\* A segment is played: transport and diskstreams move on together, unless there are
\* timed events.
LEMMA RolledStep ==
  ASSUME IInv, UNCHANGED othersOfProcess, s.work = {}, s.speed # 0,
         NEW n \in 1 .. Block, NEW moved \in Nat, NEW limit, Untimed => moved = n,
         s' = Rolled(s, n, moved, limit)
  PROVE  /\ (conf \in Confs)' /\ Sound(s)' /\ OnWay(s)' /\ Pass' /\ InSync'
         /\ s'.disk \in Played
<1> DEFINE f == IF MaxFrames - moved < s.frame THEN MaxFrames ELSE s.frame + moved
<1>1. /\ conf \in Confs /\ Sound(s) /\ OnWay(s) /\ Pass /\ InSync
      /\ s.count \in Nat /\ s.frame \in Frames /\ s.disk \in Frames
  BY DEF IInv, Sound, Typed, Session
<1>2. conf' = conf /\ bpc' = bpc /\ on_entry' = on_entry /\ gpc' = gpc
  BY DEF othersOfProcess
<1>3. /\ AutoReturn' = AutoReturn /\ PunchInOn' = PunchInOn
      /\ Asks' = Asks /\ Untimed' = Untimed
  BY <1>2, SettingsStay
<1>4. s.count = 0 /\ bpc = "idle"
  <2>1. s.count = 0
    BY <1>1 DEF Sound
  <2> QED BY <1>1, <2>1 DEF Pass
<1>5. /\ Sound(s') /\ Aimed(s, s') /\ s'.disk = Wrapped(s.disk + n) /\ s.count <= s'.count
      /\ s'.count = s.count =>
            /\ s'.work = {} /\ s'.speed # 0 /\ s'.frame = f
            /\ Faded(s) /\ "Record" \notin Asks => s.frame = f
  BY <1>1, RolledKeeps
<1>6. Sound(s)' /\ OnWay(s)' /\ (conf \in Confs)'
  BY <1>1, <1>2, <1>5, AimedOnWay, SoundThen, OnWayThen
<1>7. Pass'
  BY <1>1, <1>2, <1>3, <1>4 DEF Pass
<1>8. InSync'
  <2>1. ASSUME Synced' PROVE s'.count = s.count
    BY <1>2, <1>4, <2>1 DEF Synced
  <2>2. ASSUME Synced', Untimed, "Record" \notin Asks
        PROVE  s'.disk = s'.frame \/ s'.frame = MaxFrames
    <3>1. s'.frame = f /\ (Faded(s) => s.frame = f)
      BY <1>5, <2>1, <2>2
    <3>2. s.disk = s.frame \/ s.frame = MaxFrames \/ Faded(s)
      <4>1. Synced
        BY <1>4 DEF Synced
      <4> QED BY <1>1, <2>2, <4>1 DEF InSync
    <3>3. /\ moved = n /\ n \in Nat /\ 1 <= n /\ MaxFrames \in Nat
          /\ s.frame \in Nat /\ s.frame <= MaxFrames
      BY <1>1, <2>2, FramesAssumption DEF Frames
    <3>4. f = MaxFrames \/ (f = s.frame + n /\ s.frame + n \in Frames /\ f # s.frame)
      BY <3>3 DEF Frames
    <3>5. CASE f = MaxFrames
      BY <3>1, <3>5
    <3>6. CASE f # MaxFrames
      <4>1. f = s.frame + n /\ s.frame + n \in Frames /\ f # s.frame
        BY <3>4, <3>6
      <4>2. Wrapped(s.frame + n) = s.frame + n
        BY <4>1, WrappedSmall
      <4>3. s.frame # MaxFrames
        BY <3>3, <4>1 DEF Frames
      <4>4. s.disk = s.frame
        BY <3>1, <3>2, <4>1, <4>3
      <4> QED BY <1>5, <3>1, <4>1, <4>2, <4>4
    <3> QED BY <3>5, <3>6
  <2> QED BY <1>3, <1>5, <2>1, <2>2 DEF InSync
<1>9. s'.disk \in Played
  BY <1>5 DEF Played
<1> QED BY <1>6, <1>7, <1>8, <1>9

LEMMA WithoutEventsKeeps == ASSUME IInv, WithoutEvents PROVE IInv' /\ s'.disk \in Played
<1>1. /\ pc' = "idle" /\ walk' = walk /\ UNCHANGED othersOfProcess
      /\ s.work \cap CannotProceed = {} /\ s.speed # 0
      /\ s' = Rolled(s, Block, Block, StopLimit(s))
  BY DEF WithoutEvents, Rolls
<1>2. Sound(s) /\ Walk
  BY DEF IInv
<1>3. s.work = {}
  BY <1>1, <1>2, Proceeds
<1>4. Block \in 1 .. Block /\ Block \in Nat
  BY FramesAssumption
<1>5. Walk'
  BY <1>1, <1>2, WalkStays DEF othersOfProcess
<1> QED BY <1>1, <1>3, <1>4, <1>5, RolledStep DEF IInv

-----------------------------------------------------------------------------
(* A cycle in segments.                                                    *)

LEMMA NoneIn == None' = None /\ None.type \notin TimedTypes /\ None.at = 0 /\ None \notin Timed
  BY DEF None, Event, TimedTypes, Timed

\* What the list has of a type: the event itself or one that took its place.
LEMMA CurrentIn ==
  ASSUME NEW t, Typed(t), NEW ev \in Timed \cup {None}
  PROVE  /\ Current(t, ev) \in Timed \cup {None}
         /\ ev \in Timed => Current(t, ev) \in Timed
         /\ Current(t, ev).at \in Frames
<1> DEFINE es == {t.events[i] : i \in DOMAIN t.events}
           e  == CHOOSE e \in es : e.type = ev.type
<1>1. t.events \in Seq(Timed)
  BY DEF Typed, Session
<1>2. \A x \in es : x \in Timed
  <2> HIDE DEF Timed
  <2> QED BY <1>1
<1>3. CASE InList(t, ev)
  <2>1. \E x \in es : x.type = ev.type
    BY <1>3 DEF InList
  <2>2. e \in es
    <3> HIDE DEF es
    <3> QED BY <2>1
  <2>3. Current(t, ev) = e
    BY <1>3 DEF Current
  <2> HIDE DEF es, e
  <2>4. e \in Timed
    BY <1>2, <2>2
  <2> QED BY <2>3, <2>4 DEF Timed
<1>4. CASE ~InList(t, ev)
  <2>1. Current(t, ev) = ev
    BY <1>4 DEF Current
  <2>2. 0 \in Frames
    BY FramesAssumption DEF Frames
  <2> QED BY <2>1, <2>2, NoneIn DEF Timed
<1> QED BY <1>3, <1>4

LEMMA EventAfterIn ==
  ASSUME NEW t, Typed(t), NEW type, \E i \in DOMAIN t.events : t.events[i].type = type
  PROVE  EventAfter(t, type) \in Timed \cup {None}
<1> DEFINE i == CHOOSE i \in DOMAIN t.events : t.events[i].type = type
<1>1. t.events \in Seq(Timed)
  BY DEF Typed, Session
<1>2. i \in DOMAIN t.events
  OBVIOUS
<1>3. EventAfter(t, type) = IF i = Len(t.events) THEN None ELSE t.events[i + 1]
  BY Zenon DEF EventAfter
<1> HIDE DEF i
<1>4. CASE i = Len(t.events)
  BY <1>3, <1>4
<1>5. CASE i # Len(t.events)
  <2>1. i + 1 \in DOMAIN t.events
    BY <1>1, <1>2, <1>5
  <2>2. t.events[i + 1] \in Timed
    <3> HIDE DEF Timed
    <3> QED BY <1>1, <2>1
  <2> QED BY <1>3, <1>5, <2>2
<1> QED BY <1>4, <1>5

LEMMA WithEventsKeeps == ASSUME IInv, WithEvents PROVE IInv' /\ s'.disk \in Played
<1> DEFINE this == s.events[s.next]
           w == [left |-> Block, moved |-> Block, end |-> Wrapped(s.frame + Block),
                 limit |-> StopLimit(s), this |-> this, next |-> EventAfter(s, this.type)]
<1>1. /\ pc' = "segment" /\ s' = s /\ UNCHANGED othersOfProcess
      /\ s.work \cap CannotProceed = {} /\ s.speed # 0 /\ ~AtEnd(s) /\ walk' = w
  BY DEF WithEvents, Rolls
<1>2. Sound(s) /\ OnWay(s) /\ s.count \in Nat /\ s.frame \in Frames /\ Typed(s)
      /\ s.events \in Seq(Timed) /\ s.next \in 1 .. Len(s.events) + 1
  BY DEF IInv, Sound, Typed, Session
<1>3. s.work = {}
  BY <1>1, <1>2, Proceeds
<1>4. s.next \in DOMAIN s.events /\ Len(s.events) \in Nat
  BY <1>1, <1>2 DEF AtEnd
<1>5. this \in Timed /\ this.type \in TimedTypes
  <2>1. this \in Timed
    <3> HIDE DEF Timed
    <3> QED BY <1>2, <1>4
  <2> QED BY <2>1 DEF Timed
<1>6. EventAfter(s, this.type) \in Timed \cup {None}
  BY <1>2, <1>4, EventAfterIn
<1>7. StopLimit(s) \in Frames /\ Wrapped(s.frame + Block) \in Frames
      /\ Block \in 0 .. Block /\ Block \in Frames
  <2>1. s.frame + Block \in Int
    BY <1>2, FramesAssumption DEF Frames
  <2> QED BY <2>1, WrappedIn, StopLimitIn, FramesAssumption DEF Frames
<1> HIDE DEF this
<1>8. w \in WalkTypes
  BY <1>5, <1>6, <1>7 DEF WalkTypes
<1>9. TimedTypes' = TimedTypes /\ Timed' = Timed
  BY <1>1, SettingsStay DEF othersOfProcess
<1>10. Walk'
  <2>1. w.end = Wrapped(s.frame + w.left)
    OBVIOUS
  <2>2. WalkTypes' = WalkTypes
    BY <1>9, NoneIn DEF WalkTypes
  <2> HIDE DEF w
  <2> QED BY <1>1, <1>3, <1>5, <1>8, <1>9, <2>1, <2>2 DEF Walk
<1>11. Steady(s, s')
  BY <1>1, <1>2 DEF Steady
<1> QED BY <1>1, <1>2, <1>10, <1>11, SteadyStep DEF IInv

LEMMA PlaySegmentKeeps == ASSUME IInv, PlaySegment PROVE IInv' /\ s'.disk \in Played
<1> DEFINE at    == Current(s, walk.this).at
           hit   == walk.this # None /\ at <= walk.end /\ at >= s.frame
           moved == IF hit THEN at - s.frame ELSE walk.moved
           n     == IF hit THEN moved ELSE walk.left
<1>1. /\ pc = "segment" /\ pc' = "events" /\ UNCHANGED othersOfProcess
      /\ s' = IF n = 0 THEN s ELSE Rolled(s, n, moved, walk.limit)
      /\ walk' = [walk EXCEPT !.left = @ - n, !.moved = moved]
  BY Zenon DEF PlaySegment
<1>2. /\ conf \in Confs /\ Sound(s) /\ OnWay(s) /\ s.count \in Nat /\ s.frame \in Frames /\ Typed(s)
      /\ walk \in WalkTypes /\ s.work = {} /\ walk.end = Wrapped(s.frame + walk.left)
      /\ TimedTypes # {} /\ s.speed # 0
  BY <1>1 DEF IInv, Sound, Typed, Session, Walk
<1>3. /\ walk.left \in 0 .. Block /\ walk.moved \in Frames
      /\ walk.this \in Timed \cup {None} /\ walk.next \in Timed \cup {None}
  BY <1>2 DEF WalkTypes
<1>4. at \in Frames
  BY <1>2, <1>3, CurrentIn
<1>5. moved \in Frames /\ n \in 0 .. walk.left
  <2> HIDE DEF at
  <2>1. CASE hit
    <3>1. moved \in Frames /\ n = at - s.frame
      BY <1>2, <1>4, <2>1, FramesAssumption DEF Frames
    <3>2. at - s.frame <= walk.left
      BY <1>2, <1>3, <1>4, <2>1, FramesAssumption DEF Frames, Wrapped
    <3>3. at - s.frame \in Nat /\ walk.left \in Nat
      BY <1>2, <1>3, <1>4, <2>1, FramesAssumption DEF Frames
    <3> HIDE DEF n
    <3> QED BY <3>1, <3>2, <3>3
  <2>2. CASE ~hit
    BY <1>3, <2>2, FramesAssumption
  <2> QED BY <2>1, <2>2
<1> HIDE DEF at, hit, moved, n
<1>6. walk.left - n \in 0 .. Block /\ moved \in Nat
  BY <1>3, <1>5, FramesAssumption DEF Frames
<1>7. walk' \in WalkTypes
  BY <1>1, <1>2, <1>5, <1>6 DEF WalkTypes
<1>8. TimedTypes' = TimedTypes /\ Timed' = Timed
  BY <1>1, SettingsStay DEF othersOfProcess
<1>9. ASSUME s'.work = {} => s'.speed # 0 PROVE Walk'
  <2>1. WalkTypes' = WalkTypes
    BY <1>8, NoneIn DEF WalkTypes
  <2> QED BY <1>1, <1>2, <1>7, <1>8, <1>9, <2>1 DEF Walk
<1>10. CASE n = 0
  <2>1. s' = s
    BY <1>1, <1>10
  <2>2. Steady(s, s')
    BY <1>2, <2>1 DEF Steady
  <2> QED BY <1>1, <1>2, <1>9, <2>1, <2>2, SteadyStep DEF IInv
<1>11. CASE n # 0
  <2>1. n \in 1 .. Block
    BY <1>3, <1>5, <1>11, FramesAssumption
  <2>2. ~Untimed
    BY <1>2, UntimedNone
  <2>3. s' = Rolled(s, n, moved, walk.limit)
    BY <1>1, <1>11
  <2>4. /\ (conf \in Confs)' /\ Sound(s)' /\ OnWay(s)' /\ Pass' /\ InSync'
        /\ s'.disk \in Played
    BY <1>1, <1>2, <1>6, <2>1, <2>2, <2>3, RolledStep
  <2>5. s'.work = {} => s'.speed # 0
    <3>1. /\ Sound(s') /\ s.count <= s'.count
          /\ s'.count = s.count => s'.speed # 0
      BY <1>2, <1>6, <2>1, <2>3, RolledKeeps
    <3>2. s'.count \in Nat /\ (s'.count > 0 => s'.work # {})
      BY <3>1 DEF Sound, Typed, Session
    <3>3. s.count = 0
      BY <1>2 DEF Sound
    <3> QED BY <3>1, <3>2, <3>3
  <2> QED BY <1>9, <2>4, <2>5 DEF IInv
<1> QED BY <1>10, <1>11

LEMMA RunEventKeeps == ASSUME IInv, RunEvent PROVE IInv' /\ s'.disk \in Played
<1> DEFINE ev == Current(s, walk.this)
           options == IF walk.next = None \/ InList(s', walk.next)
                      THEN {Current(s', walk.next)} ELSE {walk.next, None}
<1>1. /\ pc = "events" /\ pc' = "events" /\ UNCHANGED othersOfProcess
      /\ walk.this # None /\ s' = ProcessEvent(s, ev)
      /\ \E this \in options :
            walk' = [walk EXCEPT !.this = this,
                                 !.next = IF InList(s', this) THEN EventAfter(s', this.type)
                                          ELSE None]
  BY Zenon DEF RunEvent, IsDue
<1>2. /\ conf \in Confs /\ Sound(s) /\ OnWay(s) /\ Walk /\ walk \in WalkTypes /\ Typed(s)
      /\ TimedTypes # {} /\ (s.work = {} => s.speed # 0)
  BY <1>1 DEF IInv, Sound, Walk
<1>3. walk.this \in Timed \cup {None} /\ walk.next \in Timed \cup {None}
  BY <1>2 DEF WalkTypes
<1>4. ev \in Timed
  BY <1>1, <1>2, <1>3, CurrentIn
<1> HIDE DEF ev
<1>5. Sound(s') /\ Steady(s, s') /\ OnWay(s')
  BY <1>1, <1>2, <1>4, ProcessEventKeeps
<1>6. Typed(s') /\ s.count \in Nat /\ s'.count \in Nat /\ (s'.count > 0 => s'.work # {})
  BY <1>2, <1>5 DEF Sound, Typed, Session
<1>7. s'.work = {} => s'.speed # 0
  <2> SUFFICES ASSUME s'.work = {} PROVE s'.speed # 0
    OBVIOUS
  <2>1. s'.count = s.count /\ s.work = {}
    BY <1>5, <1>6 DEF Steady
  <2> QED BY <1>2, <1>5, <2>1 DEF Steady
<1>8. PICK this \in options :
        walk' = [walk EXCEPT !.this = this,
                             !.next = IF InList(s', this) THEN EventAfter(s', this.type)
                                      ELSE None]
  BY <1>1
<1>9. this \in Timed \cup {None}
  <2>1. Current(s', walk.next) \in Timed \cup {None}
    BY <1>3, <1>6, CurrentIn
  <2> QED BY <1>3, <2>1
<1> HIDE DEF options
<1> DEFINE next == IF InList(s', this) THEN EventAfter(s', this.type) ELSE None
<1>10. next \in Timed \cup {None}
  <2>1. CASE InList(s', this)
    <3>1. \E i \in DOMAIN s'.events : s'.events[i].type = this.type
      BY <2>1 DEF InList
    <3>2. EventAfter(s', this.type) \in Timed \cup {None}
      BY <1>6, <3>1, EventAfterIn
    <3> QED BY <2>1, <3>2
  <2>2. CASE ~InList(s', this)
    BY <2>2
  <2> QED BY <2>1, <2>2
<1>11. walk' = [walk EXCEPT !.this = this, !.next = next]
  BY <1>8
<1> HIDE DEF next
<1>12. walk' \in WalkTypes
  BY <1>2, <1>9, <1>10, <1>11 DEF WalkTypes
<1>13. TimedTypes' = TimedTypes /\ Timed' = Timed
  BY <1>1, SettingsStay DEF othersOfProcess
<1>14. Walk'
  <2>1. WalkTypes' = WalkTypes
    BY <1>13, NoneIn DEF WalkTypes
  <2> QED BY <1>1, <1>2, <1>7, <1>12, <1>13, <2>1 DEF Walk
<1> QED BY <1>1, <1>5, <1>14, SteadyStep DEF IInv

LEMMA NextSegmentKeeps == ASSUME IInv, NextSegment PROVE IInv' /\ s'.disk \in Played
<1>1. pc = "events" /\ UNCHANGED othersOfProcess
  BY DEF NextSegment
<1>2. /\ conf \in Confs /\ Sound(s) /\ OnWay(s) /\ Walk /\ walk \in WalkTypes /\ Typed(s)
      /\ s.count \in Nat /\ s.frame \in Frames
  BY DEF IInv, Sound, Typed, Session, Walk
<1>3. CASE /\ s' = SetNextEvent(IF s.work # {} THEN Declicked(s) ELSE s)
           /\ pc' = "idle" /\ walk' = walk
  <2> DEFINE d == IF s.work # {} THEN Declicked(s) ELSE s
             r == SetNextEvent(d)
  <2>1. s' = r
    BY <1>3
  <2>2. Sound(d) /\ Steady(s, d) /\ OnWay(d)
    <3>1. Sound(Declicked(s)) /\ Steady(s, Declicked(s)) /\ OnWay(Declicked(s))
      BY <1>2, DeclickedKeeps
    <3>2. Steady(s, s)
      BY <1>2 DEF Steady
    <3> QED BY <1>2, <3>1, <3>2
  <2> HIDE DEF d
  <2>3. Typed(d) /\ d \in Session /\ d.next # 0
    BY <2>2 DEF Sound, Typed
  <2>4. Requeued(d, r)
    BY <2>3, SetNextEventRequeues
  <2> HIDE DEF r
  <2>5. /\ Sound(r) /\ Steady(d, r) /\ r.goal = d.goal
        /\ Stopping(d) => Stopping(r)
        /\ \A at : Nearing(d, at) => Nearing(r, at)
    BY <2>2, <2>3, <2>4, RequeuedKeeps DEF Requeued, SameButLists
  <2>6. OnWay(r)
    BY <2>2, <2>5 DEF OnWay, Honoured, Arriving
  <2>7. Steady(s, r)
    BY <1>2, <2>2, <2>3, <2>5, SteadyTwice DEF Sound
  <2>8. Walk'
    BY <1>1, <1>2, <1>3, WalkStays DEF othersOfProcess
  <2> QED BY <1>1, <2>1, <2>5, <2>6, <2>7, <2>8, SteadyStep DEF IInv
<1>4. CASE /\ s.work = {} /\ walk' = [walk EXCEPT !.end = Wrapped(s.frame + walk.left)]
           /\ pc' = "segment" /\ s' = s
  <2>1. Steady(s, s')
    BY <1>2, <1>4 DEF Steady
  <2>2. walk.left \in 0 .. Block
    BY <1>2 DEF WalkTypes
  <2>3. Wrapped(s.frame + walk.left) \in Frames
    <3>1. s.frame + walk.left \in Int
      BY <1>2, <2>2, FramesAssumption DEF Frames
    <3> QED BY <3>1, WrappedIn
  <2>4. walk' \in WalkTypes /\ walk'.end = Wrapped(s.frame + walk.left) /\ walk'.left = walk.left
    BY <1>2, <1>4, <2>3 DEF WalkTypes
  <2>5. TimedTypes' = TimedTypes /\ Timed' = Timed
    BY <1>1, SettingsStay DEF othersOfProcess
  <2>6. Walk'
    <3>1. WalkTypes' = WalkTypes
      BY <2>5, NoneIn DEF WalkTypes
    <3>2. TimedTypes # {} /\ s.speed # 0
      BY <1>1, <1>2, <1>4 DEF Walk
    <3> QED BY <1>4, <2>4, <2>5, <3>1, <3>2 DEF Walk
  <2> QED BY <1>1, <1>2, <1>4, <2>1, <2>6, SteadyStep DEF IInv
<1> QED BY <1>3, <1>4 DEF NextSegment

-----------------------------------------------------------------------------
(* The butler and the user.                                                *)

\* The walk through a cycle goes on as it was.
LEMMA WalkLeft ==
  ASSUME Walk, conf' = conf, walk' = walk, pc' = pc,
         s'.work = s.work, s'.frame = s.frame, s'.speed = s.speed
  PROVE  Walk'
<1>1. TimedTypes' = TimedTypes /\ Timed' = Timed
  BY SettingsStay
<1>2. WalkTypes' = WalkTypes
  BY <1>1, NoneIn DEF WalkTypes
<1> QED BY <1>1, <1>2 DEF Walk

\* While work is flagged no segment is about to be played.
LEMMA WalkWaits ==
  ASSUME Walk, conf' = conf, walk' = walk, pc' = pc, s.work # {}, s'.work = s.work
  PROVE  Walk'
<1>1. TimedTypes' = TimedTypes /\ Timed' = Timed
  BY SettingsStay
<1>2. WalkTypes' = WalkTypes
  BY <1>1, NoneIn DEF WalkTypes
<1> QED BY <1>1, <1>2 DEF Walk

\* What the butler changes: r is t but for where transport and diskstreams are, the
\* counter, and what follows a stop.
Served(t, r) ==
    /\ Typed(r)
    /\ r.speed = t.speed /\ r.work = t.work /\ r.sub = t.sub /\ r.rec = t.rec
    /\ r.loop = t.loop /\ r.imm = t.imm /\ r.goal = t.goal /\ r.plFrame = t.plFrame
    /\ r.rrf = t.rrf \/ r.rrf = -1

LEMMA ServedKeeps ==
  ASSUME NEW t, Sound(t), NEW r, Served(t, r), t.work # {}
  PROVE  /\ Sound(r)
         /\ Stopping(t) => Stopping(r)
         /\ r.frame = t.frame /\ r.plRoll = t.plRoll => \A at : Nearing(t, at) => Nearing(r, at)
         /\ r.frame = t.frame /\ "Stop" \in t.work => \A at : Nearing(t, at) => Nearing(r, at)
<1>1. Sound(r)
  BY DEF Served, Sound, Recording
<1>2. Stopping(t) => Stopping(r)
  BY DEF Served, Stopping, HasStop
<1>3. r.frame = t.frame /\ r.plRoll = t.plRoll => \A at : Nearing(t, at) => Nearing(r, at)
  BY DEF Served, Nearing
<1>4. r.frame = t.frame /\ "Stop" \in t.work => \A at : Nearing(t, at) => Nearing(r, at)
  BY DEF Served, Nearing, Sound, Waits
<1> QED BY <1>1, <1>2, <1>3, <1>4

\* The steps of the butler that change the session.
LEMMA ServedStep ==
  ASSUME IInv, UNCHANGED othersOfButler, s.work # {}, Served(s, s'),
         \/ s'.frame = s.frame /\ (s'.plRoll = s.plRoll \/ "Stop" \in s.work)
         \/ AutoReturn \/ "RollAndReturn" \in Asks
  PROVE  (conf \in Confs)' /\ Sound(s)' /\ OnWay(s)' /\ Walk'
<1>1. conf' = conf /\ pc' = pc /\ walk' = walk
  BY DEF othersOfButler
<1>2. /\ conf \in Confs /\ Sound(s) /\ OnWay(s) /\ Walk
  BY DEF IInv
<1>3. /\ Sound(s')
      /\ Stopping(s) => Stopping(s')
      /\ s'.frame = s.frame /\ (s'.plRoll = s.plRoll \/ "Stop" \in s.work) =>
            \A at : Nearing(s, at) => Nearing(s', at)
      /\ s'.goal = s.goal /\ s'.work = s.work
  BY <1>2, ServedKeeps DEF Served
<1>4. OnWay(s')
  BY <1>2, <1>3 DEF OnWay, Honoured, Arriving
<1>5. Walk'
  BY <1>1, <1>2, <1>3, WalkWaits
<1> QED BY <1>1, <1>2, <1>3, <1>4, <1>5, SoundThen, OnWayThen

\* During a pass.
LEMMA InPass ==
  ASSUME IInv, bpc # "idle"
  PROVE  /\ conf \in Confs /\ Typed(s) /\ s \in Session /\ s.next \in 1 .. Len(s.events) + 1
         /\ s.work # {} /\ s.count \in Nat /\ on_entry \in Nat
         /\ 1 <= on_entry /\ on_entry <= s.count
         /\ "Stop" \in s.work \/ "Locate" \in s.work
<1>1. Typed(s) /\ s \in Session /\ s.next \in 1 .. Len(s.events) + 1 /\ s.count \in Nat
  BY DEF IInv, Sound, Typed, Session
<1>2. on_entry \in Nat /\ 1 <= on_entry /\ on_entry <= s.count
  BY DEF IInv, Pass
<1>3. s.work # {} /\ ("Stop" \in s.work \/ "Locate" \in s.work)
  BY <1>1, <1>2 DEF IInv, Sound
<1> QED BY <1>1, <1>2, <1>3 DEF IInv

LEMMA EnterPassKeeps == ASSUME IInv, EnterPass PROVE IInv'
<1>1. /\ bpc = "idle" /\ s.count > 0 /\ bpc' = "locate" /\ on_entry' = s.count
      /\ s' = s /\ UNCHANGED othersOfButler
  BY DEF EnterPass
<1>2. conf' = conf /\ pc' = pc /\ walk' = walk /\ gpc' = gpc
  BY <1>1 DEF othersOfButler
<1>3. conf \in Confs /\ Sound(s) /\ OnWay(s) /\ Walk /\ Pass /\ s.count \in Nat
  BY DEF IInv, Sound, Typed, Session
<1>4. Sound(s)' /\ OnWay(s)' /\ (conf \in Confs)'
  BY <1>1, <1>2, <1>3, SoundThen, OnWayThen
<1>5. Walk'
  BY <1>1, <1>2, <1>3, WalkLeft
<1>6. AutoReturn' = AutoReturn /\ PunchInOn' = PunchInOn /\ Asks' = Asks
  BY <1>2, SettingsStay
<1>7. Pass'
  BY <1>1, <1>2, <1>3, <1>6 DEF Pass
<1>8. InSync'
  BY <1>1, <1>3 DEF InSync, Synced
<1> QED BY <1>4, <1>5, <1>7, <1>8 DEF IInv

\* What a locate of the diskstreams does.
LEMMA Sought ==
  ASSUME Typed(s), NEW count \in Nat, NEW r, r = [s EXCEPT !.disk = s.frame, !.count = count]
  PROVE  /\ Served(s, r)
         /\ r.frame = s.frame /\ r.plRoll = s.plRoll /\ r.count = count /\ r.disk = s.frame
<1>1. s \in Session /\ s.next \in 1 .. Len(s.events) + 1 /\ s.frame \in Frames
  BY DEF Typed, Session
<1>2. r \in Session
  BY <1>1 DEF Session
<1>3. /\ r.frame = s.frame /\ r.plRoll = s.plRoll /\ r.count = count /\ r.disk = s.frame
      /\ r.speed = s.speed /\ r.work = s.work /\ r.sub = s.sub /\ r.rec = s.rec
      /\ r.loop = s.loop /\ r.imm = s.imm /\ r.goal = s.goal /\ r.plFrame = s.plFrame
      /\ r.rrf = s.rrf /\ r.events = s.events /\ r.next = s.next
  BY <1>1 DEF Session
<1>4. Typed(r)
  BY <1>1, <1>2, <1>3 DEF Typed
<1> QED BY <1>3, <1>4 DEF Served

LEMMA NonRealtimeLocateKeeps == ASSUME IInv, NonRealtimeLocate PROVE IInv'
<1>1. /\ bpc = "locate" /\ bpc' = "stop" /\ on_entry' = on_entry /\ UNCHANGED othersOfButler
      /\ s' = IF "Locate" \in s.work THEN [s EXCEPT !.disk = s.frame] ELSE s
  BY DEF NonRealtimeLocate
<1>2. /\ conf \in Confs /\ Typed(s) /\ s \in Session
      /\ s.work # {} /\ s.count \in Nat /\ on_entry \in Nat
      /\ 1 <= on_entry /\ on_entry <= s.count
      /\ "Stop" \in s.work \/ "Locate" \in s.work
  BY <1>1, InPass
<1>3. /\ Served(s, s') /\ s'.frame = s.frame /\ s'.plRoll = s.plRoll /\ s'.count = s.count
      /\ "Locate" \in s.work => s'.disk = s.frame
  <2>1. CASE "Locate" \in s.work
    <3>1. s' = [s EXCEPT !.disk = s.frame, !.count = s.count]
      BY <1>1, <1>2, <2>1 DEF Session
    <3> QED BY <1>2, <3>1, Sought
  <2>2. CASE "Locate" \notin s.work
    BY <1>1, <1>2, <2>2 DEF Served
  <2> QED BY <2>1, <2>2
<1>4. (conf \in Confs)' /\ Sound(s)' /\ OnWay(s)' /\ Walk'
  BY <1>1, <1>2, <1>3, ServedStep
<1>5. conf' = conf /\ gpc' = gpc
  BY <1>1 DEF othersOfButler
<1>6. AutoReturn' = AutoReturn /\ PunchInOn' = PunchInOn /\ Asks' = Asks
  BY <1>5, SettingsStay
<1>7. Pass'
  BY <1>1, <1>2, <1>3, <1>5, <1>6 DEF Pass, IInv
<1>8. InSync'
  BY <1>1, <1>2, <1>3 DEF InSync, Synced, Served
<1> QED BY <1>4, <1>7, <1>8 DEF IInv

LEMMA NonRealtimeStopKeeps == ASSUME IInv, NonRealtimeStop PROVE IInv'
<1>1. /\ bpc = "stop" /\ s' = s /\ on_entry' = on_entry /\ UNCHANGED othersOfButler
      /\ \/ "Stop" \notin s.work /\ bpc' = "done"
         \/ "Stop" \in s.work /\ (AutoReturn \/ s.rrf >= 0) /\ bpc' = "return"
         \/ "Stop" \in s.work /\ bpc' = "seek"
  <2>1. \/ "Stop" \notin s.work /\ bpc' = "done"
        \/ "Stop" \in s.work /\ (AutoReturn \/ s.rrf >= 0) /\ bpc' = "return"
        \/ "Stop" \in s.work /\ bpc' = "seek"
    BY DEF NonRealtimeStop
  <2> QED BY <2>1 DEF NonRealtimeStop
<1>2. conf \in Confs /\ Sound(s) /\ OnWay(s) /\ Walk /\ Pass /\ InSync
  BY DEF IInv
<1>3. conf' = conf /\ pc' = pc /\ walk' = walk /\ gpc' = gpc
  BY <1>1 DEF othersOfButler
<1>4. Sound(s)' /\ OnWay(s)' /\ (conf \in Confs)' /\ Walk'
  BY <1>1, <1>2, <1>3, SoundThen, OnWayThen, WalkLeft
<1>5. /\ AutoReturn' = AutoReturn /\ PunchInOn' = PunchInOn /\ Asks' = Asks
      /\ Untimed' = Untimed
  BY <1>3, SettingsStay
<1>6. s.rrf >= 0 => "RollAndReturn" \in Asks
  BY <1>2 DEF Sound
<1>7. Pass'
  BY <1>1, <1>2, <1>3, <1>5, <1>6 DEF Pass
<1>8. InSync'
  <2>1. Synced' => Synced
    BY <1>1 DEF Synced
  <2>2. Faded(s)' <=> Faded(s)
    BY <1>1 DEF Faded
  <2> QED BY <1>1, <1>2, <1>5, <2>1, <2>2 DEF InSync
<1> QED BY <1>4, <1>7, <1>8 DEF IInv

LEMMA ReturnKeeps == ASSUME IInv, Return PROVE IInv'
<1> DEFINE f == IF s.rrf >= 0 THEN s.rrf ELSE s.lsf
<1>1. /\ bpc = "return" /\ bpc' = "seek" /\ on_entry' = on_entry /\ UNCHANGED othersOfButler
      /\ s' = [s EXCEPT !.frame = f, !.rrf = -1]
  BY DEF Return
<1>2. /\ conf \in Confs /\ s \in Session /\ s.next \in 1 .. Len(s.events) + 1
      /\ s.work # {} /\ s.count \in Nat /\ on_entry \in Nat
      /\ 1 <= on_entry /\ on_entry <= s.count
  BY <1>1, InPass
<1>3. AutoReturn \/ "RollAndReturn" \in Asks
  BY <1>1 DEF IInv, Pass
<1>4. f \in Frames
  BY <1>2 DEF Session
<1> HIDE DEF f
<1>5. s' \in Session
  BY <1>1, <1>2, <1>4 DEF Session
<1>6. /\ s'.speed = s.speed /\ s'.work = s.work /\ s'.sub = s.sub /\ s'.rec = s.rec
      /\ s'.loop = s.loop /\ s'.imm = s.imm /\ s'.goal = s.goal /\ s'.plFrame = s.plFrame
      /\ s'.rrf = -1 /\ s'.events = s.events /\ s'.next = s.next /\ s'.count = s.count
  BY <1>1, <1>2 DEF Session
<1>7. Served(s, s')
  BY <1>2, <1>5, <1>6 DEF Served, Typed
<1>8. (conf \in Confs)' /\ Sound(s)' /\ OnWay(s)' /\ Walk'
  BY <1>1, <1>2, <1>3, <1>7, ServedStep
<1>9. conf' = conf /\ gpc' = gpc
  BY <1>1 DEF othersOfButler
<1>10. AutoReturn' = AutoReturn /\ PunchInOn' = PunchInOn /\ Asks' = Asks
  BY <1>9, SettingsStay
<1>11. Pass'
  BY <1>1, <1>2, <1>6, <1>9, <1>10 DEF Pass, IInv
<1>12. InSync'
  BY <1>1, <1>2, <1>6 DEF InSync, Synced
<1> QED BY <1>8, <1>11, <1>12 DEF IInv

LEMMA SeekKeeps == ASSUME IInv, Seek PROVE IInv'
<1>1. /\ bpc = "seek" /\ on_entry' = on_entry /\ UNCHANGED othersOfButler
      /\ \/ s.count = on_entry /\ s' = [s EXCEPT !.disk = s.frame] /\ bpc' = "finish"
         \/ /\ s.count # on_entry /\ s' = [s EXCEPT !.disk = s.frame, !.count = @ - 1]
            /\ bpc' = "idle"
  BY DEF Seek
<1>2. /\ conf \in Confs /\ Typed(s) /\ s \in Session
      /\ s.work # {} /\ s.count \in Nat /\ on_entry \in Nat
      /\ 1 <= on_entry /\ on_entry <= s.count
  BY <1>1, InPass
<1> DEFINE count == IF s.count = on_entry THEN s.count ELSE s.count - 1
<1>3. s' = [s EXCEPT !.disk = s.frame, !.count = count] /\ count \in Nat
  <2>1. CASE s.count = on_entry
    <3>1. [s EXCEPT !.disk = s.frame] = [s EXCEPT !.disk = s.frame, !.count = s.count]
      BY <1>2 DEF Session
    <3> QED BY <1>1, <1>2, <2>1, <3>1
  <2>2. CASE s.count # on_entry
    BY <1>1, <1>2, <2>2
  <2> QED BY <2>1, <2>2
<1> HIDE DEF count
<1>4. /\ Served(s, s')
      /\ s'.frame = s.frame /\ s'.plRoll = s.plRoll /\ s'.count = count /\ s'.disk = s.frame
  BY <1>2, <1>3, Sought
<1>5. (conf \in Confs)' /\ Sound(s)' /\ OnWay(s)' /\ Walk'
  BY <1>1, <1>2, <1>4, ServedStep
<1>6. conf' = conf /\ gpc' = gpc
  BY <1>1 DEF othersOfButler
<1>7. AutoReturn' = AutoReturn /\ PunchInOn' = PunchInOn /\ Asks' = Asks
  BY <1>6, SettingsStay
<1>8. s'.work = s.work
  BY <1>4 DEF Served
<1>9. Pass'
  BY <1>1, <1>2, <1>4, <1>6, <1>7, <1>8 DEF Pass, IInv, count
<1>10. InSync'
  BY <1>4 DEF InSync
<1> QED BY <1>5, <1>9, <1>10 DEF IInv

LEMMA FinishStopKeeps == ASSUME IInv, FinishStop PROVE IInv'
<1> DEFINE lsf  == IF s.rrf < 0 THEN s.frame ELSE s.rrf
           c    == Command("Play", 0)
           roll == "Locate" \in s.work /\ s.plRoll
           pend == IF roll THEN Append(s.pend, c) ELSE s.pend
           plRoll == IF roll THEN FALSE ELSE s.plRoll
<1>1. /\ bpc = "finish" /\ bpc' = "done" /\ on_entry' = on_entry /\ UNCHANGED othersOfButler
      /\ LET stopped == [s EXCEPT !.lsf = lsf, !.rrf = -1] IN
         s' = IF roll THEN [stopped EXCEPT !.pend = Append(@, c), !.plRoll = FALSE] ELSE stopped
  BY Zenon DEF FinishStop
<1>2. /\ conf \in Confs /\ s \in Session /\ s.next \in 1 .. Len(s.events) + 1
      /\ s.work # {} /\ s.count \in Nat /\ on_entry \in Nat
      /\ 1 <= on_entry /\ on_entry <= s.count
  BY <1>1, InPass
<1>3. s' = [s EXCEPT !.lsf = lsf, !.rrf = -1, !.pend = pend, !.plRoll = plRoll]
  BY <1>1, <1>2 DEF Session
<1>4. lsf \in Frames /\ plRoll \in BOOLEAN /\ pend \in Seq(Pending)
  <2>1. c \in Pending
    BY FramesAssumption DEF Command, Event, Pending, Commands, CommandTypes, Frames
  <2> HIDE DEF c
  <2>2. s.pend \in Seq(Pending) /\ Append(s.pend, c) \in Seq(Pending)
    BY <1>2, <2>1 DEF Session
  <2>3. s.rrf \in Frames \cup {-1} /\ s.frame \in Frames /\ s.plRoll \in BOOLEAN
    BY <1>2 DEF Session
  <2>4. lsf \in Frames
    BY <2>3
  <2>5. plRoll \in BOOLEAN
    <3> HIDE DEF roll
    <3> QED BY <2>3
  <2> QED BY <2>2, <2>4, <2>5
<1> HIDE DEF lsf, pend, plRoll, c, roll
<1>5. s' \in Session
  BY <1>2, <1>3, <1>4 DEF Session
<1>6. /\ s'.speed = s.speed /\ s'.work = s.work /\ s'.sub = s.sub /\ s'.rec = s.rec
      /\ s'.loop = s.loop /\ s'.imm = s.imm /\ s'.goal = s.goal /\ s'.plFrame = s.plFrame
      /\ s'.rrf = -1 /\ s'.events = s.events /\ s'.next = s.next /\ s'.count = s.count
      /\ s'.frame = s.frame /\ s'.disk = s.disk
  BY <1>2, <1>3 DEF Session
<1>7. Served(s, s')
  BY <1>2, <1>5, <1>6 DEF Served, Typed
<1>8. "Stop" \in s.work
  BY <1>1 DEF IInv, Pass
<1>9. (conf \in Confs)' /\ Sound(s)' /\ OnWay(s)' /\ Walk'
  BY <1>1, <1>2, <1>6, <1>7, <1>8, ServedStep
<1>10. conf' = conf /\ gpc' = gpc
  BY <1>1 DEF othersOfButler
<1>11. AutoReturn' = AutoReturn /\ PunchInOn' = PunchInOn /\ Asks' = Asks /\ Untimed' = Untimed
  BY <1>10, SettingsStay
<1>12. Pass'
  BY <1>1, <1>2, <1>6, <1>10, <1>11 DEF Pass, IInv
<1>13. InSync'
  <2>1. Synced' => Synced
    BY <1>1, <1>6 DEF Synced
  <2>2. Faded(s)' <=> Faded(s)
    BY <1>6 DEF Faded
  <2> QED BY <1>6, <1>11, <2>1, <2>2 DEF InSync, IInv
<1> QED BY <1>9, <1>12, <1>13 DEF IInv

LEMMA LeavePassKeeps == ASSUME IInv, LeavePass PROVE IInv'
<1>1. /\ bpc = "done" /\ bpc' = "idle" /\ on_entry' = on_entry /\ UNCHANGED othersOfButler
      /\ s' = [s EXCEPT !.count = @ - 1]
  BY DEF LeavePass
<1>2. /\ conf \in Confs /\ s \in Session /\ s.next \in 1 .. Len(s.events) + 1
      /\ s.work # {} /\ s.count \in Nat /\ on_entry \in Nat
      /\ 1 <= on_entry /\ on_entry <= s.count
  BY <1>1, InPass
<1> DEFINE count == s.count - 1
<1>3. count \in Nat /\ s' = [s EXCEPT !.count = count]
  BY <1>1, <1>2
<1> HIDE DEF count
<1>4. s' \in Session
  BY <1>2, <1>3 DEF Session
<1>5. /\ s'.speed = s.speed /\ s'.work = s.work /\ s'.sub = s.sub /\ s'.rec = s.rec
      /\ s'.loop = s.loop /\ s'.imm = s.imm /\ s'.goal = s.goal /\ s'.plFrame = s.plFrame
      /\ s'.rrf = s.rrf /\ s'.events = s.events /\ s'.next = s.next /\ s'.count = count
      /\ s'.frame = s.frame /\ s'.disk = s.disk /\ s'.plRoll = s.plRoll
  BY <1>2, <1>3 DEF Session
<1>6. Served(s, s')
  BY <1>2, <1>4, <1>5 DEF Served, Typed
<1>7. (conf \in Confs)' /\ Sound(s)' /\ OnWay(s)' /\ Walk'
  BY <1>1, <1>2, <1>5, <1>6, ServedStep
<1>8. conf' = conf /\ gpc' = gpc
  BY <1>1 DEF othersOfButler
<1>9. AutoReturn' = AutoReturn /\ PunchInOn' = PunchInOn /\ Asks' = Asks /\ Untimed' = Untimed
  BY <1>8, SettingsStay
<1>10. Pass'
  BY <1>1, <1>2, <1>5, <1>8, <1>9 DEF Pass, IInv
<1>11. InSync'
  <2>1. Synced' => Synced
    BY <1>1, <1>2, <1>5 DEF Synced, count
  <2>2. Faded(s)' <=> Faded(s)
    BY <1>5 DEF Faded
  <2> QED BY <1>5, <1>9, <2>1, <2>2 DEF InSync, IInv
<1> QED BY <1>7, <1>10, <1>11 DEF IInv

\* The user's steps change the commands that are pending or the record status.
Untouched(t, r) ==
    /\ r.frame = t.frame /\ r.speed = t.speed /\ r.work = t.work /\ r.count = t.count
    /\ r.sub = t.sub /\ r.plFrame = t.plFrame /\ r.plRoll = t.plRoll /\ r.disk = t.disk
    /\ r.imm = t.imm /\ r.goal = t.goal

LEMMA UserStep ==
  ASSUME IInv, UNCHANGED othersOfUser, Sound(s'), Untouched(s, s'),
         gpc' \in {"idle", "armed", "enable"}, gpc' # "idle" => "Record" \in Asks,
         gpc' = "enable" => ~PunchInOn
  PROVE  IInv'
<1>1. conf' = conf /\ pc' = pc /\ walk' = walk /\ bpc' = bpc /\ on_entry' = on_entry
  BY DEF othersOfUser
<1>2. conf \in Confs /\ OnWay(s) /\ Walk /\ Pass /\ InSync
  BY DEF IInv
<1>3. OnWay(s')
  BY <1>2 DEF OnWay, Honoured, Arriving, Stopping, HasStop, Nearing, Untouched
<1>4. Sound(s)' /\ OnWay(s)' /\ (conf \in Confs)'
  BY <1>1, <1>2, <1>3, SoundThen, OnWayThen
<1>5. Walk'
  BY <1>1, <1>2, WalkLeft DEF Untouched
<1>6. /\ AutoReturn' = AutoReturn /\ PunchInOn' = PunchInOn /\ Asks' = Asks
      /\ Untimed' = Untimed
  BY <1>1, SettingsStay
<1>7. Pass'
  BY <1>1, <1>2, <1>6 DEF Pass, Untouched
<1>8. InSync'
  <2>1. Synced' => Synced
    BY <1>1 DEF Synced, Untouched
  <2>2. Faded(s)' <=> Faded(s)
    BY DEF Faded, Untouched
  <2> QED BY <1>2, <1>6, <2>1, <2>2 DEF InSync, Untouched
<1> QED BY <1>4, <1>5, <1>7, <1>8 DEF IInv

LEMMA RequestKeeps == ASSUME IInv, Request PROVE IInv'
<1>1. UNCHANGED othersOfUser /\ gpc' = gpc
  BY DEF Request
<1>2. /\ conf \in Confs /\ Sound(s) /\ s \in Session /\ s.pend \in Seq(Pending)
      /\ s.next \in 1 .. Len(s.events) + 1
  BY DEF IInv, Sound, Typed, Session
<1>3. Targets \subseteq Frames /\ 0 \in Frames
  BY FramesAssumption DEF Frames
<1>4. \A type \in CommandTypes, f \in Frames : Command(type, f) \in Pending
  BY <1>3 DEF Command, Event, Pending, Commands
<1>5. \E cs \in Seq(Pending) : Queued(cs)
  <2>1. PICK f \in Targets :
          \/ \E type \in Asks \cap {"Play", "Stop", "LoopOn", "LoopOff"} :
                Queued(<<Command(type, 0)>>)
          \/ \E type \in Asks \cap {"Locate", "LocateRoll"} : Queued(<<Command(type, f)>>)
          \/ /\ "BoundedRoll" \in Asks
             /\ \E e \in Targets : e > f /\
                   Queued(<<Command("Stop", 0),
                            [action |-> "Replace", ev |-> Event("StopOnce", e, 0)],
                            Command("LocateRoll", f)>>)
          \/ /\ "RollAndReturn" \in Asks
             /\ \E r \in Targets :
                   Queued(<<[action |-> "Add",
                             ev |-> [Event("RollAndReturn", Immediate, r) EXCEPT !.from = f]]>>)
    BY DEF Request
  <2>2. CASE \E type \in Asks \cap {"Play", "Stop", "LoopOn", "LoopOff"} :
               Queued(<<Command(type, 0)>>)
    <3>1. PICK type \in Asks \cap {"Play", "Stop", "LoopOn", "LoopOff"} :
            Queued(<<Command(type, 0)>>)
      BY <2>2
    <3>2. Command(type, 0) \in Pending
      BY <1>3, <1>4 DEF CommandTypes
    <3>3. <<Command(type, 0)>> \in Seq(Pending)
      BY <3>2
    <3> QED BY <3>1, <3>3
  <2>3. CASE \E type \in Asks \cap {"Locate", "LocateRoll"} : Queued(<<Command(type, f)>>)
    <3>1. PICK type \in Asks \cap {"Locate", "LocateRoll"} : Queued(<<Command(type, f)>>)
      BY <2>3
    <3>2. Command(type, f) \in Pending
      BY <1>3, <1>4, <2>1 DEF CommandTypes
    <3>3. <<Command(type, f)>> \in Seq(Pending)
      BY <3>2
    <3> QED BY <3>1, <3>3
  <2>4. CASE /\ "BoundedRoll" \in Asks
             /\ \E e \in Targets : e > f /\
                   Queued(<<Command("Stop", 0),
                            [action |-> "Replace", ev |-> Event("StopOnce", e, 0)],
                            Command("LocateRoll", f)>>)
    <3>1. PICK e \in Targets :
            Queued(<<Command("Stop", 0),
                     [action |-> "Replace", ev |-> Event("StopOnce", e, 0)],
                     Command("LocateRoll", f)>>)
      BY <2>4
    <3> DEFINE c1 == Command("Stop", 0)
               c2 == [action |-> "Replace", ev |-> Event("StopOnce", e, 0)]
               c3 == Command("LocateRoll", f)
    <3>2. c1 \in Pending /\ c3 \in Pending
      BY <1>3, <1>4, <2>1 DEF CommandTypes
    <3>3. c2 \in Pending
      <4>1. "StopOnce" \in TimedTypes
        BY <2>4 DEF TimedTypes
      <4>2. Event("StopOnce", e, 0) \in Timed /\ Event("StopOnce", e, 0).type = "StopOnce"
        BY <1>3, <4>1 DEF Event, Timed
      <4> QED BY <4>2 DEF Pending
    <3>4. Queued(<<c1, c2, c3>>)
      BY <3>1
    <3> HIDE DEF c1, c2, c3
    <3>5. <<c1, c2, c3>> \in Seq(Pending)
      BY <3>2, <3>3
    <3> QED BY <3>4, <3>5
  <2>5. CASE /\ "RollAndReturn" \in Asks
             /\ \E r \in Targets :
                   Queued(<<[action |-> "Add",
                             ev |-> [Event("RollAndReturn", Immediate, r) EXCEPT !.from = f]]>>)
    <3>1. PICK r \in Targets :
            Queued(<<[action |-> "Add",
                      ev |-> [Event("RollAndReturn", Immediate, r) EXCEPT !.from = f]]>>)
      BY <2>5
    <3> DEFINE ev == [Event("RollAndReturn", Immediate, r) EXCEPT !.from = f]
               c  == [action |-> "Add", ev |-> ev]
    <3>2. "RollAndReturn" \in CommandTypes
      BY <2>5 DEF CommandTypes
    <3>3. ev = [type |-> "RollAndReturn", at |-> Immediate, target |-> r, from |-> f]
      BY DEF Event
    <3>4. ev \in Commands
      BY <1>3, <2>1, <3>2, <3>3 DEF Commands
    <3> HIDE DEF ev
    <3>5. c \in Pending
      BY <3>4 DEF Pending
    <3>6. Queued(<<c>>)
      BY <3>1 DEF ev
    <3> HIDE DEF c
    <3>7. <<c>> \in Seq(Pending)
      BY <3>5
    <3> QED BY <3>6, <3>7
  <2> QED BY <2>1, <2>2, <2>3, <2>4, <2>5
<1>6. PICK cs \in Seq(Pending) : Queued(cs)
  BY <1>5
<1> DEFINE pend == s.pend \o cs
<1>7. pend \in Seq(Pending)
  BY <1>2, <1>6
<1>8. s' = [s EXCEPT !.pend = pend]
  BY <1>6 DEF Queued
<1> HIDE DEF pend
<1>9. Sound(s')
  BY <1>2, <1>7, <1>8, PendKeeps DEF Keeps
<1>10. Untouched(s, s')
  BY <1>2, <1>8 DEF Untouched, Session
<1>11. /\ gpc \in {"idle", "armed", "enable"} /\ (gpc # "idle" => "Record" \in Asks)
       /\ gpc = "enable" => ~PunchInOn
  BY DEF IInv, Pass
<1> QED BY <1>1, <1>9, <1>10, <1>11, UserStep

\* A step that sets the record status.
LEMMA RecStep ==
  ASSUME IInv, NEW rec \in {"Disabled", "Enabled", "Recording"}, s' = [s EXCEPT !.rec = rec],
         PunchInOn => rec # "Recording", "Record" \notin Asks => rec = "Disabled"
  PROVE  Sound(s') /\ Untouched(s, s')
<1>1. Sound(s) /\ s \in Session
  BY DEF IInv, Sound, Typed
<1>2. Sound(s')
  BY <1>1, RecKeeps DEF Keeps
<1>3. Untouched(s, s')
  BY <1>1 DEF Untouched, Session
<1> QED BY <1>2, <1>3

LEMMA RecordKeeps ==
  ASSUME IInv, ArmRecord \/ LookAtTransport \/ StartRecording \/ UnarmRecord
  PROVE  IInv'
<1>1. /\ gpc \in {"idle", "armed", "enable"} /\ (gpc # "idle" => "Record" \in Asks)
      /\ gpc = "enable" => ~PunchInOn
  BY DEF IInv, Pass
<1>2. CASE ArmRecord
  <2>1. UNCHANGED othersOfUser /\ "Record" \in Asks /\ gpc' = "armed"
        /\ s' = [s EXCEPT !.rec = "Enabled"]
    BY <1>2 DEF ArmRecord
  <2>2. Sound(s') /\ Untouched(s, s')
    BY <2>1, RecStep
  <2> QED BY <2>1, <2>2, UserStep
<1>3. CASE LookAtTransport
  <2>1. /\ UNCHANGED othersOfUser /\ gpc = "armed" /\ s' = s /\ gpc' \in {"enable", "idle"}
        /\ gpc' = "enable" => ~PunchInOn
    BY <1>3 DEF LookAtTransport
  <2>2. Sound(s') /\ Untouched(s, s')
    BY <2>1 DEF Untouched, IInv
  <2> QED BY <1>1, <2>1, <2>2, UserStep
<1>4. CASE StartRecording
  <2>1. UNCHANGED othersOfUser /\ gpc = "enable" /\ gpc' = "idle"
        /\ s' = [s EXCEPT !.rec = "Recording"]
    BY <1>4 DEF StartRecording, EnableRecord
  <2>2. Sound(s') /\ Untouched(s, s')
    BY <1>1, <2>1, RecStep
  <2> QED BY <2>1, <2>2, UserStep
<1>5. CASE UnarmRecord
  <2>1. UNCHANGED othersOfUser /\ gpc' = gpc /\ s' = [s EXCEPT !.rec = "Disabled"]
    BY <1>5 DEF UnarmRecord
  <2>2. Sound(s') /\ Untouched(s, s')
    BY <2>1, RecStep
  <2> QED BY <1>1, <2>1, <2>2, UserStep
<1> QED BY <1>2, <1>3, <1>4, <1>5

-----------------------------------------------------------------------------
LEMMA StepKeeps == ASSUME IInv, [Next]_vars PROVE IInv'
<1>1. CASE BeginCycle
  BY <1>1, BeginCycleKeeps
<1>2. CASE MergePending
  BY <1>2, MergePendingKeeps
<1>3. CASE PendingMerged
  BY <1>3, PendingMergedKeeps
<1>4. CASE TakeImmediate
  BY <1>4, TakeImmediateKeeps
<1>5. CASE NoRoll
  BY <1>5, NoRollKeeps
<1>6. CASE WithoutEvents
  BY <1>6, WithoutEventsKeeps
<1>7. CASE WithEvents
  BY <1>7, WithEventsKeeps
<1>8. CASE PlaySegment
  BY <1>8, PlaySegmentKeeps
<1>9. CASE RunEvent
  BY <1>9, RunEventKeeps
<1>10. CASE NextSegment
  BY <1>10, NextSegmentKeeps
<1>11. CASE EnterPass
  BY <1>11, EnterPassKeeps
<1>12. CASE NonRealtimeLocate
  BY <1>12, NonRealtimeLocateKeeps
<1>13. CASE NonRealtimeStop
  BY <1>13, NonRealtimeStopKeeps
<1>14. CASE Return
  BY <1>14, ReturnKeeps
<1>15. CASE Seek
  BY <1>15, SeekKeeps
<1>16. CASE FinishStop
  BY <1>16, FinishStopKeeps
<1>17. CASE LeavePass
  BY <1>17, LeavePassKeeps
<1>18. CASE Request
  BY <1>18, RequestKeeps
<1>19. CASE ArmRecord \/ LookAtTransport \/ StartRecording \/ UnarmRecord
  BY <1>19, RecordKeeps
<1>20. CASE UNCHANGED vars
  <2>1. UNCHANGED othersOfUser /\ gpc' = gpc /\ s' = s
    BY <1>20 DEF vars, othersOfUser
  <2>2. Sound(s') /\ Untouched(s, s')
    BY <2>1 DEF Untouched, IInv
  <2>3. /\ gpc \in {"idle", "armed", "enable"} /\ (gpc # "idle" => "Record" \in Asks)
        /\ gpc = "enable" => ~PunchInOn
    BY DEF IInv, Pass
  <2> QED BY <2>1, <2>2, <2>3, UserStep
<1> QED BY <1>1, <1>2, <1>3, <1>4, <1>5, <1>6, <1>7, <1>8, <1>9, <1>10, <1>11, <1>12, <1>13,
           <1>14, <1>15, <1>16, <1>17, <1>18, <1>19, <1>20
        DEF Next, Process, Butler, User

LEMMA Invariant == Spec => []IInv
  BY Initially, StepKeeps, PTL DEF Spec

\* Every handler, whatever the order they run in, keeps the members of Session to their
\* types: the position stays a frame, work is flagged while the counter is up, and
\* next_event stays on the list or behind it.
THEOREM TypeCorrect == Spec => []TypeOK
<1>1. IInv => TypeOK
  <2> SUFFICES ASSUME IInv PROVE TypeOK
    OBVIOUS
  <2>1. s \in Session /\ s.next \in 1 .. Len(s.events) + 1 /\ (s.count > 0 => s.work # {})
    BY DEF IInv, Sound, Typed
  <2>2. walk.left \in 0 .. Block /\ walk.moved \in 0 .. MaxFrames
    BY DEF IInv, Walk, WalkTypes, Frames
  <2> QED BY <2>1, <2>2 DEF TypeOK, Session
<1> QED BY <1>1, Invariant, PTL

\* set_transport_speed (0), stop_transport() and the end of the session: a transport told
\* to stop does, whatever else is asked for, deferred or under way at the time.
THEOREM StopsWhenTold == Spec => []StopHonoured
<1>1. IInv => StopHonoured
  BY DEF IInv, OnWay, Honoured, Stopping, HasStop, StopHonoured, Settled
<1> QED BY <1>1, Invariant, PTL

\* locate(): the transport comes to rest where the last locate that was carried out told
\* it to go, with or without a declick in between.
THEOREM RestsWhereTold == Spec => []LocateArrives
<1>1. IInv => LocateArrives
  BY DEF IInv, OnWay, Arriving, Nearing, LocateArrives, Settled
<1> QED BY <1>1, Invariant, PTL

\* non_realtime_locate() and non_realtime_stop() bring the diskstreams to the transport:
\* at rest, with nothing left to do, they are there.
THEOREM RestsInSync == Spec => []AtRestInSync
<1>1. IInv => AtRestInSync
  <2> SUFFICES ASSUME IInv, Settled, s.speed = 0 PROVE s.disk = s.frame
    BY DEF AtRestInSync
  <2>1. s.count \in Nat /\ (s.count > 0 => s.work # {}) /\ s.work = {}
    BY DEF IInv, Sound, Typed, Session, Settled
  <2>2. Synced
    BY <2>1 DEF Synced
  <2> QED BY <2>2 DEF IInv, InSync
<1> QED BY <1>1, Invariant, PTL

\* process_without_events(): what is heard is what the playhead shows, in a session
\* without timed events and recording.
THEOREM ShowsWhatPlays == Spec => []PlaysWhatItShows
<1>1. IInv => PlaysWhatItShows
  <2> SUFFICES ASSUME IInv, Untimed, "Record" \notin Asks, s.speed # 0, s.work = {},
                      "PendingLocate" \notin s.sub, s.frame < MaxFrames
               PROVE  s.disk = s.frame
    BY DEF PlaysWhatItShows
  <2>1. s.count \in Nat /\ (s.count > 0 => s.work # {}) /\ s.frame \in Frames
    BY DEF IInv, Sound, Typed, Session
  <2>2. Synced
    BY <2>1 DEF Synced
  <2>3. s.frame # MaxFrames
    BY <2>1, FramesAssumption DEF Frames
  <2> QED BY <2>2, <2>3 DEF IInv, InSync, Faded
<1> QED BY <1>1, Invariant, PTL

LEMMA StepPlays ==
  ASSUME IInv, [Next]_vars, PunchInOn, Recording(s)
  PROVE  s'.disk \in Played
<1>1. bpc = "idle"
  <2>1. s.work = {} /\ s.count \in Nat /\ (s.count > 0 => s.work # {})
    BY DEF IInv, Sound, Typed, Session
  <2> QED BY <2>1 DEF IInv, Pass
<1>2. CASE Process
  BY <1>2, BeginCycleKeeps, MergePendingKeeps, PendingMergedKeeps, TakeImmediateKeeps,
     NoRollKeeps, WithoutEventsKeeps, WithEventsKeeps, PlaySegmentKeeps, RunEventKeeps,
     NextSegmentKeeps DEF Process
<1>3. CASE Butler
  <2>1. s' = s
    BY <1>1, <1>3 DEF Butler, EnterPass, NonRealtimeLocate, NonRealtimeStop, Return, Seek,
                      FinishStop, LeavePass
  <2> QED BY <2>1 DEF Played
<1>4. CASE User
  <2>1. s'.disk = s.disk
    <3>1. s \in Session
      BY DEF IInv, Sound, Typed
    <3>2. \/ s' = s
          \/ \E pend : s' = [s EXCEPT !.pend = pend]
          \/ \E rec : s' = [s EXCEPT !.rec = rec]
      BY <1>4 DEF User, Request, Queued, ArmRecord, LookAtTransport, StartRecording,
                  UnarmRecord, EnableRecord
    <3> QED BY <3>1, <3>2 DEF Session
  <2> QED BY <2>1 DEF Played
<1>5. CASE UNCHANGED vars
  BY <1>5 DEF vars, Played
<1> QED BY <1>2, <1>3, <1>4, <1>5 DEF Next

\* While recording, no handler, no pass of the butler and no request moves the diskstreams
\* but by the length of a segment: a take has no gap.
THEOREM TakesGoOn == Spec => TakesContinuous
<1>1. IInv /\ [Next]_vars =>
        [PunchInOn /\ Recording(s) /\ Recording(s') =>
            s'.disk \in {s.disk} \cup {Wrapped(s.disk + n) : n \in 1 .. Block}]_vars
  BY StepPlays DEF Played
<1> QED BY <1>1, Invariant, PTL DEF Spec, TakesContinuous
=============================================================================
