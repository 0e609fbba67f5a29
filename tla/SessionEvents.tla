--------------------------- MODULE SessionEvents ---------------------------
(***************************************************************************)
(* The event queue on its own: any sequence of the merges that the session *)
(* makes, while the transport advances, wraps and is located.              *)
(***************************************************************************)
EXTENDS EventQueue

CONSTANTS
    Types,       \* the types of event the model queues
    Frames,      \* bound: the transport frames considered, a range from 0
    MaxEvents,   \* bound: timed events queued at any one time
    MaxImm       \* bound: deferred events

ASSUME FramesAssumption == Frames \subseteq Nat /\ 0 \in Frames
ASSUME MaxEventsAssumption == MaxEvents \in Nat \ {0} /\ MaxImm \in Nat

\* How the session queues timed events: the actions it uses for each type.
Uses == {<<"PunchIn", "Replace">>, <<"PunchIn", "Remove">>,
         <<"PunchOut", "Replace">>, <<"PunchOut", "Clear">>,
         <<"AutoLoop", "Replace">>, <<"AutoLoop", "Remove">>, <<"AutoLoop", "Clear">>,
         <<"StopOnce", "Replace">>, <<"StopOnce", "Clear">>, <<"StopOnce", "Add">>,
         <<"LocateRoll", "Add">>, <<"LocateRoll", "Clear">>,
         <<"RangeLocate", "Add">>, <<"RangeLocate", "Clear">>}

Events == [type : Types, at : Frames \ {Immediate}, target : {0}]

VARIABLES
    q,       \* the queue: events, next, imm, and the transport frame
    stale    \* the frame was set behind the back of set_next_event()

vars == <<q, stale>>

Init == q = [events |-> <<>>, next |-> 1, imm |-> <<>>, frame |-> 0] /\ stale = FALSE

\* merge_event() of an event that was pending.
Merge(action, ev) ==
    /\ <<ev.type, action>> \in Uses
    /\ action \in {"Add", "Replace"} => Len(q.events) < MaxEvents
    /\ q' = MergeTimed(q, action, ev)
    /\ stale' = (stale /\ q' = q)

\* process_event() while a state change is under way: the event, in the list or not,
\* goes to the immediate events, and what it names leaves the list.
Defer(i) ==
    /\ i \in DOMAIN q.events /\ Len(q.imm) < MaxImm
    /\ q' = RemoveEvent([q EXCEPT !.imm = Append(@, q.events[i])], q.events[i])
    /\ stale' = FALSE

\* The deferred events are taken up once the state change is over.
TakeUp ==
    /\ q.imm # <<>>
    /\ q' = [q EXCEPT !.imm = Tail(@)]
    /\ UNCHANGED stale

\* process_with_events(): the transport moves on, and the cycle ends in set_next_event().
Advance(f) ==
    /\ f > q.frame
    /\ q' = SetNextEvent([q EXCEPT !.frame = f])
    /\ stale' = FALSE

\* A locate, or the butler returning the transport: only the frame is assigned ...
Relocate(f) ==
    /\ q' = [q EXCEPT !.frame = f]
    /\ stale' = TRUE

\* ... and post_transport() sets the next event right.
PostTransport ==
    /\ stale
    /\ q' = SetNextEvent(q)
    /\ stale' = FALSE

Actions == {"Add", "Remove", "Replace", "Clear"}

Next == \/ \E action \in Actions, ev \in Events : Merge(action, ev)
        \/ \E i \in 1 .. MaxEvents : Defer(i)
        \/ TakeUp
        \/ \E f \in Frames : Advance(f) \/ Relocate(f)
        \/ PostTransport

Spec == Init /\ [][Next]_vars

-----------------------------------------------------------------------------
\* The queue keeps its shape.
TypeOK ==
    /\ \A i \in DOMAIN q.events : q.events[i].at \in Frames
    /\ Len(q.events) <= MaxEvents /\ Len(q.imm) <= MaxImm
    /\ q.next \in 1 .. Len(q.events) + 1
    /\ q.frame \in Frames
    /\ stale \in BOOLEAN

\* process_with_events() walks the list forwards from next_event and stops looking at
\* an event that is later than the cycle: the list has to be in order of time.
Ordered == \A i \in 1 .. Len(q.events) - 1 : q.events[i].at <= q.events[i + 1].at

\* next_event is the first event that the transport has not passed: none that is due is
\* left behind it and none that is past is run again.
NextIsFirstDue ==
    ~stale => \A i \in DOMAIN q.events : i < q.next <=> q.events[i].at < q.frame

\* "only one of each of these events can be queued at any one time" (session.h:158), and
\* no event is queued twice for a frame.
OneOfEach ==
    \A i, j \in DOMAIN q.events :
        q.events[i].type = q.events[j].type /\ i # j =>
            q.events[i].type \notin Singletons /\ q.events[i].at # q.events[j].at

\* Merging an event adds, moves or removes events of its own type only; the others,
\* which other parts of the session have queued, stay as they are and in order.
OtherTypesAlone ==
    [][\A action \in Actions, ev \in Events :
          LET rest(events) == Chosen(events, Others(events, ev.type))
          IN Merge(action, ev) => rest(q'.events) = rest(q.events)]_vars
=============================================================================
