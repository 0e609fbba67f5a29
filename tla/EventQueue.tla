----------------------------- MODULE EventQueue -----------------------------
(***************************************************************************)
(* The transport event queue of a Session (libs/ardour/session_events.cc): *)
(* the list of timed events kept in order of their action frame, the       *)
(* position in it of the next event to come, and the events whose turn has *)
(* come while a state change was under way.                                *)
(*                                                                         *)
(* A queue is the part  events, next, imm, frame  of the session record;   *)
(* the operators take the whole record and return it changed.  next is an  *)
(* index into events, Len(events) + 1 for events.end().                    *)
(***************************************************************************)
EXTENDS Naturals, Sequences, FiniteSets

\* Event::Immediate
Immediate == 0

\* "only one of each of these events can be queued at any one time"
Singletons == {"StopOnce", "AutoLoop"}

AtEnd(q) == q.next > Len(q.events)

\* Mutant: the search never goes back to the start of the list.
SetNextEventForwards(q) ==
    LET due == {i \in q.next .. Len(q.events) : q.events[i].at >= q.frame}
    IN [q EXCEPT !.next = IF due = {} THEN Len(q.events) + 1
                          ELSE CHOOSE i \in due : \A j \in due : i <= j]

\* set_next_event(): from next on, or from the start when next is past the transport.
SetNextEvent(q) ==
    LET from == IF AtEnd(q) \/ q.events[q.next].at > q.frame THEN 1 ELSE q.next
        due  == {i \in from .. Len(q.events) : q.events[i].at >= q.frame}
    IN [q EXCEPT !.next = IF due = {} THEN Len(q.events) + 1
                          ELSE CHOOSE i \in due : \A j \in due : i <= j]

\* ev between the events at the indices in before, the first of the list, and the others.
Spliced(events, before, ev) ==
    LET k == Cardinality(before)
    IN SubSeq(events, 1, k) \o <<ev>> \o SubSeq(events, k + 1, Len(events))

\* Mutant: the list is not sorted after the insertion.
InsertedUnsorted(events, ev) == <<ev>> \o events

\* events.insert (events.begin(), ev); events.sort (): in front of its equals.
Inserted(events, ev) == Spliced(events, {i \in DOMAIN events : events[i].at < ev.at}, ev)

\* The list without its i-th event.
Without(events, i) ==
    [j \in 1 .. Len(events) - 1 |-> events[IF j < i THEN j ELSE j + 1]]

\* Sorting again after the event at i became ev: the sort is stable, so ev stays
\* behind the equals that were before it and ahead of those that were after it.
Moved(events, i, ev) ==
    LET rest == Without(events, i)
        before == {j \in DOMAIN rest : IF j < i THEN rest[j].at <= ev.at ELSE rest[j].at < ev.at}
    IN Spliced(rest, before, ev)

\* Mutant: an event is looked up by its frame alone.
NamedByFrame(q, ev) == {i \in DOMAIN q.events : q.events[i].at = ev.at}

\* The first event that ev names: the one of its type at its frame.
Named(q, ev) == {i \in DOMAIN q.events : q.events[i].type = ev.type /\ q.events[i].at = ev.at}

\* _remove_event()
RemoveEvent(q, ev) ==
    IF Named(q, ev) = {} THEN q
    ELSE LET i == CHOOSE i \in Named(q, ev) : \A j \in Named(q, ev) : i <= j
         IN SetNextEvent([q EXCEPT !.events = Without(@, i),
                                   !.next = IF i < @ THEN @ - 1 ELSE @])

\* _replace_event(): "used only for events that can only exist once in the queue".
ReplaceEvent(q, ev) ==
    LET same == {i \in DOMAIN q.events : q.events[i].type = ev.type}
        i == CHOOSE i \in same : \A j \in same : i <= j
        events == IF same = {} THEN Inserted(q.events, ev)
                  ELSE Moved(q.events, i,
                             [q.events[i] EXCEPT !.at = ev.at, !.target = ev.target])
    IN SetNextEvent([q EXCEPT !.events = events, !.next = Len(events) + 1])

\* The events at the indices in chosen, in their order: SelectSeq with a set, which unlike
\* an operator can be reasoned about.
Chosen(events, chosen) ==
    LET upto[n \in 0 .. Len(events)] ==
            IF n = 0 THEN <<>>
            ELSE IF n \in chosen THEN Append(upto[n - 1], events[n]) ELSE upto[n - 1]
    IN upto[Len(events)]

Others(events, type) == {i \in DOMAIN events : events[i].type # type}

\* Mutant: next_event is not moved off the events that go.
ClearEventTypeOnly(q, type) ==
    [q EXCEPT !.events = Chosen(@, Others(@, type)), !.imm = Chosen(@, Others(@, type))]

\* _clear_event_type()
ClearEventType(q, type) ==
    LET skipped == {i \in Others(q.events, type) : i < q.next}
    IN SetNextEvent([q EXCEPT !.events = Chosen(@, Others(@, type)),
                              !.next = Cardinality(skipped) + 1,
                              !.imm = Chosen(@, Others(@, type))])

\* Mutant: a second event of a type at a frame is not refused.
AddTimedTwice(q, ev) ==
    LET p == IF ev.type \in Singletons THEN ClearEventType(q, ev.type) ELSE q
    IN SetNextEvent([p EXCEPT !.events = Inserted(@, ev), !.next = 1])

\* merge_event() of a timed event to add; a second one of its type at its frame is
\* refused, unless the type is one that replaces itself.
AddTimed(q, ev) ==
    LET p == IF ev.type \in Singletons THEN ClearEventType(q, ev.type) ELSE q
    IN IF Named(p, ev) # {} THEN p
       ELSE SetNextEvent([p EXCEPT !.events = Inserted(@, ev), !.next = 1])

\* merge_event(), for events that are not immediate.
MergeTimed(q, action, ev) ==
    CASE action = "Remove"  -> RemoveEvent(q, ev)
      [] action = "Replace" -> ReplaceEvent(q, ev)
      [] action = "Clear"   -> ClearEventType(q, ev.type)
      [] action = "Add"     -> AddTimed(q, ev)

=============================================================================
