----------------------------- MODULE Transport -----------------------------
(***************************************************************************)
(* The transport state machine of a Session: commands queued as events,    *)
(* the process thread that runs them and plays the cycle in segments       *)
(* between timed events, the declick that delays a stop or a locate by one *)
(* segment, and the butler that brings the diskstreams to the new position *)
(* (libs/ardour/session_transport.cc, session_process.cc,                  *)
(* session_events.cc).                                                     *)
(*                                                                         *)
(* The members of Session that its handlers change together are the fields *)
(* of the record s, and a handler is an operator from record to record.    *)
(* The options the model fixes: no slave (so no JACK transport), speeds 0  *)
(* and 1, no auto play, no seamless loop.  How the butler comes to see the *)
(* counter is the subject of Butler.                                       *)
(***************************************************************************)
EXTENDS EventQueue, Integers

CONSTANTS
    MaxFrames,     \* max_frames, the largest nframes_t
    Block,         \* the frames of a process cycle
    SessionEnd,    \* current_end_frame()
    StopAtEnd, Latched,      \* Config
    Confs,         \* the other settings considered, see ConfAssumption
    Targets        \* the frames the user locates to

AllAsks == {"Play", "Stop", "Locate", "LocateRoll", "LoopOn", "LoopOff", "Record",
            "NoRecord", "BoundedRoll", "RollAndReturn"}

Frames == 0 .. MaxFrames
Wrapped(f) == f % (MaxFrames + 1)     \* unsigned arithmetic on nframes_t

\* A location of the session, or the absence of one.
NoRange == [there |-> FALSE, start |-> 0, end |-> 0]
Ranges == {NoRange} \cup
          {r \in [there : {TRUE}, start : Frames, end : Frames] : r.start < r.end}

ASSUME FramesAssumption ==
    /\ MaxFrames \in Nat /\ Block \in 1 .. MaxFrames
    /\ SessionEnd \in Frames
    /\ Targets \subseteq Frames
ASSUME OptionsAssumption == {StopAtEnd, Latched} \subseteq BOOLEAN
ASSUME ConfAssumption ==
    \A c \in Confs :
        /\ c.latency \in Frames                                 \* _worst_output_latency
        /\ {c.auto_return, c.punch_in, c.punch_out} \subseteq BOOLEAN     \* Config
        /\ {c.auto_loop, c.auto_punch} \subseteq Ranges         \* locations
        /\ c.asks \subseteq AllAsks       \* the requests the user makes,
        /\ c.requests \in Nat             \* and (bound) how many

VARIABLES
    conf,     \* the settings, which do not change
    s,        \* the members of Session
    pc,       \* where the process thread is in its cycle
    walk,     \* the local variables of process_with_events()
    bpc,      \* where the butler is in its pass
    on_entry, \* the counter it read at the start of the pass
    gpc,      \* where the user's thread is in maybe_enable_record()
    asked     \* history: the number of requests made

vars == <<conf, s, pc, walk, bpc, on_entry, gpc, asked>>

Latency    == conf.latency
AutoReturn == conf.auto_return
PunchInOn  == conf.punch_in
PunchOutOn == conf.punch_out
HasLoop    == conf.auto_loop.there
LoopStart  == conf.auto_loop.start
LoopEnd    == conf.auto_loop.end
Asks       == conf.asks
CanAsk     == asked < conf.requests

\* An event.  Commands are queued with the action to merge them by.
Event(type, at, target) == [type |-> type, at |-> at, target |-> target, from |-> 0]
Command(type, target) == [action |-> "Add", ev |-> Event(type, Immediate, target)]
None == Event("None", 0, 0)

\* What the session has queued for its auto loop and auto punch locations.
Timeline ==
    LET with(events, there, ev) == IF there THEN Inserted(events, ev) ELSE events
    IN with(with(with(<<>>, HasLoop, Event("AutoLoop", LoopEnd, LoopStart)),
                 conf.auto_punch.there, Event("PunchIn", conf.auto_punch.start, 0)),
            conf.auto_punch.there, Event("PunchOut", conf.auto_punch.end, 0))

Goal(kind, at) == [kind |-> kind, at |-> at]

Init ==
    /\ conf \in Confs
    /\ s = [frame |-> 0, speed |-> 0,
            work |-> {}, count |-> 0,            \* post_transport_work and its counter
            sub |-> {},                          \* transport_sub_state
            plFrame |-> 0, plRoll |-> FALSE,     \* pending_locate_frame, _roll
            rec |-> "Disabled",                  \* _record_status
            loop |-> FALSE,                      \* play_loop
            lsf |-> 0, rrf |-> -1,               \* last_stop_frame, _requested_return_frame
            events |-> Timeline, next |-> 1, imm |-> <<>>,
            pend |-> <<>>,                       \* pending_events
            disk |-> 0,                          \* the diskstreams' playback_sample
            goal |-> Goal("stop", 0)]                     \* history: what the last command asks for
    /\ pc = "idle"
    /\ walk = [left |-> 0, moved |-> 0, end |-> 0, limit |-> 0, this |-> None, next |-> None]
    /\ bpc = "idle" /\ on_entry = 0
    /\ gpc = "idle"
    /\ asked = 0

-----------------------------------------------------------------------------
(* Position and record status.                                             *)

Recording(t) == t.rec = "Recording"

Incremented(t, n) == [t EXCEPT !.frame = IF MaxFrames - n < @ THEN MaxFrames ELSE @ + n]
Decremented(t, n) == [t EXCEPT !.frame = IF n < @ THEN @ - n ELSE 0]

\* enable_record(), disable_record() and step_back_from_record()
EnableRecord(t)  == [t EXCEPT !.rec = "Recording"]
DisableRecord(t) ==
    [t EXCEPT !.rec = IF ~Latched /\ ~t.loop THEN "Disabled"
                      ELSE IF @ = "Recording" THEN "Enabled" ELSE @]
StepBackFromRecord(t) == [t EXCEPT !.rec = IF @ = "Recording" THEN "Enabled" ELSE @]

-----------------------------------------------------------------------------
(* Starting and stopping.                                                  *)

Schedule(t) == [t EXCEPT !.count = @ + 1]

\* A stop while recording goes back by the latency, to where it was asked for.
RealtimeStop(t) ==
    LET back    == IF Recording(t) THEN [Decremented(t, Latency) EXCEPT !.work = @ \cup {"Duration"}]
                   ELSE t
        cleared == ClearEventType(ClearEventType(ClearEventType(back, "StopOnce"),
                                                 "RangeStop"), "RangeLocate")
    IN [DisableRecord(cleared) EXCEPT !.work = @ \cup {"Stop"},
                                      !.speed = 0,
                                      !.sub = IF AutoReturn THEN {"AutoReturning"} ELSE {}]

\* stop_transport(): first roll on to capture what is still under way, then declick.
StopTransport(t) ==
    LET late == Wrapped(t.frame + Latency - Block) IN
    CASE t.speed = 0 -> t
      [] t.speed # 0 /\ Recording(t) /\ "StopPendingCapture" \notin t.sub /\ Latency > Block ->
            [ReplaceEvent(t, Event("StopOnce", late, 0)) EXCEPT
                !.sub = @ \cup {"StopPendingCapture"}]
      [] OTHER ->
            IF "DeclickOut" \notin t.sub THEN [t EXCEPT !.sub = @ \cup {"DeclickOut"}]
            ELSE Schedule(RealtimeStop(t))

StartTransport(t) ==
    LET r == CASE t.rec = "Enabled" /\ ~PunchInOn  -> EnableRecord(t)
               [] t.rec = "Recording" /\ ~t.loop   -> DisableRecord(t)
               [] OTHER                            -> t
    IN [r EXCEPT !.sub = @ \cup {"DeclickIn"}, !.speed = 1]

AtSessionEnd(t) == t.rec = "Disabled" /\ StopAtEnd /\ t.frame >= SessionEnd

SetTransportSpeed(t, speed) ==
    CASE t.speed = speed              -> t
      [] t.speed # speed /\ speed = 0 -> StopTransport(t)
      [] OTHER                        -> IF AtSessionEnd(t) THEN t ELSE StartTransport(t)

-----------------------------------------------------------------------------
(* Locating and looping.                                                   *)

\* set_play_loop (false): the loop event is cleared by a command of its own.
LoopOff(t) ==
    IF ~HasLoop THEN t
    ELSE [t EXCEPT !.loop = FALSE,
                   !.pend = Append(@, [action |-> "Clear", ev |-> Event("AutoLoop", 0, 0)])]

\* locate(), second half: the position has changed and there is no declick to wait for.
Located(t, roll) ==
    LET stopped == IF t.speed # 0 /\ ~roll THEN RealtimeStop(t) ELSE t
        flags   == {"Locate"} \cup (IF roll THEN {"Roll"} ELSE {})
        asks    == Schedule([stopped EXCEPT !.work = @ \cup flags])
        outside == asks.frame < LoopStart \/ asks.frame > LoopEnd
    IN IF asks.loop /\ HasLoop /\ outside THEN LoopOff(asks) ELSE asks

\* Mutant: the position is left at the one assigned before the declick.
LocateAssignedOnce(t, target, roll) ==
    LET there == [t EXCEPT !.frame = target] IN
    CASE Recording(t) -> t
      [] ~Recording(t) /\ t.frame = target -> IF roll THEN SetTransportSpeed(t, 1) ELSE t
      [] OTHER ->
            IF t.speed # 0 /\ "DeclickOut" \notin t.sub
            THEN [there EXCEPT !.sub = @ \cup {"DeclickOut", "PendingLocate"},
                               !.plFrame = target, !.plRoll = roll]
            ELSE Located(IF t.speed = 0 THEN there ELSE t, roll)

\* Mutant: a locate is not refused while recording.
LocateWhileRecording(t, target, roll) ==
    LET there == [t EXCEPT !.frame = target] IN
    CASE t.frame = target -> IF roll THEN SetTransportSpeed(t, 1) ELSE t
      [] OTHER ->
            IF t.speed # 0 /\ "DeclickOut" \notin t.sub
            THEN [there EXCEPT !.sub = @ \cup {"DeclickOut", "PendingLocate"},
                               !.plFrame = target, !.plRoll = roll]
            ELSE Located(there, roll)

\* locate(): the position is assigned before the declick, and again after it.
Locate(t, target, roll) ==
    LET there == [t EXCEPT !.frame = target] IN
    CASE Recording(t) -> t
      [] ~Recording(t) /\ t.frame = target -> IF roll THEN SetTransportSpeed(t, 1) ELSE t
      [] OTHER ->
            IF t.speed # 0 /\ "DeclickOut" \notin t.sub
            THEN [there EXCEPT !.sub = @ \cup {"DeclickOut", "PendingLocate"},
                               !.plFrame = target, !.plRoll = roll]
            ELSE Located(there, roll)

-----------------------------------------------------------------------------
(* Events.                                                                 *)

\* Mutant: an event that comes during a state change is dropped.
Dropped(t, ev) == RemoveEvent(t, ev)

\* process_event() while a state change is under way.  If ev was in the list, the event
\* deferred is the one _remove_event() frees; the pool hands it out again only after all
\* of its other items, so it still reads as it was.
Deferred(t, ev) == RemoveEvent([t EXCEPT !.imm = Append(@, ev)], ev)

\* The event set_play_loop (true) merges to reload the diskstreams.
LocateRollNow(t, target) ==
    LET ev == Event("LocateRoll", Immediate, target) IN
    IF t.work # {} THEN Deferred(t, ev) ELSE RemoveEvent(Locate(t, target, TRUE), ev)

LoopOn(t) ==
    LET on     == ReplaceEvent([t EXCEPT !.loop = TRUE], Event("AutoLoop", LoopEnd, LoopStart))
        inside == LoopStart <= t.frame /\ t.frame <= LoopEnd
    IN IF Recording(t) \/ ~HasLoop THEN t
       ELSE LocateRollNow(on, IF inside THEN Wrapped(t.frame + 1) ELSE LoopStart)

\* What process_event() does for each type of event.
Handled(t, ev) ==
    CASE ev.type = "Play"       -> SetTransportSpeed(t, 1)
      [] ev.type = "Stop"       -> SetTransportSpeed(t, 0)
      [] ev.type = "Locate"     -> Locate(t, ev.target, FALSE)
      [] ev.type = "LocateRoll" -> Locate(t, ev.target, TRUE)
      [] ev.type = "LoopOn"     -> LoopOn(t)
      [] ev.type = "LoopOff"    -> LoopOff(t)
      [] ev.type = "AutoLoop"   -> IF t.loop THEN Locate(t, ev.target, TRUE) ELSE t
      [] ev.type = "PunchIn"    -> IF PunchInOn /\ t.rec = "Enabled" THEN EnableRecord(t) ELSE t
      [] ev.type = "PunchOut"   -> IF PunchOutOn THEN StepBackFromRecord(t) ELSE t
      [] ev.type = "StopOnce"   -> ClearEventType(StopTransport(t), "StopOnce")
      [] ev.type = "RollAndReturn" ->
            [t EXCEPT !.rrf = ev.target, !.pend = Append(@, Command("LocateRoll", ev.from))]

\* The types that stay queued once they have run.
Kept == {"AutoLoop", "PunchIn", "PunchOut", "StopOnce"}

\* History: what the command leaves asked for, unless it is one that does nothing.
GoalAfter(t, ev) ==
    LET idle == CASE ev.type = "Play"       -> AtSessionEnd(t)
                  [] ev.type = "Locate"     -> Recording(t) \/ t.frame = ev.target
                  [] ev.type = "LocateRoll" ->
                        Recording(t) \/ (t.frame = ev.target /\ AtSessionEnd(t))
                  [] ev.type = "LoopOn"     -> Recording(t) \/ ~HasLoop
                  [] OTHER                  -> FALSE
    IN CASE idle -> t.goal
         [] ~idle /\ ev.type = "Locate" -> Goal("stay", ev.target)
         [] ~idle /\ ev.type \in {"Stop", "StopOnce"} -> Goal("stop", 0)
         [] ~idle /\ ev.type \in {"Play", "LocateRoll", "LoopOn"} -> Goal("roll", 0)
         [] OTHER -> t.goal

\* process_event(): only a locate goes ahead of a state change that is under way.
ProcessEvent(t, ev) ==
    IF t.work # {} /\ ev.type # "Locate"
    THEN [Deferred(t, ev) EXCEPT !.goal = IF ev.type = "Stop" THEN Goal("stop", 0) ELSE @]
    ELSE LET r == [Handled(t, ev) EXCEPT !.goal = GoalAfter(t, ev)]
         IN IF ev.type \in Kept THEN r ELSE RemoveEvent(r, ev)

MergeEvent(t, c) ==
    CASE c.action # "Add"                         -> MergeTimed(t, c.action, c.ev)
      [] c.action = "Add" /\ c.ev.at = Immediate  -> ProcessEvent(t, c.ev)
      [] OTHER                                    -> AddTimed(t, c.ev)

-----------------------------------------------------------------------------
(* The process thread.                                                     *)

CannotProceed == {"Stop", "Locate"}     \* ProcessCannotProceedMask, of the work modelled

PostTransport(t) ==
    LET stopped == IF "Stop" \in t.work THEN [t EXCEPT !.sub = {}] ELSE t
        located == CASE "Locate" \notin t.work -> stopped
                     [] {"Locate", "Roll"} \subseteq t.work -> StartTransport(stopped)
                     [] OTHER -> [stopped EXCEPT !.sub = {}]
    IN [SetNextEvent(located) EXCEPT !.work = {}]

\* get_transport_declick_required(), called by no_roll() and by process_routes().
Declicked(t) == [t EXCEPT !.sub = @ \ {"DeclickIn"}]

StopLimit(t) == IF ~Recording(t) /\ StopAtEnd THEN SessionEnd ELSE MaxFrames
Over(t, limit) == t.speed > 0 /\ t.frame >= limit
MaybeStop(t, limit) ==
    IF Over(t, limit) THEN [StopTransport(t) EXCEPT !.goal = Goal("stop", 0)] ELSE t

\* check_declick_out(): the segment with the fade has been played.
CheckDeclickOut(t) ==
    LET done == IF "PendingLocate" \in t.sub THEN Locate(t, t.plFrame, t.plRoll)
                ELSE StopTransport(t)
    IN IF "DeclickOut" \in t.sub THEN [done EXCEPT !.sub = @ \ {"DeclickOut", "PendingLocate"}]
       ELSE t

\* Routes and diskstreams run n frames, and the transport moves on.
Rolled(t, n, moved, limit) ==
    CheckDeclickOut(MaybeStop(Incremented([Declicked(t) EXCEPT !.disk = Wrapped(@ + n)], moved),
                              limit))

othersOfProcess == <<conf, bpc, on_entry, gpc, asked>>

\* Mutant: post_transport() does not wait for the butler.
BeginCycleEarly ==
    /\ pc = "idle"
    /\ pc' = "merge"
    /\ s' = IF s.work # {} THEN PostTransport(s) ELSE s
    /\ UNCHANGED <<walk, othersOfProcess>>

\* The start of Session::process().
BeginCycle ==
    /\ pc = "idle"
    /\ pc' = "merge"
    /\ s' = IF s.work # {} /\ s.count = 0 THEN PostTransport(s) ELSE s
    /\ UNCHANGED <<walk, othersOfProcess>>

\* One of the pending events.
MergePending ==
    /\ pc = "merge" /\ s.pend # <<>>
    /\ s' = MergeEvent([s EXCEPT !.pend = Tail(@)], Head(s.pend))
    /\ UNCHANGED <<pc, walk, othersOfProcess>>

PendingMerged ==
    /\ pc = "merge" /\ s.pend = <<>>
    /\ pc' = "immediate"
    /\ UNCHANGED <<s, walk, othersOfProcess>>

\* One of the events whose time has come while the state was changing.
TakeImmediate ==
    /\ pc = "immediate" /\ s.work = {} /\ s.imm # <<>>
    /\ s' = ProcessEvent([s EXCEPT !.imm = Tail(@)], Head(s.imm))
    /\ UNCHANGED <<pc, walk, othersOfProcess>>

ReadyToPlay == pc = "immediate" /\ (s.work # {} \/ s.imm = <<>>)

\* A cycle in which nothing moves.
NoRoll ==
    /\ ReadyToPlay
    /\ pc' = "idle"
    /\ \/ s.work \cap CannotProceed # {} /\ UNCHANGED s
       \/ s.work \cap CannotProceed = {} /\ s.speed = 0 /\ s' = Declicked(s)
       \/ /\ s.work \cap CannotProceed = {} /\ Over(s, StopLimit(s))
          /\ s' = Declicked(MaybeStop(s, StopLimit(s)))
    /\ UNCHANGED <<walk, othersOfProcess>>

Rolls == /\ ReadyToPlay
         /\ s.work \cap CannotProceed = {} /\ s.speed # 0 /\ ~Over(s, StopLimit(s))

\* process_without_events()
WithoutEvents ==
    /\ Rolls /\ AtEnd(s)
    /\ pc' = "idle"
    /\ s' = Rolled(s, Block, Block, StopLimit(s))
    /\ UNCHANGED <<walk, othersOfProcess>>

\* process_with_events(): the cycle is played in segments that end at the events.
EventAfter(t, type) ==
    LET i == CHOOSE i \in DOMAIN t.events : t.events[i].type = type
    IN IF i = Len(t.events) THEN None ELSE t.events[i + 1]

WithEvents ==
    /\ Rolls /\ ~AtEnd(s)
    /\ pc' = "segment"
    /\ LET this == s.events[s.next] IN
       walk' = [left |-> Block, moved |-> Block, end |-> Wrapped(s.frame + Block),
                limit |-> StopLimit(s), this |-> this, next |-> EventAfter(s, this.type)]
    /\ UNCHANGED <<s, othersOfProcess>>

\* An event is of the list if the list still has one of its type.
InList(t, ev) == \E i \in DOMAIN t.events : t.events[i].type = ev.type
Current(t, ev) ==
    IF InList(t, ev) THEN CHOOSE e \in {t.events[i] : i \in DOMAIN t.events} : e.type = ev.type
    ELSE ev

\* One turn of the loop: play up to the event, or to the end of the cycle.
PlaySegment ==
    /\ pc = "segment"
    /\ LET at    == Current(s, walk.this).at
           hit   == walk.this # None /\ at <= walk.end /\ at >= s.frame
           moved == IF hit THEN at - s.frame ELSE walk.moved
           n     == IF hit THEN moved ELSE walk.left
       IN /\ s' = IF n = 0 THEN s ELSE Rolled(s, n, moved, walk.limit)
          /\ walk' = [walk EXCEPT !.left = @ - n, !.moved = moved]
    /\ pc' = "events"
    /\ UNCHANGED othersOfProcess

IsDue == walk.this # None /\ Current(s, walk.this).at = s.frame

\* The event at this frame.  The iterator to the next one may have lost its event, which
\* then reads as it was or as something else.
RunEvent ==
    /\ pc = "events" /\ IsDue
    /\ s' = ProcessEvent(s, Current(s, walk.this))
    /\ \E this \in IF walk.next = None \/ InList(s', walk.next)
                   THEN {Current(s', walk.next)} ELSE {walk.next, None} :
          walk' = [walk EXCEPT !.this = this,
                               !.next = IF InList(s', this) THEN EventAfter(s', this.type)
                                        ELSE None]
    /\ UNCHANGED <<pc, othersOfProcess>>

\* An event left the state changing, or the cycle is over, or there is more to play.
NextSegment ==
    /\ pc = "events" /\ ~IsDue
    /\ \/ /\ s.work # {} \/ walk.left = 0
          /\ s' = SetNextEvent(IF s.work # {} THEN Declicked(s) ELSE s)
          /\ pc' = "idle"
          /\ UNCHANGED walk
       \/ /\ s.work = {} /\ walk.left > 0
          /\ walk' = [walk EXCEPT !.end = Wrapped(s.frame + walk.left)]
          /\ pc' = "segment"
          /\ UNCHANGED s
    /\ UNCHANGED othersOfProcess

Process == \/ BeginCycle \/ MergePending \/ PendingMerged \/ TakeImmediate
           \/ NoRoll \/ WithoutEvents \/ WithEvents
           \/ PlaySegment \/ RunEvent \/ NextSegment

-----------------------------------------------------------------------------
(* The butler: butler_transport_work(), for the work that moves the        *)
(* diskstreams.                                                            *)

othersOfButler == <<conf, pc, walk, gpc, asked>>

\* restart: a pass begins.
EnterPass ==
    /\ bpc = "idle" /\ s.count > 0
    /\ bpc' = "locate" /\ on_entry' = s.count
    /\ UNCHANGED <<s, othersOfButler>>

\* Mutant: the diskstreams are located only once the transport has stopped.
NonRealtimeLocateAtRest ==
    /\ bpc = "locate"
    /\ bpc' = "stop"
    /\ s' = IF "Locate" \in s.work /\ s.speed = 0 THEN [s EXCEPT !.disk = s.frame] ELSE s
    /\ UNCHANGED <<on_entry, othersOfButler>>

\* non_realtime_locate()
NonRealtimeLocate ==
    /\ bpc = "locate"
    /\ bpc' = "stop"
    /\ s' = IF "Locate" \in s.work THEN [s EXCEPT !.disk = s.frame] ELSE s
    /\ UNCHANGED <<on_entry, othersOfButler>>

\* non_realtime_stop(), up to its decision to take the transport elsewhere itself.
NonRealtimeStop ==
    /\ bpc = "stop"
    /\ bpc' = CASE "Stop" \notin s.work -> "done"
                [] "Stop" \in s.work /\ (AutoReturn \/ s.rrf >= 0) /\ "Locate" \notin s.work -> "return"
                [] OTHER -> "seek"
    /\ UNCHANGED <<s, on_entry, othersOfButler>>

\* Mutant: the transport is taken elsewhere after the diskstreams have been located.
ReturnUnsought ==
    /\ bpc = "return"
    /\ bpc' = "finish"
    /\ s' = [s EXCEPT !.disk = s.frame, !.frame = IF s.rrf >= 0 THEN s.rrf ELSE s.lsf, !.rrf = -1]
    /\ UNCHANGED <<on_entry, othersOfButler>>

\* It does: to the requested return frame, or to the frame of the last stop.
Return ==
    /\ bpc = "return"
    /\ bpc' = "seek"
    /\ s' = [s EXCEPT !.frame = IF s.rrf >= 0 THEN s.rrf ELSE s.lsf, !.rrf = -1]
    /\ UNCHANGED <<on_entry, othersOfButler>>

\* The diskstreams are located; if the counter moved this pass is given up.
Seek ==
    /\ bpc = "seek"
    /\ \/ /\ s.count = on_entry
          /\ s' = [s EXCEPT !.disk = s.frame]
          /\ bpc' = "finish"
       \/ /\ s.count # on_entry
          /\ s' = [s EXCEPT !.disk = s.frame, !.count = @ - 1]
          /\ bpc' = "idle"
    /\ UNCHANGED <<on_entry, othersOfButler>>

\* The end of non_realtime_stop(): "and start it up again if relevant".
FinishStop ==
    /\ bpc = "finish"
    /\ bpc' = "done"
    /\ LET stopped == [s EXCEPT !.lsf = IF s.rrf < 0 THEN s.frame ELSE s.rrf, !.rrf = -1] IN
       s' = IF "Locate" \in s.work /\ s.plRoll
            THEN [stopped EXCEPT !.pend = Append(@, Command("Play", 0)), !.plRoll = FALSE]
            ELSE stopped
    /\ UNCHANGED <<on_entry, othersOfButler>>

\* Mutant: the pass is not taken off the counter.
LeavePassUncounted ==
    /\ bpc = "done"
    /\ bpc' = "idle"
    /\ UNCHANGED <<s, on_entry, othersOfButler>>

\* The pass is taken off the counter.
LeavePass ==
    /\ bpc = "done"
    /\ bpc' = "idle"
    /\ s' = [s EXCEPT !.count = @ - 1]
    /\ UNCHANGED <<on_entry, othersOfButler>>

Butler == \/ EnterPass \/ NonRealtimeLocate \/ NonRealtimeStop \/ Return \/ Seek
          \/ FinishStop \/ LeavePass

-----------------------------------------------------------------------------
(* The user.                                                               *)

othersOfUser == <<conf, pc, walk, bpc, on_entry>>

Queued(cs) == s' = [s EXCEPT !.pend = @ \o cs]

\* request_transport_speed(), request_stop(), request_locate(), request_play_loop() and
\* the requests made of several of these.
Request ==
    /\ CanAsk /\ asked' = asked + 1
    /\ \E f \in Targets :
       \/ \E type \in Asks \cap {"Play", "Stop", "LoopOn", "LoopOff"} :
             Queued(<<Command(type, 0)>>)
       \/ \E type \in Asks \cap {"Locate", "LocateRoll"} : Queued(<<Command(type, f)>>)
       \/ /\ "BoundedRoll" \in Asks
          /\ \E e \in Targets : e > f /\
                Queued(<<Command("Stop", 0),
                         [action |-> "Replace", ev |-> Event("StopOnce", e, 0)],
                         Command("LocateRoll", f)>>)
       \/ /\ "RollAndReturn" \in Asks
          /\ \E r \in Targets :
                Queued(<<[action |-> "Add",
                          ev |-> [Event("RollAndReturn", Immediate, r) EXCEPT !.from = f]]>>)
    /\ UNCHANGED <<gpc, othersOfUser>>

\* maybe_enable_record(): the status is set ...
ArmRecord ==
    /\ "Record" \in Asks /\ CanAsk /\ gpc = "idle" /\ s.rec = "Disabled"
    /\ asked' = asked + 1
    /\ s' = [s EXCEPT !.rec = "Enabled"]
    /\ gpc' = "armed"
    /\ UNCHANGED othersOfUser

\* ... the session state is saved, and then the transport is looked at ...
LookAtTransport ==
    /\ gpc = "armed"
    /\ gpc' = IF s.speed # 0 /\ ~PunchInOn THEN "enable" ELSE "idle"
    /\ UNCHANGED <<s, asked, othersOfUser>>

\* ... and recording starts, if it was found rolling.
StartRecording ==
    /\ gpc = "enable"
    /\ gpc' = "idle"
    /\ s' = EnableRecord(s)
    /\ UNCHANGED <<asked, othersOfUser>>

\* disable_record (false, true), forced
UnarmRecord ==
    /\ "NoRecord" \in Asks /\ CanAsk /\ gpc = "idle" /\ s.rec # "Disabled"
    /\ asked' = asked + 1
    /\ s' = [s EXCEPT !.rec = "Disabled"]
    /\ UNCHANGED <<gpc, othersOfUser>>

User == Request \/ ArmRecord \/ LookAtTransport \/ StartRecording \/ UnarmRecord

-----------------------------------------------------------------------------
Next == Process \/ Butler \/ User

Spec == Init /\ [][Next]_vars

\* JACK calls process() for ever, and the butler is scheduled: weak fairness of the two,
\* Process being enabled always and Butler whenever it has a pass to make.
FairSpec == /\ Spec
            /\ []<><<Process>>_vars
            /\ []<>(bpc = "idle" /\ s.count = 0) \/ []<><<Butler>>_vars

-----------------------------------------------------------------------------
Works == {"Stop", "Locate", "Roll", "Duration"}
SubStates == {"DeclickIn", "DeclickOut", "StopPendingCapture", "AutoReturning", "PendingLocate"}

\* The session keeps to its types; work is flagged exactly when a pass is to come or has
\* just been.
TypeOK ==
    /\ {s.frame, s.disk, s.lsf, s.plFrame} \subseteq Frames /\ s.rrf \in Frames \cup {-1}
    /\ s.speed \in {0, 1} /\ s.rec \in {"Disabled", "Enabled", "Recording"}
    /\ s.work \subseteq Works /\ s.sub \subseteq SubStates
    /\ s.count \in Nat /\ (s.count > 0 => s.work # {})
    /\ s.next \in 1 .. Len(s.events) + 1
    /\ walk.left \in 0 .. Block /\ walk.moved \in 0 .. MaxFrames

\* Between cycles, with nothing more to do than to go on as it is.
Settled == /\ pc = "idle"
           /\ s.work = {} /\ s.pend = <<>> /\ s.imm = <<>>
           /\ s.sub \cap {"DeclickOut", "PendingLocate", "StopPendingCapture"} = {}

\* A transport that was told to stop, by a command or by the end of the session, comes
\* to rest.  In a session without a loop: the loop event undoes a stop that it meets
\* (session_events.cc:325).
StopHonoured == Settled /\ s.goal.kind = "stop" /\ ~HasLoop => s.speed = 0

\* A locate takes the transport to where it was told to go: that is where it rests, unless
\* the butler may take it elsewhere (session_transport.cc:410, 414).
LocateArrives ==
    Settled /\ s.goal.kind = "stay" /\ s.speed = 0
    /\ ~AutoReturn /\ "RollAndReturn" \notin Asks => s.frame = s.goal.at

\* When the transport has come to rest the diskstreams are where it is.
AtRestInSync == Settled /\ s.speed = 0 => s.disk = s.frame

\* No timed event is queued that could fall inside a cycle.
Untimed == Timeline = <<>> /\ Latency <= Block /\ "BoundedRoll" \notin Asks

\* What is heard is what the playhead shows: while the transport rolls, the diskstreams
\* are where it is, but for the segment that fades out ahead of a locate.  Not so when a
\* timed event falls inside a cycle: frames_moved then goes stale (session_process.cc:389);
\* nor when recording begins during that fade: the locate is then refused, with its
\* position already assigned (session_transport.cc:681, 695).
PlaysWhatItShows ==
    Untimed /\ "Record" \notin Asks
    /\ s.speed # 0 /\ s.work = {} /\ "PendingLocate" \notin s.sub /\ s.frame < MaxFrames =>
        s.disk = s.frame

\* Commands are carried out: the session does not stay in the middle of a state change.
\* Not so with a punch range, on whose ends the transport may stand still
\* (session_process.cc:389), or a bounded roll, whose stop may get lost, see AutoStopAhead.
Settles ==
    ~conf.auto_punch.there /\ "BoundedRoll" \notin Asks => []<>Settled

\* "schedule the autostop for one block before the actual end. we'll declick in the
\* subsequent block, and then we'll really be stopped" (session_transport.cc:935): a stop
\* that waits for what is still being captured has its event ahead of it, or its declick.
AutoStopAhead ==
    "StopPendingCapture" \in s.sub /\ s.speed # 0 =>
        \/ \E queue \in {s.events, s.imm} : \E i \in DOMAIN queue : queue[i].type = "StopOnce"
        \/ "DeclickOut" \in s.sub

\* A take is continuous: while recording goes on, nothing moves the diskstreams but the
\* playing of the cycle.  With punch in, without which recording may begin in the middle
\* of a seek (session.cc:1154).
TakesContinuous ==
    [][PunchInOn /\ Recording(s) /\ Recording(s') =>
          s'.disk \in {s.disk} \cup {Wrapped(s.disk + n) : n \in 1 .. Block}]_vars
=============================================================================
