------------------------------- MODULE Butler -------------------------------
(***************************************************************************)
(* The butler: the disk thread of a Session, the process (audio) thread    *)
(* that hands it transport work and disk work, and the threads that wait   *)
(* for it (libs/ardour/session_butler.cc, butler_transport_work() in       *)
(* session_transport.cc, the gate of Session::process()).                  *)
(*                                                                         *)
(* Requests travel as bytes through a non-blocking pipe.  Transport work   *)
(* is a set of flags plus a counter: the process thread ORs the flags,     *)
(* increments the counter and writes Run; the butler makes one pass over   *)
(* the flags per count, starts the pass again when the counter moved, and  *)
(* the process thread clears the flags once the counter is back at zero.   *)
(***************************************************************************)
EXTENDS Integers, Sequences

CONSTANTS
    Kinds,         \* the transport work the model schedules, within AllKinds
    NStreams,      \* number of diskstreams, the auditioner's included
    BufferChunks,  \* capacity of a playback or capture buffer, in disk chunks
    PipeSize,      \* capacity of butler_request_pipe, in bytes
    MaxWork,       \* bound: scheduled passes outstanding; also how far below
                   \* zero the counter is followed
    Callers,       \* threads that call wait_till_butler_finished, stop_butler
    Freewheel,     \* TRUE: the process thread waits for the butler each cycle
    DiskFails      \* TRUE: reading and writing the disk may fail

\* The order in which butler_transport_work looks at the flags.
AllKinds == {"CurveRealloc", "InputChange", "Speed", "Reverse",
             "Locate", "Stop", "OverWrite", "Audition"}

StageOf(w) == CASE w = "CurveRealloc" -> 1 [] w = "InputChange" -> 2
                [] w = "Speed"        -> 3 [] w = "Reverse"     -> 4
                [] w = "Locate"       -> 5 [] w = "Stop"        -> 6
                [] w = "OverWrite"    -> 7 [] w = "Audition"    -> 8

LastStage == 8

\* Stages that look at the counter after each stream and give up if it moved.
Interruptible == {"Reverse", "Stop", "OverWrite"}

\* ProcessCannotProceedMask
CannotProceed == AllKinds \ {"OverWrite"}

ASSUME KindsAssumption == Kinds \subseteq AllKinds
ASSUME NumbersAssumption ==
    /\ NStreams \in Nat \ {0}   \* the auditioner always has a diskstream
    /\ BufferChunks \in Nat \ {0}
    /\ PipeSize \in Nat \ {0}
    /\ MaxWork \in Nat \ {0}
ASSUME ThreadsAssumption ==
    /\ Freewheel \in BOOLEAN /\ DiskFails \in BOOLEAN
    /\ "process" \notin Callers /\ "free" \notin Callers

Streams == 1 .. NStreams
Threads == Callers \cup (IF Freewheel THEN {"process"} ELSE {})
Requests == {"Wake", "Run", "Pause", "Quit"}

VARIABLES
    pipe,                   \* butler_request_pipe
    butler_should_run,
    transport_work,         \* butler_should_do_transport_work
    post_transport_work,
    disk_work_outstanding,
    playback,               \* stream -> whole chunks free in its playback buffer
    capture,                \* stream -> whole chunks waiting in its capture buffer
    err,                    \* a flush failed since the thread started
    bpc,                    \* where the butler thread is
    stage, cursor,          \* its position in the pass, in the stream list
    on_entry,               \* the counter it read at the start of the pass
    ppc, needs_butler,      \* where the process thread is; session_needs_butler
    sched,                  \* how far it is in schedule_butler_transport_work()
    lock,                   \* butler_request_lock: its holder, or "free"
    cpc,                    \* thread -> where it is in waiting for the butler
    owed,                   \* history: work flagged, not performed since then
    doing                   \* history: the part of owed being performed now

butlerVars  == <<butler_should_run, disk_work_outstanding, err, bpc, stage, cursor, on_entry>>
bufferVars  == <<playback, capture>>
processVars == <<ppc, needs_butler, sched>>
workVars    == <<transport_work, post_transport_work, owed, doing>>
callerVars  == <<lock, cpc>>
vars == <<pipe, butlerVars, bufferVars, processVars, workVars, callerVars>>

InPass == bpc \in {"stage", "perform"}

\* The flag the butler's current stage looks at is up.
Flagged == \E w \in post_transport_work : StageOf(w) = stage

\* write() on the non-blocking pipe: a full pipe loses the byte.
Written(req) == IF Len(pipe) < PipeSize THEN Append(pipe, req) ELSE pipe

\* g_atomic_int_dec_and_test(), counting no further than -MaxWork.
Decremented == IF transport_work > -MaxWork THEN transport_work - 1 ELSE transport_work

\* The process thread is not inside wait_till_butler_finished().
ProcessFree == "process" \in Threads => cpc["process"] \in {"idle", "released"}

Init ==
    /\ pipe = <<>>
    /\ butler_should_run = FALSE
    /\ transport_work = 0
    /\ post_transport_work = {}
    /\ disk_work_outstanding = FALSE
    /\ playback = [s \in Streams |-> 0]
    /\ capture = [s \in Streams |-> 0]
    /\ err = FALSE
    /\ bpc = "poll" /\ stage = 1 /\ cursor = 1 /\ on_entry = 0
    /\ ppc = "idle" /\ needs_butler = FALSE /\ sched = "none"
    /\ lock = "free"
    /\ cpc = [c \in Threads |-> "idle"]
    /\ owed = {} /\ doing = {}

-----------------------------------------------------------------------------
(* The process thread.                                                     *)

\* Mutant: post_transport() without looking at the counter.
ProcessStartUnchecked ==
    /\ ppc = "idle"
    /\ ppc' = "events"
    /\ post_transport_work' = {}
    /\ UNCHANGED <<pipe, butlerVars, bufferVars, sched, needs_butler, transport_work, owed,
                   doing, callerVars>>

\* The start of Session::process(): flags up and counter down runs post_transport().
ProcessStart ==
    /\ ppc = "idle"
    /\ ppc' = "events"
    /\ post_transport_work' = IF transport_work = 0 THEN {} ELSE post_transport_work
    /\ UNCHANGED <<pipe, butlerVars, bufferVars, sched, needs_butler, transport_work, owed,
                   doing, callerVars>>

\* An event handler ORs w into post_transport_work.  It happens before the cycle, for
\* the events that are due, and after it, in check_declick_out().
Mark(w) ==
    /\ ppc \in {"events", "rolled"} /\ ProcessFree
    /\ sched = "none" \/ (sched = "marked" /\ w \notin post_transport_work)
    /\ transport_work < MaxWork
    /\ sched' = "marked"
    /\ post_transport_work' = post_transport_work \cup {w}
    /\ owed' = owed \cup {w}
    /\ doing' = doing \ {w}
    /\ UNCHANGED <<pipe, butlerVars, bufferVars, ppc, needs_butler, transport_work, callerVars>>

\* Mutant: a flag where the code has a counter.
CountWorkOnce ==
    /\ sched = "marked"
    /\ sched' = "counted"
    /\ transport_work' = 1
    /\ UNCHANGED <<pipe, butlerVars, bufferVars, ppc, needs_butler, post_transport_work,
                   owed, doing, callerVars>>

\* schedule_butler_transport_work(): the atomic increment ...
CountWork ==
    /\ sched = "marked"
    /\ sched' = "counted"
    /\ transport_work' = transport_work + 1
    /\ UNCHANGED <<pipe, butlerVars, bufferVars, ppc, needs_butler, post_transport_work,
                   owed, doing, callerVars>>

\* Mutant: the butler is not summoned.
SummonNobody ==
    /\ sched = "counted"
    /\ sched' = "none"
    /\ UNCHANGED <<pipe, butlerVars, bufferVars, ppc, needs_butler, workVars, callerVars>>

\* ... then summon_butler().
SummonForWork ==
    /\ sched = "counted"
    /\ sched' = "none"
    /\ pipe' = Written("Run")
    /\ UNCHANGED <<butlerVars, bufferVars, ppc, needs_butler, workVars, callerVars>>

\* Routes run and diskstreams commit; each stream may free one more chunk of playback
\* space and fill one more of capture.
Roll ==
    /\ ppc = "events" /\ sched = "none"
    /\ "process" \in Threads => cpc["process"] = "released"
    /\ post_transport_work \cap CannotProceed = {}
    /\ \E P, C \in SUBSET Streams :
        /\ playback' = [s \in Streams |->
              IF s \in P /\ playback[s] < BufferChunks THEN playback[s] + 1 ELSE playback[s]]
        /\ capture' = [s \in Streams |->
              IF s \in C /\ capture[s] < BufferChunks THEN capture[s] + 1 ELSE capture[s]]
    /\ needs_butler' = \E s \in Streams : playback'[s] > 0 \/ capture'[s] > 0
    /\ ppc' = "rolled"
    /\ cpc' = IF "process" \in Threads THEN [cpc EXCEPT !["process"] = "idle"] ELSE cpc
    /\ UNCHANGED <<pipe, butlerVars, sched, workVars, lock>>

\* Mutant: the end of the cycle does not summon the butler.
ProcessEndQuietly ==
    /\ ppc \in {"events", "rolled"} /\ sched = "none" /\ ProcessFree
    /\ ppc' = "idle"
    /\ needs_butler' = FALSE
    /\ UNCHANGED <<pipe, butlerVars, bufferVars, sched, workVars, callerVars>>

\* The end of the cycle: if (session_needs_butler) summon_butler().  Without rolling
\* (transport stopped, work pending) the cycle ends after its events.
ProcessEnd ==
    /\ ppc \in {"events", "rolled"} /\ sched = "none" /\ ProcessFree
    /\ ppc' = "idle"
    /\ needs_butler' = FALSE
    /\ pipe' = IF needs_butler THEN Written("Run") ELSE pipe
    /\ UNCHANGED <<butlerVars, bufferVars, sched, workVars, callerVars>>

\* AudioEngine::remove_session(), called by Session::destroy(): no more process().
\* The thread that destroys the session is the one that would wait for the butler.
RemoveSession ==
    /\ ppc = "idle"
    /\ \A c \in Threads : cpc[c] \in {"idle", "released"}
    /\ ppc' = "gone"
    /\ UNCHANGED <<pipe, butlerVars, bufferVars, sched, needs_butler, workVars, callerVars>>

\* terminate_butler_thread(): write Quit, then join.
TerminateButler ==
    /\ ppc = "gone"
    /\ ppc' = "joining"
    /\ pipe' = Written("Quit")
    /\ UNCHANGED <<butlerVars, bufferVars, sched, needs_butler, workVars, callerVars>>

-----------------------------------------------------------------------------
(* Threads that wait for the butler.                                       *)

\* wait_till_butler_finished() and stop_butler() up to the write; the lock is kept.
Ask(c, req) ==
    /\ cpc[c] = "idle" /\ lock = "free"
    /\ c = "process" => ppc = "events" /\ sched = "none"
    /\ ppc \notin {"gone", "joining"}
    /\ lock' = c
    /\ cpc' = [cpc EXCEPT ![c] = "asking"]
    /\ pipe' = Written(req)
    /\ UNCHANGED <<butlerVars, bufferVars, processVars, workVars>>

\* butler_paused.wait (butler_request_lock): sleep and give the lock up.
Wait(c) ==
    /\ cpc[c] = "asking"
    /\ cpc' = [cpc EXCEPT ![c] = "waiting"]
    /\ lock' = "free"
    /\ UNCHANGED <<pipe, butlerVars, bufferVars, processVars, workVars>>

\* The caller has finished what it wanted the butler out of the way for.
Leave(c) ==
    /\ c # "process"
    /\ cpc[c] = "released"
    /\ cpc' = [cpc EXCEPT ![c] = "idle"]
    /\ UNCHANGED <<pipe, butlerVars, bufferVars, processVars, workVars, lock>>

-----------------------------------------------------------------------------
(* The butler thread: requests and transport work.                         *)

\* poll() returns for a readable pipe, or at once when disk work is outstanding.
Poll ==
    /\ bpc = "poll"
    /\ pipe # <<>> \/ disk_work_outstanding
    /\ bpc' = IF pipe # <<>> THEN "drain" ELSE "check"
    /\ UNCHANGED <<pipe, butler_should_run, disk_work_outstanding, err, stage, cursor,
                   on_entry, bufferVars, processVars, workVars, callerVars>>

\* Mutant: Quit does not end the thread.
ReadRequestNoQuit ==
    /\ bpc = "drain" /\ pipe # <<>>
    /\ pipe' = Tail(pipe)
    /\ butler_should_run' = CASE Head(pipe) = "Run"   -> TRUE
                              [] Head(pipe) = "Pause" -> FALSE
                              [] OTHER                -> butler_should_run
    /\ UNCHANGED <<bpc, disk_work_outstanding, err, stage, cursor, on_entry, bufferVars,
                   processVars, workVars, callerVars>>

\* One read() of the loop that empties the pipe.
ReadRequest ==
    /\ bpc = "drain" /\ pipe # <<>>
    /\ pipe' = Tail(pipe)
    /\ butler_should_run' = CASE Head(pipe) = "Run"   -> TRUE
                              [] Head(pipe) = "Pause" -> FALSE
                              [] OTHER                -> butler_should_run
    /\ bpc' = IF Head(pipe) = "Quit" THEN "exited" ELSE "drain"
    /\ UNCHANGED <<disk_work_outstanding, err, stage, cursor, on_entry, bufferVars,
                   processVars, workVars, callerVars>>

\* EAGAIN: the pipe is empty.
Drained ==
    /\ bpc = "drain" /\ pipe = <<>>
    /\ bpc' = "check"
    /\ UNCHANGED <<pipe, butler_should_run, disk_work_outstanding, err, stage, cursor,
                   on_entry, bufferVars, processVars, workVars, callerVars>>

\* Mutant: a pass for every request, asked for or not.
CheckWorkAlways ==
    /\ bpc = "check"
    /\ bpc' = "entry"
    /\ UNCHANGED <<pipe, butler_should_run, disk_work_outstanding, err, stage, cursor,
                   on_entry, bufferVars, processVars, workVars, callerVars>>

\* if (transport_work_requested()) butler_transport_work ();
CheckWork ==
    /\ bpc = "check"
    /\ \/ transport_work # 0 /\ bpc' = "entry" /\ UNCHANGED <<disk_work_outstanding, cursor>>
       \/ transport_work = 0 /\ bpc' = "refill" /\ disk_work_outstanding' = FALSE /\ cursor' = 1
    /\ UNCHANGED <<pipe, butler_should_run, err, stage, on_entry, bufferVars, processVars,
                   workVars, callerVars>>

\* restart: the pass begins by reading the counter.
EnterPass ==
    /\ bpc = "entry"
    /\ bpc' = "stage"
    /\ on_entry' = transport_work
    /\ stage' = 1
    /\ UNCHANGED <<pipe, butler_should_run, disk_work_outstanding, err, cursor, bufferVars,
                   processVars, workVars, callerVars>>

\* A flag that is down: go on to the next.
SkipStage ==
    /\ bpc = "stage" /\ stage <= LastStage
    /\ ~Flagged
    /\ stage' = stage + 1
    /\ UNCHANGED <<pipe, butler_should_run, disk_work_outstanding, err, bpc, cursor, on_entry,
                   bufferVars, processVars, workVars, callerVars>>

\* A flag that is up: begin its work.  Reversal skips the streams, and with them
\* the look at the counter, when a locate is flagged too.
BeginStage ==
    /\ bpc = "stage" /\ stage <= LastStage
    /\ Flagged
    /\ bpc' = "perform"
    /\ doing' = {w \in owed : StageOf(w) = stage}
    /\ cursor' = IF \/ \A w \in Interruptible : StageOf(w) # stage
                    \/ StageOf("Reverse") = stage /\ "Locate" \in post_transport_work
                 THEN NStreams + 1 ELSE 1
    /\ UNCHANGED <<pipe, butler_should_run, disk_work_outstanding, err, stage, on_entry,
                   bufferVars, processVars, transport_work, post_transport_work, owed, callerVars>>

\* One stream of an interruptible stage, the counter unmoved.
NextStream ==
    /\ bpc = "perform" /\ cursor <= NStreams
    /\ transport_work = on_entry
    /\ cursor' = cursor + 1
    /\ UNCHANGED <<pipe, butler_should_run, disk_work_outstanding, err, bpc, stage, on_entry,
                   bufferVars, processVars, workVars, callerVars>>

\* The counter moved: give this count up and start again.
Interrupted ==
    /\ bpc = "perform" /\ cursor <= NStreams
    /\ transport_work # on_entry
    /\ transport_work' = Decremented
    /\ bpc' = "entry"
    /\ doing' = {}
    /\ UNCHANGED <<pipe, butler_should_run, disk_work_outstanding, err, stage, cursor, on_entry,
                   bufferVars, processVars, post_transport_work, owed, callerVars>>

\* The stage's work is complete.
EndStage ==
    /\ bpc = "perform" /\ cursor > NStreams
    /\ bpc' = "stage"
    /\ stage' = stage + 1
    /\ owed' = owed \ doing
    /\ doing' = {}
    /\ UNCHANGED <<pipe, butler_should_run, disk_work_outstanding, err, cursor, on_entry,
                   bufferVars, processVars, transport_work, post_transport_work, callerVars>>

\* Mutant: the counter is reset at the end of a pass.
LeavePassReset ==
    /\ bpc = "stage" /\ stage > LastStage
    /\ transport_work' = 0
    /\ bpc' = "refill"
    /\ disk_work_outstanding' = FALSE
    /\ cursor' = 1
    /\ UNCHANGED <<pipe, butler_should_run, err, stage, on_entry, bufferVars, processVars,
                   post_transport_work, owed, doing, callerVars>>

\* The end of butler_transport_work().
LeavePass ==
    /\ bpc = "stage" /\ stage > LastStage
    /\ transport_work' = Decremented
    /\ bpc' = "refill"
    /\ disk_work_outstanding' = FALSE
    /\ cursor' = 1
    /\ UNCHANGED <<pipe, butler_should_run, err, stage, on_entry, bufferVars, processVars,
                   post_transport_work, owed, doing, callerVars>>

-----------------------------------------------------------------------------
(* The butler thread: disk work.                                           *)

\* The condition of both stream loops, short of the end of the list.
KeepGoing == transport_work = 0 /\ butler_should_run

\* AudioDiskstream::_do_refill(): nothing without a whole chunk of space; else read
\* one chunk and ask for another round if there were two; at the end of the file the
\* whole space is silenced; a read failure leaves the buffer as it was.
RefillStream ==
    /\ bpc = "refill" /\ KeepGoing /\ cursor <= NStreams
    /\ LET space == playback[cursor] IN
       \/ /\ playback' = [playback EXCEPT ![cursor] = IF space > 0 THEN space - 1 ELSE 0]
          /\ disk_work_outstanding' = (disk_work_outstanding \/ space >= 2)
       \/ /\ space > 0
          /\ playback' = [playback EXCEPT ![cursor] = 0]
          /\ UNCHANGED disk_work_outstanding
       \/ /\ DiskFails /\ space > 0
          /\ UNCHANGED <<playback, disk_work_outstanding>>
    /\ cursor' = cursor + 1
    /\ UNCHANGED <<pipe, butler_should_run, err, bpc, stage, on_entry, capture,
                   processVars, workVars, callerVars>>

\* After the refill loop: a list not finished is work outstanding, and transport
\* work sends the butler round again unless a flush has failed.
EndRefill ==
    /\ bpc = "refill" /\ (~KeepGoing \/ cursor > NStreams)
    /\ disk_work_outstanding' = (disk_work_outstanding \/ cursor <= NStreams)
    /\ IF ~err /\ transport_work # 0
       THEN bpc' = "poll" /\ UNCHANGED cursor
       ELSE bpc' = "flush" /\ cursor' = 1
    /\ UNCHANGED <<pipe, butler_should_run, err, stage, on_entry, bufferVars,
                   processVars, workVars, callerVars>>

\* AudioDiskstream::do_flush(): as for refilling; a write failure is counted.
FlushStream ==
    /\ bpc = "flush" /\ KeepGoing /\ cursor <= NStreams
    /\ LET total == capture[cursor] IN
       \/ /\ capture' = [capture EXCEPT ![cursor] = IF total > 0 THEN total - 1 ELSE 0]
          /\ disk_work_outstanding' = (disk_work_outstanding \/ total >= 2)
          /\ UNCHANGED err
       \/ /\ DiskFails /\ total > 0
          /\ err' = TRUE
          /\ UNCHANGED <<capture, disk_work_outstanding>>
    /\ cursor' = cursor + 1
    /\ UNCHANGED <<pipe, butler_should_run, bpc, stage, on_entry, playback,
                   processVars, workVars, callerVars>>

EndFlush ==
    /\ bpc = "flush" /\ (~KeepGoing \/ cursor > NStreams)
    /\ disk_work_outstanding' = (disk_work_outstanding \/ cursor <= NStreams)
    /\ bpc' = IF ~err /\ transport_work # 0 THEN "poll" ELSE "finish"
    /\ UNCHANGED <<pipe, butler_should_run, err, stage, cursor, on_entry, bufferVars,
                   processVars, workVars, callerVars>>

\* Mutant: nobody is woken while the butler may run.
FinishRoundSilent ==
    /\ bpc = "finish" /\ lock = "free"
    /\ bpc' = "poll"
    /\ LET waiting == {c \in Threads : cpc[c] = "waiting"} IN
       IF butler_should_run \/ waiting = {} THEN UNCHANGED cpc
       ELSE \E c \in waiting : cpc' = [cpc EXCEPT ![c] = "released"]
    /\ UNCHANGED <<pipe, butler_should_run, disk_work_outstanding, err, stage, cursor,
                   on_entry, bufferVars, processVars, workVars, lock>>

\* The end of the round, under butler_request_lock: go on if there is more to do,
\* otherwise wake one of the waiting threads.
FinishRound ==
    /\ bpc = "finish" /\ lock = "free"
    /\ bpc' = "poll"
    /\ LET waiting == {c \in Threads : cpc[c] = "waiting"} IN
       IF \/ butler_should_run /\ (disk_work_outstanding \/ transport_work # 0)
          \/ waiting = {}
       THEN UNCHANGED cpc
       ELSE \E c \in waiting : cpc' = [cpc EXCEPT ![c] = "released"]
    /\ UNCHANGED <<pipe, butler_should_run, disk_work_outstanding, err, stage, cursor,
                   on_entry, bufferVars, processVars, workVars, lock>>

\* pthread_join(): nothing left to do but to wait for the butler to exit.
Join == ppc = "joining" /\ UNCHANGED vars

-----------------------------------------------------------------------------
Process == \/ \E w \in Kinds : Mark(w)
           \/ CountWork \/ SummonForWork
           \/ ProcessStart \/ Roll \/ ProcessEnd
           \/ RemoveSession \/ TerminateButler

Caller(c) == \/ \E req \in IF c = "process" THEN {"Wake"} ELSE {"Wake", "Pause"} : Ask(c, req)
             \/ Wait(c) \/ Leave(c)

ButlerThread == \/ Poll \/ ReadRequest \/ Drained \/ CheckWork
                \/ EnterPass \/ SkipStage \/ BeginStage \/ NextStream
                \/ Interrupted \/ EndStage \/ LeavePass
                \/ RefillStream \/ EndRefill \/ FlushStream \/ EndFlush
                \/ FinishRound

Next == Process \/ (\E c \in Threads : Caller(c)) \/ ButlerThread \/ Join

Spec == Init /\ [][Next]_vars

\* The scheduler runs the butler and the waiting threads; JACK keeps calling process(),
\* which never blocks in real time, and a callback that has begun is carried through.
Fairness == /\ WF_vars(ButlerThread)
            /\ WF_vars(ProcessStart) /\ WF_vars(ProcessEnd)
            /\ WF_vars(CountWork) /\ WF_vars(SummonForWork)
            /\ WF_vars(TerminateButler)
            /\ \A c \in Threads : WF_vars(Wait(c)) /\ WF_vars(Leave(c))

FairSpec == Spec /\ Fairness

-----------------------------------------------------------------------------
\* Every variable keeps to its type.
TypeOK ==
    /\ pipe \in Seq(Requests) /\ Len(pipe) <= PipeSize
    /\ butler_should_run \in BOOLEAN
    /\ transport_work \in 0 .. MaxWork
    /\ post_transport_work \subseteq Kinds
    /\ disk_work_outstanding \in BOOLEAN
    /\ playback \in [Streams -> 0 .. BufferChunks]
    /\ capture \in [Streams -> 0 .. BufferChunks]
    /\ err \in BOOLEAN
    /\ bpc \in {"poll", "drain", "check", "entry", "stage", "perform", "refill", "flush",
                "finish", "exited"}
    /\ stage \in 1 .. LastStage + 1 /\ cursor \in 1 .. NStreams + 1
    /\ on_entry \in 0 .. MaxWork
    /\ ppc \in {"idle", "events", "rolled", "gone", "joining"}
    /\ sched \in {"none", "marked", "counted"}
    /\ needs_butler \in BOOLEAN
    /\ lock \in Threads \cup {"free"}
    /\ cpc \in [Threads -> {"idle", "asking", "waiting", "released"}]
    /\ owed \subseteq Kinds /\ doing \subseteq Kinds

\* Work that has been flagged is performed before anyone believes it done: with the
\* counter at zero, when process() runs post_transport() and drops the flags, nothing
\* flagged is still owed and the butler is not in the middle of a pass.
NoLostWork ==
    sched # "marked" /\ transport_work = 0 => owed = {} /\ ~InPass

\* The pass in progress, if there is one, has not gone past the stage of w.
StillAhead(w) == \/ ~InPass
                 \/ StageOf(w) > stage
                 \/ StageOf(w) = stage /\ (bpc = "stage" \/ w \in doing)

\* Work that is owed is about to be counted, or has another pass to come, or is ahead of
\* the pass in progress.
Covered(w) == \/ sched = "marked"
              \/ transport_work >= 2
              \/ transport_work >= 1 /\ StillAhead(w)

\* The counter covers what is owed at every step, and never falls below the pass in
\* progress, whose on_entry it starts from (the inductive form of NoLostWork).
WorkInv ==
    /\ InPass \/ bpc = "entry" => transport_work >= 1
    /\ InPass => on_entry >= 1 /\ on_entry <= transport_work
    /\ bpc = "perform" => stage <= LastStage
    /\ bpc # "perform" => doing = {}
    /\ owed \subseteq post_transport_work /\ doing \subseteq owed
    /\ sched # "none" => ppc \in {"events", "rolled"}
    /\ sched = "marked" => transport_work < MaxWork
    /\ \A w \in owed : Covered(w)

-----------------------------------------------------------------------------
\* The handshake keeps the promise of TransportWork: what is flagged stays flagged
\* until it has been performed from beginning to end after it was last flagged.
Promise == INSTANCE TransportWork WITH
    flagged <- post_transport_work, owed <- owed, performing <- doing
PromiseKept == Promise!Spec

\* A freewheeling export that waits for the butler before each cycle never finds a
\* playback buffer that the butler has left to run empty.
ExportNeverOutruns == \A s \in Streams : playback[s] < BufferChunks

\* Once no more work is flagged, the flags are collected (or the session is destroyed).
WorkCollected ==
    <>[](sched # "marked") => []<>(post_transport_work = {} \/ ppc \in {"gone", "joining"})

\* A thread that waits for the butler comes back from it, once the transport has
\* stopped rolling and no more transport work is scheduled.
CallerReturns ==
    <>[](ppc # "rolled" /\ sched = "none") =>
        \A c \in Callers : cpc[c] = "waiting" ~> cpc[c] = "released"

\* A freewheeling export always gets its butler back.
ExportAdvances == cpc["process"] = "waiting" ~> cpc["process"] = "released"

\* terminate_butler_thread() comes back, unless a full pipe loses its Quit.
Terminates ==
    [](Len(pipe) < PipeSize) => (ppc = "joining" ~> bpc = "exited")
=============================================================================
