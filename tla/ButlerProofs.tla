---------------------------- MODULE ButlerProofs ----------------------------
(***************************************************************************)
(* The butler handshake, for any set of work, any number of streams, any   *)
(* pipe and any threads: its variables keep their types, no flagged work   *)
(* is lost, and it implements TransportWork; and in an export the process  *)
(* thread never plays what the butler has not yet read.                    *)
(***************************************************************************)
EXTENDS Butler, TLAPS, FiniteSets

\* Where in the pass each kind of work is looked at.
LEMMA StageOfType == \A w \in AllKinds : StageOf(w) \in 1 .. LastStage
  BY SMT DEF AllKinds, StageOf, LastStage

\* What the pipe holds after a write is still a sequence of requests that fits it.
LEMMA WrittenType ==
  ASSUME pipe \in Seq(Requests), Len(pipe) <= PipeSize, NEW req \in Requests
  PROVE  Written(req) \in Seq(Requests) /\ Len(Written(req)) <= PipeSize
  BY NumbersAssumption DEF Written

\* The inductive invariant: the types, and the counter covering what is owed.
IInv == TypeOK /\ WorkInv

\* A session begins with nothing flagged, counted or owed.
LEMMA InitInv == Init => IInv
<1> SUFFICES ASSUME Init PROVE IInv
  OBVIOUS
<1> USE NumbersAssumption
<1>1. pipe \in Seq(Requests) /\ Len(pipe) <= PipeSize
  BY DEF Init
<1>2. /\ playback \in [Streams -> 0 .. BufferChunks] /\ capture \in [Streams -> 0 .. BufferChunks]
      /\ cpc \in [Threads -> {"idle", "asking", "waiting", "released"}]
  BY DEF Init
<1>3. transport_work \in 0 .. MaxWork /\ on_entry \in 0 .. MaxWork
      /\ stage \in 1 .. LastStage + 1 /\ cursor \in 1 .. NStreams + 1
  BY DEF Init, LastStage
<1>4. TypeOK
  BY <1>1, <1>2, <1>3 DEF Init, TypeOK
<1>5. WorkInv
  BY DEF Init, WorkInv, InPass
<1> QED BY <1>4, <1>5 DEF IInv

\* Everything WorkInv is about, apart from the process thread's own variables.
workInvVars == <<bpc, stage, on_entry, ppc, sched, workVars>>

\* A step that leaves the work, the pass and the schedule call alone preserves WorkInv.
LEMMA WorkInvStutter ==
  ASSUME WorkInv, UNCHANGED workInvVars
  PROVE  WorkInv'
  BY DEF WorkInv, workInvVars, workVars, Covered, StillAhead, InPass

USE DEF vars, butlerVars, bufferVars, processVars, workVars, callerVars

-----------------------------------------------------------------------------
(* The type invariant: the counter's range needs WorkInv.                  *)

\* The process thread keeps to the types; Mark leaves room for the count that follows it.
LEMMA ProcessType ==
  ASSUME TypeOK, WorkInv, Process
  PROVE  TypeOK'
<1> USE NumbersAssumption DEF TypeOK
<1>1. ASSUME NEW w \in Kinds, Mark(w) PROVE TypeOK'
  BY <1>1 DEF Mark
<1>2. CASE CountWork
  BY <1>2 DEF CountWork, WorkInv
<1>3. CASE SummonForWork
  BY <1>3, WrittenType DEF SummonForWork, Requests
<1>4. CASE ProcessStart
  BY <1>4 DEF ProcessStart
<1>5. CASE Roll
  <2>1. playback' \in [Streams -> 0 .. BufferChunks] /\ capture' \in [Streams -> 0 .. BufferChunks]
    BY <1>5 DEF Roll
  <2>2. cpc' \in [Threads -> {"idle", "asking", "waiting", "released"}]
    BY <1>5 DEF Roll
  <2>3. needs_butler' \in BOOLEAN
    BY <1>5 DEF Roll
  <2> QED BY <1>5, <2>1, <2>2, <2>3 DEF Roll
<1>6. CASE ProcessEnd
  BY <1>6, WrittenType DEF ProcessEnd, Requests
<1>7. CASE RemoveSession
  BY <1>7 DEF RemoveSession
<1>8. CASE TerminateButler
  BY <1>8, WrittenType DEF TerminateButler, Requests
<1> QED BY <1>1, <1>2, <1>3, <1>4, <1>5, <1>6, <1>7, <1>8 DEF Process

\* The threads that wait for the butler keep to the types.
LEMMA CallerType ==
  ASSUME TypeOK, NEW c \in Threads, Caller(c)
  PROVE  TypeOK'
<1> USE DEF TypeOK
<1>1. ASSUME NEW req \in {"Wake", "Pause"}, Ask(c, req) PROVE TypeOK'
  BY <1>1, WrittenType DEF Ask, Requests
<1>2. CASE Wait(c)
  BY <1>2 DEF Wait
<1>3. CASE Leave(c)
  BY <1>3 DEF Leave
<1> QED BY <1>1, <1>2, <1>3 DEF Caller

\* The butler keeps to the types: it takes a count off only in a pass, which has one.
LEMMA ButlerType ==
  ASSUME TypeOK, WorkInv, ButlerThread
  PROVE  TypeOK'
<1> USE NumbersAssumption DEF TypeOK, LastStage
<1>1. CASE Poll BY <1>1 DEF Poll
<1>2. CASE ReadRequest
  <2>1. pipe' \in Seq(Requests) /\ Len(pipe') <= PipeSize
    BY <1>2 DEF ReadRequest
  <2>2. butler_should_run' \in BOOLEAN
    BY <1>2 DEF ReadRequest
  <2>3. bpc' \in {"exited", "drain"}
    BY <1>2 DEF ReadRequest
  <2> QED BY <1>2, <2>1, <2>2, <2>3 DEF ReadRequest
<1>3. CASE Drained BY <1>3 DEF Drained
<1>4. CASE CheckWork
  <2>1. CASE transport_work # 0
    BY <1>4, <2>1 DEF CheckWork
  <2>2. CASE transport_work = 0
    <3>1. cursor' = 1 /\ disk_work_outstanding' = FALSE /\ bpc' = "refill"
      BY <1>4, <2>2 DEF CheckWork
    <3>2. cursor' \in 1 .. NStreams + 1
      BY <3>1
    <3> QED BY <1>4, <3>1, <3>2 DEF CheckWork
  <2> QED BY <2>1, <2>2
<1>5. CASE EnterPass BY <1>5 DEF EnterPass
<1>6. CASE SkipStage BY <1>6 DEF SkipStage
<1>7. CASE BeginStage BY <1>7 DEF BeginStage
<1>8. CASE NextStream BY <1>8 DEF NextStream
<1>9. CASE Interrupted BY <1>9 DEF Interrupted, Decremented, WorkInv, InPass
<1>10. CASE EndStage
  <2>1. stage <= LastStage
    BY <1>10 DEF EndStage, WorkInv, InPass
  <2> QED BY <1>10, <2>1 DEF EndStage
<1>11. CASE LeavePass
  <2>1. transport_work' \in 0 .. MaxWork
    BY <1>11 DEF LeavePass, Decremented, WorkInv, InPass
  <2>2. cursor' \in 1 .. NStreams + 1
    BY <1>11 DEF LeavePass
  <2> QED BY <1>11, <2>1, <2>2 DEF LeavePass
<1>12. CASE RefillStream
  <2>1. cursor \in Streams /\ cursor' \in 1 .. NStreams + 1
    BY <1>12 DEF RefillStream, Streams
  <2>2. playback[cursor] \in 0 .. BufferChunks
    BY <2>1
  <2>3. \E n \in 0 .. BufferChunks : playback' = [playback EXCEPT ![cursor] = n]
    BY <1>12, <2>1, <2>2 DEF RefillStream
  <2>4. playback' \in [Streams -> 0 .. BufferChunks]
    BY <2>1, <2>3
  <2>5. disk_work_outstanding' \in BOOLEAN
    BY <1>12 DEF RefillStream
  <2> QED BY <1>12, <2>1, <2>4, <2>5 DEF RefillStream
<1>13. CASE EndRefill BY <1>13 DEF EndRefill
<1>14. CASE FlushStream
  <2>1. cursor \in Streams /\ cursor' \in 1 .. NStreams + 1
    BY <1>14 DEF FlushStream, Streams
  <2>2. capture[cursor] \in 0 .. BufferChunks
    BY <2>1
  <2>3. \E n \in 0 .. BufferChunks : capture' = [capture EXCEPT ![cursor] = n]
    BY <1>14, <2>1, <2>2 DEF FlushStream
  <2>4. capture' \in [Streams -> 0 .. BufferChunks]
    BY <2>1, <2>3
  <2>5. disk_work_outstanding' \in BOOLEAN /\ err' \in BOOLEAN
    BY <1>14 DEF FlushStream
  <2> QED BY <1>14, <2>1, <2>4, <2>5 DEF FlushStream
<1>15. CASE EndFlush BY <1>15 DEF EndFlush
<1>16. CASE FinishRound BY <1>16 DEF FinishRound
<1> QED BY <1>1, <1>2, <1>3, <1>4, <1>5, <1>6, <1>7, <1>8, <1>9, <1>10, <1>11, <1>12,
           <1>13, <1>14, <1>15, <1>16 DEF ButlerThread

\* Every step keeps to the types.
LEMMA TypeStep == TypeOK /\ WorkInv /\ [Next]_vars => TypeOK'
<1> SUFFICES ASSUME TypeOK, WorkInv, [Next]_vars PROVE TypeOK'
  OBVIOUS
<1>1. CASE Process BY <1>1, ProcessType
<1>2. CASE \E c \in Threads : Caller(c) BY <1>2, CallerType
<1>3. CASE ButlerThread BY <1>3, ButlerType
<1>4. CASE Join \/ UNCHANGED vars BY <1>4 DEF Join, TypeOK
<1> QED BY <1>1, <1>2, <1>3, <1>4 DEF Next

-----------------------------------------------------------------------------
(* The inductive invariant.  Only the process thread adds to what is owed, *)
(* and only the butler moves past it.                                      *)

\* What the process thread flags is covered by the schedule call it is in, and then by
\* the count; the flags it drops at the start of a cycle are not owed.
LEMMA ProcessInv ==
  ASSUME TypeOK, WorkInv, Process
  PROVE  WorkInv'
<1> USE NumbersAssumption DEF TypeOK
<1>1. ASSUME NEW w \in Kinds, Mark(w) PROVE WorkInv'
  <2>1. \A v \in owed' : Covered(v)'
    BY <1>1 DEF Mark, Covered
  <2> QED BY <1>1, <2>1 DEF Mark, WorkInv, InPass
<1>2. CASE CountWork
  <2>1. ASSUME NEW w \in owed' PROVE Covered(w)'
    <3>1. CASE InPass
      BY <1>2, <3>1 DEF CountWork, WorkInv, InPass, Covered
    <3>2. CASE ~InPass
      BY <1>2, <3>2 DEF CountWork, InPass, Covered, StillAhead
    <3> QED BY <3>1, <3>2
  <2> QED BY <1>2, <2>1 DEF CountWork, WorkInv, InPass
<1>3. CASE SummonForWork
  <2>1. ASSUME NEW w \in owed' PROVE Covered(w)'
    BY <1>3 DEF SummonForWork, WorkInv, Covered, StillAhead, InPass
  <2> QED BY <1>3, <2>1 DEF SummonForWork, WorkInv, InPass
<1>4. CASE ProcessStart
  <2>1. sched = "none"
    BY <1>4 DEF ProcessStart, WorkInv
  <2>2. transport_work = 0 => owed = {}
    BY <2>1 DEF WorkInv, Covered
  <2>3. ASSUME NEW w \in owed' PROVE Covered(w)'
    BY <1>4 DEF ProcessStart, WorkInv, Covered, StillAhead, InPass
  <2>4. owed' \subseteq post_transport_work'
    BY <1>4, <2>2 DEF ProcessStart, WorkInv
  <2> QED BY <1>4, <2>3, <2>4 DEF ProcessStart, WorkInv, InPass
<1>5. CASE Roll \/ ProcessEnd
  <2>1. UNCHANGED <<bpc, stage, on_entry, sched, workVars>> /\ sched = "none"
    BY <1>5 DEF Roll, ProcessEnd
  <2>2. ASSUME NEW w \in owed' PROVE Covered(w)'
    BY <2>1 DEF WorkInv, Covered, StillAhead, InPass
  <2> QED BY <2>1, <2>2 DEF WorkInv, InPass
<1>6. CASE RemoveSession \/ TerminateButler
  <2>1. UNCHANGED <<bpc, stage, on_entry, sched, workVars>> /\ sched = "none"
    BY <1>6 DEF RemoveSession, TerminateButler, WorkInv
  <2>2. ASSUME NEW w \in owed' PROVE Covered(w)'
    BY <2>1 DEF WorkInv, Covered, StillAhead, InPass
  <2> QED BY <2>1, <2>2 DEF WorkInv, InPass
<1> QED BY <1>1, <1>2, <1>3, <1>4, <1>5, <1>6 DEF Process

\* The butler gives a count up only for another one, and goes past a flag only when the
\* work it stands for has been performed.
LEMMA ButlerInv ==
  ASSUME TypeOK, WorkInv, ButlerThread
  PROVE  WorkInv'
<1> USE NumbersAssumption DEF TypeOK
<1>0. /\ \A w \in owed : w \in AllKinds /\ StageOf(w) \in 1 .. LastStage
      /\ UNCHANGED <<sched, ppc>>
  <2>1. owed \subseteq AllKinds
    BY KindsAssumption
  <2>2. UNCHANGED <<sched, ppc>>
    BY DEF ButlerThread, Poll, ReadRequest, Drained, CheckWork, EnterPass, SkipStage,
           BeginStage, NextStream, Interrupted, EndStage, LeavePass, RefillStream,
           EndRefill, FlushStream, EndFlush, FinishRound
  <2> QED BY <2>1, <2>2, StageOfType
\* Outside the pass nothing of the work changes.
<1>1. CASE \/ Poll \/ ReadRequest \/ Drained \/ RefillStream \/ EndRefill
           \/ FlushStream \/ EndFlush \/ FinishRound
  <2>1. /\ UNCHANGED <<workVars, stage, on_entry>>
        /\ bpc' \in {"poll", "drain", "check", "refill", "flush", "finish", "exited"}
        /\ bpc \in {"poll", "drain", "check", "refill", "flush", "finish"}
    BY <1>1 DEF Poll, ReadRequest, Drained, RefillStream, EndRefill, FlushStream, EndFlush,
                FinishRound
  <2>2. ASSUME NEW w \in owed' PROVE Covered(w)'
    BY <2>1, <1>0 DEF WorkInv, Covered, StillAhead, InPass
  <2> QED BY <2>1, <2>2, <1>0 DEF WorkInv, InPass
<1>2. CASE CheckWork
  <2>1. /\ UNCHANGED <<workVars, stage, on_entry>>
        /\ bpc = "check" /\ bpc' \in {"entry", "refill"}
        /\ bpc' = "entry" => transport_work # 0
    BY <1>2 DEF CheckWork
  <2>2. ASSUME NEW w \in owed' PROVE Covered(w)'
    BY <2>1, <1>0 DEF WorkInv, Covered, StillAhead, InPass
  <2> QED BY <2>1, <2>2, <1>0 DEF WorkInv, InPass
<1>3. CASE EnterPass
  <2>1. ASSUME NEW w \in owed' PROVE Covered(w)'
    BY <1>3, <1>0 DEF EnterPass, WorkInv, Covered, StillAhead, InPass
  <2> QED BY <1>3, <2>1, <1>0 DEF EnterPass, WorkInv, InPass
\* A stage is skipped only when nothing owed is looked at there.
<1>4. CASE SkipStage
  <2>1. \A w \in owed : StageOf(w) # stage
    BY <1>4 DEF SkipStage, Flagged, WorkInv
  <2>2. ASSUME NEW w \in owed' PROVE Covered(w)'
    BY <1>4, <2>1, <1>0 DEF SkipStage, WorkInv, Covered, StillAhead, InPass
  <2> QED BY <1>4, <2>2, <1>0 DEF SkipStage, WorkInv, InPass
\* What is owed at a stage that begins becomes what it will settle.
<1>5. CASE BeginStage
  <2>1. ASSUME NEW w \in owed' PROVE Covered(w)'
    BY <1>5, <1>0 DEF BeginStage, WorkInv, Covered, StillAhead, InPass
  <2> QED BY <1>5, <2>1, <1>0 DEF BeginStage, WorkInv, InPass
<1>6. CASE NextStream
  <2>1. ASSUME NEW w \in owed' PROVE Covered(w)'
    BY <1>6, <1>0 DEF NextStream, WorkInv, Covered, StillAhead, InPass
  <2> QED BY <1>6, <2>1, <1>0 DEF NextStream, WorkInv, InPass
\* The counter has moved, so it was at least two, and the pass begins again.
<1>7. CASE Interrupted
  <2>1. transport_work >= 2 /\ transport_work' = transport_work - 1
    BY <1>7 DEF Interrupted, Decremented, WorkInv, InPass
  <2>2. ASSUME NEW w \in owed' PROVE Covered(w)'
    BY <1>7, <2>1 DEF Interrupted, Covered, StillAhead, InPass
  <2> QED BY <1>7, <2>1, <2>2, <1>0 DEF Interrupted, WorkInv, InPass
\* What is still owed when a stage ends was flagged again meanwhile, or is looked at later.
<1>8. CASE EndStage
  <2>1. ASSUME NEW w \in owed' PROVE Covered(w)'
    BY <1>8, <1>0 DEF EndStage, WorkInv, Covered, StillAhead, InPass
  <2>2. stage' <= LastStage + 1 /\ owed' \subseteq owed
    BY <1>8 DEF EndStage, WorkInv, LastStage
  <2> QED BY <1>8, <2>1, <2>2, <1>0 DEF EndStage, WorkInv, InPass
\* At the end of the pass nothing is ahead: what is owed has another pass to come.
<1>9. CASE LeavePass
  <2>1. transport_work >= 1 /\ transport_work' = transport_work - 1
    BY <1>9 DEF LeavePass, Decremented, WorkInv, InPass
  <2>2. ASSUME NEW w \in owed PROVE ~StillAhead(w)
    <3>1. StageOf(w) \in 1 .. 8 /\ stage \in 1 .. 9 /\ stage > 8 /\ bpc = "stage"
      BY <1>9, <1>0 DEF LeavePass, LastStage
    <3> QED BY <3>1 DEF StillAhead, InPass
  <2>3. ASSUME NEW w \in owed' PROVE Covered(w)'
    BY <1>9, <2>1, <2>2, <1>0 DEF LeavePass, WorkInv, Covered, StillAhead, InPass
  <2> QED BY <1>9, <2>1, <2>3, <1>0 DEF LeavePass, WorkInv, InPass
<1> QED BY <1>1, <1>2, <1>3, <1>4, <1>5, <1>6, <1>7, <1>8, <1>9 DEF ButlerThread

\* Every step preserves the inductive invariant.
LEMMA WorkStep == TypeOK /\ WorkInv /\ [Next]_vars => WorkInv'
<1> SUFFICES ASSUME TypeOK, WorkInv, [Next]_vars PROVE WorkInv'
  OBVIOUS
<1>1. CASE Process BY <1>1, ProcessInv
<1>2. CASE \E c \in Threads : Caller(c)
  <2>1. UNCHANGED workInvVars
    BY <1>2 DEF Caller, Ask, Wait, Leave, workInvVars
  <2> QED BY <2>1, WorkInvStutter
<1>3. CASE ButlerThread BY <1>3, ButlerInv
<1>4. CASE Join \/ UNCHANGED vars
  <2>1. UNCHANGED workInvVars
    BY <1>4 DEF Join, workInvVars
  <2> QED BY <2>1, WorkInvStutter
<1> QED BY <1>1, <1>2, <1>3, <1>4 DEF Next

\* Type correctness and the inductive invariant hold at every step.
THEOREM Invariance == Spec => []IInv
<1>1. Init => IInv
  BY InitInv
<1>2. IInv /\ [Next]_vars => IInv'
  BY TypeStep, WorkStep DEF IInv
<1> QED BY <1>1, <1>2, PTL DEF Spec

\* Every variable keeps to its type, whatever the number of streams and threads.
THEOREM TypeCorrect == Spec => []TypeOK
<1>1. IInv => TypeOK
  BY DEF IInv
<1> QED BY <1>1, Invariance, PTL

\* Work that is owed is always still to be counted, or has a pass to come, or is ahead
\* of the pass in progress: what keeps butler_transport_work() from passing it by.
THEOREM WorkCovered == Spec => []WorkInv
<1>1. IInv => WorkInv
  BY DEF IInv
<1> QED BY <1>1, Invariance, PTL

\* No flagged work is lost: the counter at zero (and no schedule call between its
\* flag and its count) means that all of it has been performed and no pass is running,
\* so that post_transport() may drop the flags.
THEOREM NoWorkLost == Spec => []NoLostWork
<1>1. IInv => NoLostWork
  BY DEF IInv, TypeOK, WorkInv, Covered, NoLostWork, InPass
<1> QED BY <1>1, Invariance, PTL

-----------------------------------------------------------------------------
(* The butler implements TransportWork.                                    *)

\* Every step of the handshake is a step of TransportWork, or changes nothing of it.
LEMMA StepImplements ==
  ASSUME TypeOK, WorkInv, [Next]_vars
  PROVE  [Promise!Next]_Promise!vars
<1> USE DEF Promise!Next, Promise!vars, TypeOK
<1>1. CASE UNCHANGED <<post_transport_work, owed, doing>>
  BY <1>1
<1>2. ASSUME NEW w \in Kinds, Mark(w) PROVE Promise!Flag(w)
  BY <1>2 DEF Mark, Promise!Flag
<1>3. CASE ProcessStart
  <2>1. CASE transport_work = 0
    <3>1. owed = {}
      BY <1>3, <2>1 DEF ProcessStart, WorkInv, Covered
    <3> QED BY <1>3, <2>1, <3>1 DEF ProcessStart, Promise!Collect
  <2>2. CASE transport_work # 0
    BY <1>3, <2>2 DEF ProcessStart
  <2> QED BY <2>1, <2>2
<1>4. CASE BeginStage
  BY <1>4 DEF BeginStage, Promise!Begin, WorkInv
<1>5. CASE Interrupted
  BY <1>5 DEF Interrupted, Promise!GiveUp
<1>6. CASE EndStage
  BY <1>6 DEF EndStage, Promise!Complete
<1>7. ASSUME ~UNCHANGED <<post_transport_work, owed, doing>>
      PROVE  \/ \E w \in Kinds : Mark(w)
             \/ ProcessStart \/ BeginStage \/ Interrupted \/ EndStage
  BY <1>7 DEF Next, Process, CountWork, SummonForWork, Roll, ProcessEnd, RemoveSession,
              TerminateButler, Caller, Ask, Wait, Leave, ButlerThread, Poll, ReadRequest,
              Drained, CheckWork, EnterPass, SkipStage, NextStream, LeavePass, RefillStream,
              EndRefill, FlushStream, EndFlush, FinishRound, Join
<1> QED BY <1>1, <1>2, <1>3, <1>4, <1>5, <1>6, <1>7

\* What is flagged stays flagged until it has been performed from beginning to end
\* after it was last flagged: butler and process thread together keep the promise.
THEOREM Implements == Spec => PromiseKept
<1>1. Init => Promise!Init
  BY DEF Init, Promise!Init
<1>2. IInv /\ [Next]_vars => [Promise!Next]_Promise!vars
  BY StepImplements DEF IInv
<1> QED BY <1>1, <1>2, Invariance, PTL DEF Spec, PromiseKept, Promise!Spec

-----------------------------------------------------------------------------
(* An export in freewheel: the process thread, which waits for the butler  *)
(* before every cycle, never gets three chunks ahead of it.                *)

\* Nothing but the export goes on, the disk can be read, and two requests fit the pipe.
Exporting ==
    /\ Kinds = {} /\ Callers = {} /\ Freewheel = TRUE /\ DiskFails = FALSE
    /\ PipeSize >= 2 /\ BufferChunks >= 3

\* Run is in the pipe.
RunComes == \E i \in DOMAIN pipe : pipe[i] = "Run"

\* The butler is in a round, behind the reading of its requests.
InRound == bpc \in {"check", "refill", "flush", "finish"}

\* This round's refill has come past the stream.
Refilled(s) == bpc \in {"flush", "finish"} \/ (bpc = "refill" /\ s < cursor)

\* No chunk behind when the process thread has its leave to roll, one afterwards.
Level(s) == playback[s] <= 1 /\ (cpc["process"] = "released" => playback[s] = 0)

\* Before the butler has been told to run nothing has been rolled, but for the cycle that
\* is about to tell it, and there is room in the pipe to do so.
Untold ==
    /\ \A s \in Streams : playback[s] <= 1 /\ (playback[s] # 0 => ppc = "rolled" /\ needs_butler)
    /\ Len(pipe) <= (IF cpc["process"] \in {"asking", "waiting"} THEN 1 ELSE 0)
                    + (IF InRound THEN 0 ELSE 1)

\* The process thread is at most two chunks ahead of the butler.
Paced ==
    /\ bpc # "exited" /\ \A i \in DOMAIN pipe : pipe[i] \in {"Wake", "Run"}
    /\ ppc = "rolled" => cpc["process"] = "idle"
    /\ cpc["process"] = "released" => \A s \in Streams : playback[s] <= 1
    /\ ~butler_should_run /\ ~RunComes => Untold
    /\ ~butler_should_run /\ InRound => \A s \in Streams : Level(s)
    /\ butler_should_run /\ ~disk_work_outstanding =>
          \A s \in Streams : Refilled(s) => Level(s)

ExportInv ==
    /\ transport_work = 0 /\ sched = "none"
    /\ bpc \notin {"entry", "stage", "perform"}
    /\ \A s \in Streams : playback[s] <= 2
    /\ ppc \notin {"gone", "joining"} => Paced

\* What the types say of an export.
Types ==
    /\ Threads = {"process"}
    /\ pipe \in Seq(Requests) /\ butler_should_run \in BOOLEAN
    /\ disk_work_outstanding \in BOOLEAN /\ needs_butler \in BOOLEAN
    /\ playback \in [Streams -> 0 .. BufferChunks] /\ cursor \in 1 .. NStreams + 1
    /\ NStreams \in Nat /\ BufferChunks \in Nat /\ PipeSize \in Nat
    /\ Streams = 1 .. NStreams
    /\ cpc \in [{"process"} -> {"idle", "asking", "waiting", "released"}]

LEMMA TypesHold == ASSUME Exporting, TypeOK PROVE Types
  BY NumbersAssumption, ThreadsAssumption DEF Exporting, TypeOK, Types, Threads, Streams

\* What a write leaves in the pipe.
LEMMA WrittenIs ==
  ASSUME Exporting, Types, NEW req \in Requests
  PROVE  /\ Len(pipe) < PipeSize => Len(Written(req)) = Len(pipe) + 1
                                    /\ Written(req)[Len(pipe) + 1] = req
                                    /\ \A i \in DOMAIN pipe : Written(req)[i] = pipe[i]
         /\ ~ (Len(pipe) < PipeSize) => Written(req) = pipe
         /\ Written(req) \in Seq(Requests)
  BY DEF Written, Types

LEMMA ExportInit == ASSUME Exporting, Init PROVE ExportInv
<1>1. TypeOK
  BY InitInv DEF IInv
<1>2. Types
  BY <1>1, TypesHold
<1>3. Paced
  BY <1>2 DEF Init, Types, Paced, Untold, Level, RunComes, InRound, Refilled
<1> QED BY <1>2, <1>3 DEF Init, ExportInv, Types

USE DEF vars, butlerVars, bufferVars, processVars, workVars, callerVars

\* The process thread.
LEMMA ExportProcess ==
  ASSUME Exporting, Types, Types', ExportInv, Process
  PROVE  ExportInv'
<1> USE DEF ExportInv
<1>1. \A w \in Kinds : FALSE
  BY DEF Exporting
<1>2. ~ CountWork /\ ~ SummonForWork
  BY DEF CountWork, SummonForWork
<1>3. CASE ProcessStart
  BY <1>3 DEF ProcessStart, Paced, Untold, Level, RunComes, InRound, Refilled
<1>4. CASE Roll
  <2>1. /\ ppc = "events" /\ ppc' = "rolled" /\ cpc["process"] = "released"
        /\ cpc' = [cpc EXCEPT !["process"] = "idle"]
        /\ needs_butler' = \E s \in Streams : playback'[s] > 0 \/ capture'[s] > 0
        /\ UNCHANGED <<pipe, butlerVars, sched, transport_work>>
    BY <1>4 DEF Roll, Types
  <2>2. \A s \in Streams : playback'[s] <= playback[s] + 1
    BY <1>4 DEF Roll, Types
  <2>3. cpc'["process"] = "idle"
    BY <2>1 DEF Types
  <2>4. Paced
    BY <2>1
  <2>5. \A s \in Streams : playback[s] \in Nat /\ playback'[s] \in Nat /\ playback[s] <= 1
    BY <2>1, <2>4 DEF Types, Paced
  <2>6. \A s \in Streams : playback'[s] # 0 => needs_butler'
    BY <2>1, <2>5
  <2>7. Paced'
    BY <2>1, <2>2, <2>3, <2>4, <2>5, <2>6
       DEF Paced, Untold, Level, RunComes, InRound, Refilled
  <2> QED BY <2>1, <2>2, <2>5, <2>7
<1>5. CASE ProcessEnd
  <2>1. /\ ppc \in {"events", "rolled"} /\ ppc' = "idle"
        /\ cpc["process"] \in {"idle", "released"}
        /\ pipe' = IF needs_butler THEN Written("Run") ELSE pipe
        /\ UNCHANGED <<butlerVars, bufferVars, sched, transport_work, cpc>>
    BY <1>5 DEF ProcessEnd, ProcessFree, Types
  <2>2. Paced
    BY <2>1
  <2>3. CASE ~ needs_butler
    <3>1. pipe' = pipe /\ (~butler_should_run /\ ~RunComes => Untold')
      BY <2>1, <2>2, <2>3 DEF Paced, Untold, InRound
    <3>2. Paced'
      BY <2>1, <2>2, <3>1 DEF Paced, Level, RunComes, InRound, Refilled
    <3> QED BY <2>1, <3>2
  <2>4. CASE needs_butler
    <3>1. "Run" \in Requests
      BY DEF Requests
    <3>2. CASE Len(pipe) < PipeSize
      <4>1. /\ pipe' \in Seq(Requests) /\ Len(pipe') = Len(pipe) + 1 /\ pipe'[Len(pipe) + 1] = "Run"
            /\ \A i \in DOMAIN pipe : pipe'[i] = pipe[i]
        BY <2>1, <2>4, <3>1, <3>2, WrittenIs
      <4>2. RunComes' /\ \A i \in DOMAIN pipe' : pipe'[i] \in {"Wake", "Run"}
        <5>1. /\ Len(pipe) \in Nat /\ DOMAIN pipe = 1 .. Len(pipe) /\ DOMAIN pipe' = 1 .. Len(pipe')
              /\ \A i \in DOMAIN pipe : pipe[i] \in {"Wake", "Run"}
          BY <2>2, <4>1 DEF Types, Paced
        <5>2. DOMAIN pipe' = DOMAIN pipe \cup {Len(pipe) + 1}
          BY <4>1, <5>1
        <5> QED BY <4>1, <5>1, <5>2 DEF RunComes
      <4>3. Paced'
        BY <2>1, <2>2, <4>2 DEF Paced, Level, InRound, Refilled
      <4> QED BY <2>1, <4>3
    <3>3. CASE ~ (Len(pipe) < PipeSize)
      <4>1. pipe' = pipe
        BY <2>1, <3>1, <3>3, WrittenIs
      <4>2. butler_should_run \/ RunComes
        BY <2>1, <2>2, <3>3 DEF Paced, Untold, Types, Exporting
      <4>3. Paced'
        BY <2>1, <2>2, <4>1, <4>2 DEF Paced, Level, RunComes, InRound, Refilled
      <4> QED BY <2>1, <4>3
    <3> QED BY <3>2, <3>3
  <2> QED BY <2>3, <2>4
<1>6. CASE RemoveSession
  BY <1>6 DEF RemoveSession
<1>7. CASE TerminateButler
  BY <1>7 DEF TerminateButler
<1> QED BY <1>1, <1>2, <1>3, <1>4, <1>5, <1>6, <1>7 DEF Process

\* The process thread asking for the butler, and waiting for it.
LEMMA ExportCaller ==
  ASSUME Exporting, Types, Types', ExportInv, NEW c \in Threads, Caller(c)
  PROVE  ExportInv'
<1> USE DEF ExportInv
<1>1. c = "process" /\ ~ Leave(c)
  BY DEF Types, Leave
<1>2. CASE Ask(c, "Wake")
  <2>1. /\ cpc["process"] = "idle" /\ ppc = "events" /\ Paced
        /\ cpc'["process"] = "asking" /\ pipe' = Written("Wake")
        /\ UNCHANGED <<butlerVars, bufferVars, processVars, transport_work>>
    BY <1>1, <1>2 DEF Ask, Types
  <2>2. "Wake" \in Requests
    BY DEF Requests
  <2>3. /\ pipe' \in Seq(Requests) /\ Len(pipe') <= Len(pipe) + 1
        /\ \A i \in DOMAIN pipe : i \in DOMAIN pipe' /\ pipe'[i] = pipe[i]
        /\ \A i \in DOMAIN pipe' : (i \in DOMAIN pipe /\ pipe'[i] = pipe[i]) \/ pipe'[i] = "Wake"
    <3>1. CASE Len(pipe) < PipeSize
      <4>1. /\ pipe' \in Seq(Requests) /\ Len(pipe') = Len(pipe) + 1
            /\ pipe'[Len(pipe) + 1] = "Wake" /\ \A i \in DOMAIN pipe : pipe'[i] = pipe[i]
        BY <2>1, <2>2, <3>1, WrittenIs
      <4>2. /\ Len(pipe) \in Nat /\ DOMAIN pipe = 1 .. Len(pipe) /\ DOMAIN pipe' = 1 .. Len(pipe')
        BY <4>1 DEF Types
      <4>3. DOMAIN pipe' = DOMAIN pipe \cup {Len(pipe) + 1}
        BY <4>1, <4>2
      <4> QED BY <4>1, <4>2, <4>3
    <3>2. CASE ~ (Len(pipe) < PipeSize)
      BY <2>1, <2>2, <3>2, WrittenIs DEF Types
    <3> QED BY <3>1, <3>2
  <2>4. (RunComes' <=> RunComes) /\ \A i \in DOMAIN pipe' : pipe'[i] \in {"Wake", "Run"}
    BY <2>1, <2>3 DEF RunComes, Paced
  <2>5. Untold => Untold'
    BY <2>1, <2>3 DEF Untold, InRound, Types
  <2>6. Paced'
    BY <2>1, <2>4, <2>5 DEF Paced, Level, InRound, Refilled
  <2> QED BY <2>1, <2>6
<1>3. CASE Wait(c)
  <2>1. /\ cpc["process"] = "asking" /\ cpc'["process"] = "waiting"
        /\ UNCHANGED <<pipe, butlerVars, bufferVars, processVars, transport_work>>
    BY <1>1, <1>3 DEF Wait, Types
  <2> QED BY <2>1 DEF Paced, Untold, Level, RunComes, InRound, Refilled
<1> QED BY <1>1, <1>2, <1>3 DEF Caller

\* The butler reading its requests.
LEMMA ExportRead ==
  ASSUME Exporting, Types, Types', ExportInv, Poll \/ ReadRequest \/ Drained \/ CheckWork
  PROVE  ExportInv'
<1> USE DEF ExportInv
<1>1. CASE Poll
  <2>1. /\ bpc = "poll" /\ bpc' = IF pipe # <<>> THEN "drain" ELSE "check"
        /\ UNCHANGED <<pipe, butler_should_run, disk_work_outstanding, cursor, bufferVars,
                       processVars, transport_work, cpc>>
    BY <1>1 DEF Poll
  <2>2. CASE ppc \notin {"gone", "joining"}
    <3>1. Paced /\ (pipe = <<>> => ~RunComes /\ Len(pipe) = 0)
      BY <2>2 DEF RunComes
    <3> QED BY <2>1, <2>2, <3>1
            DEF Paced, Untold, Level, RunComes, InRound, Refilled, Types
  <2> QED BY <2>1, <2>2
<1>2. CASE ReadRequest
  <2>1. /\ bpc = "drain" /\ pipe # <<>> /\ pipe' = Tail(pipe)
        /\ butler_should_run' = CASE Head(pipe) = "Run"   -> TRUE
                                  [] Head(pipe) = "Pause" -> FALSE
                                  [] OTHER                -> butler_should_run
        /\ bpc' = IF Head(pipe) = "Quit" THEN "exited" ELSE "drain"
        /\ UNCHANGED <<disk_work_outstanding, cursor, bufferVars, processVars,
                       transport_work, cpc>>
    BY <1>2 DEF ReadRequest
  <2>2. CASE ppc \in {"gone", "joining"}
    BY <2>1, <2>2
  <2>3. CASE ppc \notin {"gone", "joining"}
    <3>1. Paced
      BY <2>3
    <3>2. Len(pipe') = Len(pipe) - 1 /\ Len(pipe) \in Nat
          /\ DOMAIN pipe = 1 .. Len(pipe) /\ DOMAIN pipe' = 1 .. Len(pipe) - 1
          /\ Head(pipe) = pipe[1] /\ 1 \in DOMAIN pipe
          /\ \A i \in DOMAIN pipe' : pipe'[i] = pipe[i + 1] /\ i + 1 \in DOMAIN pipe
      BY <2>1 DEF Types
    <3>3. Head(pipe) \in {"Wake", "Run"} /\ \A i \in DOMAIN pipe' : pipe'[i] \in {"Wake", "Run"}
      BY <3>1, <3>2 DEF Paced
    <3>4. bpc' = "drain" /\ butler_should_run' = (butler_should_run \/ Head(pipe) = "Run")
      BY <2>1, <3>3 DEF Types
    <3>5. RunComes => RunComes' \/ butler_should_run'
      <4>1. \A i \in DOMAIN pipe : i = 1 \/ (i - 1 \in DOMAIN pipe' /\ pipe'[i - 1] = pipe[i])
        BY <3>2
      <4> QED BY <3>2, <3>4, <4>1 DEF RunComes
    <3>6. Untold => Untold'
      BY <2>1, <3>2, <3>4 DEF Untold, InRound, Types
    <3> QED BY <2>1, <2>3, <3>1, <3>3, <3>4, <3>5, <3>6
            DEF Paced, Level, InRound, Refilled
  <2> QED BY <2>2, <2>3
<1>3. CASE Drained
  <2>1. /\ bpc = "drain" /\ bpc' = "check" /\ pipe = <<>>
        /\ UNCHANGED <<pipe, butler_should_run, disk_work_outstanding, cursor, bufferVars,
                       processVars, transport_work, cpc>>
    BY <1>3 DEF Drained
  <2>2. CASE ppc \notin {"gone", "joining"}
    <3>1. Paced /\ ~RunComes /\ Len(pipe) = 0
      BY <2>1, <2>2 DEF RunComes
    <3> QED BY <2>1, <2>2, <3>1
            DEF Paced, Untold, Level, RunComes, InRound, Refilled, Types
  <2> QED BY <2>1, <2>2
<1>4. CASE CheckWork
  <2>1. /\ bpc = "check" /\ bpc' = "refill" /\ cursor' = 1
        /\ UNCHANGED <<pipe, butler_should_run, bufferVars, processVars, transport_work, cpc>>
    BY <1>4 DEF CheckWork
  <2>2. \A s \in Streams : ~ (s < cursor')
    BY <2>1 DEF Types
  <2> QED BY <2>1, <2>2 DEF Paced, Untold, Level, RunComes, InRound, Refilled
<1> QED BY <1>1, <1>2, <1>3, <1>4

\* The butler refilling: the streams behind it are level, or it will come again.
LEMMA ExportRefill ==
  ASSUME Exporting, Types, Types', ExportInv, RefillStream \/ EndRefill
  PROVE  ExportInv'
<1> USE DEF ExportInv
<1>1. CASE RefillStream
  <2>1. /\ bpc = "refill" /\ bpc' = bpc /\ butler_should_run /\ cursor \in Streams
        /\ cursor' = cursor + 1
        /\ UNCHANGED <<pipe, butler_should_run, processVars, transport_work, cpc>>
    BY <1>1 DEF RefillStream, KeepGoing, Types
  <2>2. /\ \A s \in Streams : s # cursor => playback'[s] = playback[s]
        /\ playback'[cursor] <= playback[cursor]
        /\ ~disk_work_outstanding' => ~disk_work_outstanding /\ playback'[cursor] = 0
    <3> DEFINE space == playback[cursor]
    <3>1. space \in Nat
      BY <2>1 DEF Types
    <3>2. CASE /\ playback' = [playback EXCEPT ![cursor] = IF space > 0 THEN space - 1 ELSE 0]
               /\ disk_work_outstanding' = (disk_work_outstanding \/ space >= 2)
      <4>1. playback'[cursor] = IF space > 0 THEN space - 1 ELSE 0
        BY <2>1, <3>2 DEF Types
      <4>2. \A s \in Streams : s # cursor => playback'[s] = playback[s]
        BY <2>1, <3>2 DEF Types
      <4>3. (IF space > 0 THEN space - 1 ELSE 0) <= space
            /\ (~ (space >= 2) => (IF space > 0 THEN space - 1 ELSE 0) = 0)
        <5> HIDE DEF space
        <5> QED BY <3>1
      <4>4. ~disk_work_outstanding' => ~disk_work_outstanding /\ ~ (space >= 2)
        BY <3>2
      <4> QED BY <4>1, <4>2, <4>3, <4>4
    <3>3. CASE /\ space > 0 /\ playback' = [playback EXCEPT ![cursor] = 0]
               /\ UNCHANGED disk_work_outstanding
      BY <2>1, <3>1, <3>3 DEF Types
    <3> QED BY <1>1, <3>2, <3>3 DEF RefillStream, Exporting
  <2>3. \A s \in Streams : playback[s] \in Nat /\ playback'[s] \in Nat
                           /\ playback'[s] <= playback[s]
    <3>1. \A s \in Streams : playback[s] \in Nat /\ playback'[s] \in Nat
      BY DEF Types
    <3> TAKE s \in Streams
    <3>2. CASE s = cursor
      BY <2>2, <3>1, <3>2
    <3>3. CASE s # cursor
      BY <2>2, <3>1, <3>3
    <3> QED BY <3>2, <3>3
  <2>4. \A s \in Streams : s < cursor' <=> s < cursor \/ s = cursor
    BY <2>1 DEF Types
  <2>5. \A s \in Streams : playback'[s] <= 2
    BY <2>3
  <2>6. CASE ppc \notin {"gone", "joining"}
    <3>1. Paced
      BY <2>6
    <3>2. cpc["process"] = "released" => \A s \in Streams : playback'[s] <= 1
      BY <2>3, <3>1 DEF Paced
    <3>3. ~disk_work_outstanding' => \A s \in Streams : Refilled(s)' => Level(s)'
      <4> SUFFICES ASSUME ~disk_work_outstanding', NEW s \in Streams, Refilled(s)'
                   PROVE  Level(s)'
        OBVIOUS
      <4>1. s < cursor \/ s = cursor
        BY <2>1, <2>4 DEF Refilled
      <4>2. CASE s = cursor
        BY <2>2, <4>2 DEF Level
      <4>3. CASE s # cursor
        <5>1. Level(s)
          BY <2>1, <2>2, <3>1, <4>1, <4>3 DEF Paced, Refilled
        <5> QED BY <2>1, <2>2, <4>3, <5>1 DEF Level
      <4> QED BY <4>2, <4>3
    <3> QED BY <2>1, <2>5, <3>1, <3>2, <3>3 DEF Paced, RunComes
  <2> QED BY <2>1, <2>5, <2>6
<1>2. CASE EndRefill
  <2>1. /\ bpc = "refill" /\ bpc' = "flush"
        /\ ~butler_should_run \/ cursor > NStreams
        /\ ~disk_work_outstanding' => ~disk_work_outstanding
        /\ UNCHANGED <<pipe, butler_should_run, bufferVars, processVars, transport_work, cpc>>
    BY <1>2 DEF EndRefill, KeepGoing, Types
  <2>2. butler_should_run => \A s \in Streams : s < cursor
    BY <2>1 DEF Types
  <2> QED BY <2>1, <2>2 DEF Paced, Untold, Level, RunComes, InRound, Refilled
<1> QED BY <1>1, <1>2

\* The butler flushing, and the end of its round: it lets the process thread go on when all
\* the streams are level, or before it has been told to run.
LEMMA ExportFinish ==
  ASSUME Exporting, Types, Types', ExportInv, FlushStream \/ EndFlush \/ FinishRound
  PROVE  ExportInv'
<1> USE DEF ExportInv
<1>1. CASE FlushStream
  <2>1. /\ bpc = "flush" /\ bpc' = bpc
        /\ ~disk_work_outstanding' => ~disk_work_outstanding
        /\ UNCHANGED <<pipe, butler_should_run, playback, processVars, transport_work, cpc>>
    BY <1>1 DEF FlushStream, Types
  <2> QED BY <2>1 DEF Paced, Untold, Level, RunComes, InRound, Refilled
<1>2. CASE EndFlush
  <2>1. /\ bpc = "flush" /\ bpc' = "finish"
        /\ ~disk_work_outstanding' => ~disk_work_outstanding
        /\ UNCHANGED <<pipe, butler_should_run, playback, processVars, transport_work, cpc>>
    BY <1>2 DEF EndFlush, Types
  <2> QED BY <2>1 DEF Paced, Untold, Level, RunComes, InRound, Refilled
<1>3. CASE FinishRound
  <2>1. /\ bpc = "finish" /\ bpc' = "poll"
        /\ UNCHANGED <<pipe, butler_should_run, disk_work_outstanding, playback, processVars,
                       transport_work>>
        /\ \/ cpc' = cpc
           \/ /\ cpc["process"] = "waiting" /\ cpc'["process"] = "released"
              /\ ~butler_should_run \/ ~disk_work_outstanding
    BY <1>3 DEF FinishRound, Types
  <2>2. CASE cpc' = cpc
    BY <2>1, <2>2 DEF Paced, Untold, Level, RunComes, InRound, Refilled
  <2>3. CASE /\ cpc["process"] = "waiting" /\ cpc'["process"] = "released"
             /\ ~butler_should_run \/ ~disk_work_outstanding
    <3>1. CASE ppc \notin {"gone", "joining"}
      <4>1. Paced
        BY <3>1
      <4>2. \A s \in Streams : playback[s] <= 1
        BY <2>1, <2>3, <4>1 DEF Paced, Level, InRound, Refilled
      <4>3. Untold => Untold'
        BY <2>1, <2>3 DEF Untold, InRound, Types
      <4> QED BY <2>1, <2>3, <3>1, <4>1, <4>2, <4>3 DEF Paced, RunComes, InRound, Refilled
    <3> QED BY <2>1, <3>1
  <2> QED BY <2>1, <2>2, <2>3
<1> QED BY <1>1, <1>2, <1>3

LEMMA ExportStep ==
  ASSUME Exporting, TypeOK, TypeOK', ExportInv, [Next]_vars
  PROVE  ExportInv'
<1>1. Types /\ Types'
  <2>1. Types
    BY TypesHold
  <2>2. Types'
    BY NumbersAssumption, ThreadsAssumption DEF Exporting, TypeOK, Types, Threads, Streams
  <2> QED BY <2>1, <2>2
<1>2. CASE Process
  BY <1>1, <1>2, ExportProcess
<1>3. ASSUME NEW c \in Threads, Caller(c) PROVE ExportInv'
  BY <1>1, <1>3, ExportCaller
<1>4. CASE ButlerThread
  <2>1. ~ (EnterPass \/ SkipStage \/ BeginStage \/ NextStream \/ Interrupted \/ EndStage \/ LeavePass)
    BY DEF ExportInv, EnterPass, SkipStage, BeginStage, NextStream, Interrupted, EndStage, LeavePass
  <2> QED BY <1>1, <1>4, <2>1, ExportRead, ExportRefill, ExportFinish DEF ButlerThread
<1>5. CASE UNCHANGED vars
  BY <1>5 DEF ExportInv, Paced, Untold, Level, RunComes, InRound, Refilled
<1> QED BY <1>2, <1>3, <1>4, <1>5 DEF Next, Join

\* The process thread never finds a playback buffer of three chunks or more empty.  The
\* butler gives leave (session_butler.cc:379) in a round that left every stream level, or
\* before it was told to run, when nothing has been rolled but for one cycle.  That round may
\* have come past a stream before the last chunk was taken from it, so two may be missing.
THEOREM ExportKeepsUp == ASSUME Exporting PROVE Spec => []ExportNeverOutruns
<1>1. Init => ExportInv
  BY ExportInit
<1>2. TypeOK /\ TypeOK' /\ ExportInv /\ [Next]_vars => ExportInv'
  BY ExportStep
<1>3. TypeOK /\ ExportInv => ExportNeverOutruns
  <2> SUFFICES ASSUME TypeOK, ExportInv, NEW s \in Streams PROVE playback[s] < BufferChunks
    BY DEF ExportNeverOutruns
  <2>1. Types
    BY TypesHold
  <2>2. playback[s] \in Nat /\ playback[s] <= 2 /\ BufferChunks \in Nat /\ BufferChunks >= 3
    BY <2>1 DEF Types, ExportInv, Exporting
  <2> QED BY <2>2
<1> QED BY <1>1, <1>2, <1>3, TypeCorrect, PTL DEF Spec
=============================================================================
