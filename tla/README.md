# Ardour: the session's transport, its events, its butler and its routes

A TLA+ development beside the Ardour sources (`src/`). It models the core that
every Ardour session runs on: how commands reach the process (audio) thread as
events, how the transport starts, stops, locates and loops, how the work
that the audio thread may not do is handed to the butler, the disk thread; the
list of routes that every cycle walks, its order and solo; the two lock-free structures
that the threads share, the ring buffer and the RCU manager; and the files that keep a
session, through saves by two threads, crashes and recovery.
TLC checks the models on small instances. TLAPS proves, for instances of any size, every safety
property of the handshake with the butler, the transport, the ring buffer, the RCU manager, the
files, the event queue and the routes.

All paths below without a directory are in `src/libs/ardour/`; headers in
`src/libs/ardour/ardour/`.

## 1. The system

### Threads

| thread | runs | may block |
|---|---|---|
| process thread | JACK's callback: `AudioEngine::process_callback` → `Session::process` | no; except a freewheeling export, which waits for the butler |
| butler | `Session::butler_thread_work` | yes: disk |
| GUI, control surfaces, MIDI input | requests (`request_stop`, `request_locate`, ...), edits, export start | yes |
| JACK's shutdown callback | `Session::engine_halted` | yes |

They share the members of `Session`; hardly any of it is under a lock. What holds
it together is protocol: ring buffers with one writer and one reader, RCU lists,
a few atomic integers, and the rule that only the process thread changes the
transport, which it suspends while the butler has transport work to do.

### Components

* **Butler** (`session_butler.cc`, `butler_transport_work` in
  `session_transport.cc`). State: the request pipe, `butler_should_run`, the
  counter `butler_should_do_transport_work`, the flags `post_transport_work`,
  `disk_work_outstanding`, the playback and capture buffers. Operations: schedule
  work, summon, pause, wait, terminate; a pass of transport work, a round of
  refilling and flushing. Hard: flags and counter are read by one thread while
  another changes them; a pass is given up and started again when the counter
  moves; requests are bytes in a non-blocking pipe; waiters are woken only at the
  end of a round. Correct when no flagged work is dropped or taken for done, the
  flags are eventually collected, waiters and the destructor come back, and an
  export does not outrun the disk.
* **Transport** (`session_transport.cc`). State: `_transport_frame`,
  `_transport_speed`, `transport_sub_state`, pending locate, `play_loop`, record
  status, `last_stop_frame`, `_requested_return_frame`. Hard: a stop and a locate
  wait for a declick, i.e. run a second time one segment later; a stop while
  recording first rolls on past the output latency; the butler moves the
  transport itself (auto return) while the process thread handles locates.
  Correct when stops stop, locates arrive, disk and playhead agree, a take has no
  gap and the session settles.
* **Process cycle** (`session_process.cc`). Takes up pending events and deferred
  ones, plays the cycle in segments that end at timed events, runs the events,
  stops at the session end. Hard: position, iterators and work flags change under
  the loop that uses them.
* **Session events** (`session_events.cc`). State: the list of timed events, the
  position `next_event` in it, deferred (immediate) events, the ring buffer of
  pending ones, the pool. Correct when the list is in order, `next_event` is the
  first that is due, single events are single and removing one leaves the others.
* **Freewheeling export** (`session_export.cc`): `process_export` waits for the
  butler before each cycle.
* **Record status** (`session.cc`): enabled, recording, disabled, from the GUI and
  from the transport.
* **Routes** (`session.cc`, `route.cc`, `route_group.h`). State: the list in an RCU
  manager, `fed_by` of each route, who is soloed, muted by solo and solo safe, the mix
  groups, `currently_soloing`. Operations: add, remove, connect, resort on JACK's
  callback, solo singly, all or by group. Hard: the list is sorted with a comparison
  that contradicts itself, over a closure that recurses through the connections; soloing a
  route switches others off, through their groups, by the calls that solo was made with.
  Correct when a route runs after those that feed it and the muted routes are those
  that solo says.
* **Ring buffers** (`pbd/ringbuffer.h`, `pbd/ringbufferNPT.h` in `src/libs/pbd`). State: two
  indices into an array, one slot of which stays empty. Operations: write and read in two parts
  where they wrap, or the vectors and increments with which the caller copies. One writer, one
  reader, no lock. Hard: each thread decides on the other's index as it was. Correct when the two
  never touch a slot at once, and what is read is what was written, in order, each item once.
* **RCU manager** (`pbd/rcu.h`). State: the pointer to the current `shared_ptr`, the dead wood,
  a lock for writers. Operations: `reader`, `write_copy`, `update`, `flush`. Holds the routes,
  the diskstreams, the channels, the engine's ports. Hard: readers take no lock at all, and old
  versions must die in the right thread. Correct when no change is lost, the dead wood does not
  grow and the process thread never frees a list.
* **Session state** (`session_state.cc`; `non_realtime_stop` in `session_transport.cc`; record
  enable in `session.cc`). State: the session file, its backup, the pending state and the
  temporary file; `Dirty`, `state_was_pending`, the record status. Operations: save, save as
  pending state, load, recover, close; the butler's saves after a take. Hard: two threads save
  without a lock through one temporary file, each operation on files can fail, and the program
  can die between any two. Correct when what is left can be loaded, the previous version is in
  the backup, clean means saved, and a take gets saved.
* **Diskstreams** (`audio_diskstream.cc`, `midi_diskstream.cc`): ring buffers
  between butler and process thread, capture. **Playlists, regions, sources,
  processors, IO, tempo, automation, MIDI model, slaves, import
  and export of files, control surfaces, user interface**: the rest of Ardour.

`PROJECT.json` lists every component with its status, and every hazard with the
properties that cover it or the reason why none does.

### How they interact

    request_*()  --event-->  pending_events  -->  merge_event / process_event
                                                   |  (process thread)
                               set flags, count work, write Run to the pipe
                                                   v
    butler: drain pipe -> pass over the flags -> refill, flush -> signal waiters
                                                   |
                        counter back to zero       v
    process(): post_transport() clears the flags, starts rolling if asked to

    butler: non_realtime_stop()  --take-->  save_state()  <--save, autosave--  GUI
    pending_events, the diskstreams' buffers:  RingBuffer, one writer and one reader
    routes, diskstreams, ports:  SerializedRCUManager, the process thread only reads

## 2. The modules

| module | models | state |
|---|---|---|
| `TransportWork` | what the session promises about `post_transport_work` (abstract) | flagged, owed, performing |
| `Butler` | the butler, the process thread's side of the handshake, waiting threads | pipe, flags, counter, program counters, buffers |
| `ButlerProofs` | proofs about `Butler` | |
| `MCButler` | small instances of `Butler` | |
| `EngineHalt` | `Butler` with `engine_halted()` | adds `halted` |
| `EventQueue` | the operations on the event queue, as operators | |
| `SessionEvents` | any sequence of these operations | the queue, `stale` |
| `EventQueueProofs` | lemmas about `EventQueue` and the sequences it works on | |
| `SessionEventsProofs` | proofs about `SessionEvents` | |
| `RouteGraph` | the resort of the routes, as operators | |
| `Routes` | the list of routes, connections and solo | list, `fedBy`, connections, solo, groups |
| `MCRoutes` | two tracks, a bus and the control outs; connections or solo | |
| `RoutesProofs` | proofs about `RouteGraph` and `Routes` | |
| `Transport` | the transport state machine, the cycle, the butler's half of stop and locate, the user | the session as a record `s`, its settings `conf`, program counters |
| `MCTransport` | four small sessions | |
| `TransportProofs` | proofs about `Transport` | |
| `Fifo` | what a ring buffer promises (abstract) | the queue |
| `RingIndex` | its index arithmetic, as operators | |
| `RingBuffer` | writer and reader | slots, indices, program counters |
| `RingBufferProofs` | proofs about `RingIndex` and `RingBuffer` | |
| `Rcu` | readers and writers of one list | pointers, dead wood, lock, contents of each version |
| `RcuProofs` | proofs about `Rcu` | |
| `SessionState` | the GUI and the butler saving; closing, crashing, loading, recovering | files, session, each thread's place in `save_state` |
| `SessionStateProofs` | proofs about `SessionState` | |

`Transport` and `SessionEvents` use `EventQueue`; `Routes` uses `RouteGraph`; `RingBuffer` uses
`RingIndex`. `Routes` has no
part in the other modules: the cycle calls the routes in the order of the list and asks no more.
`pending_events` in `Transport` and the chunks of `Butler` are queues because `RingBuffer` implements
`Fifo`; the list of `Routes` is one value because `Rcu` loses no change.
`SessionState` has the butler's stop, too, but as seen from the files. `Butler` and `Transport` look at
the same handshake from two sides: `Butler` has every step of it and treats the
work as opaque; `Transport` has what the work does and takes the handshake as a
counter that the butler reads and decrements.

### Butler

Actions correspond to the code between two accesses to shared state.
`schedule_butler_transport_work` is three steps: `Mark` (a handler ORs the flag),
`CountWork` (the atomic increment) and `SummonForWork` (the write). The butler's
loop is `Poll`, `ReadRequest`/`Drained`, `CheckWork`, then a pass: `EnterPass`,
for each flag `SkipStage` or `BeginStage` .. `EndStage`, inside the interruptible
ones `NextStream` and `Interrupted`, and `LeavePass`; then `RefillStream` /
`EndRefill`, `FlushStream` / `EndFlush` and `FinishRound`. Waiting is `Ask` (lock
and write), `Wait` (sleep, lock released), `Leave`. `RemoveSession`,
`TerminateButler` and `Join` are the destructor. Buffers are counts of chunks:
`do_refill` takes one chunk at a time and asks for another round if two were free.
`owed` and `doing` are history: the work flagged and not performed since, and the
part of it an execution in progress will settle. A write to a full pipe is lost,
as in the code.

Not in it: the butler's own `request_stop()` after a failed flush while recording,
inactive tracks, disk space, spurious wake-ups. Several flagging threads (see the
hazard at `session_butler.cc:132`) and the export thread's own pass are not modelled either.

### EventQueue and SessionEvents

The list is a sequence, `next_event` an index into it, `events.end()` the index
past its end. `list::sort` is stable, which `Inserted` and `Moved` keep to. Frame 0
means immediate. `SessionEvents` queues what the session queues (`Uses`), defers
events, lets the transport advance (which ends in `set_next_event`), and locates,
which leaves the queue `stale` until `post_transport()`.

### Transport

A handler in the code changes many members in a row without another thread
looking, except the butler; so a handler is an operator on the record `s`, and an
action is a stretch of the process thread between two points at which the butler
or the user may interleave: one event, one segment, the start of the cycle. The
butler's pass is in the steps that matter (`NonRealtimeLocate`, `NonRealtimeStop`
deciding to return, `Return`, `Seek`, `FinishStop`, `LeavePass`). The user queues
requests at any moment. `maybe_enable_record()` is three steps.

Time is in frames `0..MaxFrames`, with the code's saturation in
`increment_transport_position` and its unsigned wrap elsewhere. `disk` is the
diskstreams' playback position. A deferred event that was in the list is freed and
read later: the model assumes that the pool has not reused the item yet. An
iterator that has lost its event reads as the event it was or as none.

What can be set for a session and does not change while it runs is in `conf`: the latency, auto
return, punch in and out, the loop and punch ranges; with it go the requests that are of interest
there. Initially it is any of `Confs`. Fixed options: no slave (hence no JACK transport), speeds 0
and 1, no seamless loop, no auto play. The event types are those of the transport; play ranges and
audition are not modelled.

`goal` is history: what the last command that did something asks for.

### RouteGraph and Routes

`TraceTerminal` is the recursion of `trace_terminal()`, with the depth at which it
must have met a route twice with nothing learnt since (`MaxDepth`): beyond it the code
does not return, and `running` becomes false. `fed_by` is a `std::set` of pointers:
`Address` is its order. As `RouteSorter` is not a strict weak order the result of
`std::list::sort` depends on its algorithm, which `ListSort` and `ListMerge` follow.
Ports are abstracted to pairs of routes (`wires`) and the control outs to the routes
that have them (`outs`). JACK's graph order callback comes some time after the connections
changed (`reordered`).

The operators on solo take the record `solo` through the calls of one operation:
`Set` is `Route::set_solo` from the user, `SetOne` the same for a member of the group it was
passed on to, `Unsolo` what it does while `solo_update_disabled`. Each operation is one
action: solo belongs to the user's thread, and the list is changed under the lock of its
RCU manager; `Rcu` shows that a walk over the list keeps the version it began with.
`remove_route()` computes solo over the list that still has the route.

The order of the list and solo share no variable but the list itself, so `EitherSpec` of `MCRoutes`
decides at the start whether routes are connected or soloed; adding and removing are in both.

### RingBuffer and RingIndex

`BeginWrite` is the look at the two indices, `CopyIn` and `CopyInWrapped` the two copies, `EndWrite`
the atomic store of the index; `BeginRead` .. `EndRead` likewise. A copy is one step: what a
copy of several items could do wrong with the other thread looking on, touch a slot that the other
touches, is `NoSlotShared`. `get_write_vector()` with the caller's copying and
`increment_write_idx()` are the same steps. `RingBufferNPT` has the same code with a size that is
no power of two and a comparison for the mask, so `Size` is any number from 2. The refinement maps
the slots between the indices to the queue of `Fifo`.

### Rcu

A version of the list is a number, made by `Copy`, and its contents the set of changes in it.
`rcu_value` points to a `shared_ptr` on the heap; the numbers in `heap` are those not yet deleted.
`write_copy()` is `Begin`, `Clean`, `Copy`; `update()` is `Swap`, `Bury`, `Delete`, `Unlock`.
`reader()` is two steps, the load of the pointer and the copy of the `shared_ptr` at it; between
them a writer may delete the latter (hazard at `rcu.h:39`), and then the reader comes away with the
version or with nothing. `done` and `cut` are history: the changes whose writers are through, and
the versions whose dead wood `flush()` threw away in use or not.

### SessionState

A revision stands for the contents of a session. `save_state()` is `Call` (the refusals, and the
tree made), `OpenBackup` and `CopyBackup`, `OpenTmp` and `WriteTmp`, `Rename`, `ClearDirty`; each
step on a file may fail (`FailTmp` and the second disjuncts). A file that was truncated and not yet filled
is `Broken`; so is one into which two threads wrote (`shared`). The backup can also hold the `Beginning` of a
revision: `copy_file()` tests its streams right after `out << in.rdbuf()`, which fails only when nothing could be
copied, and the rest is flushed when the stream is destroyed, where nobody sees an error (`src/libs/pbd/filesystem.cc:164`). When the disk fills
up on the way, `CopyBackup` therefore leaves a part, or nothing, and goes on. A rename or removal
under an open file leaves the writer in the file, wherever that went (`Renamed`). The butler's part
of a stop is `MakeTake`, `PendTake`, `DropPending`, `SaveTake`. A crash is one of the program: `Crash`
forgets the memory and keeps the files, and so does quitting without asking (the user interface's
`finish()` after the question). `Load` chooses the pending state when the user agrees to.

`mishaps` is history: two threads in `save_state()` at once, a change under a save, a
recovered session whose save failed. The code makes no provision for them; each property names
those after which it does not hold. After an overlap no property says anything more, and the
other two are no longer kept track of.

## 3. The runs

| run | instance | shows |
|---|---|---|
| `work` | four kinds of work, one of each sort: interruptible, not, skipped for a locate, not holding up the process thread; counter to 2; one stream; pipe of 2; disk fails; 1.6M states | types, `WorkInv`, `NoLostWork`, refinement of `TransportWork` |
| `freewheel` | two streams, buffers of 3 chunks, process thread waits | `ExportNeverOutruns`, `ExportAdvances` |
| `live` | one kind of work, one waiting thread, disk fails | `WorkCollected`, `CallerReturns`, `Terminates` |
| `halt` | two kinds of work, one halting thread | violation, see 6 |
| `events` | 3 types (two of them single), frames 0..3, three events, one deferred | order, `NextIsFirstDue`, `OneOfEach`, `OtherTypesAlone` |
| `transport` | 8 frames, block 2, session end 6; the sessions `Plain` (play, stop, locate, locate and roll; 4 requests), `Looping` (loop 1..4, record enable; 4 requests), `Punching` (latency 3 over block 2, punch at 1 and 4, auto return, requested return, bounded rolls; 3 requests); 1.4M states | all of Transport's properties |
| `autostop` | `Bounded`: latency 3 over block 2, no punch | violation, see 6 |
| `routes` | four routes; either connections with loops of two and three, or solo with one route solo safe at times and one group of two tracks; 86,000 states | `FedByIsClosure`, `SinkLast`, `LongLoopsOnly`, solo's properties, types |
| `ring` | four slots, two values, reads and writes of up to three; 140,000 states | `NoSlotShared`, refinement of `Fifo` |
| `save` | three revisions, failing disks, crashes; 5.2M states | `FilesWhole`, `BackupOfPrevious`, `CleanMeansSaved`, `TakeSaved` |
| `recovery` | as `save` without failures | violation, see 6 |
| `rcu` | two readers, two writers, versions 0..5; 360,000 states | `NoLostUpdate`, `DeadWoodBounded`, `ReadersNeverFree` |

**Bounds.** `MaxWork` (2): a count of two is the shortest in which a pass is
interrupted by work that has yet another pass to come; the proof holds for every
bound. One stream suffices for interruption, as the look at the counter follows
every stream; two are used where streams can be at different levels. `PipeSize` 2 lets the
pipe overflow. Event queues of three are the smallest with one event before,
one at and one behind `next_event`. `MaxFrames`, `Block`: cycles that end before,
on and after an event, the session end and the largest frame. Requests: three or four, so
that one can meet the declick and another the butler's pass of an earlier one. Four routes: a
loop of three beside a route that it feeds, a bus with two tracks and a route that all feed.
Connections and solo meet only in the order of the list, so no session has both, which would multiply
the states without new cases of solo.
`Size` 4: from each index, reads and writes that end before, at and after the end of the array; three
items fill the buffer. `MaxVersion` 5: both writers can publish while each reader has hold of an
older version, and one of them twice. `MaxRev` 3: the saved revision, one that is edited and one of a take, in any order.

**Fairness.** In `Butler`: the scheduler runs the butler and woken threads, JACK
keeps calling `process()` and a callback once begun is carried through (weak
fairness of `ProcessStart`, `ProcessEnd`, `CountWork`, `SummonForWork`). `Mark` and
`Roll` are not fair: nobody has to press a button. `Terminates` assumes that the pipe
is never full, because a lost Quit is never sent again. In `Transport`: the process
thread and the butler; it is written out (`[]<><<Process>>_vars`, ...) because both
are enabled in states that are easy to name. `EngineHalt`: the butler and the
halting thread.

`MCEngineHalt.cfg` does not check for deadlock: after `engine_halted()` nothing more has to happen. Nor does
`MCRoutes.cfg`: an endless recursion ends the program.

## 4. What is proved

### The handshake

In `ButlerProofs`, for every `Kinds`, `NStreams`, `BufferChunks`, `PipeSize`, `MaxWork`,
`Callers`, and both values of `Freewheel` and `DiskFails`, from the assumptions
`KindsAssumption`, `NumbersAssumption` and `ThreadsAssumption` alone:

* `TypeCorrect`: `Spec => []TypeOK`; the counter stays at or above zero.
* `WorkCovered`: `Spec => []WorkInv`.
* `NoWorkLost`: `Spec => []NoLostWork`.
* `Implements`: `Spec => PromiseKept`, the refinement of `TransportWork`.

`NoLostWork` is not inductive: it says what holds when the counter is zero, and
nothing about how it gets there. `WorkInv` says for each owed kind of work that it is
`Covered`: it is flagged and about to be counted, or two or more passes are
outstanding, so that one is still to come after the pass in progress, or one is and
the pass has not gone by its stage. The other parts keep the counter above zero during a
pass and at or above the value the pass started with; without it a pass could be interrupted down to
zero. The counter's lower bound in `TypeOK` needs `WorkInv` and `WorkInv` needs the types, so
they are proved together (`IInv`): `InitInv`, `TypeStep`, `WorkStep`, then temporal
reasoning in `Invariance`. `Implements` maps each step to a step of
`TransportWork` or a stutter: `Mark` flags, `BeginStage` begins, `EndStage` completes,
`Interrupted` gives up and `ProcessStart` collects; that last one uses `NoLostWork`.

The proof shows what `engine_halted()` breaks: setting the counter to zero
during a pass falsifies the first conjunct of `WorkInv`.

### The ring buffer

In `RingBufferProofs`, for every `Size` from 2, any `Values` and every `MaxCount`, from
`SizeAssumption` and `MaxCountAssumption`:

* `SlotsApart`: `Spec => []NoSlotShared`.
* `Implements`: `Spec => Fifo`.

The inductive invariant is `TypeOK /\ Shares /\ Copied /\ Fetched`. `Shares`: a thread's count is
within the space the indices leave, which stays true while the other sets its index, because
that only ever gives room. `Copied`: at each step of the writer the slots it has filled hold the items of its
source; this is what makes the store of the index a `Put` of exactly these. `Fetched`: what the reader
has copied is the head of the contents. The lemmas `MaskedOnce`, `Spaces` and `Parts` do the index
arithmetic, where the mask is `%`: a sum of index and count is masked at most once.

### The RCU manager

In `RcuProofs`, for any readers, writers and number of versions:

* `UpdatesKept`: `Spec => []NoLostUpdate`.
* `ReadersOnlyRead`: `Spec => ReadersNeverFree`.
* `DeadWoodStaysBounded`: `Spec => []DeadWoodBounded`, from `ThreadsAssumption` (there are finitely many threads).

The argument for the first is `Serial` (a busy writer has the lock) with `Copied`: what a writer
that holds the lock will publish has the changes of the version that is current. `Kept` is the
second: a version that a reader holds is current, or in the dead wood, or a writer has just replaced it and is about to bury
it, or `flush()` let go of it. The third counts: of the versions that stay when a
writer cleans out, each is held by some other thread, and the writer adds one. That the heap holds nothing else that counts as a use
(`HeapIsCurrent`) and that what is current is not in the dead wood (`Dead`) goes with it. The bound does not depend on the number of versions.

### The files

For any number of revisions, with or without failing disks, in `SessionStateProofs`:

* `Loadable`: `Spec => []FilesWhole`.
* `BackedUp`: `Spec => BackupOfPrevious`.

Both hold as long as two threads are not in `save_state()` at once. The inductive invariant is types
(`Typed`), `Numbered` (revisions are no greater than the latest, and there is one left for a take under way) and, without an overlap,
`OneSaver` (one thread is in `save_state()`; when it renames, the temporary file is whole; when
it has passed the backup of a proper save, the backup holds the session file, or if disks may fail the beginning of it) and `SafeFiles`. `BackedUp`
needs that only `Rename` changes the session file (`OnlyRename`).

With more to that invariant:

* `TypeCorrect`: `Spec => []TypeOK`.
* `CleanIsSaved`: `Spec => []CleanMeansSaved`.
* `TakesAreSaved`: `Spec => []TakeSaved`.

`Ordered` numbers revisions as they are made, and `Linked` says who is in `save_state()` and what for: the butler's
own `saved` and `did_record` agree with the call it is in. `InFile` has to speak of the session while it is being loaded and of a
save between its rename and its return, because `Dirty` is cleared last. `TakeKept` follows the take: until the butler
is `Settled` it is in the tree that the butler saves; from then on it is in the session file and in whatever tree the GUI is
about to put there.

### The routes

In `RoutesProofs`, for any finite set of routes, whatever their order keys and addresses, any
connections that may be made, with or without feedback, and any mix groups:

* `TypeCorrect`: `Spec => []TypeOK`.
* `FedByClosed`: `Spec => []FedByIsClosure`. `OnlyLongLoops`: `Spec => []LongLoopsOnly`.
* `SinkComesLast`: `Spec => SinkLast`.
* `SoloLightRight`: `Spec => SoloingShown`. `SoloingMutes`: `Spec => SoloMutes`.
* `SoloingExcludes`: `Spec => SoloExclusive`. `LatchingKeeps`: `Spec => LatchKeeps`.
  `GroupsSoloTogether`: `Spec => GroupSolosTogether`.

They rest on `RoutesAssumption` (there is one master out and one control outs at most) and
`GraphAssumption` (the routes are finitely many and each has a place in memory).

All loops of the code are folds (`Folded`). A fold is reasoned about through the sequence of values it goes
through (`FoldedSteps`), by induction on its length; the induction is about a set of numbers
(`Upwards`) and comes from the least element of a set (`LeastOf`). `FoldedStays` is the rule
that most loops need: a set of states that each element leaves one in.

The resort first. `TraceFinds` follows `trace_terminal()` by induction on the room that is left on the
stack. A call for a route calls itself for the routes that feed it, except for one it feeds in turn. The measure
is the `Rank` of the route called: twice the number of routes above it (upstream of it and not downstream), and one more
when it is known to be in a loop of two. It falls from each call to the next below that for `rbase` as long as there is
no long loop (`RankFalls`), and is less than `MaxDepth` (`RankBounded`), so no call runs out of room
(`RoomLeft`). What a call marks is upstream of `rbase` (`MarkedMore`), and when it has come back and there is no feedback,
all that is upstream has been marked (`CallFinds`). `Upstream` is defined without paths, as the least set closed under
the connections. `SortArranged` follows `list::sort` through its bins (`CarryArranged`,
`OntoArranged`, `MergeArranged`): bins are disjoint, keep every route once, and have the
route that all others go ahead of at their end. This needs no more of `RouteSorter` than its answers
about that one route, so it holds although the comparison is not transitive.

The steps then need two facts more. `ControlKept`: a session in which routes have control outs has the control outs, so a
new route that is not connected to them leaves the connections alone. `SpecialHeard`: the master and the control outs are never
muted. `IInv` is both with `TypeOK`, and `Ordered` adds `FedByIsClosure` and
`LongLoopsOnly` themselves.

Solo: `MembersAre` and `TogetherIs` say whom `set_solo()` goes to, and that soloing a route switches off no member
of its own group. `During` has the states an operation may have come to: what it began with, or a state left by the
last route that was switched, whose kind decides who is muted (`SetDuring`). `SetExclusive`
goes through the members of the group: until the route itself has had its turn it is not soloed, from then on the
others are off. `SetAsOne` does a route's own group member by member, and any other group is either left alone or
switched off as a whole.

TLC checked `IInv` on the instance of the run `routes` ahead of the proof (86,030 states); the run keeps only `TypeOK`
of it.

### The export

In `ButlerProofs`, for any number of diskstreams, from the assumptions of `Butler` and `Exporting` (no transport
work, no other waiting thread, the disk can be read, `PipeSize` from 2, `BufferChunks` from 3):

* `ExportKeepsUp`: `Spec => []ExportNeverOutruns`.

The bound is two chunks behind, and it is met. In `ExportInv`, `Level` is what a stream is that the butler has come
past in its round, unless that round leaves disk work outstanding; then the butler keeps the process thread waiting.
`Untold` covers the beginning, when `wait_till_butler_finished()` has written only Wake, on which the
butler does not refill: as soon as something is rolled, Run finds room in the pipe. With
a pipe of one byte that fails, and TLC finds the state, too. The types come from `TypeCorrect`.

### The event queue

In `EventQueueProofs` and `SessionEventsProofs`, for any `Types`, `Frames`, `MaxEvents` and `MaxImm`, from
`FramesAssumption` and `MaxEventsAssumption`:

* `QueueTyped`: `Spec => []TypeOK`.
* `QueueOrdered`: `Spec => []Ordered`.
* `NextFirstDue`: `Spec => []NextIsFirstDue`.
* `QueueOnce`: `Spec => []OneOfEach`.
* `OthersLeftAlone`: `Spec => OtherTypesAlone`.

The first four need each other and two stronger facts. `set_next_event()` goes back to the start of the list
only when `next_event` is past the transport; it finds the first due event from anywhere else because
`StartsRun` holds even after a locate: all the events before `next_event` are earlier than it, not
merely no later. `Once` says of all the types that the session replaces (`Alone`, which follows from
`Uses`) what `OneOfEach` says of two: `_replace_event()` changes the first event of the type only. The
inductive invariant is `Queue` (types, `InOrder`, `Once`, `StartsRun`), `FirstDue` unless `stale`, and the
bounds. There is a lemma for each operation of `EventQueue`. They rest on the lemmas of `EventQueueProofs`, what inserting,
deleting and filtering do to a sequence, at every index (`SplicedAt`, `WithoutAt`, `ChosenAt`). `Chosen`
filters by a set of indices, as theorems about `SelectSeq` would need an operator for a parameter.
Its induction on the length, `Induction`, is about a set of numbers for the same
reason, and comes from the well-foundedness of `<`. The fifth is about the rest of a list, what it has of other types than one:
the rest of two lists joined is the rests joined (`RestOfBoth`), so an event put in or taken out anywhere, by whichever frame it was looked up,
leaves the rest for its own type as it was.

### The transport

In `TransportProofs`, for any `MaxFrames`, `Block`, end of the session, set of settings and number of requests, from
`FramesAssumption`, `OptionsAssumption` and `ConfAssumption`:

* `TypeCorrect`: `Spec => []TypeOK`.
* `StopsWhenTold`: `Spec => []StopHonoured`.
* `RestsWhereTold`: `Spec => []LocateArrives`.
* `RestsInSync`: `Spec => []AtRestInSync`.
* `ShowsWhatPlays`: `Spec => []PlaysWhatItShows`.
* `TakesGoOn`: `Spec => TakesContinuous`.

None of these is inductive. `IInv` has six parts:

* `Sound`: types, and how flags and counter go together. Work is flagged while the counter is up; a rolling transport has no stop among its
  work; a transport at rest waits for no declick; with punch in no work is flagged while recording.
* `OnWay`: a transport told to stop has stopped, or is `Stopping` (a stop is among the deferred events, or its declick or its
  pending capture is under way); one told to go somewhere is there, or `Nearing` it. These are the forms of `StopHonoured` and
  `LocateArrives` that a step in the middle of a state change preserves: a stop may be deferred by a locate, whose declick may take
  the place of the stop's, and every such step has to leave one of the signs.
* `Walk`: what `process_with_events()` knows as it goes through a cycle. A segment is played with no work flagged, up to the
  end of the cycle at most.
* `Pass`: the butler is never ahead of the counter, and the parts of its pass that move the transport or the
  diskstreams happen only when a stop was flagged.
* `InSync`: when no seek of the diskstreams is to come (`Synced`: nothing counted, or the butler is beyond it in the last
  pass there is), they are where a resting transport is, and where a rolling one is but for the fade ahead of a locate (`Faded`).

The handlers are operators from one record of the session to the next, and an action is a composition of them:
an event that is merged, deferred or run may locate, stop, clear events and run or queue others. So the proof has a lemma for each handler, of one form:
`Keeps(t, r, g)`. The result `r` is `Sound`; the handler was `Steady`, that is, it left the diskstreams alone and,
if it moved or stopped the transport, it scheduled work or began a fade; and it `Heads` for the goal `g` that the event
sets. `SteadyTwice` composes them. What each action does to `Walk`, `Pass` and `InSync` follows from `Steady` alone,
whichever events it ran. `TakesGoOn` is a case for each action: `Sound` leaves the butler nothing to do while a take goes on.

`IInv` holds on the instance of the run `transport`, too, where TLC checked it ahead of the proof; no run keeps it.

## 5. What is only checked

Liveness is out of the prover's reach and is left to TLC on the instances above (`ExportAdvances`, `WorkCollected`,
`CallerReturns`, `Terminates`, `Settles`). Every other property of a passing run is the statement of a theorem. None of the
modules uses a RECURSIVE operator. Inductions, over the length of a list, the elements of a fold or the calls on a stack, are
about a set of numbers, because the library's theorems on induction take an operator, which the provers cannot instantiate.

A theorem proves its property as it is stated, and so do the runs, with the exceptions that the property names. These are the cases
in which what one would expect does not hold:

`TakesContinuous` is checked with punch in in force. Without it `maybe_enable_record()` may start
recording after the transport it looked at has stopped (`session.cc:1154`), and the
butler's seek then happens under a recording at rest. `LocateArrives` does not speak of sessions with
auto return: there the butler may overwrite a locate that the process thread handles
between the butler's look at the flags and its assignment (`session_transport.cc:414`). Nor does it speak of sessions with
a requested return, which the butler assigns in the same place.
The proof of `PlaysWhatItShows` failed at first at the segment before a locate: when recording begins during that
fade, `locate()` refuses the locate that comes after it (`session_transport.cc:681`), with the position
already assigned (695). The transport then rolls on from the target while the diskstreams go on where they were.
`PlaysWhatItShows` is therefore kept to sessions in which nothing records.
`StopHonoured` does not speak of sessions with a loop: a stop whose declick ends exactly at the loop's end
meets the loop event, which is deferred, and locates and rolls when the stop is done
(`session_events.cc:311`, `325`).
No document of the code says what should happen in these cases; they are listed as hazards.

`PlaysWhatItShows` is checked with no timed event inside a cycle: with a punch range of 1 to 4
and a block of 4 TLC finds it violated, because `frames_moved` is stale in the segment after the
event (`session_process.cc:389`). For the same reason `Settles` excepts sessions with a punch range, on whose
ends the playhead can stand still, and bounded rolls, whose stop may get lost (the finding `autostop`).

`SoloMutes` is checked while only audio tracks or only busses are soloed. `route_solo_changed()`
looks at the first soloed route of the list only: with a bus soloed ahead of it, a track that is
soloed mutes itself and unmutes the others (`session.cc:2181`). It also takes a MIDI track for a
bus, so soloing one mutes nothing. `SinkLast` is about a route that all others feed, when there is no feedback and the graph
order callback has been delivered. It was stated of every resort at first, and both restrictions came with the proof. `add_routes()`
sorts the list before it gives the new route its control outs (`session.cc:1957`, `1988`), so
the control outs may come ahead of the route until the callback. Where two routes feed each other, `trace_terminal()`
does not look past them: with the connections e to d, d to a, a to b and back, and b to z, and z made
before the others, the list e, d, a, b, z is resorted to z, e, d, a, b. For other routes the list can be out of order: `RouteSorter` contradicts itself for a route with inputs and one
without, and a resort of a list that was right can put a bus in front of the track that feeds it; the next resort
puts it back (`session.cc:1361`). `LongLoopsOnly` says when the recursion of `trace_terminal()`
may fail to return: three routes in a circle, feeding a route that is ahead of them in the list.

`BackupOfPrevious` is not what `save_state()` sets out to do, "make a backup copy of the old file"
(`session_state.cc:708`) and no save without one (711): that holds while no disk fails. When the disk
fills up under the backup, the copy is cut short unnoticed, and if the temporary file can then be written, because others
have freed some space, the session file is replaced with only the beginning of it in the backup (an edit and a save, with
`MaxRev` 2 and `DiskFails`, are enough for TLC to get there). What is left then is that the new file is whole
(`FilesWhole`), that the backup is not of an older one, and that a copy that is seen to fail, with nothing copied or a file that could not
be opened, stops the save.

The properties of `SessionState` hold but for the mishaps named above, and `TakeSaved` but for one more case: after a
stop that came with a locate while record enable was latched, the take is saved as pending
state, which is removed at once, and is not in the session file (`session_transport.cc:485`).

## 6. Findings

* `halt`: `engine_halted()` resets the counter while the butler may be in its
  pass; the counter goes below zero and `stop_butler()` does not return
  (`session_transport.cc:1287`).
* `autostop`: a bounded roll that records with a latency beyond the block clears the delayed stop that it has
  just queued, and rolls on (`session_events.cc:388`).
* `recovery`: the pending state is not removed by a proper save, so after a crash the recovery, offered as the
  default, may go back behind the session file and then overwrite it (`session_state.cc:742`).

Each is a state TLC reaches in a few steps, and the traces are
short enough to read against the code.

## 7. Not modelled

* **Slaves and varispeed** (`*_slave.cc`, `follow_slave`): the chase is arithmetic in floating point. MTC's `SafeTime` (two guards
  around a time, read until they agree) rests on the order of plain stores, which the code leaves to the compiler.
* **The pool of events.** 512 items, handed out round robin through a ring buffer. What a deferred event that was freed reads as, and
  that events refused as duplicates are never given back, need the ownership of each item followed through
  lists of 512; `Transport` assumes that the pool has not come round. Both are hazards without a property.
* **MIDI and control surfaces**: their threads make the requests that `Transport` has from the user. More than one of them at
  a time on `pending_events` is a hazard (`session_events.cc:119`): two writers are outside what a ring buffer promises.
* **Diskstreams**: the alignment of capture to latency, playlists and regions made of a take, the mix of
  seek and overwrite. Their buffers and positions are in `Butler`, `RingBuffer` and `Transport`.
* **Session state**: the history file (its failure is not reported), renaming and removing snapshots and saving under another name (which
  change no file of the current snapshot), the contents of the XML.
* **Locations that move** while the transport rolls, play ranges and audition; several threads that flag work in `Butler`, and the
  export thread that performs it itself.
* **Routes**: gain, mute, processors, sends; the deferred control outs.
* Signal processing, tempo map, automation, file formats, plugin hosting, the user interface, vendored libraries: numbers in
  floating point, data structures of one thread, or input and output.
