---------------------------- MODULE SessionState ----------------------------
(***************************************************************************)
(* The files that keep a session: save_state() and load_state(), the       *)
(* pending state written beside a session that is dirty or recording, and  *)
(* what a crash leaves of them (libs/ardour/session_state.cc).             *)
(*                                                                         *)
(* A session is its revision: an edit or a take makes a new one, and a     *)
(* file holds one revision from beginning to end, the beginning of one, or *)
(* something else that cannot be read.  Two threads save, without a lock between them: the GUI and,   *)
(* when the transport has stopped, the butler.  A crash is a crash of the  *)
(* program: what it has written to its files stays.                        *)
(***************************************************************************)
EXTENDS Integers

CONSTANTS
    MaxRev,       \* bound: revisions of the session
    DiskFails     \* TRUE: opening, writing or copying may fail, or the engine be gone

ASSUME MaxRevAssumption == MaxRev \in Nat \ {0}
ASSUME DiskFailsAssumption == DiskFails \in BOOLEAN

Savers == {"gui", "butler"}

\* <snapshot>.ardour, its .bak, <snapshot>.pending and <snapshot>.tmp.
Names == {"state", "bak", "pending", "tmp"}

Absent == 0
Broken == -1
Revisions == 1 .. MaxRev

\* A copy that ended early: so much of a revision as the disk took, or nothing.
Beginning(content) == IF content \in Revisions THEN -1 - content ELSE Broken
Contents == {Absent, Broken} \cup Revisions \cup {Beginning(r) : r \in Revisions}

VARIABLES
    files,          \* what each of the files holds
    phase,          \* of the session: "down", "loading", "up", "closing"
    rev, dirty,     \* the session in memory, and Dirty of _state_of_the_state
    latest,         \* the last revision anybody made
    was_pending,    \* state_was_pending
    record_status,
    captured,       \* frames have been captured that are no region yet
    saver,          \* where each thread is in save_state()
    stopping,       \* where the butler is in non_realtime_stop()
    take,           \* history: the revision of the last take, or 0 if it has to be given up
    mishaps         \* history: what happened that the code makes no provision for

session == <<phase, rev, dirty, latest, was_pending>>
transport == <<record_status, captured, stopping, take>>
vars == <<files, session, transport, saver, mishaps>>

\* A thread at pc in save_state() with a tree: the file it has open and whether another
\* has opened it too, what it will return, and what its caller will do then.
Saver(pc, pending, tree, then) ==
    [pc |-> pc, pending |-> pending, tree |-> tree, file |-> "none", shared |-> FALSE,
     ok |-> FALSE, then |-> then]
Idle == Saver("idle", FALSE, 0, "none")
NotStopping == [step |-> "idle", locate |-> FALSE, did_record |-> FALSE, saved |-> FALSE]

\* A new session, which save_state() has written.
Init ==
    /\ files = [n \in Names |-> IF n = "state" THEN 1 ELSE Absent]
    /\ phase = "up" /\ rev = 1 /\ dirty = FALSE /\ latest = 1 /\ was_pending = FALSE
    /\ record_status = "Disabled" /\ captured = FALSE
    /\ saver = [s \in Savers |-> Idle]
    /\ stopping = NotStopping
    /\ take = 0 /\ mishaps = {}

CannotSave == phase \in {"down", "closing"}
Free(s) == saver[s].pc = "idle"
At(s, pc) == saver[s].pc = pc

\* After two threads have been saving at once nothing more is said of the session.
Befalls(what, happened) ==
    mishaps' = IF ~happened \/ mishaps = {"overlap"} THEN mishaps
               ELSE IF what = "overlap" THEN {what} ELSE mishaps \cup {what}

\* Writing to a file that the other thread has open, when that file gets another name or
\* is removed, goes on in the file.
Renamed(r, from, to) ==
    [r EXCEPT !.file = CASE @ = from -> to [] @ = to -> "gone" [] OTHER -> @]
Others(s, from, to) == [o \in Savers |-> IF o = s THEN saver[o] ELSE Renamed(saver[o], from, to)]

-----------------------------------------------------------------------------
(* save_state().                                                           *)

\* A call: get_state() makes the tree, or the save is refused.
Call(s, pending, then) ==
    LET first == IF ~pending /\ files["state"] # Absent THEN "backup" ELSE "open"
        pcs == (IF CannotSave THEN {} ELSE {first})
                   \cup (IF CannotSave \/ DiskFails THEN {"return"} ELSE {})
    IN /\ Free(s)
       /\ \E pc \in pcs : saver' = [saver EXCEPT ![s] = Saver(pc, pending, rev, then)]
       /\ Befalls("overlap", \E o \in Savers : ~Free(o))

Goto(s, pc) == saver' = [saver EXCEPT ![s].pc = pc]
Return(s, ok) == saver' = [saver EXCEPT ![s].pc = "return", ![s].ok = ok]
Fill(n, content) == files' = [files EXCEPT ![n] = content]

\* create_backup_file(): copy_file() opens the session file and truncates the backup; either
\* may fail, the first after the second was done.
OpenBackup(s) ==
    /\ At(s, "backup")
    /\ \/ Goto(s, "copy") /\ Fill("bak", Broken)
       \/ DiskFails /\ Return(s, FALSE) /\ (UNCHANGED files \/ Fill("bak", Broken))
    /\ UNCHANGED <<session, transport, mishaps>>

\* What "out << in.rdbuf ()" leaves in the backup without the stream failing: the file, or,
\* when the disk fills up on the way or as the stream is closed, its beginning.
Copies == {files["state"]} \cup (IF DiskFails THEN {Beginning(files["state"])} ELSE {})

\* The stream fails when nothing could be copied, be it that there was nothing.
NothingCopied == DiskFails \/ files["state"] = Broken

\* Mutant: a backup that fails does not keep the save from going on.
CopyBackupAnyway(s) ==
    /\ At(s, "copy")
    /\ \/ Goto(s, "open") /\ \E copy \in Copies : Fill("bak", copy)
       \/ NothingCopied /\ Fill("bak", Absent) /\ Goto(s, "open")
    /\ UNCHANGED <<session, transport, mishaps>>

\* ...copies one into the other, and removes the backup if the stream failed.
CopyBackup(s) ==
    /\ At(s, "copy")
    /\ \/ Goto(s, "open") /\ \E copy \in Copies : Fill("bak", copy)
       \/ NothingCopied /\ Fill("bak", Absent) /\ Return(s, FALSE)
    /\ UNCHANGED <<session, transport, mishaps>>

Target(s) == IF saver[s].pending THEN "pending" ELSE "state"

\* The other thread is writing the .tmp that s opens, too.
InTmp(o) == At(o, "write") /\ saver[o].file = "tmp"

\* Mutant: the file is written in place.
OpenInPlace(s) ==
    /\ At(s, "open") /\ Fill(Target(s), Broken)
    /\ saver' = [saver EXCEPT ![s].pc = "write", ![s].file = Target(s)]
    /\ UNCHANGED <<session, transport, mishaps>>

\* tree.write (tmp_path): the file is truncated...
OpenTmp(s) ==
    LET shared == \E o \in Savers : InTmp(o) IN
    /\ At(s, "open") /\ Fill("tmp", Broken)
    /\ saver' = [o \in Savers |->
          IF o = s THEN [saver[s] EXCEPT !.pc = "write", !.file = "tmp", !.shared = shared]
          ELSE [saver[o] EXCEPT !.shared = @ \/ InTmp(o)]]
    /\ UNCHANGED <<session, transport, mishaps>>

\* ...and filled.  What two threads wrote into one file is anything.
WriteTmp(s) ==
    LET file == saver[s].file
        Wrote(content) == IF file = "gone" THEN UNCHANGED files ELSE Fill(file, content)
    IN /\ At(s, "write")
       /\ \/ Wrote(saver[s].tree)
          \/ saver[s].shared /\ Wrote(Broken)
       /\ saver' = [saver EXCEPT ![s].pc = "rename", ![s].file = "none"]
       /\ UNCHANGED <<session, transport, mishaps>>

\* A write or rename that failed: the .tmp is removed.
FailTmp(s) ==
    /\ \/ At(s, "write") /\ DiskFails
       \/ At(s, "rename") /\ (DiskFails \/ files["tmp"] = Absent)
    /\ Fill("tmp", Absent)
    /\ saver' = [Others(s, "tmp", "gone") EXCEPT ![s].pc = "return"]
    /\ UNCHANGED <<session, transport, mishaps>>

\* rename() puts the new file in the place of the old.
Rename(s) ==
    /\ At(s, "rename") /\ files["tmp"] # Absent
    /\ files' = [files EXCEPT ![Target(s)] = files["tmp"], !["tmp"] = Absent]
    /\ saver' = [Others(s, "tmp", Target(s)) EXCEPT ![s].pc = "clean"]
    /\ UNCHANGED <<session, transport, mishaps>>

\* Mutant: a pending save clears Dirty as well.
ClearDirtyAlways(s) ==
    /\ At(s, "clean") /\ Return(s, TRUE)
    /\ dirty' = FALSE
    /\ UNCHANGED <<files, phase, rev, latest, was_pending, transport, mishaps>>

\* A proper save is followed by save_history(), whose result is not used, and the session
\* is no longer dirty.
ClearDirty(s) ==
    /\ At(s, "clean") /\ Return(s, TRUE)
    /\ dirty' = (dirty /\ saver[s].pending)
    /\ UNCHANGED <<files, phase, rev, latest, was_pending, transport, mishaps>>

Saving(s) == \/ OpenBackup(s) \/ CopyBackup(s) \/ OpenTmp(s) \/ WriteTmp(s) \/ FailTmp(s)
             \/ Rename(s) \/ ClearDirty(s)

-----------------------------------------------------------------------------
(* The GUI.                                                                *)

\* A thread is in a proper save of the session as it was before a change.
SavingOld == \E s \in Savers : saver[s].pc \notin {"idle", "return"} /\ ~saver[s].pending

\* A new revision; one is kept for the take under way.
Changed == /\ rev' = latest + 1 /\ latest' = latest + 1 /\ dirty' = TRUE
           /\ Befalls("edited", SavingOld)

Edit ==
    /\ phase = "up" /\ Free("gui")
    /\ latest + (IF captured THEN 1 ELSE 0) < MaxRev
    /\ Changed
    /\ UNCHANGED <<files, phase, was_pending, transport, saver>>

Save ==
    /\ phase = "up" /\ Call("gui", FALSE, "user")
    /\ UNCHANGED <<files, session, transport>>

\* maybe_write_autosave(), from a timer; and auto_punch_start_changed().
SavePending ==
    /\ phase = "up" /\ ((dirty /\ record_status # "Recording") \/ record_status # "Disabled")
    /\ Call("gui", TRUE, "user")
    /\ UNCHANGED <<files, session, transport>>

\* maybe_enable_record(), up to its save.
Arm ==
    /\ phase = "up" /\ record_status = "Disabled"
    /\ record_status' = "Enabled"
    /\ Call("gui", TRUE, "arm")
    /\ UNCHANGED <<files, session, captured, stopping, take>>

\* disable_record (false, true), which removes the pending state.
RemovePending == /\ Fill("pending", Absent)
                 /\ saver' = [s \in Savers |-> Renamed(saver[s], "pending", "gone")]

Disarm ==
    /\ phase = "up" /\ Free("gui") /\ record_status # "Disabled"
    /\ record_status' = "Disabled"
    /\ RemovePending
    /\ UNCHANGED <<session, captured, stopping, take, mishaps>>

\* Back from a save that the user or a timer asked for.
Saved ==
    /\ At("gui", "return") /\ saver["gui"].then = "user"
    /\ saver' = [saver EXCEPT !["gui"] = Idle]
    /\ UNCHANGED <<files, session, transport, mishaps>>

\* The rest of maybe_enable_record(): if the transport rolls, recording begins.
Armed ==
    /\ At("gui", "return") /\ saver["gui"].then = "arm"
    /\ saver' = [saver EXCEPT !["gui"] = Idle]
    /\ dirty' = TRUE
    /\ \/ UNCHANGED <<record_status, captured>>
       \/ /\ stopping.step = "idle" /\ (captured \/ latest < MaxRev)
          /\ record_status' = "Recording" /\ captured' = TRUE
    /\ UNCHANGED <<files, phase, rev, latest, was_pending, stopping, take, mishaps>>

-----------------------------------------------------------------------------
(* The end of a session, and the next.                                     *)

\* What is left when the program has ended: the files.
Ended ==
    /\ phase' = "down" /\ rev' = 0 /\ dirty' = FALSE /\ was_pending' = FALSE
    /\ record_status' = "Disabled" /\ captured' = FALSE /\ stopping' = NotStopping /\ take' = 0
    /\ saver' = [s \in Savers |-> Idle]
    /\ UNCHANGED <<latest, mishaps>>

\* unload_session(): the user is asked about a dirty session, and may go without saving.
SaveToClose ==
    /\ phase = "up" /\ dirty /\ Call("gui", FALSE, "close")
    /\ UNCHANGED <<files, session, transport>>

\* destroy(): "leaving pending capture state around is a mistake".
Destroy ==
    /\ phase = "up"
    /\ \/ Free("gui")
       \/ At("gui", "return") /\ saver["gui"].then = "close"
    /\ Fill("pending", Absent)
    /\ saver' = [s \in Savers |->
                    IF s = "gui" THEN Idle ELSE Renamed(saver[s], "pending", "gone")]
    /\ phase' = "closing"
    /\ UNCHANGED <<rev, dirty, latest, was_pending, transport, mishaps>>

\* terminate_butler_thread() waits for what the butler has begun.
Close ==
    /\ phase = "closing" /\ stopping.step \in {"idle", "stop"}
    /\ Ended /\ UNCHANGED files

Crash == phase # "down" /\ Ended /\ UNCHANGED files

\* Mutant: whatever is in the file is taken for a session.
LoadAnything(recover) ==
    LET file == IF recover THEN "pending" ELSE "state" IN
    /\ phase = "down" /\ (recover => files["pending"] # Absent)
    /\ phase' = "loading" /\ rev' = files[file] /\ was_pending' = recover /\ dirty' = TRUE
    /\ UNCHANGED <<files, latest, transport, saver, mishaps>>

\* load_state(): pending state, if there is some and the user wants it, or the session file.
Load(recover) ==
    LET file == IF recover THEN "pending" ELSE "state" IN
    /\ phase = "down" /\ (recover => files["pending"] # Absent)
    /\ files[file] \in Revisions
    /\ phase' = "loading" /\ rev' = files[file] /\ was_pending' = recover /\ dirty' = TRUE
    /\ UNCHANGED <<files, latest, transport, saver, mishaps>>

\* A file that cannot be read: the constructor calls destroy() and throws.
FailLoad(recover) ==
    LET file == IF recover THEN "pending" ELSE "state" IN
    /\ phase = "down" /\ (recover => files["pending"] # Absent)
    /\ files[file] \notin Revisions
    /\ Fill("pending", Absent)
    /\ UNCHANGED <<session, transport, saver, mishaps>>

\* So it does if second_stage_init() fails later, when ports cannot be registered.
FailSetup ==
    /\ phase = "loading" /\ Free("gui") /\ DiskFails
    /\ Fill("pending", Absent)
    /\ Ended

\* The session is loaded, and one that was recovered is saved...
FinishLoad ==
    /\ phase = "loading" /\ Free("gui")
    /\ dirty' = FALSE
    /\ IF was_pending THEN Call("gui", FALSE, "recover") /\ UNCHANGED phase
       ELSE phase' = "up" /\ UNCHANGED <<saver, mishaps>>
    /\ UNCHANGED <<files, rev, latest, was_pending, transport>>

\* ...and the pending state removed, whatever became of the save.
Recovered ==
    /\ At("gui", "return") /\ saver["gui"].then = "recover"
    /\ Fill("pending", Absent)
    /\ saver' = [saver EXCEPT !["gui"] = Idle]
    /\ phase' = "up" /\ was_pending' = FALSE /\ dirty' = FALSE
    /\ Befalls("unrecovered", ~saver["gui"].ok)
    /\ UNCHANGED <<rev, latest, transport>>

-----------------------------------------------------------------------------
(* The transport, and what the butler does when it has stopped.            *)

\* start_transport() with record enabled.
Roll ==
    /\ phase = "up" /\ stopping.step = "idle" /\ record_status = "Enabled"
    /\ captured \/ latest < MaxRev
    /\ record_status' = "Recording" /\ captured' = TRUE
    /\ UNCHANGED <<files, session, saver, stopping, take, mishaps>>

\* realtime_stop(): disable_record (true) keeps record enabled if it is latched.
Stop(locate, latched) ==
    /\ phase = "up" /\ stopping.step = "idle"
    /\ record_status' = IF latched /\ record_status # "Disabled" THEN "Enabled" ELSE "Disabled"
    /\ stopping' = [NotStopping EXCEPT !.step = "stop", !.locate = locate]
    /\ UNCHANGED <<files, session, captured, saver, take, mishaps>>

\* non_realtime_stop(): the frames captured become regions, and the session changes.
MakeTake ==
    LET next == IF stopping.locate /\ record_status # "Disabled" THEN "pend" ELSE "remove" IN
    /\ stopping.step = "stop"
    /\ captured' = FALSE
    /\ stopping' = [stopping EXCEPT !.step = next, !.did_record = captured]
    /\ IF captured THEN Changed /\ take' = latest + 1
       ELSE UNCHANGED <<rev, latest, dirty, take, mishaps>>
    /\ UNCHANGED <<files, phase, was_pending, record_status, saver>>

\* "capture start has been changed, so save pending state".
PendTake ==
    /\ stopping.step = "pend" /\ Call("butler", TRUE, "pend")
    /\ stopping' = [stopping EXCEPT !.step = "saving", !.saved = TRUE]
    /\ UNCHANGED <<files, session, record_status, captured, take>>

\* Mutant: a take is taken to have been saved.
DropPendingSaved ==
    /\ stopping.step = "remove"
    /\ RemovePending
    /\ stopping' = NotStopping
    /\ take' = IF stopping.did_record /\ stopping.saved THEN 0 ELSE take
    /\ UNCHANGED <<session, record_status, captured, mishaps>>

\* "always try to get rid of this": also of what has just been saved.
DropPending ==
    LET next == IF stopping.did_record /\ ~stopping.saved THEN "save" ELSE "idle" IN
    /\ stopping.step = "remove"
    /\ RemovePending
    /\ stopping' = [NotStopping EXCEPT !.step = next]
    /\ take' = IF stopping.did_record /\ stopping.saved THEN 0 ELSE take
    /\ UNCHANGED <<session, record_status, captured, mishaps>>

SaveTake ==
    /\ stopping.step = "save" /\ Call("butler", FALSE, "take")
    /\ stopping' = [stopping EXCEPT !.step = "saving"]
    /\ UNCHANGED <<files, session, record_status, captured, take>>

TakeReturned ==
    LET next == IF saver["butler"].then = "pend" THEN "remove" ELSE "idle" IN
    /\ At("butler", "return")
    /\ saver' = [saver EXCEPT !["butler"] = Idle]
    /\ stopping' = IF next = "idle" THEN NotStopping ELSE [stopping EXCEPT !.step = next]
    /\ take' = IF saver["butler"].ok THEN take ELSE 0
    /\ UNCHANGED <<files, session, record_status, captured, mishaps>>

Next ==
    \/ \E s \in Savers : Saving(s)
    \/ Edit \/ Save \/ SavePending \/ Arm \/ Disarm \/ Saved \/ Armed
    \/ SaveToClose \/ Destroy \/ Close \/ Crash
    \/ \E recover \in BOOLEAN : Load(recover) \/ FailLoad(recover)
    \/ FailSetup \/ FinishLoad \/ Recovered
    \/ Roll \/ \E locate, latched \in BOOLEAN : Stop(locate, latched)
    \/ MakeTake \/ PendTake \/ DropPending \/ SaveTake \/ TakeReturned

Spec == Init /\ [][Next]_vars

-----------------------------------------------------------------------------
(* Properties.  Each names the mishaps it does not hold after.             *)

SaverType ==
    [pc : {"idle", "backup", "copy", "open", "write", "rename", "clean", "return"},
     pending : BOOLEAN, tree : 0 .. MaxRev, file : Names \cup {"none", "gone"},
     shared : BOOLEAN, ok : BOOLEAN,
     then : {"none", "user", "arm", "close", "recover", "pend", "take"}]
StoppingType == [step : {"idle", "stop", "pend", "remove", "save", "saving"},
                 locate : BOOLEAN, did_record : BOOLEAN, saved : BOOLEAN]
Mishaps == {"overlap", "edited", "unrecovered"}

\* Every variable keeps to its type.
TypeOK ==
    /\ files \in [Names -> Contents]
    /\ phase \in {"down", "loading", "up", "closing"}
    /\ rev \in 0 .. MaxRev /\ latest \in Revisions /\ take \in 0 .. MaxRev
    /\ dirty \in BOOLEAN /\ was_pending \in BOOLEAN /\ captured \in BOOLEAN
    /\ record_status \in {"Disabled", "Enabled", "Recording"}
    /\ saver \in [Savers -> SaverType] /\ stopping \in StoppingType
    /\ mishaps \subseteq Mishaps

\* A crash at any step leaves a session file that can be loaded, and no pending state that
\* cannot, unless two threads were in save_state() at once.
FilesWhole ==
    "overlap" \notin mishaps => files["state"] \in Revisions /\ files["pending"] # Broken

\* "make a backup copy of the old file": whatever is put in the place of a session file,
\* what it held is in the backup, in whole or as much of it as a full disk took before
\* copy_file() took that for all; never an older revision, and never after a copy that was
\* seen to fail.  Two threads in save_state() at once are let off.
BackupOfPrevious ==
    [][\/ files["state"]' = files["state"]
       \/ files["bak"] = files["state"]
       \/ DiskFails /\ files["bak"] = Beginning(files["state"])
       \/ "overlap" \in mishaps]_vars

\* A session that is not dirty is the one in its file, so that closing it without a
\* question loses nothing: unless two threads were saving, a thread changed the session
\* while another saved it, or the save of a recovered session failed.
CleanMeansSaved ==
    phase = "up" /\ ~dirty /\ {"overlap", "edited", "unrecovered"} \cap mishaps = {}
        => files["state"] = rev

\* When the butler is done with a stop, the take is in the session file: unless a save
\* failed, two threads were saving, or the stop came with a locate while record enable was
\* latched, when the take is saved as pending state and that is removed at once.
TakeSaved ==
    phase = "up" /\ stopping.step = "idle" /\ "overlap" \notin mishaps
        => files["state"] >= take

\* "there is pending state from a crashed capture attempt": what a recovery starts from is
\* no older than the session file that it will replace.
RecoveryNeverOlder ==
    phase = "loading" /\ was_pending /\ mishaps = {} => rev >= files["state"]
=============================================================================
