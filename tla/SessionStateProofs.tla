------------------------- MODULE SessionStateProofs -------------------------
(***************************************************************************)
(* For any number of revisions: a crash leaves a session file that can be  *)
(* loaded, and what is replaced is in the backup, or its beginning, as     *)
(* long as two threads are never in save_state() at once; a session that   *)
(* is not dirty is the one in its file, and a take is in the file when the *)
(* butler is done.                                                         *)
(***************************************************************************)
EXTENDS SessionState, TLAPS

\* bak is a copy of content, for all that copy_file() knows.
IsBackup(bak, content) == bak = content \/ (DiskFails /\ bak = Beginning(content))

\* What the rest needs of the types of the variables.
Typed ==
    /\ files \in [Names -> Contents] /\ saver \in [Savers -> SaverType]
    /\ latest \in Revisions /\ mishaps \subseteq Mishaps

\* A session in memory is a revision, there is one to come for the take under way, and
\* a thread in save_state() has the tree of a revision; without a session there is
\* nothing to save and nothing to stop.
Numbered ==
    /\ phase # "down" => rev \in Revisions
    /\ phase = "down" => stopping.step = "idle" /\ \A s \in Savers : Free(s)
    /\ captured => latest < MaxRev
    /\ \A s \in Savers : ~Free(s) => saver[s].tree \in Revisions

\* The one thread that is saving: nobody else writes its .tmp or moves it, and once the
\* backup is made it is of the file that will be replaced.
OneSaver ==
    /\ \A s, o \in Savers : s = o \/ Free(s) \/ Free(o)
    /\ \A s \in Savers :
          /\ ~saver[s].shared
          /\ At(s, "write") => saver[s].file = "tmp"
          /\ At(s, "rename") => files["tmp"] = saver[s].tree
          /\ saver[s].pc \in {"open", "write", "rename"} /\ ~saver[s].pending
                => IsBackup(files["bak"], files["state"])

SafeFiles == files["state"] \in Revisions /\ files["pending"] # Broken

IInv == Typed /\ Numbered /\ ("overlap" \notin mishaps => OneSaver /\ SafeFiles)

-----------------------------------------------------------------------------
(* The parts that actions are made of.                                     *)

LEMMA IdleTyped == Idle \in SaverType /\ Idle.pc = "idle" /\ ~Idle.shared
  BY MaxRevAssumption DEF Idle, Saver, SaverType

\* "overlap", once in mishaps, stays there.
LEMMA BefallsKeeps ==
    ASSUME NEW what \in Mishaps, NEW happened \in BOOLEAN, Befalls(what, happened),
           mishaps \subseteq Mishaps
    PROVE  /\ mishaps' \subseteq Mishaps
           /\ "overlap" \in mishaps => "overlap" \in mishaps'
           /\ what = "overlap" /\ happened => "overlap" \in mishaps'
  BY DEF Befalls, Mishaps

LEMMA FillFiles ==
    ASSUME NEW n \in Names, NEW content \in Contents, Fill(n, content), Typed
    PROVE  /\ files' \in [Names -> Contents] /\ files'[n] = content
           /\ \A m \in Names \ {n} : files'[m] = files[m]
  BY DEF Fill, Typed

\* Moving on within save_state(), and returning from it.
LEMMA SaverGoes ==
    ASSUME NEW s \in Savers, Typed,
           NEW pc \in {"backup", "copy", "open", "write", "rename", "clean", "return"},
           Goto(s, pc) \/ \E ok \in BOOLEAN : pc = "return" /\ Return(s, ok)
    PROVE  /\ saver' \in [Savers -> SaverType]
           /\ saver'[s].pc = pc /\ saver'[s].pending = saver[s].pending
           /\ saver'[s].tree = saver[s].tree /\ saver'[s].file = saver[s].file
           /\ saver'[s].shared = saver[s].shared
           /\ \A o \in Savers \ {s} : saver'[o] = saver[o]
<1>1. CASE Goto(s, pc)
  BY <1>1 DEF Goto, Typed, SaverType
<1>2. CASE \E ok \in BOOLEAN : pc = "return" /\ Return(s, ok)
  <2>1. PICK ok \in BOOLEAN : pc = "return" /\ Return(s, ok)
    BY <1>2
  <2> DEFINE r == [saver[s] EXCEPT !.pc = "return", !.ok = ok]
  <2>2. saver[s] \in SaverType
    BY DEF Typed
  <2>3. /\ r \in SaverType /\ r.pc = "return" /\ r.pending = saver[s].pending
        /\ r.tree = saver[s].tree /\ r.file = saver[s].file /\ r.shared = saver[s].shared
    BY <2>2 DEF SaverType
  <2>4. saver' = [saver EXCEPT ![s] = r]
    BY <2>1, <2>2 DEF Return, Typed
  <2> HIDE DEF r
  <2> QED
    BY <2>1, <2>3, <2>4 DEF Typed
<1> QED
  BY <1>1, <1>2

\* The other thread's file gets another name.
LEMMA RenamedFile ==
    ASSUME NEW r \in SaverType, NEW from \in Names, NEW to \in Names \cup {"gone"}
    PROVE  /\ Renamed(r, from, to) \in SaverType
           /\ Renamed(r, from, to).pc = r.pc /\ Renamed(r, from, to).pending = r.pending
           /\ Renamed(r, from, to).tree = r.tree /\ Renamed(r, from, to).shared = r.shared
           /\ r.file \notin {from, to} => Renamed(r, from, to).file = r.file
  BY DEF Renamed, SaverType

-----------------------------------------------------------------------------
(* save_state().                                                           *)

\* A call of save_state().
LEMMA CallInv ==
    ASSUME NEW s \in Savers, NEW pending \in BOOLEAN,
           NEW then \in {"user", "arm", "close", "recover", "pend", "take"},
           Call(s, pending, then), UNCHANGED files, IInv, phase # "down"
    PROVE  /\ saver' \in [Savers -> SaverType] /\ mishaps' \subseteq Mishaps
           /\ \A o \in Savers : ~Free(o)' => saver'[o].tree \in Revisions
           /\ "overlap" \notin mishaps' => OneSaver' /\ SafeFiles'
<1>1. PICK pc \in {"backup", "open", "return"} :
        /\ saver' = [saver EXCEPT ![s] = Saver(pc, pending, rev, then)]
        /\ pc = "open" => pending \/ files["state"] = Absent
  BY DEF Call
<1>2. rev \in Revisions
  BY DEF IInv, Numbered
<1>3. Saver(pc, pending, rev, then) \in SaverType
  BY <1>2, MaxRevAssumption DEF Saver, SaverType, Revisions
<1>4. /\ saver' \in [Savers -> SaverType] /\ saver'[s] = Saver(pc, pending, rev, then)
      /\ \A o \in Savers \ {s} : saver'[o] = saver[o]
  BY <1>1, <1>3 DEF IInv, Typed
<1>5. \A o \in Savers : ~Free(o)' => saver'[o].tree \in Revisions
  BY <1>2, <1>4 DEF IInv, Numbered, Free, Saver
<1>6. /\ mishaps' \subseteq Mishaps
      /\ "overlap" \in mishaps => "overlap" \in mishaps'
      /\ (\E o \in Savers : ~Free(o)) => "overlap" \in mishaps'
  BY BefallsKeeps DEF Call, IInv, Typed, Mishaps
<1>7. ASSUME "overlap" \notin mishaps' PROVE OneSaver' /\ SafeFiles'
  <2>1. OneSaver /\ SafeFiles /\ \A o \in Savers : Free(o)
    BY <1>6, <1>7 DEF IInv
  <2>2. SafeFiles'
    BY <2>1 DEF SafeFiles
  <2>3. OneSaver'
    BY <1>1, <1>4, <2>1, MaxRevAssumption
       DEF OneSaver, SafeFiles, Saver, Free, At, Absent, Revisions
  <2> QED
    BY <2>2, <2>3
<1> QED
  BY <1>4, <1>5, <1>6, <1>7

\* What a step of s within save_state() leaves alone.
LEMMA StepInv ==
    ASSUME NEW s \in Savers, IInv, ~Free(s),
           UNCHANGED <<phase, rev, latest, captured, stopping, mishaps>>,
           files' \in [Names -> Contents], saver' \in [Savers -> SaverType],
           saver'[s].tree = saver[s].tree, saver'[s].pc # "idle",
           \A o \in Savers \ {s} :
               Free(o)' = Free(o) /\ saver'[o].tree = saver[o].tree,
           "overlap" \notin mishaps /\ OneSaver /\ SafeFiles => OneSaver' /\ SafeFiles'
    PROVE  IInv'
<1>1. Typed'
  BY DEF IInv, Typed
<1>2. Numbered'
  BY DEF IInv, Numbered, Free
<1> QED
  BY <1>1, <1>2 DEF IInv

\* While s saves, and nobody else, the other thread is not in save_state().
LEMMA OtherFree ==
    ASSUME NEW s \in Savers, OneSaver, ~Free(s) PROVE \A o \in Savers \ {s} : Free(o)
  BY DEF OneSaver

LEMMA OpenBackupInv == ASSUME NEW s \in Savers, IInv, OpenBackup(s) PROVE IInv'
<1>2. files' \in [Names -> Contents] /\ \A n \in Names \ {"bak"} : files'[n] = files[n]
  BY FillFiles DEF OpenBackup, IInv, Typed, Names, Contents
<1>3. /\ saver' \in [Savers -> SaverType]
      /\ saver'[s].pc \in {"copy", "return"}
      /\ saver'[s].tree = saver[s].tree /\ saver'[s].shared = saver[s].shared
      /\ \A o \in Savers \ {s} : saver'[o] = saver[o]
  <2>1. CASE Goto(s, "copy")
    BY <2>1, SaverGoes DEF IInv
  <2>2. CASE Return(s, FALSE)
    BY <2>2, SaverGoes DEF IInv
  <2> QED
    BY <2>1, <2>2 DEF OpenBackup
<1>4. ~Free(s) /\ UNCHANGED <<phase, rev, latest, captured, stopping, mishaps>>
  BY DEF OpenBackup, At, Free, session, transport
<1>5. ASSUME OneSaver, SafeFiles PROVE OneSaver' /\ SafeFiles'
  <2>1. SafeFiles'
    BY <1>2, <1>5 DEF SafeFiles, Names
  <2>2. \A o \in Savers \ {s} : Free(o) /\ Free(o)'
    BY <1>3, <1>4, <1>5, OtherFree DEF Free
  <2>3. OneSaver'
    BY <1>3, <1>5, <2>2 DEF OneSaver, Free, At
  <2> QED
    BY <2>1, <2>3
<1> QED
  BY <1>2, <1>3, <1>4, <1>5, StepInv DEF Free

LEMMA CopiesAre ==
    ASSUME Typed, NEW copy \in Copies
    PROVE  copy \in Contents /\ IsBackup(copy, files["state"])
<1>1. files["state"] \in Contents
  BY DEF Typed, Names
<1>2. copy = files["state"] \/ (DiskFails /\ copy = Beginning(files["state"]))
  BY DEF Copies
<1>3. Beginning(files["state"]) \in Contents
  BY <1>1 DEF Beginning, Contents
<1> QED
  BY <1>1, <1>2, <1>3 DEF IsBackup

\* What a file holds is a number, and less than nothing if it is only the beginning of a revision.
LEMMA ContentsNumbers ==
    ASSUME NEW content \in Contents
    PROVE  content \in Int /\ Beginning(content) \in Int /\ Beginning(content) < 0
  BY MaxRevAssumption DEF Contents, Beginning, Revisions, Absent, Broken

LEMMA CopyBackupInv == ASSUME NEW s \in Savers, IInv, CopyBackup(s) PROVE IInv'
<1>1. /\ "bak" \in Names /\ files["state"] \in Contents /\ Absent \in Contents
      /\ Typed
  BY DEF IInv, Typed, Names, Contents
<1>2. /\ files' \in [Names -> Contents]
      /\ \A n \in Names \ {"bak"} : files'[n] = files[n]
  <2>1. ASSUME NEW copy \in Copies, Fill("bak", copy)
        PROVE  /\ files' \in [Names -> Contents]
               /\ \A n \in Names \ {"bak"} : files'[n] = files[n]
    BY <1>1, <2>1, CopiesAre, FillFiles
  <2>2. CASE Fill("bak", Absent)
    BY <1>1, <2>2, FillFiles
  <2> QED
    BY <2>1, <2>2 DEF CopyBackup
<1>3. /\ saver' \in [Savers -> SaverType]
      /\ saver'[s].pc = "return" \/ (saver'[s].pc = "open" /\ IsBackup(files'["bak"], files["state"]))
      /\ saver'[s].tree = saver[s].tree /\ saver'[s].shared = saver[s].shared
      /\ \A o \in Savers \ {s} : saver'[o] = saver[o]
  <2>1. CASE Goto(s, "open") /\ \E copy \in Copies : Fill("bak", copy)
    <3>1. IsBackup(files'["bak"], files["state"])
      <4>1. PICK copy \in Copies : Fill("bak", copy)
        BY <2>1
      <4>2. files'["bak"] = copy
        BY <1>1, <4>1, CopiesAre, FillFiles
      <4> QED
        BY <1>1, <4>1, <4>2, CopiesAre
    <3>2. Goto(s, "open")
      BY <2>1
    <3>3. /\ saver' \in [Savers -> SaverType] /\ saver'[s].pc = "open"
          /\ saver'[s].pending = saver[s].pending
          /\ saver'[s].tree = saver[s].tree /\ saver'[s].shared = saver[s].shared
          /\ \A o \in Savers \ {s} : saver'[o] = saver[o]
      BY <1>1, <3>2, SaverGoes
    <3> QED
      BY <3>1, <3>3
  <2>2. CASE Return(s, FALSE)
    <3>1. /\ saver' \in [Savers -> SaverType] /\ saver'[s].pc = "return"
          /\ saver'[s].tree = saver[s].tree /\ saver'[s].shared = saver[s].shared
          /\ \A o \in Savers \ {s} : saver'[o] = saver[o]
      BY <1>1, <2>2, SaverGoes
    <3> QED
      BY <3>1
  <2> QED
    BY <2>1, <2>2 DEF CopyBackup
<1>4. ~Free(s) /\ UNCHANGED <<phase, rev, latest, captured, stopping, mishaps>>
  BY DEF CopyBackup, At, Free, session, transport
<1>5. ASSUME OneSaver, SafeFiles PROVE OneSaver' /\ SafeFiles'
  <2>1. SafeFiles'
    BY <1>2, <1>5 DEF SafeFiles, Names
  <2>2. \A o \in Savers \ {s} : Free(o) /\ Free(o)'
    BY <1>3, <1>4, <1>5, OtherFree DEF Free
  <2>3. OneSaver'
    BY <1>1, <1>2, <1>3, <1>5, <2>2 DEF OneSaver, Free, At, Names
  <2> QED
    BY <2>1, <2>3
<1> QED
  BY <1>1, <1>2, <1>3, <1>4, <1>5, StepInv DEF Free

LEMMA OpenTmpInv == ASSUME NEW s \in Savers, IInv, OpenTmp(s) PROVE IInv'
<1> DEFINE shared == \E o \in Savers : InTmp(o)
           mine   == [saver[s] EXCEPT !.pc = "write", !.file = "tmp", !.shared = shared]
           its(o) == [saver[o] EXCEPT !.shared = @ \/ InTmp(o)]
<1>1. \A o \in Savers : saver[o] \in SaverType
  BY DEF IInv, Typed
<1>2. /\ mine \in SaverType /\ mine.pc = "write" /\ mine.file = "tmp" /\ mine.shared = shared
      /\ mine.tree = saver[s].tree /\ mine.pending = saver[s].pending
  <2>1. saver[s] \in SaverType /\ shared \in BOOLEAN
    BY <1>1
  <2> HIDE DEF shared
  <2> QED
    BY <2>1 DEF SaverType, Names
<1>3. ASSUME NEW o \in Savers
      PROVE  /\ its(o) \in SaverType /\ its(o).pc = saver[o].pc /\ its(o).tree = saver[o].tree
             /\ its(o).shared = (saver[o].shared \/ InTmp(o))
  <2>1. saver[o] \in SaverType /\ InTmp(o) \in BOOLEAN
    BY <1>1 DEF InTmp, At
  <2> QED
    BY <2>1 DEF SaverType
<1>4. saver' = [o \in Savers |-> IF o = s THEN mine ELSE its(o)]
  BY DEF OpenTmp
<1> HIDE DEF mine, its
<1>5. /\ saver' \in [Savers -> SaverType] /\ saver'[s] = mine
      /\ \A o \in Savers \ {s} : saver'[o] = its(o)
  BY <1>2, <1>3, <1>4
<1>6. files' \in [Names -> Contents] /\ \A n \in Names \ {"tmp"} : files'[n] = files[n]
  BY FillFiles DEF OpenTmp, IInv, Typed, Names, Contents
<1>7. At(s, "open") /\ ~Free(s) /\ UNCHANGED <<phase, rev, latest, captured, stopping, mishaps>>
  BY DEF OpenTmp, At, Free, session, transport
<1>8. ASSUME OneSaver, SafeFiles PROVE OneSaver' /\ SafeFiles'
  <2>1. SafeFiles'
    BY <1>6, <1>8 DEF SafeFiles, Names
  <2>2. \A o \in Savers \ {s} : Free(o)
    BY <1>7, <1>8, OtherFree
  <2>3. ~shared
    BY <1>7, <2>2 DEF InTmp, At, Free
  <2>4. \A o \in Savers : ~saver'[o].shared
    BY <1>2, <1>3, <1>5, <1>8, <2>3 DEF OneSaver
  <2>5. \A o \in Savers \ {s} : saver'[o].pc = "idle"
    BY <1>3, <1>5, <2>2 DEF Free
  <2>6. saver[s].pc = "open" /\ saver'[s].pc = "write" /\ saver'[s].file = "tmp"
        /\ saver'[s].pending = saver[s].pending
    BY <1>2, <1>5, <1>7 DEF At
  <2>7. files'["bak"] = files["bak"] /\ files'["state"] = files["state"]
    BY <1>6 DEF Names
  <2>8. OneSaver'
    BY <1>8, <2>4, <2>5, <2>6, <2>7 DEF OneSaver, Free, At
  <2> QED
    BY <2>1, <2>8
<1> QED
  BY <1>2, <1>3, <1>5, <1>6, <1>7, <1>8, StepInv DEF Free

LEMMA WriteTmpInv == ASSUME NEW s \in Savers, IInv, WriteTmp(s) PROVE IInv'
<1> DEFINE mine == [saver[s] EXCEPT !.pc = "rename", !.file = "none"]
           file == saver[s].file
<1>1. saver[s] \in SaverType /\ saver[s].tree \in Contents /\ Broken \in Contents
      /\ saver[s].file \in Names \cup {"none", "gone"}
  BY DEF IInv, Typed, Numbered, WriteTmp, At, Free, Contents, SaverType
<1>2. /\ mine \in SaverType /\ mine.pc = "rename" /\ mine.shared = saver[s].shared
      /\ mine.tree = saver[s].tree /\ mine.pending = saver[s].pending
  BY <1>1 DEF SaverType
<1>3. saver' = [saver EXCEPT ![s] = mine]
  BY <1>1 DEF WriteTmp, IInv, Typed
<1> HIDE DEF mine
<1>4. /\ saver' \in [Savers -> SaverType] /\ saver'[s] = mine
      /\ \A o \in Savers \ {s} : saver'[o] = saver[o]
  BY <1>2, <1>3 DEF IInv, Typed
<1>5. \/ files' = files
      \/ files' = [files EXCEPT ![file] = saver[s].tree]
      \/ saver[s].shared /\ files' = [files EXCEPT ![file] = Broken]
  BY DEF WriteTmp, Fill
<1>6. files' \in [Names -> Contents]
  BY <1>1, <1>5 DEF IInv, Typed
<1>7. At(s, "write") /\ ~Free(s) /\ UNCHANGED <<phase, rev, latest, captured, stopping, mishaps>>
  BY DEF WriteTmp, At, Free, session, transport
<1>8. ASSUME OneSaver, SafeFiles PROVE OneSaver' /\ SafeFiles'
  <2>1. saver[s].file = "tmp" /\ ~saver[s].shared
    BY <1>7, <1>8 DEF OneSaver
  <2>2. files' = [files EXCEPT !["tmp"] = saver[s].tree]
    BY <2>1 DEF WriteTmp, Fill
  <2>3. /\ files'["tmp"] = saver[s].tree /\ files'["bak"] = files["bak"]
        /\ files'["state"] = files["state"] /\ files'["pending"] = files["pending"]
    BY <2>2 DEF IInv, Typed, Names
  <2>4. SafeFiles'
    BY <1>8, <2>3 DEF SafeFiles
  <2>5. \A o \in Savers \ {s} : Free(o)
    BY <1>7, <1>8, OtherFree
  <2>6. OneSaver'
    BY <1>2, <1>4, <1>7, <1>8, <2>3, <2>5 DEF OneSaver, Free, At
  <2> QED
    BY <2>4, <2>6
<1> QED
  BY <1>2, <1>4, <1>6, <1>7, <1>8, StepInv DEF Free

\* The threads other than s keep what they have, but for the name of their file.
LEMMA OthersKeep ==
    ASSUME NEW s \in Savers, NEW from \in Names, NEW to \in Names \cup {"gone"}, Typed
    PROVE  /\ Others(s, from, to) \in [Savers -> SaverType]
           /\ Others(s, from, to)[s] = saver[s]
           /\ \A o \in Savers \ {s} :
                 /\ Others(s, from, to)[o].pc = saver[o].pc
                 /\ Others(s, from, to)[o].tree = saver[o].tree
                 /\ Others(s, from, to)[o].shared = saver[o].shared
<1>1. \A o \in Savers : saver[o] \in SaverType
  BY DEF Typed
<1> QED
  BY <1>1, RenamedFile DEF Others

LEMMA FailTmpInv == ASSUME NEW s \in Savers, IInv, FailTmp(s) PROVE IInv'
<1> DEFINE others == Others(s, "tmp", "gone")
           mine   == [saver[s] EXCEPT !.pc = "return"]
<1>1. /\ others \in [Savers -> SaverType] /\ others[s] = saver[s]
      /\ \A o \in Savers \ {s} : /\ others[o].pc = saver[o].pc /\ others[o].tree = saver[o].tree
                                /\ others[o].shared = saver[o].shared
  BY OthersKeep DEF IInv, Names
<1> HIDE DEF others
<1>2. /\ mine \in SaverType /\ mine.pc = "return" /\ mine.shared = saver[s].shared
      /\ mine.tree = saver[s].tree
  <2>1. saver[s] \in SaverType
    BY DEF IInv, Typed
  <2> QED
    BY <2>1 DEF SaverType
<1>3. saver' = [others EXCEPT ![s] = mine]
  BY <1>1 DEF FailTmp, others
<1> HIDE DEF mine
<1>4. /\ saver' \in [Savers -> SaverType] /\ saver'[s] = mine
      /\ \A o \in Savers \ {s} : /\ saver'[o].pc = saver[o].pc /\ saver'[o].tree = saver[o].tree
                                /\ saver'[o].shared = saver[o].shared
  BY <1>1, <1>2, <1>3
<1>5. files' \in [Names -> Contents] /\ \A n \in Names \ {"tmp"} : files'[n] = files[n]
  BY FillFiles DEF FailTmp, IInv, Typed, Names, Contents
<1>6. ~Free(s) /\ UNCHANGED <<phase, rev, latest, captured, stopping, mishaps>>
  BY DEF FailTmp, At, Free, session, transport
<1>7. ASSUME OneSaver, SafeFiles PROVE OneSaver' /\ SafeFiles'
  <2>1. SafeFiles'
    BY <1>5, <1>7 DEF SafeFiles, Names
  <2>2. \A o \in Savers \ {s} : saver'[o].pc = "idle"
    BY <1>4, <1>6, <1>7, OtherFree DEF Free
  <2>3. \A o \in Savers : ~saver'[o].shared
    BY <1>2, <1>4, <1>7 DEF OneSaver
  <2>4. OneSaver'
    BY <1>2, <1>4, <2>2, <2>3 DEF OneSaver, Free, At
  <2> QED
    BY <2>1, <2>4
<1> QED
  BY <1>2, <1>4, <1>5, <1>6, <1>7, StepInv DEF Free

LEMMA RenameInv == ASSUME NEW s \in Savers, IInv, Rename(s) PROVE IInv'
<1> DEFINE others == Others(s, "tmp", Target(s))
           mine   == [saver[s] EXCEPT !.pc = "clean"]
<1>1. Target(s) \in {"pending", "state"}
  BY DEF Target
<1>2. /\ others \in [Savers -> SaverType] /\ others[s] = saver[s]
      /\ \A o \in Savers \ {s} : /\ others[o].pc = saver[o].pc /\ others[o].tree = saver[o].tree
                                /\ others[o].shared = saver[o].shared
  BY <1>1, OthersKeep DEF IInv, Names
<1>3. /\ mine \in SaverType /\ mine.pc = "clean" /\ mine.shared = saver[s].shared
      /\ mine.tree = saver[s].tree
  <2>1. saver[s] \in SaverType
    BY DEF IInv, Typed
  <2> QED
    BY <2>1 DEF SaverType
<1>4. saver' = [others EXCEPT ![s] = mine]
  BY <1>2 DEF Rename
<1> HIDE DEF mine, others
<1>5. /\ saver' \in [Savers -> SaverType] /\ saver'[s] = mine
      /\ \A o \in Savers \ {s} : /\ saver'[o].pc = saver[o].pc /\ saver'[o].tree = saver[o].tree
                                /\ saver'[o].shared = saver[o].shared
  BY <1>2, <1>3, <1>4
<1>6. files' = [files EXCEPT ![Target(s)] = files["tmp"], !["tmp"] = Absent]
  BY DEF Rename
<1>7. files' \in [Names -> Contents]
  BY <1>1, <1>6 DEF IInv, Typed, Names, Contents
<1>8. At(s, "rename") /\ ~Free(s) /\ UNCHANGED <<phase, rev, latest, captured, stopping, mishaps>>
  BY DEF Rename, At, Free, session, transport
<1>9. ASSUME OneSaver, SafeFiles PROVE OneSaver' /\ SafeFiles'
  <2>1. files["tmp"] \in Revisions
    BY <1>8, <1>9 DEF OneSaver, IInv, Numbered
  <2>2. SafeFiles'
    <3>1. CASE Target(s) = "state"
      BY <1>6, <1>9, <2>1, <3>1 DEF SafeFiles, IInv, Typed, Names
    <3>2. CASE Target(s) = "pending"
      BY <1>6, <1>9, <2>1, <3>2, MaxRevAssumption
         DEF SafeFiles, IInv, Typed, Names, Broken, Revisions
    <3> QED
      BY <1>1, <3>1, <3>2
  <2>3. \A o \in Savers \ {s} : saver'[o].pc = "idle"
    BY <1>5, <1>8, <1>9, OtherFree DEF Free
  <2>4. \A o \in Savers : ~saver'[o].shared
    BY <1>3, <1>5, <1>9 DEF OneSaver
  <2>5. OneSaver'
    BY <1>3, <1>5, <2>3, <2>4 DEF OneSaver, Free, At
  <2> QED
    BY <2>2, <2>5
<1> QED
  BY <1>3, <1>5, <1>7, <1>8, <1>9, StepInv DEF Free

LEMMA ClearDirtyInv == ASSUME NEW s \in Savers, IInv, ClearDirty(s) PROVE IInv'
<1>1. /\ saver' \in [Savers -> SaverType]
      /\ saver'[s].pc = "return"
      /\ saver'[s].tree = saver[s].tree /\ saver'[s].shared = saver[s].shared
      /\ \A o \in Savers \ {s} : saver'[o] = saver[o]
  BY SaverGoes DEF ClearDirty, IInv
<1>2. ~Free(s) /\ UNCHANGED <<files, phase, rev, latest, captured, stopping, mishaps>>
  BY DEF ClearDirty, At, Free, transport
<1>3. ASSUME OneSaver, SafeFiles PROVE OneSaver' /\ SafeFiles'
  <2>1. \A o \in Savers \ {s} : saver'[o].pc = "idle"
    BY <1>1, <1>2, <1>3, OtherFree DEF Free
  <2>2. OneSaver'
    BY <1>1, <1>3, <2>1 DEF OneSaver, Free, At
  <2> QED
    BY <1>2, <1>3, <2>2 DEF SafeFiles
<1> QED
  BY <1>1, <1>2, <1>3, StepInv DEF IInv, Typed, Free

\* Every step within save_state() keeps the invariant.
LEMMA SavingInv == ASSUME NEW s \in Savers, IInv, Saving(s) PROVE IInv'
  BY OpenBackupInv, CopyBackupInv, OpenTmpInv, WriteTmpInv, FailTmpInv, RenameInv, ClearDirtyInv
     DEF Saving

-----------------------------------------------------------------------------
(* The steps outside save_state().                                         *)

LEMMA InitIInv == Init => IInv
<1> SUFFICES ASSUME Init PROVE IInv
  OBVIOUS
<1>1. /\ files["state"] = 1 /\ files["pending"] = Absent
      /\ files \in [Names -> Contents]
  BY MaxRevAssumption DEF Init, Names, Contents, Revisions, Absent
<1>2. saver \in [Savers -> SaverType] /\ \A s \in Savers : Free(s) /\ ~saver[s].shared
  BY IdleTyped DEF Init, Free
<1>3. 1 \in Revisions /\ Absent # Broken
  BY MaxRevAssumption DEF Revisions, Absent, Broken
<1>4. Typed
  BY <1>1, <1>2, <1>3 DEF Init, Typed
<1>5. Numbered
  BY <1>2, <1>3 DEF Init, Numbered
<1>6. OneSaver
  BY <1>2 DEF OneSaver, Free, At
<1> QED
  BY <1>1, <1>3, <1>4, <1>5, <1>6 DEF IInv, SafeFiles

\* An action that calls save_state() and changes neither the files nor the session.
LEMMA CallKeeps ==
    ASSUME NEW s \in Savers, NEW pending \in BOOLEAN,
           NEW then \in {"user", "arm", "close", "recover", "pend", "take"},
           Call(s, pending, then), IInv, phase # "down",
           UNCHANGED <<files, phase, rev, latest, captured>>
    PROVE  IInv'
<1>1. /\ saver' \in [Savers -> SaverType] /\ mishaps' \subseteq Mishaps
      /\ \A o \in Savers : ~Free(o)' => saver'[o].tree \in Revisions
      /\ "overlap" \notin mishaps' => OneSaver' /\ SafeFiles'
  BY CallInv
<1>2. Typed'
  BY <1>1 DEF IInv, Typed
<1>3. Numbered'
  BY <1>1 DEF IInv, Numbered
<1> QED
  BY <1>1, <1>2, <1>3 DEF IInv

\* A thread that is back from save_state(), with the files as they were but for the
\* pending one.
LEMMA GoesIdle ==
    ASSUME NEW s \in Savers, IInv, saver' = [saver EXCEPT ![s] = Idle],
           files' = files \/ Fill("pending", Absent)
    PROVE  /\ files' \in [Names -> Contents] /\ saver' \in [Savers -> SaverType]
           /\ \A o \in Savers : ~Free(o)' => ~Free(o) /\ saver'[o].tree = saver[o].tree
           /\ OneSaver /\ SafeFiles => OneSaver' /\ SafeFiles'
<1>1. /\ files' \in [Names -> Contents]
      /\ \A m \in Names \ {"pending"} : files'[m] = files[m]
      /\ files'["pending"] \in {files["pending"], Absent}
  <2>1. CASE files' = files
    BY <2>1 DEF IInv, Typed
  <2>2. CASE Fill("pending", Absent)
    BY <2>2, FillFiles DEF IInv, Names, Contents
  <2> QED
    BY <2>1, <2>2
<1>2. /\ saver' \in [Savers -> SaverType] /\ saver'[s] = Idle
      /\ \A o \in Savers \ {s} : saver'[o] = saver[o]
  BY IdleTyped DEF IInv, Typed
<1>3. \A o \in Savers : ~Free(o)' => ~Free(o) /\ saver'[o].tree = saver[o].tree
  BY <1>2, IdleTyped DEF Free
<1>4. ASSUME OneSaver, SafeFiles PROVE OneSaver' /\ SafeFiles'
  <2>1. SafeFiles'
    BY <1>1, <1>4 DEF SafeFiles, Names, Absent, Broken
  <2>2. /\ files'["tmp"] = files["tmp"] /\ files'["bak"] = files["bak"]
        /\ files'["state"] = files["state"]
    BY <1>1 DEF Names
  <2>3. OneSaver'
    BY <1>2, <1>4, <2>2, IdleTyped DEF OneSaver, Free, At
  <2> QED
    BY <2>1, <2>3
<1> QED
  BY <1>1, <1>2, <1>3, <1>4

\* Pending state that is removed, maybe while another thread has it open.
LEMMA RemovePendingKeeps ==
    ASSUME RemovePending, IInv
    PROVE  /\ files' \in [Names -> Contents] /\ saver' \in [Savers -> SaverType]
           /\ \A o \in Savers : Free(o)' = Free(o) /\ saver'[o].tree = saver[o].tree
           /\ OneSaver /\ SafeFiles => OneSaver' /\ SafeFiles'
<1>1. /\ files' \in [Names -> Contents] /\ files'["pending"] = Absent
      /\ \A m \in Names \ {"pending"} : files'[m] = files[m]
  BY FillFiles DEF RemovePending, IInv, Names, Contents
<1>2. \A o \in Savers : saver[o] \in SaverType
  BY DEF IInv, Typed
<1>3. /\ saver' \in [Savers -> SaverType]
      /\ \A o \in Savers :
            /\ saver'[o].pc = saver[o].pc /\ saver'[o].pending = saver[o].pending
            /\ saver'[o].tree = saver[o].tree /\ saver'[o].shared = saver[o].shared
            /\ saver[o].file = "tmp" => saver'[o].file = "tmp"
  BY <1>2, RenamedFile DEF RemovePending, Names
<1>4. ASSUME OneSaver, SafeFiles PROVE OneSaver' /\ SafeFiles'
  <2>1. SafeFiles'
    BY <1>1, <1>4 DEF SafeFiles, Names, Absent, Broken
  <2>2. /\ files'["tmp"] = files["tmp"] /\ files'["bak"] = files["bak"]
        /\ files'["state"] = files["state"]
    BY <1>1 DEF Names
  <2>3. OneSaver'
    BY <1>3, <1>4, <2>2 DEF OneSaver, Free, At
  <2> QED
    BY <2>1, <2>3
<1> QED
  BY <1>1, <1>3, <1>4 DEF Free

\* The end of the program.
LEMMA EndedInv ==
    ASSUME Ended, IInv, files' = files \/ Fill("pending", Absent)
    PROVE  IInv'
<1>1. /\ files' \in [Names -> Contents]
      /\ \A m \in Names \ {"pending"} : files'[m] = files[m]
      /\ files'["pending"] \in {files["pending"], Absent}
  <2>1. CASE files' = files
    BY <2>1 DEF IInv, Typed
  <2>2. CASE Fill("pending", Absent)
    BY <2>2, FillFiles DEF IInv, Names, Contents
  <2> QED
    BY <2>1, <2>2
<1>2. /\ saver' \in [Savers -> SaverType]
      /\ \A s \in Savers : saver'[s].pc = "idle" /\ ~saver'[s].shared
  BY IdleTyped DEF Ended
<1>3. /\ phase' = "down" /\ ~captured' /\ stopping'.step = "idle"
      /\ UNCHANGED <<latest, mishaps>>
  BY DEF Ended, NotStopping
<1>4. Typed'
  BY <1>1, <1>2, <1>3 DEF IInv, Typed
<1>5. Numbered'
  BY <1>2, <1>3 DEF Numbered, Free
<1>6. OneSaver'
  BY <1>2 DEF OneSaver, Free, At
<1>7. SafeFiles => SafeFiles'
  BY <1>1 DEF SafeFiles, Names, Absent, Broken
<1> QED
  BY <1>3, <1>4, <1>5, <1>6, <1>7 DEF IInv

\* An action that leaves the files and the threads in save_state() alone.
LEMMA ElsewhereInv ==
    ASSUME IInv, UNCHANGED <<files, saver>>,
           mishaps' \subseteq Mishaps, "overlap" \in mishaps => "overlap" \in mishaps',
           latest' \in Revisions, captured' => latest' < MaxRev,
           phase' # "down", rev' \in Revisions
    PROVE  IInv'
<1>1. Typed'
  BY DEF IInv, Typed
<1>2. Numbered'
  BY DEF IInv, Numbered, Free
<1>3. "overlap" \notin mishaps' => OneSaver' /\ SafeFiles'
  BY DEF IInv, OneSaver, SafeFiles, Free, At
<1> QED
  BY <1>1, <1>2, <1>3 DEF IInv

LEMMA EditInv == IInv /\ Edit => IInv'
<1> SUFFICES ASSUME IInv, Edit PROVE IInv'
  OBVIOUS
<1>1. /\ mishaps' \subseteq Mishaps
      /\ "overlap" \in mishaps => "overlap" \in mishaps'
  BY BefallsKeeps DEF Edit, Changed, IInv, Typed, SavingOld, Mishaps
<1>2. /\ latest' = latest + 1 /\ rev' = latest + 1 /\ captured' = captured /\ phase' = "up"
      /\ latest + (IF captured THEN 1 ELSE 0) < MaxRev /\ UNCHANGED <<files, saver>>
  BY DEF Edit, Changed, transport
<1>3. latest + 1 \in Revisions /\ (captured => latest + 1 < MaxRev)
  BY <1>2, MaxRevAssumption DEF IInv, Typed, Revisions
<1>4. captured' => latest' < MaxRev
  BY <1>2, <1>3
<1>5. latest' \in Revisions /\ rev' \in Revisions /\ phase' # "down"
      /\ UNCHANGED <<files, saver>>
  BY <1>2, <1>3
<1> QED
  BY <1>1, <1>4, <1>5, ElsewhereInv

LEMMA MakeTakeInv == IInv /\ MakeTake => IInv'
<1> SUFFICES ASSUME IInv, MakeTake PROVE IInv'
  OBVIOUS
<1>1. /\ phase # "down" /\ phase' = phase /\ ~captured' /\ UNCHANGED <<files, saver>>
  BY DEF MakeTake, IInv, Numbered
<1>2. CASE captured
  <2>1. latest < MaxRev /\ latest' = latest + 1 /\ rev' = latest + 1
    BY <1>2 DEF MakeTake, Changed, IInv, Numbered
  <2>2. latest + 1 \in Revisions
    BY <2>1, MaxRevAssumption DEF IInv, Typed, Revisions
  <2>3. mishaps' \subseteq Mishaps /\ ("overlap" \in mishaps => "overlap" \in mishaps')
    BY <1>2, BefallsKeeps DEF MakeTake, Changed, IInv, Typed, SavingOld, Mishaps
  <2> QED
    BY <1>1, <2>1, <2>2, <2>3, ElsewhereInv
<1>3. CASE ~captured
  <2>1. UNCHANGED <<rev, latest, mishaps>>
    BY <1>3 DEF MakeTake
  <2> QED
    BY <1>1, <2>1, ElsewhereInv DEF IInv, Typed, Numbered
<1> QED
  BY <1>2, <1>3

LEMMA LoadInv == ASSUME NEW recover \in BOOLEAN, IInv, Load(recover) PROVE IInv'
<1>1. /\ phase' = "loading" /\ rev' \in Revisions
      /\ UNCHANGED <<files, latest, captured, saver, mishaps>>
  BY DEF Load, transport
<1> QED
  BY <1>1, ElsewhereInv DEF IInv, Typed, Numbered

LEMMA FailLoadInv == ASSUME NEW recover \in BOOLEAN, IInv, FailLoad(recover) PROVE IInv'
<1>1. /\ Fill("pending", Absent)
      /\ UNCHANGED <<phase, rev, latest, captured, stopping, saver, mishaps>>
  BY DEF FailLoad, session, transport
<1>2. /\ files' \in [Names -> Contents] /\ files'["pending"] = Absent
      /\ \A m \in Names \ {"pending"} : files'[m] = files[m]
  BY <1>1, FillFiles DEF IInv, Names, Contents
<1>3. Typed' /\ Numbered'
  BY <1>1, <1>2 DEF IInv, Typed, Numbered, Free
<1>4. SafeFiles => SafeFiles'
  BY <1>2 DEF SafeFiles, Names, Absent, Broken
<1>5. OneSaver => OneSaver'
  BY <1>1, <1>2 DEF OneSaver, Free, At, Names
<1> QED
  BY <1>1, <1>3, <1>4, <1>5 DEF IInv

LEMMA FinishLoadInv == IInv /\ FinishLoad => IInv'
<1> SUFFICES ASSUME IInv, FinishLoad PROVE IInv'
  OBVIOUS
<1>1. phase # "down" /\ UNCHANGED <<files, rev, latest, captured>>
  BY DEF FinishLoad, transport
<1>2. CASE was_pending
  BY <1>1, <1>2, CallKeeps DEF FinishLoad, Savers
<1>3. CASE ~was_pending
  <2>1. phase' = "up" /\ UNCHANGED <<saver, mishaps>>
    BY <1>3 DEF FinishLoad
  <2> QED
    BY <1>1, <2>1, ElsewhereInv DEF IInv, Typed, Numbered
<1> QED
  BY <1>2, <1>3

\* The callers of save_state() that have it back.
LEMMA ReturnedInv == IInv /\ (Saved \/ Armed \/ Recovered \/ TakeReturned) => IInv'
<1> SUFFICES ASSUME IInv, Saved \/ Armed \/ Recovered \/ TakeReturned PROVE IInv'
  OBVIOUS
<1>1. \E s \in Savers : ~Free(s) /\ saver' = [saver EXCEPT ![s] = Idle]
  BY DEF Saved, Armed, Recovered, TakeReturned, At, Free, Savers
<1>2. files' = files \/ Fill("pending", Absent)
  BY DEF Saved, Armed, Recovered, TakeReturned
<1>3. /\ files' \in [Names -> Contents] /\ saver' \in [Savers -> SaverType]
      /\ \A o \in Savers : ~Free(o)' => ~Free(o) /\ saver'[o].tree = saver[o].tree
      /\ OneSaver /\ SafeFiles => OneSaver' /\ SafeFiles'
  BY <1>1, <1>2, GoesIdle
<1>4. /\ phase # "down" /\ phase' # "down" /\ rev' = rev /\ latest' = latest
      /\ captured' => captured \/ latest < MaxRev
  <2>1. phase # "down"
    BY <1>1 DEF IInv, Numbered
  <2> QED
    BY <2>1 DEF Saved, Armed, Recovered, TakeReturned, session, transport
<1>5. mishaps' \subseteq Mishaps /\ ("overlap" \in mishaps => "overlap" \in mishaps')
  <2>1. CASE Recovered
    BY <2>1, BefallsKeeps DEF Recovered, IInv, Typed, Mishaps, SaverType, Savers
  <2>2. CASE Saved \/ Armed \/ TakeReturned
    BY <2>2 DEF Saved, Armed, TakeReturned, IInv, Typed
  <2> QED
    BY <2>1, <2>2
<1>6. Typed'
  BY <1>3, <1>4, <1>5 DEF IInv, Typed
<1>7. Numbered'
  BY <1>3, <1>4 DEF IInv, Numbered
<1> QED
  BY <1>3, <1>5, <1>6, <1>7 DEF IInv

LEMMA RemovesInv == IInv /\ (Disarm \/ DropPending) => IInv'
<1> SUFFICES ASSUME IInv, Disarm \/ DropPending PROVE IInv'
  OBVIOUS
<1>1. /\ RemovePending /\ phase # "down"
      /\ UNCHANGED <<phase, rev, latest, captured, mishaps>>
  BY DEF Disarm, DropPending, IInv, Numbered, session
<1>2. /\ files' \in [Names -> Contents] /\ saver' \in [Savers -> SaverType]
      /\ \A o \in Savers : Free(o)' = Free(o) /\ saver'[o].tree = saver[o].tree
      /\ OneSaver /\ SafeFiles => OneSaver' /\ SafeFiles'
  BY <1>1, RemovePendingKeeps
<1>3. Typed' /\ Numbered'
  BY <1>1, <1>2 DEF IInv, Typed, Numbered
<1> QED
  BY <1>1, <1>2, <1>3 DEF IInv

LEMMA DestroyInv == IInv /\ Destroy => IInv'
<1> SUFFICES ASSUME IInv, Destroy PROVE IInv'
  OBVIOUS
<1>1. /\ Fill("pending", Absent) /\ phase' = "closing" /\ phase = "up"
      /\ UNCHANGED <<rev, latest, captured, mishaps>>
  BY DEF Destroy, transport
<1>2. /\ files' \in [Names -> Contents] /\ files'["pending"] = Absent
      /\ \A m \in Names \ {"pending"} : files'[m] = files[m]
  BY <1>1, FillFiles DEF IInv, Names, Contents
<1>3. \A o \in Savers : saver[o] \in SaverType
  BY DEF IInv, Typed
<1>4. /\ saver' \in [Savers -> SaverType]
      /\ saver'["gui"].pc = "idle" /\ ~saver'["gui"].shared
      /\ \A o \in Savers \ {"gui"} :
            /\ saver'[o].pc = saver[o].pc /\ saver'[o].pending = saver[o].pending
            /\ saver'[o].tree = saver[o].tree /\ saver'[o].shared = saver[o].shared
            /\ saver[o].file = "tmp" => saver'[o].file = "tmp"
  BY <1>3, IdleTyped, RenamedFile DEF Destroy, Names, Savers
<1>5. Typed'
  BY <1>1, <1>2, <1>4 DEF IInv, Typed
<1>6. Numbered'
  BY <1>1, <1>4 DEF IInv, Numbered, Free
<1>7. ASSUME OneSaver, SafeFiles PROVE OneSaver' /\ SafeFiles'
  <2>1. SafeFiles'
    BY <1>2, <1>7 DEF SafeFiles, Names, Absent, Broken
  <2>2. /\ files'["tmp"] = files["tmp"] /\ files'["bak"] = files["bak"]
        /\ files'["state"] = files["state"]
    BY <1>2 DEF Names
  <2>3. OneSaver'
    BY <1>4, <1>7, <2>2 DEF OneSaver, Free, At
  <2> QED
    BY <2>1, <2>3
<1> QED
  BY <1>1, <1>5, <1>6, <1>7 DEF IInv

LEMMA StutterInv == IInv /\ UNCHANGED vars => IInv'
<1> SUFFICES ASSUME IInv, UNCHANGED vars PROVE IInv'
  OBVIOUS
<1>1. UNCHANGED <<files, phase, rev, latest, captured, saver, stopping, mishaps>>
  BY DEF vars, session, transport
<1>2. Typed' /\ Numbered'
  BY <1>1 DEF IInv, Typed, Numbered, Free
<1>3. OneSaver' = OneSaver /\ SafeFiles' = SafeFiles
  BY <1>1 DEF OneSaver, SafeFiles, Free, At
<1> QED
  BY <1>1, <1>2, <1>3 DEF IInv

LEMMA NextIInv == IInv /\ [Next]_vars => IInv'
<1> SUFFICES ASSUME IInv, [Next]_vars PROVE IInv'
  OBVIOUS
<1>1. CASE \E s \in Savers : Saving(s)
  BY <1>1, SavingInv
<1>2. CASE Save \/ SavePending \/ Arm \/ SaveToClose
  <2>1. phase # "down" /\ UNCHANGED <<files, phase, rev, latest, captured>>
    BY <1>2 DEF Save, SavePending, Arm, SaveToClose, session, transport
  <2>2. \E pending \in BOOLEAN, then \in {"user", "arm", "close"} : Call("gui", pending, then)
    BY <1>2 DEF Save, SavePending, Arm, SaveToClose
  <2> QED
    BY <2>1, <2>2, CallKeeps DEF Savers
<1>3. CASE PendTake \/ SaveTake
  <2>1. phase # "down" /\ UNCHANGED <<files, phase, rev, latest, captured>>
    BY <1>3 DEF PendTake, SaveTake, session, IInv, Numbered
  <2>2. \E pending \in BOOLEAN, then \in {"pend", "take"} : Call("butler", pending, then)
    BY <1>3 DEF PendTake, SaveTake
  <2> QED
    BY <2>1, <2>2, CallKeeps DEF Savers
<1>4. CASE Close \/ Crash \/ FailSetup
  BY <1>4, EndedInv DEF Close, Crash, FailSetup
<1>5. CASE \E recover \in BOOLEAN : Load(recover) \/ FailLoad(recover)
  BY <1>5, LoadInv, FailLoadInv
<1>6. CASE Roll \/ \E locate, latched \in BOOLEAN : Stop(locate, latched)
  <2>1. /\ phase' = "up" /\ rev' = rev /\ latest' = latest /\ mishaps' = mishaps
        /\ phase = "up" /\ UNCHANGED <<files, saver>>
    BY <1>6 DEF Roll, Stop, session
  <2>2. captured' => captured \/ latest < MaxRev
    BY <1>6 DEF Roll, Stop
  <2> QED
    BY <2>1, <2>2, ElsewhereInv DEF IInv, Typed, Numbered
<1>7. CASE Edit \/ MakeTake \/ FinishLoad \/ Destroy
  BY <1>7, EditInv, MakeTakeInv, FinishLoadInv, DestroyInv
<1>8. CASE Saved \/ Armed \/ Recovered \/ TakeReturned
  BY <1>8, ReturnedInv
<1>9. CASE Disarm \/ DropPending
  BY <1>9, RemovesInv
<1>10. CASE UNCHANGED vars
  BY <1>10, StutterInv
<1> QED
  BY <1>1, <1>2, <1>3, <1>4, <1>5, <1>6, <1>7, <1>8, <1>9, <1>10 DEF Next

\* The inductive invariant holds in every state.
THEOREM Invariance == Spec => []IInv
<1>1. Init => IInv
  BY InitIInv
<1>2. IInv /\ [Next]_vars => IInv'
  BY NextIInv
<1> QED
  BY <1>1, <1>2, PTL DEF Spec

\* A crash at any step leaves a session file that can be loaded, and no pending state that
\* cannot, unless two threads were in save_state() at once (session_state.cc:676).
THEOREM Loadable == Spec => []FilesWhole
<1>1. IInv => FilesWhole
  BY DEF IInv, FilesWhole, SafeFiles
<1> QED
  BY <1>1, Invariance, PTL

-----------------------------------------------------------------------------
(* The backup.                                                             *)

\* Only rename() puts another file in the place of the session file, while one thread at
\* most is in save_state().
LEMMA OnlyRename ==
    ASSUME IInv, OneSaver, [Next]_vars, files["state"]' # files["state"]
    PROVE  \E s \in Savers : Rename(s) /\ Target(s) = "state"
<1>1. ASSUME NEW n \in Names \ {"state"}, NEW content, Fill(n, content) PROVE FALSE
  BY <1>1 DEF Fill, IInv, Typed, Names
<1>2. files' # files
  OBVIOUS
<1>3. \/ \E s \in Savers : Rename(s) \/ WriteTmp(s)
      \/ \E n \in Names \ {"state"}, content \in Contents : Fill(n, content)
  <2>1. ASSUME NEW s \in Savers, CopyBackup(s)
        PROVE  \E content \in Contents : Fill("bak", content)
    BY <2>1, CopiesAre DEF CopyBackup, IInv, Contents
  <2>2. \/ \E s \in Savers : Rename(s) \/ WriteTmp(s) \/ CopyBackup(s)
        \/ \E n \in Names \ {"state"}, content \in Contents : Fill(n, content)
    BY <1>2 DEF Next, Saving, OpenBackup, OpenTmp, FailTmp, ClearDirty,
       Edit, Save, SavePending, Arm, Disarm, RemovePending, Saved, Armed, SaveToClose, Destroy,
       Close, Crash, Load, FailLoad, FailSetup, FinishLoad, Recovered, Roll, Stop, MakeTake,
       PendTake, DropPending, SaveTake, TakeReturned, vars, Names, Contents
  <2> QED
    BY <2>1, <2>2 DEF Names
<1>4. ASSUME NEW s \in Savers, WriteTmp(s) PROVE FALSE
  <2>1. saver[s].file = "tmp"
    BY <1>4 DEF WriteTmp, OneSaver
  <2>2. Fill("tmp", saver[s].tree) \/ Fill("tmp", Broken)
    BY <1>4, <2>1 DEF WriteTmp
  <2> QED
    BY <1>1, <2>2 DEF Names
<1>5. PICK s \in Savers : Rename(s)
  BY <1>1, <1>3, <1>4
<1>6. Target(s) \in {"pending", "state"}
  BY DEF Target
<1>7. Target(s) # "pending"
  BY <1>5 DEF Rename, IInv, Typed, Names
<1> QED
  BY <1>5, <1>6, <1>7

\* "make a backup copy of the old file" (session_state.cc:708): what is put in the place of
\* the session file finds what that held in the backup, or, if disks may fill up, as much of
\* it as copy_file() could write before it failed unnoticed (pbd/filesystem.cc:164).
THEOREM BackedUp == Spec => BackupOfPrevious
<1>1. ASSUME IInv, [Next]_vars
      PROVE  \/ files["state"]' = files["state"]
             \/ files["bak"] = files["state"]
             \/ DiskFails /\ files["bak"] = Beginning(files["state"])
             \/ "overlap" \in mishaps
  <2>1. SUFFICES ASSUME "overlap" \notin mishaps, files["state"]' # files["state"]
                 PROVE  IsBackup(files["bak"], files["state"])
    BY DEF IsBackup
  <2>2. OneSaver
    BY <1>1, <2>1 DEF IInv
  <2>3. PICK s \in Savers : Rename(s) /\ Target(s) = "state"
    BY <1>1, <2>1, <2>2, OnlyRename
  <2>4. At(s, "rename") /\ ~saver[s].pending
    BY <2>3 DEF Rename, Target
  <2> QED
    BY <2>2, <2>4 DEF OneSaver, At
<1> QED
  BY <1>1, Invariance, PTL DEF Spec, BackupOfPrevious

-----------------------------------------------------------------------------
(* What has been saved: a session that is not dirty is the one in its file, *)
(* and a take is in the session file when the butler is done with the stop. *)
(* The invariants are added to the one above, which says what one thread in *)
(* save_state() does to the files.                                          *)

\* The types that SessionStateProofs does without.
RestTyped ==
    /\ phase \in {"down", "loading", "up", "closing"}
    /\ rev \in 0 .. MaxRev /\ take \in 0 .. MaxRev
    /\ dirty \in BOOLEAN /\ was_pending \in BOOLEAN /\ captured \in BOOLEAN
    /\ record_status \in {"Disabled", "Enabled", "Recording"}
    /\ stopping \in StoppingType

\* Revisions are numbered as they are made: nothing in memory, in a file or in a thread's
\* tree is younger than the last, and the take is part of the session.
Ordered ==
    /\ take <= rev /\ rev <= latest
    /\ \A n \in Names : files[n] <= latest
    /\ \A s \in Savers : saver[s].tree <= latest

\* Who is in save_state(), and what for: while a session is loaded, the GUI for one that was
\* recovered; the butler when it is saving a take, properly or as pending state.
Linked ==
    /\ \A s \in Savers : saver[s].ok => At(s, "return")
    /\ phase = "loading" => stopping.step = "idle" /\ (~Free("gui") => was_pending)
    /\ ~Free("gui") =>
          /\ saver["gui"].then = "recover" <=> phase = "loading"
          /\ saver["gui"].then = "recover" => ~saver["gui"].pending
    /\ ~Free("butler") <=> stopping.step = "saving"
    /\ stopping.step = "save" => ~stopping.saved
    /\ ~Free("butler") =>
          /\ saver["butler"].pending <=> stopping.saved
          /\ saver["butler"].then = "pend" <=> stopping.saved

\* A proper save has the session as it is in memory, and once its file has been renamed that
\* is the session file: so Dirty is cleared of what is in the file.
InFile ==
    /\ \A s \in Savers : ~saver[s].pending =>
          /\ saver[s].pc \notin {"idle", "return"} => saver[s].tree = rev
          /\ At(s, "clean") => files["state"] = saver[s].tree
    /\ phase = "up" /\ ~dirty => files["state"] = rev
    /\ phase = "loading" /\ (~was_pending \/ saver["gui"].ok) => files["state"] = rev

\* The butler is not on its way from a take made to a take saved.
Settled == \/ stopping.step \in {"idle", "stop"}
           \/ stopping.step \in {"pend", "remove"} /\ ~stopping.did_record
           \/ stopping.step = "saving" /\ stopping.saved /\ ~stopping.did_record

\* Until then the take is in the tree that the butler is saving; from then on in the session
\* file and in whatever is about to replace it.
TakeKept ==
    /\ \A s \in Savers : (Settled \/ s = "butler") /\ ~Free(s) /\ ~saver[s].pending
          => take <= saver[s].tree
    /\ Settled => take <= files["state"]
    /\ ~Free("butler") /\ ~saver["butler"].pending /\ (At("butler", "clean") \/ saver["butler"].ok)
          => take <= files["state"]

JInv == /\ IInv /\ RestTyped /\ Ordered /\ Linked
        /\ mishaps = {} => InFile
        /\ "overlap" \notin mishaps => TakeKept

-----------------------------------------------------------------------------
(* What the actions do to the threads in save_state().                     *)

\* s goes on with the call it is in.
SameCall(s) == /\ saver'[s].pending = saver[s].pending /\ saver'[s].tree = saver[s].tree
               /\ saver'[s].then = saver[s].then

\* s is where it was in it.
SamePlace(s) == SameCall(s) /\ saver'[s].pc = saver[s].pc /\ saver'[s].ok = saver[s].ok

LEMMA SaverTyped == ASSUME IInv, NEW s \in Savers PROVE saver[s] \in SaverType
  BY DEF IInv, Typed

LEMMA GotoEffect ==
    ASSUME IInv, NEW s \in Savers, NEW pc, Goto(s, pc)
    PROVE  /\ SameCall(s) /\ saver'[s].pc = pc /\ saver'[s].ok = saver[s].ok
           /\ \A o \in Savers \ {s} : SamePlace(o)
<1> DEFINE r == [saver[s] EXCEPT !.pc = pc]
<1>1. /\ r.pc = pc /\ r.ok = saver[s].ok /\ r.pending = saver[s].pending
      /\ r.tree = saver[s].tree /\ r.then = saver[s].then
  BY SaverTyped DEF SaverType
<1>2. saver' = [saver EXCEPT ![s] = r]
  BY DEF Goto, IInv, Typed
<1> HIDE DEF r
<1> QED
  BY <1>1, <1>2 DEF SameCall, SamePlace, IInv, Typed

LEMMA ReturnEffect ==
    ASSUME IInv, NEW s \in Savers, NEW ok, Return(s, ok)
    PROVE  /\ SameCall(s) /\ saver'[s].pc = "return" /\ saver'[s].ok = ok
           /\ \A o \in Savers \ {s} : SamePlace(o)
<1> DEFINE r == [saver[s] EXCEPT !.pc = "return", !.ok = ok]
<1>1. /\ r.pc = "return" /\ r.ok = ok /\ r.pending = saver[s].pending
      /\ r.tree = saver[s].tree /\ r.then = saver[s].then
  BY SaverTyped DEF SaverType
<1>2. saver' = [saver EXCEPT ![s] = r]
  BY DEF Return, IInv, Typed
<1> HIDE DEF r
<1> QED
  BY <1>1, <1>2 DEF SameCall, SamePlace, IInv, Typed

\* A file that gets another name leaves the call of the thread that writes it alone.
LEMMA RenamedEffect ==
    ASSUME NEW r \in SaverType, NEW from, NEW to
    PROVE  LET q == Renamed(r, from, to)
           IN  /\ q.pc = r.pc /\ q.ok = r.ok /\ q.pending = r.pending
               /\ q.tree = r.tree /\ q.then = r.then
  BY DEF Renamed, SaverType

LEMMA OthersEffect ==
    ASSUME IInv, NEW s \in Savers, NEW from \in Names, NEW to \in Names \cup {"gone"}, NEW pc,
           saver' = [Others(s, from, to) EXCEPT ![s].pc = pc]
    PROVE  /\ SameCall(s) /\ saver'[s].pc = pc /\ saver'[s].ok = saver[s].ok
           /\ \A o \in Savers \ {s} : SamePlace(o)
<1> DEFINE others == Others(s, from, to)
           r == [saver[s] EXCEPT !.pc = pc]
<1>1. /\ r.pc = pc /\ r.ok = saver[s].ok /\ r.pending = saver[s].pending
      /\ r.tree = saver[s].tree /\ r.then = saver[s].then
  BY SaverTyped DEF SaverType
<1>2. /\ others = [o \in Savers |-> others[o]] /\ others[s] = saver[s]
      /\ \A o \in Savers \ {s} : others[o] = Renamed(saver[o], from, to)
  BY DEF Others
<1>3. \A o \in Savers \ {s} :
         /\ others[o].pc = saver[o].pc /\ others[o].ok = saver[o].ok
         /\ others[o].pending = saver[o].pending /\ others[o].tree = saver[o].tree
         /\ others[o].then = saver[o].then
  BY <1>2, RenamedEffect, SaverTyped
<1> HIDE DEF others
<1>4. saver' = [others EXCEPT ![s] = r]
  BY <1>2 DEF others
<1> HIDE DEF r
<1>5. saver'[s] = r /\ \A o \in Savers \ {s} : saver'[o] = others[o]
  BY <1>2, <1>4
<1> QED
  BY <1>1, <1>3, <1>5 DEF SameCall, SamePlace

LEMMA OpenTmpEffect ==
    ASSUME IInv, NEW s \in Savers, OpenTmp(s)
    PROVE  /\ SameCall(s) /\ saver'[s].pc = "write" /\ saver'[s].ok = saver[s].ok
           /\ \A o \in Savers \ {s} : SamePlace(o)
<1> DEFINE shared == \E o \in Savers : InTmp(o)
           mine   == [saver[s] EXCEPT !.pc = "write", !.file = "tmp", !.shared = shared]
           its(o) == [saver[o] EXCEPT !.shared = @ \/ InTmp(o)]
<1>1. /\ mine.pc = "write" /\ mine.ok = saver[s].ok /\ mine.pending = saver[s].pending
      /\ mine.tree = saver[s].tree /\ mine.then = saver[s].then
  <2>1. saver[s] \in SaverType
    BY SaverTyped
  <2> HIDE DEF shared
  <2> QED
    BY <2>1 DEF SaverType
<1>2. ASSUME NEW o \in Savers
      PROVE  /\ its(o).pc = saver[o].pc /\ its(o).ok = saver[o].ok
             /\ its(o).pending = saver[o].pending /\ its(o).tree = saver[o].tree
             /\ its(o).then = saver[o].then
  BY SaverTyped DEF SaverType
<1>3. saver' = [o \in Savers |-> IF o = s THEN mine ELSE its(o)]
  BY DEF OpenTmp
<1> HIDE DEF mine, its
<1> QED
  BY <1>1, <1>2, <1>3 DEF SameCall, SamePlace

LEMMA WriteTmpEffect ==
    ASSUME IInv, NEW s \in Savers, WriteTmp(s)
    PROVE  /\ SameCall(s) /\ saver'[s].pc = "rename" /\ saver'[s].ok = saver[s].ok
           /\ \A o \in Savers \ {s} : SamePlace(o)
<1> DEFINE r == [saver[s] EXCEPT !.pc = "rename", !.file = "none"]
<1>1. /\ r.pc = "rename" /\ r.ok = saver[s].ok /\ r.pending = saver[s].pending
      /\ r.tree = saver[s].tree /\ r.then = saver[s].then
  BY SaverTyped DEF SaverType
<1>2. saver' = [saver EXCEPT ![s] = r]
  BY DEF WriteTmp, IInv, Typed
<1> HIDE DEF r
<1> QED
  BY <1>1, <1>2 DEF SameCall, SamePlace, IInv, Typed

LEMMA RemovePendingEffect ==
    ASSUME IInv, RemovePending
    PROVE  \A s \in Savers : SamePlace(s)
<1>1. \A s \in Savers : saver'[s] = Renamed(saver[s], "pending", "gone")
  BY DEF RemovePending
<1> QED
  BY <1>1, RenamedEffect, SaverTyped DEF SamePlace, SameCall

\* Where a step of s within save_state() takes it, and what it does to the files: it puts
\* something of its own or of another file into one, and only rename() touches the session file.
LEMMA SavingEffect ==
    ASSUME IInv, NEW s \in Savers, Saving(s)
    PROVE  /\ saver[s].pc \notin {"idle", "return"} /\ saver'[s].pc # "idle"
           /\ SameCall(s) /\ \A o \in Savers \ {s} : SamePlace(o)
           /\ saver'[s].pc = "clean" => Rename(s)
           /\ saver'[s].ok # saver[s].ok => saver'[s].pc = "return"
           /\ saver[s].ok \/ ~saver'[s].ok \/ ClearDirty(s)
           /\ dirty' = dirty \/ ClearDirty(s)
<1>1. CASE OpenBackup(s)
  <2>1. CASE Goto(s, "copy")
    BY <1>1, <2>1, GotoEffect DEF OpenBackup, At, session
  <2>2. CASE Return(s, FALSE)
    BY <1>1, <2>2, ReturnEffect DEF OpenBackup, At, session
  <2> QED
    BY <1>1, <2>1, <2>2 DEF OpenBackup
<1>2. CASE CopyBackup(s)
  <2>1. CASE Goto(s, "open")
    BY <1>2, <2>1, GotoEffect DEF CopyBackup, At, session
  <2>2. CASE Return(s, FALSE)
    BY <1>2, <2>2, ReturnEffect DEF CopyBackup, At, session
  <2> QED
    BY <1>2, <2>1, <2>2 DEF CopyBackup
<1>3. CASE OpenTmp(s)
  BY <1>3, OpenTmpEffect DEF OpenTmp, At, session
<1>4. CASE WriteTmp(s)
  BY <1>4, WriteTmpEffect DEF WriteTmp, At, session
<1>5. CASE FailTmp(s)
  BY <1>5, OthersEffect DEF FailTmp, At, session, Names
<1>6. CASE Rename(s)
  <2>1. Target(s) \in Names
    BY DEF Target, Names
  <2>2. /\ SameCall(s) /\ saver'[s].pc = "clean" /\ saver'[s].ok = saver[s].ok
        /\ \A o \in Savers \ {s} : SamePlace(o)
    BY <1>6, <2>1, OthersEffect DEF Rename, Names
  <2> QED
    BY <1>6, <2>2 DEF Rename, At, session
<1>7. CASE ClearDirty(s)
  BY <1>7, ReturnEffect DEF ClearDirty, At
<1> QED
  BY <1>1, <1>2, <1>3, <1>4, <1>5, <1>6, <1>7 DEF Saving

\* No file has anything put into it but the tree of the thread, or what is in another, in
\* whole or in part.
LEMMA SavingFiles ==
    ASSUME IInv, NEW s \in Savers, Saving(s), NEW n \in Names
    PROVE  \/ files'[n] \in {Broken, Absent, saver[s].tree}
           \/ \E m \in Names : files'[n] \in {files[m], Beginning(files[m])}
<1>1. ASSUME NEW m, NEW content, Fill(m, content)
      PROVE  files'[n] = files[n] \/ files'[n] = content
  BY <1>1 DEF Fill, IInv, Typed
<1>2. CASE OpenBackup(s) \/ OpenTmp(s) \/ FailTmp(s)
  BY <1>1, <1>2 DEF OpenBackup, OpenTmp, FailTmp, Names
<1>3. CASE WriteTmp(s)
  BY <1>1, <1>3 DEF WriteTmp
<1>4. CASE Rename(s)
  BY <1>4 DEF Rename, Target, IInv, Typed, Names
<1>5. CASE ClearDirty(s)
  BY <1>5 DEF ClearDirty
<1>6. CASE CopyBackup(s)
  <2>1. PICK content : Fill("bak", content) /\ (content \in Copies \/ content = Absent)
    BY <1>6 DEF CopyBackup
  <2>2. \/ content = Absent
        \/ \E m \in Names : content \in {files[m], Beginning(files[m])}
    BY <2>1 DEF Copies, Names
  <2>3. files'[n] = files[n] \/ files'[n] = content
    BY <1>1, <2>1
  <2> QED
    BY <2>2, <2>3
<1> QED
  BY <1>2, <1>3, <1>4, <1>5, <1>6 DEF Saving

\* The session file becomes the tree of a proper save when that is renamed, and not before.
LEMMA StateFile ==
    ASSUME IInv, "overlap" \notin mishaps, NEW s \in Savers, Saving(s)
    PROVE  /\ Rename(s) /\ ~saver[s].pending => files'["state"] = saver[s].tree
           /\ ~Rename(s) \/ saver[s].pending => files'["state"] = files["state"]
           /\ \A o \in Savers \ {s} : Free(o)
<1>1. OneSaver /\ saver[s].pc # "idle"
  BY SavingEffect DEF IInv
<1>2. ASSUME Rename(s)
      PROVE  files'["state"] = IF saver[s].pending THEN files["state"] ELSE saver[s].tree
  BY <1>1, <1>2 DEF Rename, Target, OneSaver, At, IInv, Typed, Names
<1>3. ASSUME ~Rename(s) PROVE files'["state"] = files["state"]
  <2>1. ASSUME NEW o \in Savers, Rename(o) PROVE FALSE
    <3>1. Target(o) \in Names
      BY DEF Target, Names
    <3>2. saver'[o].pc = "clean" /\ saver[o].pc = "rename"
      BY <2>1, <3>1, OthersEffect DEF Rename, At, Names
    <3>3. o # s
      BY <1>3, <2>1
    <3> QED
      BY <3>2, <3>3, SavingEffect DEF SamePlace
  <2> QED
    BY <1>1, <2>1, OnlyRename DEF Next
<1> QED
  BY <1>1, <1>2, <1>3, OtherFree DEF Free

LEMMA SavingKeeps == ASSUME JInv, NEW s \in Savers, Saving(s) PROVE JInv'
<1>1. IInv /\ IInv' /\ Typed
  BY SavingInv DEF JInv, IInv
<1>2. /\ saver[s].pc \notin {"idle", "return"} /\ saver'[s].pc # "idle"
      /\ SameCall(s) /\ \A o \in Savers \ {s} : SamePlace(o)
      /\ saver'[s].pc = "clean" => Rename(s)
      /\ saver'[s].ok # saver[s].ok => saver'[s].pc = "return"
      /\ saver[s].ok \/ ~saver'[s].ok \/ ClearDirty(s)
      /\ dirty' = dirty \/ ClearDirty(s)
  BY <1>1, SavingEffect
<1>3. UNCHANGED <<phase, rev, latest, was_pending, record_status, captured, stopping, take, mishaps>>
  BY DEF Saving, OpenBackup, CopyBackup, OpenTmp, WriteTmp, FailTmp, Rename, ClearDirty,
         session, transport
<1>4. RestTyped'
  BY <1>1, <1>2, <1>3, SaverTyped DEF JInv, RestTyped, ClearDirty, SaverType
<1>5. Ordered'
  <2>1. \A n \in Names : files'[n] <= latest
    <3> TAKE n \in Names
    <3>1. /\ \A m \in Names : files[m] <= latest /\ files[m] \in Contents
          /\ latest \in Nat /\ saver[s].tree <= latest
      BY <1>1, MaxRevAssumption DEF JInv, Ordered, Typed, Revisions
    <3>2. \A m \in Names : Beginning(files[m]) <= latest
      BY <3>1, ContentsNumbers
    <3> QED
      BY <1>1, <3>1, <3>2, SavingFiles DEF Broken, Absent
  <2>2. \A o \in Savers : saver'[o].tree = saver[o].tree
    BY <1>2 DEF SamePlace, SameCall
  <2> QED
    BY <1>3, <2>1, <2>2 DEF JInv, Ordered
<1>6. Linked'
  <2>1. \A o \in Savers : Free(o)' = Free(o)
    BY <1>2 DEF SamePlace, Free
  <2>2. \A o \in Savers : SameCall(o)
    BY <1>2 DEF SamePlace
  <2>3. \A o \in Savers : saver'[o].ok => saver'[o].pc = "return"
    BY <1>2 DEF JInv, Linked, At, SamePlace
  <2> QED
    BY <1>3, <2>1, <2>2, <2>3 DEF JInv, Linked, SameCall, At, Savers
<1>7. ASSUME "overlap" \notin mishaps
      PROVE  /\ Rename(s) /\ ~saver[s].pending => files'["state"] = saver[s].tree
             /\ ~Rename(s) \/ saver[s].pending => files'["state"] = files["state"]
             /\ \A o \in Savers \ {s} : saver'[o].pc = "idle"
             /\ \A o \in Savers \ {s} : ~saver'[o].ok
  BY <1>1, <1>2, <1>7, StateFile DEF SamePlace, Free, JInv, Linked, At
<1>8. ~saver[s].ok
  BY <1>2 DEF JInv, Linked, At
<1>9. ASSUME mishaps = {} PROVE InFile'
  <2>1. InFile /\ "overlap" \notin mishaps
    BY <1>9 DEF JInv
  <2>2. ASSUME ~saver[s].pending PROVE saver[s].tree = rev
    BY <1>2, <2>1, <2>2 DEF InFile
  <2>3. ASSUME ~saver[s].pending, ClearDirty(s) PROVE files["state"] = rev /\ ~Rename(s)
    BY <2>1, <2>2, <2>3 DEF InFile, ClearDirty, Rename, At
  <2>4. /\ phase = "up" /\ ~dirty' => files'["state"] = rev
        /\ phase = "loading" /\ ~was_pending => files'["state"] = rev
    BY <1>2, <1>7, <2>1, <2>2, <2>3 DEF InFile, ClearDirty
  <2>5. ASSUME phase = "loading", saver'["gui"].ok PROVE files'["state"] = rev
    <3>1. s = "gui" /\ ClearDirty(s) /\ ~saver[s].pending
      BY <1>2, <1>7, <1>8, <2>1, <2>5 DEF JInv, Linked, Free, Savers
    <3> QED
      BY <1>7, <2>1, <2>3, <3>1
  <2>6. \A o \in Savers : ~saver'[o].pending =>
          /\ saver'[o].pc \notin {"idle", "return"} => saver'[o].tree = rev
          /\ saver'[o].pc = "clean" => files'["state"] = saver'[o].tree
    BY <1>2, <1>7, <2>1, <2>2 DEF SameCall
  <2> QED
    BY <1>3, <2>4, <2>5, <2>6 DEF InFile, At
<1>10. ASSUME "overlap" \notin mishaps PROVE TakeKept'
  <2>1. TakeKept
    BY <1>10 DEF JInv
  <2>2. Settled' = Settled
    BY <1>3 DEF Settled
  <2>3. \A o \in Savers : (Settled \/ o = "butler") /\ saver'[o].pc # "idle" /\ ~saver'[o].pending
          => take <= saver'[o].tree
    BY <1>2, <1>7, <1>10, <2>1 DEF TakeKept, SameCall, Free
  <2>4. Settled => take <= files'["state"]
    BY <1>2, <1>7, <1>10, <2>1 DEF TakeKept, Free
  <2>5. ASSUME saver'["butler"].pc # "idle", ~saver'["butler"].pending,
               saver'["butler"].pc = "clean" \/ saver'["butler"].ok
        PROVE  take <= files'["state"]
    <3>1. s = "butler" /\ ~saver[s].pending
      BY <1>2, <1>7, <1>10, <2>5 DEF SameCall, Savers
    <3>2. CASE Rename(s)
      BY <1>2, <1>7, <1>10, <2>1, <3>1, <3>2 DEF TakeKept, Free
    <3>3. CASE ~Rename(s)
      <4>1. ClearDirty(s)
        BY <1>2, <1>8, <2>5, <3>1, <3>3
      <4> QED
        BY <1>7, <1>10, <2>1, <3>1, <3>3, <4>1 DEF TakeKept, ClearDirty, Free, At
    <3> QED
      BY <3>2, <3>3
  <2> QED
    BY <1>3, <2>2, <2>3, <2>4, <2>5 DEF TakeKept, Free, At
<1> QED
  BY <1>1, <1>3, <1>4, <1>5, <1>6, <1>9, <1>10 DEF JInv

-----------------------------------------------------------------------------
(* The actions that call save_state(), and those that come back from it.   *)

\* A call: nobody else is in save_state(), unless "overlap" is among the mishaps.
LEMMA CallEffect ==
    ASSUME IInv, RestTyped, NEW s \in Savers, NEW pending \in BOOLEAN, NEW then,
           Call(s, pending, then)
    PROVE  /\ Free(s) /\ saver'[s].pc \in {"backup", "open", "return"} /\ ~saver'[s].ok
           /\ saver'[s].pending = pending /\ saver'[s].tree = rev /\ saver'[s].then = then
           /\ \A o \in Savers \ {s} : saver'[o] = saver[o]
           /\ "overlap" \notin mishaps' => mishaps' = mishaps /\ \A o \in Savers : Free(o)
<1>1. PICK pc \in {"backup", "open", "return"} :
         saver' = [saver EXCEPT ![s] = Saver(pc, pending, rev, then)]
  BY DEF Call
<1>2. /\ saver'[s] = Saver(pc, pending, rev, then)
      /\ \A o \in Savers \ {s} : saver'[o] = saver[o]
  BY <1>1 DEF IInv, Typed
<1>3. Free(s) /\ Befalls("overlap", \E o \in Savers : ~Free(o))
  BY DEF Call
<1> QED
  BY <1>2, <1>3 DEF Saver, Befalls

\* A call by the GUI, in a session that is up, or by one being recovered.
LEMMA GuiCallKeeps ==
    ASSUME JInv, IInv', NEW pending \in BOOLEAN, NEW then \in {"user", "arm", "close", "recover"},
           Call("gui", pending, then),
           UNCHANGED <<files, phase, rev, latest, was_pending, captured, stopping, take>>,
           record_status' \in {"Disabled", "Enabled", "Recording"},
           \/ phase = "up" /\ then # "recover" /\ dirty' = dirty
           \/ phase = "loading" /\ then = "recover" /\ was_pending /\ ~pending /\ dirty' = FALSE
    PROVE  JInv'
<1>1. /\ Free("gui") /\ saver'["gui"].pc \in {"backup", "open", "return"} /\ ~saver'["gui"].ok
      /\ saver'["gui"].pending = pending /\ saver'["gui"].tree = rev /\ saver'["gui"].then = then
      /\ saver'["butler"] = saver["butler"]
      /\ "overlap" \notin mishaps' => mishaps' = mishaps /\ \A o \in Savers : Free(o)
  BY CallEffect DEF JInv, Savers
<1>2. RestTyped'
  BY DEF JInv, RestTyped
<1>3. Ordered'
  BY <1>1 DEF JInv, Ordered, Savers
<1>4. Linked'
  BY <1>1 DEF JInv, Linked, Free, At, Savers
<1>5. ASSUME mishaps' = {} PROVE InFile'
  <2>1. InFile /\ saver["butler"].pc = "idle"
    BY <1>1, <1>5 DEF JInv, Free, Savers
  <2> QED
    BY <1>1, <2>1 DEF InFile, At, Savers
<1>6. ASSUME "overlap" \notin mishaps' PROVE TakeKept'
  <2>1. TakeKept /\ saver["butler"].pc = "idle"
    BY <1>1, <1>6 DEF JInv, Free, Savers
  <2>2. Settled' = Settled
    BY DEF Settled
  <2> QED
    BY <1>1, <2>1, <2>2 DEF TakeKept, Free, At, Savers, JInv, Ordered
<1> QED
  BY <1>2, <1>3, <1>4, <1>5, <1>6 DEF JInv

LEMMA ButlerCallKeeps == JInv /\ IInv' /\ (PendTake \/ SaveTake) => JInv'
<1> SUFFICES ASSUME JInv, IInv', PendTake \/ SaveTake PROVE JInv'
  OBVIOUS
<1> DEFINE pends == stopping.step = "pend"
<1>1. /\ UNCHANGED <<files, session, record_status, captured, take>>
      /\ Call("butler", pends, IF pends THEN "pend" ELSE "take")
      /\ stopping.step \in {"pend", "save"}
  BY DEF PendTake, SaveTake
<1>2. /\ Free("butler") /\ saver'["butler"].pc \in {"backup", "open", "return"}
      /\ ~saver'["butler"].ok /\ saver'["butler"].pending = pends
      /\ saver'["butler"].tree = rev
      /\ saver'["butler"].then = IF pends THEN "pend" ELSE "take"
      /\ saver'["gui"] = saver["gui"]
      /\ "overlap" \notin mishaps' => mishaps' = mishaps /\ \A o \in Savers : Free(o)
  BY <1>1, CallEffect DEF JInv, Savers
<1>3. /\ stopping' \in StoppingType /\ stopping'.step = "saving"
      /\ stopping'.did_record = stopping.did_record
      /\ pends => stopping'.saved
      /\ ~pends => stopping'.saved = stopping.saved
  <2>1. stopping \in StoppingType
    BY DEF JInv, RestTyped
  <2>2. CASE PendTake
    BY <2>1, <2>2 DEF PendTake, StoppingType
  <2>3. CASE SaveTake
    BY <2>1, <2>3 DEF SaveTake, StoppingType
  <2> QED
    BY <2>2, <2>3
<1>4. RestTyped'
  BY <1>1, <1>3 DEF JInv, RestTyped, session
<1>5. Ordered'
  BY <1>1, <1>2 DEF JInv, Ordered, Savers, session
<1>6. Linked'
  BY <1>1, <1>2, <1>3 DEF JInv, Linked, Free, At, Savers, session
<1>7. ASSUME mishaps' = {} PROVE InFile'
  <2>1. InFile /\ saver["gui"].pc = "idle"
    BY <1>2, <1>7 DEF JInv, Free, Savers
  <2> QED
    BY <1>1, <1>2, <2>1 DEF InFile, At, Savers, session
<1>8. ASSUME "overlap" \notin mishaps' PROVE TakeKept'
  <2>1. TakeKept /\ saver["gui"].pc = "idle"
    BY <1>2, <1>8 DEF JInv, Free, Savers
  <2>2. Settled' => Settled
    BY <1>1, <1>3 DEF Settled, JInv, Linked
  <2> QED
    BY <1>1, <1>2, <2>1, <2>2 DEF TakeKept, Free, At, Savers, JInv, Ordered, session
<1> QED
  BY <1>4, <1>5, <1>6, <1>7, <1>8 DEF JInv

\* The GUI is back from save_state(), with a session that is up...
LEMMA GuiReturnedKeeps == JInv /\ IInv' /\ (Saved \/ Armed) => JInv'
<1> SUFFICES ASSUME JInv, IInv', Saved \/ Armed PROVE JInv'
  OBVIOUS
<1>1. /\ ~Free("gui") /\ saver["gui"].then # "recover"
      /\ UNCHANGED <<files, phase, rev, latest, was_pending, stopping, take, mishaps>>
      /\ dirty' = dirty \/ dirty' = TRUE
      /\ saver' = [saver EXCEPT !["gui"] = Idle]
  BY DEF Saved, Armed, At, Free, session, transport
<1>2. saver'["gui"] = Idle /\ saver'["butler"] = saver["butler"]
  BY <1>1 DEF JInv, IInv, Typed, Savers
<1>3. /\ Idle.pc = "idle" /\ ~Idle.ok /\ Idle.tree = 0 /\ ~Idle.pending
  BY DEF Idle, Saver
<1>4. RestTyped'
  BY <1>1 DEF JInv, RestTyped, Saved, Armed, transport, session
<1>5. Ordered' /\ Linked'
  <2>1. 0 <= latest
    BY DEF JInv, RestTyped, Ordered, IInv, Typed, Revisions
  <2> QED
    BY <1>1, <1>2, <1>3, <2>1 DEF JInv, Ordered, Linked, Free, At, Savers
<1>6. InFile => InFile'
  BY <1>1, <1>2, <1>3 DEF InFile, At, Savers, JInv, Linked
<1>7. TakeKept => TakeKept'
  BY <1>1, <1>2, <1>3 DEF TakeKept, Settled, Free, At, Savers
<1> QED
  BY <1>1, <1>4, <1>5, <1>6, <1>7 DEF JInv

\* ...or with one that was being recovered, and is in its file if the save succeeded.
LEMMA RecoveredKeeps == JInv /\ IInv' /\ Recovered => JInv'
<1> SUFFICES ASSUME JInv, IInv', Recovered PROVE JInv'
  OBVIOUS
<1>1. /\ At("gui", "return") /\ saver["gui"].then = "recover" /\ phase = "loading"
      /\ phase' = "up" /\ was_pending' = FALSE /\ dirty' = FALSE
      /\ UNCHANGED <<rev, latest, record_status, captured, stopping, take>>
      /\ saver' = [saver EXCEPT !["gui"] = Idle]
  BY DEF Recovered, At, Free, transport, JInv, Linked
<1>2. saver'["gui"] = Idle /\ saver'["butler"] = saver["butler"]
  BY <1>1 DEF JInv, IInv, Typed, Savers
<1>3. /\ Idle.pc = "idle" /\ ~Idle.ok /\ Idle.tree = 0 /\ ~Idle.pending
  BY DEF Idle, Saver
<1>4. files'["pending"] = Absent /\ \A n \in Names \ {"pending"} : files'[n] = files[n]
  BY DEF Recovered, Fill, JInv, IInv, Typed, Names
<1>5. RestTyped'
  BY <1>1 DEF JInv, RestTyped
<1>6. stopping.step = "idle" /\ saver["butler"].pc = "idle"
  BY <1>1 DEF JInv, Linked, Free
<1>7. Ordered' /\ Linked'
  <2>1. 0 <= latest
    BY DEF JInv, RestTyped, Ordered, IInv, Typed, Revisions
  <2> QED
    BY <1>1, <1>2, <1>3, <1>4, <1>6, <2>1
       DEF JInv, Ordered, Linked, Free, At, Savers, Absent, Names
<1>8. ASSUME mishaps' = {} PROVE InFile'
  <2>1. mishaps = {} /\ saver["gui"].ok
    BY <1>8, SaverTyped DEF Recovered, Befalls, JInv, SaverType, Savers
  <2>2. files["state"] = rev
    BY <1>1, <2>1 DEF JInv, InFile
  <2> QED
    BY <1>1, <1>2, <1>3, <1>4, <1>6, <2>2 DEF InFile, At, Savers, Names
<1>9. ASSUME "overlap" \notin mishaps' PROVE TakeKept'
  <2>1. TakeKept
    BY <1>9 DEF Recovered, Befalls, JInv
  <2> QED
    BY <1>1, <1>2, <1>3, <1>4, <1>6, <2>1 DEF TakeKept, Settled, Free, At, Savers, Names
<1> QED
  BY <1>5, <1>7, <1>8, <1>9 DEF JInv

\* The butler is back: with the take in the session file, or one that has to be given up.
LEMMA TakeReturnedKeeps == JInv /\ IInv' /\ TakeReturned => JInv'
<1> SUFFICES ASSUME JInv, IInv', TakeReturned PROVE JInv'
  OBVIOUS
<1> DEFINE pends == saver["butler"].then = "pend"
<1>1. /\ At("butler", "return") /\ ~Free("butler") /\ stopping.step = "saving"
      /\ UNCHANGED <<files, phase, rev, dirty, latest, was_pending, record_status, captured, mishaps>>
      /\ saver' = [saver EXCEPT !["butler"] = Idle]
      /\ take' = IF saver["butler"].ok THEN take ELSE 0
  BY DEF TakeReturned, At, Free, session, JInv, Linked
<1>2. saver'["butler"] = Idle /\ saver'["gui"] = saver["gui"]
  BY <1>1 DEF JInv, IInv, Typed, Savers
<1>3. /\ Idle.pc = "idle" /\ ~Idle.ok /\ Idle.tree = 0 /\ ~Idle.pending
  BY DEF Idle, Saver
<1>4. /\ stopping' \in StoppingType /\ stopping'.step = IF pends THEN "remove" ELSE "idle"
      /\ pends => stopping'.did_record = stopping.did_record
      /\ pends <=> stopping.saved
      /\ saver["butler"].pending <=> stopping.saved
  BY <1>1 DEF TakeReturned, NotStopping, StoppingType, JInv, RestTyped, Linked
<1>5. take' \in 0 .. MaxRev /\ take' <= take
  BY <1>1, MaxRevAssumption DEF JInv, RestTyped
<1>6. RestTyped'
  BY <1>1, <1>4, <1>5 DEF JInv, RestTyped
<1>7. Ordered'
  BY <1>1, <1>2, <1>3, <1>5 DEF JInv, Ordered, RestTyped, IInv, Typed, Revisions, Savers
<1>8. Linked'
  BY <1>1, <1>2, <1>3, <1>4 DEF JInv, Linked, Free, At, Savers
<1>9. InFile => InFile'
  BY <1>1, <1>2, <1>3 DEF InFile, At, Savers
<1>10. ASSUME "overlap" \notin mishaps PROVE TakeKept'
  <2>1. TakeKept /\ saver["gui"].pc = "idle" /\ files["state"] \in Revisions
    BY <1>1, <1>10 DEF JInv, IInv, OneSaver, SafeFiles, Free, Savers
  <2>2. Settled' => take' <= files["state"]
    <3>1. CASE saver["butler"].ok
      BY <1>1, <1>4, <2>1, <3>1 DEF TakeKept, Settled
    <3>2. CASE ~saver["butler"].ok
      BY <1>1, <2>1, <3>2 DEF Revisions
    <3> QED
      BY <3>1, <3>2
  <2> QED
    BY <1>1, <1>2, <1>3, <2>1, <2>2 DEF TakeKept, Free, At, Savers
<1> QED
  BY <1>1, <1>6, <1>7, <1>8, <1>9, <1>10 DEF JInv

-----------------------------------------------------------------------------
(* The actions that leave save_state() alone, or only take a file from it. *)

\* A new revision.
LEMMA ChangedKeeps == JInv /\ IInv' /\ (Edit \/ MakeTake) => JInv'
<1> SUFFICES ASSUME JInv, IInv', Edit \/ MakeTake PROVE JInv'
  OBVIOUS
<1>1. /\ UNCHANGED <<files, phase, was_pending, record_status, saver>>
      /\ stopping' \in StoppingType
      /\ captured' \in BOOLEAN
      /\ stopping' # stopping => /\ stopping.step = "stop"
                                 /\ stopping'.step \in {"pend", "remove"}
      /\ phase \in {"up", "closing"}
  BY DEF Edit, MakeTake, transport, StoppingType, JInv, RestTyped, Linked, NotStopping, IInv, Numbered
<1>2. \/ Changed /\ take' = take
      \/ Changed /\ take' = latest + 1 /\ stopping'.did_record /\ stopping' # stopping
      \/ UNCHANGED <<rev, latest, dirty, take, mishaps>>
  <2>1. CASE Edit
    BY <2>1 DEF Edit, transport
  <2>2. CASE MakeTake
    <3>1. stopping'.did_record = captured
      BY <2>2 DEF MakeTake, JInv, RestTyped, StoppingType
    <3>2. stopping'.step # "stop" /\ stopping.step = "stop"
      BY <2>2 DEF MakeTake, JInv, RestTyped, StoppingType
    <3> QED
      BY <2>2, <3>1, <3>2 DEF MakeTake
  <2> QED
    BY <2>1, <2>2
<1>3. take \in Nat /\ rev \in Nat /\ latest \in Nat
  BY MaxRevAssumption DEF JInv, RestTyped, IInv, Typed, Revisions
<1>4. take' <= rev' /\ rev' <= latest' /\ latest <= latest'
  BY <1>2, <1>3 DEF Changed, JInv, Ordered
<1>5. RestTyped'
  <2>1. latest' \in Revisions /\ take' \in 0 .. MaxRev /\ rev' \in 0 .. MaxRev
    BY <1>2, <1>3, MaxRevAssumption DEF Changed, JInv, RestTyped, IInv, Typed, Revisions
  <2> QED
    BY <1>1, <1>2, <2>1 DEF JInv, RestTyped, Changed
<1>6. Ordered'
  <2>1. \A n \in Names : files[n] \in Int
    BY ContentsNumbers DEF JInv, IInv, Typed
  <2>2. \A s \in Savers : saver[s].tree \in Int
    BY SaverTyped, MaxRevAssumption DEF JInv, SaverType
  <2>3. latest' \in Nat
    BY <1>2, <1>3 DEF Changed
  <2> QED
    BY <1>1, <1>3, <1>4, <2>1, <2>2, <2>3 DEF JInv, Ordered
<1>7. Linked'
  BY <1>1 DEF JInv, Linked, Free, At
<1>8. /\ mishaps' = {} => mishaps = {} /\ (Changed => ~SavingOld)
      /\ "overlap" \notin mishaps' => "overlap" \notin mishaps
  BY <1>2 DEF Changed, Befalls, SavingOld, At, Free
<1>9. ASSUME mishaps' = {} PROVE InFile'
  <2>1. CASE Changed
    <3>1. dirty' /\ \A s \in Savers : ~saver[s].pending => saver[s].pc \in {"idle", "return"}
      BY <1>8, <1>9, <2>1 DEF Changed, SavingOld
    <3> QED
      BY <1>1, <3>1 DEF InFile, At
  <2>2. CASE UNCHANGED <<rev, latest, dirty, take, mishaps>>
    BY <1>1, <1>8, <1>9, <2>2 DEF InFile, JInv, At
  <2> QED
    BY <1>2, <2>1, <2>2
<1>10. ASSUME "overlap" \notin mishaps' PROVE TakeKept'
  <2>1. TakeKept
    BY <1>8, <1>10 DEF JInv
  <2>2. Settled' => Settled /\ take' = take
    BY <1>1, <1>2 DEF Settled
  <2>3. ~Free("butler") => take' = take
    BY <1>1, <1>2 DEF JInv, Linked
  <2> QED
    BY <1>1, <2>1, <2>2, <2>3 DEF TakeKept, Free, At, Savers
<1> QED
  BY <1>5, <1>6, <1>7, <1>9, <1>10 DEF JInv

\* Recording begins, and the transport is told to stop.
LEMMA TransportKeeps ==
    JInv /\ IInv' /\ (Roll \/ \E locate, latched \in BOOLEAN : Stop(locate, latched)) => JInv'
<1> SUFFICES ASSUME JInv, IInv', Roll \/ \E locate, latched \in BOOLEAN : Stop(locate, latched)
             PROVE  JInv'
  OBVIOUS
<1>1. /\ UNCHANGED <<files, session, saver, take, mishaps>>
      /\ phase = "up" /\ stopping.step = "idle"
      /\ captured' \in BOOLEAN /\ record_status' \in {"Disabled", "Enabled", "Recording"}
      /\ stopping' \in StoppingType /\ stopping'.step \in {"idle", "stop"}
  BY DEF Roll, Stop, JInv, RestTyped, StoppingType, NotStopping
<1>2. RestTyped' /\ Ordered' /\ Linked'
  BY <1>1 DEF JInv, RestTyped, Ordered, Linked, Free, At, session
<1>3. InFile => InFile'
  BY <1>1 DEF InFile, At, session
<1>4. TakeKept => TakeKept'
  <2>1. Settled
    BY <1>1 DEF Settled
  <2> QED
    BY <1>1, <2>1 DEF TakeKept, Free, At
<1> QED
  BY <1>1, <1>2, <1>3, <1>4 DEF JInv

\* Pending state is removed, with what the butler has just saved in it.
LEMMA RemovesKeep == JInv /\ IInv' /\ (Disarm \/ DropPending) => JInv'
<1> SUFFICES ASSUME JInv, IInv', Disarm \/ DropPending PROVE JInv'
  OBVIOUS
<1>1. \A s \in Savers : SamePlace(s)
  BY RemovePendingEffect DEF JInv, Disarm, DropPending
<1>2. files'["pending"] = Absent /\ \A n \in Names \ {"pending"} : files'[n] = files[n]
  BY DEF Disarm, DropPending, RemovePending, Fill, JInv, IInv, Typed, Names
<1>3. /\ UNCHANGED <<phase, rev, dirty, latest, was_pending, captured, mishaps>>
      /\ record_status' \in {"Disabled", "Enabled", "Recording"}
      /\ take' \in {0, take}
  BY DEF Disarm, DropPending, session, JInv, RestTyped
<1>4. \/ UNCHANGED <<stopping, take>> /\ phase = "up"
      \/ /\ stopping.step = "remove" /\ stopping'.step \in {"save", "idle"} /\ ~stopping'.saved
         /\ stopping'.step = "idle" =>
               take' = (IF stopping.did_record THEN 0 ELSE take)
  <2>1. CASE Disarm
    BY <2>1 DEF Disarm
  <2>2. CASE DropPending
    BY <2>2 DEF DropPending, NotStopping, JInv, RestTyped, StoppingType
  <2> QED
    BY <2>1, <2>2
<1>5. stopping' \in StoppingType
  BY DEF Disarm, DropPending, NotStopping, JInv, RestTyped, StoppingType
<1>6. take \in 0 .. MaxRev /\ take' \in 0 .. MaxRev /\ take' <= take
  BY <1>3, MaxRevAssumption DEF JInv, RestTyped
<1>7. RestTyped'
  BY <1>3, <1>5, <1>6 DEF JInv, RestTyped
<1>8. Ordered'
  <2>1. 0 <= latest /\ take' <= rev
    BY <1>6 DEF JInv, RestTyped, Ordered, IInv, Typed, Revisions
  <2> QED
    BY <1>1, <1>2, <1>3, <2>1 DEF JInv, Ordered, Absent, SamePlace, SameCall
<1>9. Linked'
  BY <1>1, <1>3, <1>4 DEF JInv, Linked, Free, At, SamePlace, SameCall, Savers
<1>10. InFile => InFile'
  BY <1>1, <1>2, <1>3 DEF InFile, At, SamePlace, SameCall, Savers, Names
<1>11. ASSUME "overlap" \notin mishaps PROVE TakeKept'
  <2>1. TakeKept /\ files["state"] \in Revisions /\ files'["state"] = files["state"]
    BY <1>2, <1>11 DEF JInv, IInv, SafeFiles, Names
  <2>2. Settled' => (Settled /\ take' = take) \/ take' = 0
    BY <1>4 DEF Settled
  <2>3. ~Free("butler") => take' = take
    BY <1>4 DEF JInv, Linked
  <2>4. \A s \in Savers : saver[s].tree >= 0
    BY SaverTyped DEF JInv, SaverType
  <2> QED
    BY <1>1, <2>1, <2>2, <2>3, <2>4
       DEF TakeKept, Free, At, SamePlace, SameCall, Savers, Revisions
<1> QED
  BY <1>3, <1>7, <1>8, <1>9, <1>10, <1>11 DEF JInv

LEMMA DestroyKeeps == JInv /\ IInv' /\ Destroy => JInv'
<1> SUFFICES ASSUME JInv, IInv', Destroy PROVE JInv'
  OBVIOUS
<1>1. /\ phase = "up" /\ phase' = "closing"
      /\ UNCHANGED <<rev, dirty, latest, was_pending, transport, mishaps>>
  BY DEF Destroy
<1>2. saver'["gui"] = Idle /\ SamePlace("butler")
  <2>1. saver'["gui"] = Idle /\ saver'["butler"] = Renamed(saver["butler"], "pending", "gone")
    BY DEF Destroy, Savers
  <2> QED
    BY <2>1, RenamedEffect, SaverTyped DEF SamePlace, SameCall, JInv, Savers
<1>3. /\ Idle.pc = "idle" /\ ~Idle.ok /\ Idle.tree = 0 /\ ~Idle.pending
  BY DEF Idle, Saver
<1>4. files'["pending"] = Absent /\ \A n \in Names \ {"pending"} : files'[n] = files[n]
  BY DEF Destroy, Fill, JInv, IInv, Typed, Names
<1>5. RestTyped'
  BY <1>1 DEF JInv, RestTyped, transport
<1>6. Ordered'
  <2>1. 0 <= latest
    BY DEF JInv, IInv, Typed, Revisions
  <2> QED
    BY <1>1, <1>2, <1>3, <1>4, <2>1
       DEF JInv, Ordered, SamePlace, SameCall, Savers, Absent, transport
<1>7. Linked'
  BY <1>1, <1>2, <1>3 DEF JInv, Linked, Free, At, SamePlace, SameCall, Savers, transport
<1>8. InFile => InFile'
  BY <1>1, <1>2, <1>3, <1>4 DEF InFile, At, SamePlace, SameCall, Savers, Names
<1>9. TakeKept => TakeKept'
  <2>1. Settled' = Settled /\ take' = take
    BY <1>1 DEF Settled, transport
  <2> QED
    BY <1>2, <1>3, <1>4, <2>1 DEF TakeKept, Free, At, SamePlace, SameCall, Savers, Names
<1> QED
  BY <1>1, <1>5, <1>6, <1>7, <1>8, <1>9 DEF JInv

LEMMA NotStoppingTyped == NotStopping \in StoppingType /\ NotStopping.step = "idle"
  BY DEF NotStopping, StoppingType

\* Nobody is in save_state(), nor stopping: what is left to say is of the session file.
LEMMA Resting ==
    ASSUME IInv', RestTyped', \A s \in Savers : saver'[s] = Idle, stopping'.step = "idle",
           take' = 0, rev' <= latest', \A n \in Names : files'[n] <= latest',
           phase' # "up", phase' = "loading" => was_pending' \/ files'["state"] = rev'
    PROVE  JInv'
<1>1. /\ Idle.pc = "idle" /\ ~Idle.ok /\ Idle.tree = 0 /\ ~Idle.pending
  BY DEF Idle, Saver
<1>2. 0 <= rev' /\ 0 <= latest'
  BY DEF RestTyped, IInv, Typed, Revisions
<1>3. Ordered' /\ Linked'
  BY <1>1, <1>2 DEF Ordered, Linked, Free, At, Savers
<1>4. InFile'
  BY <1>1 DEF InFile, At, Savers
<1>5. "overlap" \notin mishaps' => TakeKept'
  BY <1>1 DEF TakeKept, Free, At, Savers, IInv, SafeFiles, Revisions
<1> QED
  BY <1>3, <1>4, <1>5 DEF JInv

LEMMA EndedKeeps == JInv /\ IInv' /\ (Close \/ Crash \/ FailSetup) => JInv'
<1> SUFFICES ASSUME JInv, IInv', Close \/ Crash \/ FailSetup PROVE JInv'
  OBVIOUS
<1>1. Ended /\ (files' = files \/ Fill("pending", Absent))
  BY DEF Close, Crash, FailSetup
<1>2. \A n \in Names : files'[n] \in {files[n], Absent}
  BY <1>1 DEF Fill, JInv, IInv, Typed
<1>3. 0 <= latest /\ \A n \in Names : files[n] <= latest
  BY DEF JInv, Ordered, IInv, Typed, Revisions
<1>4. RestTyped'
  <2>1. rev' \in 0 .. MaxRev /\ take' \in 0 .. MaxRev
    BY <1>1, MaxRevAssumption DEF Ended
  <2>2. /\ dirty' \in BOOLEAN /\ was_pending' \in BOOLEAN /\ captured' \in BOOLEAN
        /\ phase' = "down" /\ record_status' = "Disabled" /\ stopping' = NotStopping
    BY <1>1 DEF Ended
  <2> QED
    BY <2>1, <2>2, NotStoppingTyped DEF RestTyped
<1> QED
  BY <1>1, <1>2, <1>3, <1>4, Resting DEF Ended, NotStopping, Absent

\* Without a session nobody is in save_state(), which the types leave open.
Down == phase = "down" => take = 0 /\ \A s \in Savers : saver[s] = Idle

LEMMA DownKeeps == JInv /\ Down /\ [Next]_vars => Down'
<1> SUFFICES ASSUME JInv, Down, [Next]_vars, phase' = "down"
             PROVE  take' = 0 /\ \A s \in Savers : saver'[s] = Idle
  BY DEF Down
<1>1. CASE Close \/ Crash \/ FailSetup
  BY <1>1 DEF Close, Crash, FailSetup, Ended
<1>2. CASE \E s \in Savers : Saving(s)
  <2>1. \E s \in Savers : saver[s].pc # "idle"
    BY <1>2, SavingEffect DEF JInv
  <2>2. phase' = phase
    BY <1>2 DEF Saving, OpenBackup, CopyBackup, OpenTmp, WriteTmp, FailTmp, Rename, ClearDirty,
                session
  <2> QED
    BY <2>1, <2>2 DEF JInv, IInv, Numbered, Free
<1>3. CASE \E recover \in BOOLEAN : Load(recover) \/ FailLoad(recover)
  BY <1>3 DEF Down, Load, FailLoad, session, transport
<1>4. CASE \/ Edit \/ Save \/ SavePending \/ Arm \/ Disarm \/ SaveToClose \/ Destroy \/ FinishLoad
           \/ Recovered \/ Roll \/ \E locate, latched \in BOOLEAN : Stop(locate, latched)
  BY <1>4 DEF Edit, Save, SavePending, Arm, Disarm, SaveToClose, Destroy, FinishLoad, Recovered,
              Roll, Stop, session
<1>5. CASE Saved \/ Armed \/ TakeReturned
  <2>1. phase' = phase /\ \E s \in Savers : saver[s].pc # "idle"
    BY <1>5 DEF Saved, Armed, TakeReturned, At, Savers, session
  <2> QED
    BY <2>1 DEF JInv, IInv, Numbered, Free
<1>6. CASE MakeTake \/ PendTake \/ DropPending \/ SaveTake
  <2>1. phase' = phase /\ stopping.step # "idle"
    BY <1>6 DEF MakeTake, PendTake, DropPending, SaveTake, session
  <2> QED
    BY <2>1 DEF JInv, IInv, Numbered
<1>7. CASE UNCHANGED vars
  BY <1>7 DEF vars, session, transport, Down
<1> QED
  BY <1>1, <1>2, <1>3, <1>4, <1>5, <1>6, <1>7 DEF Next

\* The next session.
LEMMA LoadKeeps ==
    ASSUME JInv, IInv', Down, NEW recover \in BOOLEAN, Load(recover) \/ FailLoad(recover)
    PROVE  JInv'
<1>1. phase = "down" /\ UNCHANGED <<latest, transport, saver, mishaps>>
  BY DEF Load, FailLoad, session
<1>2. take = 0 /\ (\A s \in Savers : saver[s] = Idle) /\ stopping.step = "idle"
  BY <1>1 DEF Down, JInv, IInv, Numbered
<1>3. 0 <= latest /\ rev <= latest /\ \A n \in Names : files[n] <= latest
  BY DEF JInv, Ordered, IInv, Typed, Revisions
<1>4. CASE Load(recover)
  <2>1. /\ phase' = "loading" /\ files' = files
        /\ rev' \in Revisions /\ was_pending' \in BOOLEAN /\ dirty' \in BOOLEAN
        /\ \E n \in Names : rev' = files[n]
        /\ was_pending' \/ rev' = files["state"]
    BY <1>4 DEF Load, Names
  <2>2. RestTyped'
    BY <1>1, <2>1, MaxRevAssumption DEF JInv, RestTyped, transport, Revisions
  <2> QED
    BY <1>1, <1>2, <1>3, <2>1, <2>2, Resting DEF transport
<1>5. CASE FailLoad(recover)
  <2>1. \A n \in Names : files'[n] \in {files[n], Absent}
    BY <1>5 DEF FailLoad, Fill, JInv, IInv, Typed
  <2>2. RestTyped' /\ phase' = "down" /\ rev' = rev
    BY <1>1, <1>5 DEF FailLoad, JInv, RestTyped, session, transport
  <2> QED
    BY <1>1, <1>2, <1>3, <2>1, <2>2, Resting DEF transport, Absent
<1> QED
  BY <1>4, <1>5

LEMMA FinishLoadKeeps == JInv /\ IInv' /\ FinishLoad => JInv'
<1> SUFFICES ASSUME JInv, IInv', FinishLoad PROVE JInv'
  OBVIOUS
<1>1. CASE was_pending
  BY <1>1, GuiCallKeeps DEF FinishLoad, transport, JInv, RestTyped
<1>2. CASE ~was_pending
  <2>1. /\ phase = "loading" /\ Free("gui") /\ phase' = "up" /\ ~dirty'
        /\ UNCHANGED <<files, rev, latest, was_pending, transport, saver, mishaps>>
        /\ dirty' \in BOOLEAN
    BY <1>2 DEF FinishLoad
  <2>2. RestTyped' /\ Ordered' /\ Linked'
    BY <2>1 DEF JInv, RestTyped, Ordered, Linked, Free, At, transport
  <2>3. InFile => InFile'
    BY <1>2, <2>1 DEF InFile, At
  <2>4. TakeKept => TakeKept'
    BY <2>1 DEF TakeKept, Settled, Free, At, transport
  <2> QED
    BY <2>1, <2>2, <2>3, <2>4 DEF JInv
<1> QED
  BY <1>1, <1>2

LEMMA StutterKeeps == JInv /\ IInv' /\ UNCHANGED vars => JInv'
<1> SUFFICES ASSUME JInv, IInv', UNCHANGED vars PROVE JInv'
  OBVIOUS
<1>1. UNCHANGED <<files, phase, rev, dirty, latest, was_pending, record_status, captured,
                  stopping, take, saver, mishaps>>
  BY DEF vars, session, transport
<1>2. RestTyped' /\ Ordered' /\ Linked'
  BY <1>1 DEF JInv, RestTyped, Ordered, Linked, Free, At
<1>3. InFile' = InFile /\ TakeKept' = TakeKept
  BY <1>1 DEF InFile, TakeKept, Settled, Free, At
<1> QED
  BY <1>1, <1>2, <1>3 DEF JInv

-----------------------------------------------------------------------------
LEMMA InitJInv == Init => JInv /\ Down
<1> SUFFICES ASSUME Init PROVE JInv /\ Down
  OBVIOUS
<1>1. /\ Idle.pc = "idle" /\ ~Idle.ok /\ Idle.tree = 0 /\ ~Idle.pending
  BY DEF Idle, Saver
<1>2. \A s \in Savers : saver[s] = Idle
  BY DEF Init
<1>3. files["state"] = 1 /\ \A n \in Names : files[n] <= 1
  BY DEF Init, Names, Absent
<1>4. RestTyped /\ NotStopping.step = "idle"
  <2>1. rev \in 0 .. MaxRev /\ take \in 0 .. MaxRev
    BY MaxRevAssumption DEF Init
  <2>2. /\ dirty \in BOOLEAN /\ was_pending \in BOOLEAN /\ captured \in BOOLEAN
        /\ phase = "up" /\ record_status = "Disabled" /\ stopping = NotStopping
    BY DEF Init
  <2> QED
    BY <2>1, <2>2, NotStoppingTyped DEF RestTyped
<1>5. Ordered /\ Linked
  BY <1>1, <1>2, <1>3, <1>4 DEF Init, Ordered, Linked, Free, At, Savers
<1>6. InFile /\ TakeKept
  BY <1>1, <1>2, <1>3 DEF Init, InFile, TakeKept, Free, At, Savers
<1>7. IInv
  BY InitIInv
<1> QED
  BY <1>4, <1>5, <1>6, <1>7 DEF JInv, Down, Init

LEMMA NextJInv == JInv /\ Down /\ [Next]_vars => JInv' /\ Down'
<1> SUFFICES ASSUME JInv, Down, [Next]_vars PROVE JInv'
  BY DownKeeps
<1>1. IInv'
  BY NextIInv DEF JInv
<1>2. CASE \E s \in Savers : Saving(s)
  BY <1>2, SavingKeeps
<1>3. CASE Save \/ SavePending \/ SaveToClose
  <2>1. \E pending \in BOOLEAN, then \in {"user", "close"} : Call("gui", pending, then)
    BY <1>3 DEF Save, SavePending, SaveToClose
  <2>2. phase = "up" /\ UNCHANGED <<files, session, transport>>
    BY <1>3 DEF Save, SavePending, SaveToClose
  <2> QED
    BY <1>1, <2>1, <2>2, GuiCallKeeps DEF session, transport, JInv, RestTyped
<1>4. CASE Arm
  BY <1>1, <1>4, GuiCallKeeps DEF Arm, session
<1>5. CASE PendTake \/ SaveTake
  BY <1>1, <1>5, ButlerCallKeeps
<1>6. CASE Saved \/ Armed \/ Recovered \/ TakeReturned
  BY <1>1, <1>6, GuiReturnedKeeps, RecoveredKeeps, TakeReturnedKeeps
<1>7. CASE Edit \/ MakeTake
  BY <1>1, <1>7, ChangedKeeps
<1>8. CASE Roll \/ \E locate, latched \in BOOLEAN : Stop(locate, latched)
  BY <1>1, <1>8, TransportKeeps
<1>9. CASE Disarm \/ DropPending
  BY <1>1, <1>9, RemovesKeep
<1>10. CASE Destroy \/ Close \/ Crash \/ FailSetup
  BY <1>1, <1>10, DestroyKeeps, EndedKeeps
<1>11. CASE FinishLoad \/ \E recover \in BOOLEAN : Load(recover) \/ FailLoad(recover)
  BY <1>1, <1>11, FinishLoadKeeps, LoadKeeps
<1>12. CASE UNCHANGED vars
  BY <1>1, <1>12, StutterKeeps
<1> QED
  BY <1>2, <1>3, <1>4, <1>5, <1>6, <1>7, <1>8, <1>9, <1>10, <1>11, <1>12 DEF Next

LEMMA SavedInvariance == Spec => []JInv
<1>1. Spec => [](JInv /\ Down)
  BY InitJInv, NextJInv, PTL DEF Spec
<1> QED
  BY <1>1, PTL

\* Every variable keeps to its type, for any number of revisions.
THEOREM TypeCorrect == Spec => []TypeOK
<1>1. JInv => TypeOK
  BY DEF JInv, IInv, Typed, RestTyped, TypeOK, Contents
<1> QED
  BY <1>1, SavedInvariance, PTL

\* A session that is not dirty is the one in its file, so that it can be closed without a
\* question (session_state.cc:748): unless two threads were saving, a thread changed the
\* session while another saved it, or the save of a recovered session failed.
THEOREM CleanIsSaved == Spec => []CleanMeansSaved
<1>1. JInv => CleanMeansSaved
  BY DEF JInv, IInv, Typed, InFile, CleanMeansSaved, Mishaps
<1> QED
  BY <1>1, SavedInvariance, PTL

\* When the butler is done with a stop, the take is in the session file or has had to be
\* given up (session_transport.cc:490), unless two threads were in save_state() at once.
THEOREM TakesAreSaved == Spec => []TakeSaved
<1>1. JInv => TakeSaved
  BY DEF JInv, TakeKept, Settled, TakeSaved
<1> QED
  BY <1>1, SavedInvariance, PTL

=============================================================================
