-------------------------------- MODULE Rcu --------------------------------
(***************************************************************************)
(* SerializedRCUManager: a list that the process thread reads without a    *)
(* lock while other threads replace it by a changed copy                   *)
(* (libs/pbd/pbd/rcu.h).  The routes, the diskstreams, the channels of a   *)
(* diskstream and the engine's ports are kept so.                          *)
(*                                                                         *)
(* A version of the list is a number, and is pointed to by a shared_ptr on *)
(* the heap of the same number while it is current; another may be in the  *)
(* dead wood, and readers and writers have their own.  What matters of its *)
(* contents is whose changes are in it.                                    *)
(***************************************************************************)
EXTENDS Integers, FiniteSets

CONSTANTS
    Readers,      \* threads that use reader()
    Writers,      \* threads that use an RCUWriter
    MaxVersion    \* bound: versions of the list

ASSUME MaxVersionAssumption == MaxVersion \in Nat
ASSUME WritersAssumption == "free" \notin Writers
ASSUME ThreadsAssumption == IsFiniteSet(Readers) /\ IsFiniteSet(Writers)

Versions == 0 .. MaxVersion
None == -1

VARIABLES
    rcu_value,    \* x.gptr: the shared_ptr that readers copy
    heap,         \* the shared_ptrs on the heap that have not been deleted
    dead_wood,    \* m_dead_wood
    current_write_old,
    lock,         \* m_lock: who holds it
    changes,      \* of each version, the changes in it; a change is named by its version
    made,         \* the last version made
    writer,       \* each writer: its pc, and its m_copy
    reader,       \* each reader: the pointer it has loaded, and the version it has hold of
    done,         \* history: the changes whose writers are through
    cut           \* history: the versions that flush() let go of

shared == <<rcu_value, heap, dead_wood, current_write_old, lock>>
vars == <<shared, changes, made, writer, reader, done, cut>>

Init ==
    /\ rcu_value = 0 /\ heap = {0} /\ dead_wood = {}
    /\ current_write_old = None /\ lock = "free"
    /\ changes = [v \in Versions |-> {}] /\ made = 0
    /\ writer = [w \in Writers |-> [pc |-> "idle", copy |-> None]]
    /\ reader = [r \in Readers |-> [at |-> None, held |-> None]]
    /\ done = {} /\ cut = {}

\* Somebody's shared_ptr other than the one in the dead wood points to v.
InUse(v) == \/ v \in heap
            \/ \E r \in Readers : reader[r].held = v
            \/ \E w \in Writers : writer[w].copy = v

Alive(v) == v \in dead_wood \/ InUse(v)

-----------------------------------------------------------------------------
(* Writers: an RCUWriter from its construction to its destruction.         *)

Moves(w, from, to) == /\ writer[w].pc = from
                      /\ writer' = [writer EXCEPT ![w].pc = to]

\* Mutant: the lock is not taken.
BeginUnlocked(w) ==
    /\ made < MaxVersion
    /\ Moves(w, "idle", "begun")
    /\ lock' = w
    /\ UNCHANGED <<rcu_value, heap, dead_wood, current_write_old, changes, made, reader, done, cut>>

\* write_copy() takes the lock...
Begin(w) ==
    /\ lock = "free" /\ made < MaxVersion
    /\ Moves(w, "idle", "begun")
    /\ lock' = w
    /\ UNCHANGED <<rcu_value, heap, dead_wood, current_write_old, changes, made, reader, done, cut>>

\* Mutant: use_count() is not looked at.
CleanAll(w) ==
    /\ Moves(w, "begun", "cleaned")
    /\ dead_wood' = {}
    /\ UNCHANGED <<rcu_value, heap, current_write_old, lock, changes, made, reader, done, cut>>

\* Mutant: nothing is cleaned out.
CleanNothing(w) ==
    /\ Moves(w, "begun", "cleaned")
    /\ UNCHANGED <<shared, changes, made, reader, done, cut>>

\* ...cleans out the dead wood whose use_count() is 1...
Clean(w) ==
    /\ Moves(w, "begun", "cleaned")
    /\ dead_wood' = {v \in dead_wood : InUse(v)}
    /\ UNCHANGED <<rcu_value, heap, current_write_old, lock, changes, made, reader, done, cut>>

\* ...and copies the current version, which the writer changes.
Copy(w) ==
    /\ writer[w].pc = "cleaned" /\ made < MaxVersion
    /\ current_write_old' = rcu_value
    /\ made' = made + 1
    /\ changes' = [changes EXCEPT ![made + 1] = changes[rcu_value] \cup {made + 1}]
    /\ writer' = [writer EXCEPT ![w] = [pc |-> "copied", copy |-> made + 1]]
    /\ UNCHANGED <<rcu_value, heap, dead_wood, lock, reader, done, cut>>

\* update(): if nobody was faster, the readers get the new version.
Swap(w) ==
    /\ writer[w].pc = "copied"
    /\ IF rcu_value = current_write_old
       THEN /\ rcu_value' = writer[w].copy /\ heap' = heap \cup {writer[w].copy}
            /\ Moves(w, "copied", "swapped")
       ELSE Moves(w, "copied", "updated") /\ UNCHANGED <<rcu_value, heap>>
    /\ UNCHANGED <<dead_wood, current_write_old, lock, changes, made, reader, done, cut>>

\* The dead wood takes the old one, so that "the underlying object lives on"...
Bury(w) ==
    /\ Moves(w, "swapped", "buried")
    /\ dead_wood' = dead_wood \cup {current_write_old}
    /\ UNCHANGED <<rcu_value, heap, current_write_old, lock, changes, made, reader, done, cut>>

\* ...when its shared_ptr is deleted.
Delete(w) ==
    /\ Moves(w, "buried", "updated")
    /\ heap' = heap \ {current_write_old}
    /\ UNCHANGED <<rcu_value, dead_wood, current_write_old, lock, changes, made, reader, done, cut>>

\* The lock is released, and then m_copy.
Unlock(w) ==
    /\ Moves(w, "updated", "unlocked")
    /\ lock' = "free"
    /\ done' = done \cup {writer[w].copy}
    /\ UNCHANGED <<rcu_value, heap, dead_wood, current_write_old, changes, made, reader, cut>>

Drop(w) ==
    /\ writer[w].pc = "unlocked"
    /\ writer' = [writer EXCEPT ![w] = [pc |-> "idle", copy |-> None]]
    /\ UNCHANGED <<shared, changes, made, reader, done, cut>>

\* flush(), called when a route has been removed: the dead wood goes, in use or not.
Flush(w) ==
    /\ lock = "free" /\ writer[w].pc = "idle" /\ dead_wood # {}
    /\ dead_wood' = {} /\ cut' = cut \cup dead_wood
    /\ UNCHANGED <<rcu_value, heap, current_write_old, lock, changes, made, writer, reader, done>>

-----------------------------------------------------------------------------
(* Readers.                                                                *)

\* reader(): the pointer is loaded...
LoadPointer(r) ==
    /\ reader[r].at = None /\ reader[r].held = None
    /\ reader' = [reader EXCEPT ![r].at = rcu_value]
    /\ UNCHANGED <<shared, changes, made, writer, done, cut>>

\* ...and the shared_ptr at it copied, if it is still there.  If not, the copy is one of
\* what is left of it: the version if that is alive, or nothing that can be used.
CopyPointer(r) ==
    /\ reader[r].at # None
    /\ \/ /\ Alive(reader[r].at)
          /\ reader' = [reader EXCEPT ![r] = [at |-> None, held |-> reader[r].at]]
       \/ /\ reader[r].at \notin heap
          /\ reader' = [reader EXCEPT ![r] = [at |-> None, held |-> None]]
    /\ UNCHANGED <<shared, changes, made, writer, done, cut>>

\* The reader's shared_ptr goes out of scope.
Release(r) ==
    /\ reader[r].held # None
    /\ reader' = [reader EXCEPT ![r].held = None]
    /\ UNCHANGED <<shared, changes, made, writer, done, cut>>

Reading(r) == LoadPointer(r) \/ CopyPointer(r) \/ Release(r)

Next == \/ \E w \in Writers : \/ Begin(w) \/ Clean(w) \/ Copy(w) \/ Swap(w) \/ Bury(w)
                              \/ Delete(w) \/ Unlock(w) \/ Drop(w) \/ Flush(w)
        \/ \E r \in Readers : Reading(r)

Spec == Init /\ [][Next]_vars

-----------------------------------------------------------------------------
(* Properties.                                                             *)

Busy == {"begun", "cleaned", "copied", "swapped", "buried", "updated"}

\* Every variable keeps to its type.
TypeOK ==
    /\ rcu_value \in Versions /\ heap \subseteq Versions /\ dead_wood \subseteq Versions
    /\ current_write_old \in Versions \cup {None} /\ lock \in Writers \cup {"free"}
    /\ changes \in [Versions -> SUBSET Versions] /\ made \in Versions
    /\ writer \in [Writers -> [pc : Busy \cup {"idle", "unlocked"}, copy : Versions \cup {None}]]
    /\ reader \in [Readers -> [at : Versions \cup {None}, held : Versions \cup {None}]]
    /\ done \subseteq Versions /\ cut \subseteq Versions

\* "we hold the lock at this point effectively blocking other writers": every change whose
\* writer is through is in the version that readers get.
NoLostUpdate == done \subseteq changes[rcu_value]

\* Dead wood is cleaned out as it is made: there is never more of it than there are
\* threads that may hold some.
DeadWoodBounded == Cardinality(dead_wood) <= Cardinality(Readers) + Cardinality(Writers)

\* What the dead wood is for: the process thread never destroys a version of the list, and
\* the routes or ports in it, by letting go of it, unless flush() let go of it first.
ReadersNeverFree ==
    [][reader' # reader => \A v \in Versions : Alive(v) /\ ~Alive(v)' => v \in cut]_vars
=============================================================================
