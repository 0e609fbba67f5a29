----------------------------- MODULE RcuProofs -----------------------------
(***************************************************************************)
(* For any number of readers and writers: no update is lost, and a reader  *)
(* that lets go of a version destroys it only after a flush().  For        *)
(* finitely many: the dead wood is no more than they are.                  *)
(***************************************************************************)
EXTENDS Rcu, FiniteSetTheorems, TLAPS

\* One writer at a time is between write_copy() and the end of update().
Serial == \A w \in Writers : writer[w].pc \in Busy => lock = w

\* Versions are numbered as they are made, and the current one has its shared_ptr.
Numbered ==
    /\ rcu_value <= made /\ rcu_value \in heap
    /\ \A w \in Writers : writer[w].copy <= made
    /\ \A r \in Readers : reader[r].at <= made /\ reader[r].held <= made

\* A copy has the changes of the version it is a copy of, which stays the current one as
\* long as the copy is nobody else's; then it is the current one itself.
Copied ==
    \A w \in Writers :
        /\ writer[w].pc = "copied" =>
              /\ current_write_old = rcu_value
              /\ done \subseteq changes[writer[w].copy]
              /\ rcu_value # writer[w].copy
              /\ \A r \in Readers : reader[r].at # writer[w].copy /\ reader[r].held # writer[w].copy
        /\ writer[w].pc \in {"copied", "swapped", "buried", "updated"} =>
              writer[w].copy \in Versions /\ writer[w].copy \in changes[writer[w].copy]
        /\ writer[w].pc \in {"swapped", "buried", "updated"} => writer[w].copy = rcu_value
        /\ writer[w].pc \in {"swapped", "buried"} =>
              current_write_old \in Versions /\ current_write_old # rcu_value
        /\ writer[w].pc = "buried" => current_write_old \in dead_wood

\* A version that somebody has hold of, once it has been current, is also held by the heap
\* or the dead wood, unless flush() has let go of it.
Kept ==
    /\ \A r \in Readers :
          reader[r].held # None => reader[r].held \in heap \cup dead_wood \cup cut
    /\ \A w \in Writers :
          writer[w].copy # None /\ writer[w].pc # "copied" =>
              writer[w].copy \in heap \cup dead_wood \cup cut

IInv == TypeOK /\ Serial /\ Numbered /\ Copied /\ NoLostUpdate /\ Kept

LEMMA InitIInv == Init => IInv
  BY MaxVersionAssumption
     DEF Init, IInv, TypeOK, Serial, Numbered, Copied, NoLostUpdate, Kept, Versions, None, Busy

LEMMA NextIInv == IInv /\ [Next]_vars => IInv'
<1> SUFFICES ASSUME IInv, [Next]_vars PROVE IInv'
  OBVIOUS
<1> USE MaxVersionAssumption, WritersAssumption DEF IInv, Versions, None, Busy
<1>1. ASSUME NEW w \in Writers, Begin(w) PROVE IInv'
  BY <1>1 DEF Begin, Moves, TypeOK, Serial, Numbered, Copied, NoLostUpdate, Kept
<1>2. ASSUME NEW w \in Writers, Clean(w) PROVE IInv'
  BY <1>2 DEF Clean, Moves, InUse, TypeOK, Serial, Numbered, Copied, NoLostUpdate, Kept
<1>3. ASSUME NEW w \in Writers, Copy(w) PROVE IInv'
  BY <1>3 DEF Copy, TypeOK, Serial, Numbered, Copied, NoLostUpdate, Kept
<1>4. ASSUME NEW w \in Writers, Swap(w) PROVE IInv'
  <2>1. /\ writer[w].pc = "copied" /\ rcu_value = current_write_old
        /\ writer[w].copy \in Versions
    BY <1>4 DEF Swap, Copied
  <2>2. /\ rcu_value' = writer[w].copy /\ heap' = heap \cup {writer[w].copy}
        /\ writer' = [writer EXCEPT ![w].pc = "swapped"]
        /\ UNCHANGED <<dead_wood, current_write_old, lock, changes, made, reader, done, cut>>
    BY <1>4, <2>1 DEF Swap, Moves
  <2>3. /\ writer'[w].copy = writer[w].copy /\ writer'[w].pc = "swapped"
        /\ \A v \in Writers \ {w} : writer'[v] = writer[v]
    BY <2>2 DEF TypeOK
  <2>4. \A v \in Writers \ {w} : writer[v].pc \notin Busy
    BY <2>1 DEF Serial
  <2>5. TypeOK' /\ Serial'
    BY <2>1, <2>2, <2>3 DEF TypeOK, Serial
  <2>6. Numbered'
    BY <2>1, <2>2, <2>3 DEF TypeOK, Numbered
  <2>7. Copied' /\ NoLostUpdate'
    BY <2>1, <2>2, <2>3, <2>4 DEF TypeOK, Copied, NoLostUpdate
  <2>8. Kept'
    BY <2>1, <2>2, <2>3 DEF Kept
  <2> QED
    BY <2>5, <2>6, <2>7, <2>8
<1>5. ASSUME NEW w \in Writers, Bury(w) PROVE IInv'
  BY <1>5 DEF Bury, Moves, TypeOK, Serial, Numbered, Copied, NoLostUpdate, Kept
<1>6. ASSUME NEW w \in Writers, Delete(w) PROVE IInv'
  BY <1>6 DEF Delete, Moves, TypeOK, Serial, Numbered, Copied, NoLostUpdate, Kept
<1>7. ASSUME NEW w \in Writers, Unlock(w) PROVE IInv'
  BY <1>7 DEF Unlock, Moves, TypeOK, Serial, Numbered, Copied, NoLostUpdate, Kept
<1>8. ASSUME NEW w \in Writers, Drop(w) PROVE IInv'
  BY <1>8 DEF Drop, shared, TypeOK, Serial, Numbered, Copied, NoLostUpdate, Kept
<1>9. ASSUME NEW w \in Writers, Flush(w) PROVE IInv'
  BY <1>9 DEF Flush, TypeOK, Serial, Numbered, Copied, NoLostUpdate, Kept
<1>10. ASSUME NEW r \in Readers, LoadPointer(r) PROVE IInv'
  BY <1>10 DEF LoadPointer, shared, TypeOK, Serial, Numbered, Copied, NoLostUpdate, Kept
<1>11. ASSUME NEW r \in Readers, CopyPointer(r) PROVE IInv'
  <2>1. UNCHANGED <<rcu_value, heap, dead_wood, current_write_old, lock, changes, made, writer,
                    done, cut>>
    BY <1>11 DEF CopyPointer, shared
  <2>2. PICK v \in {None, reader[r].at} :
          /\ reader' = [reader EXCEPT ![r] = [at |-> None, held |-> v]]
          /\ v # None => Alive(v) /\ v = reader[r].at
    BY <1>11 DEF CopyPointer
  <2>3. v \in Versions \cup {None} /\ v <= made
    BY <2>2 DEF TypeOK, Numbered
  <2>4. ASSUME v # None PROVE v \in heap \cup dead_wood \cup cut
    BY <2>2, <2>4 DEF Alive, InUse, Kept, Copied
  <2>5. ASSUME NEW w \in Writers, writer[w].pc = "copied" PROVE v # writer[w].copy
    BY <2>2, <2>5 DEF Copied
  <2>6. /\ reader'[r] = [at |-> None, held |-> v]
        /\ \A q \in Readers \ {r} : reader'[q] = reader[q]
    BY <2>2 DEF TypeOK
  <2>7. TypeOK' /\ Serial' /\ Numbered' /\ NoLostUpdate'
    BY <2>1, <2>2, <2>3, <2>6 DEF TypeOK, Serial, Numbered, NoLostUpdate
  <2>8. Copied'
    <3>1. ASSUME NEW w \in Writers, writer[w].pc = "copied", NEW q \in Readers
          PROVE  reader'[q].at # writer[w].copy /\ reader'[q].held # writer[w].copy
      <4>1. CASE q = r
        BY <2>5, <2>6, <3>1, <4>1 DEF Copied
      <4>2. CASE q # r
        BY <2>6, <3>1, <4>2 DEF Copied
      <4> QED
        BY <4>1, <4>2
    <3> QED
      BY <2>1, <3>1 DEF Copied
  <2>9. Kept'
    BY <2>1, <2>4, <2>6 DEF Kept
  <2> QED
    BY <2>7, <2>8, <2>9
<1>12. ASSUME NEW r \in Readers, Release(r) PROVE IInv'
  BY <1>12 DEF Release, shared, TypeOK, Serial, Numbered, Copied, NoLostUpdate, Kept
<1>13. CASE UNCHANGED vars
  BY <1>13 DEF vars, shared, TypeOK, Serial, Numbered, Copied, NoLostUpdate, Kept
<1> QED
  BY <1>1, <1>2, <1>3, <1>4, <1>5, <1>6, <1>7, <1>8, <1>9, <1>10, <1>11, <1>12, <1>13
     DEF Next, Reading

\* Every reachable state is typed, and whatever the writers have changed is in the version
\* that readers get.
THEOREM Invariance == Spec => []IInv
  BY InitIInv, NextIInv, PTL DEF Spec

\* No change is lost, for any number of readers and writers.
THEOREM UpdatesKept == Spec => []NoLostUpdate
  BY Invariance, PTL DEF IInv

\* A reader, which may be the process thread, destroys no version that flush() has left alone.
THEOREM ReadersOnlyRead == Spec => ReadersNeverFree
<1> DEFINE Safe(v) == Alive(v) /\ ~Alive(v)' => v \in cut
<1>1. IInv /\ [Next]_vars => [reader' # reader => \A v \in Versions : Safe(v)]_vars
  <2> SUFFICES ASSUME IInv, Next, reader' # reader, NEW v \in Versions, Alive(v), ~Alive(v)'
               PROVE  v \in cut
    BY DEF vars, shared
  <2>1. PICK r \in Readers : Reading(r)
    BY DEF Next, Begin, Clean, Copy, Swap, Bury, Delete, Unlock, Drop, Flush, shared
  <2>2. UNCHANGED <<heap, dead_wood, writer>>
    BY <2>1 DEF Reading, LoadPointer, CopyPointer, Release, shared
  <2>3. PICK q \in Readers : reader[q].held = v /\ v \notin heap \cup dead_wood
    BY <2>2 DEF Alive, InUse
  <2> QED
    BY <2>3 DEF IInv, Kept, Versions, None
<1> QED
  BY <1>1, Invariance, PTL DEF Spec, ReadersNeverFree

-----------------------------------------------------------------------------
(* The bound of the dead wood.  A writer cleans it before it adds to it.   *)
(* What it leaves is in the hands of the readers and of the other writers, *)
(* for the heap has only what is current, and what was current once never  *)
(* is again; and then it adds one.                                         *)

\* The dead wood and the heap only ever have versions made, and the heap has the current one
\* alone, but for the one that update() is about to delete.
HeapIsCurrent ==
    /\ current_write_old <= made /\ \A v \in heap \cup dead_wood : v <= made
    /\ heap \subseteq {rcu_value, current_write_old}
    /\ heap # {rcu_value} => \E w \in Writers : writer[w].pc \in {"swapped", "buried"}

\* A version in the dead wood is neither current nor about to be.
Dead ==
    /\ rcu_value \notin dead_wood
    /\ \A w \in Writers : writer[w].pc = "copied" => writer[w].copy \notin dead_wood
    /\ \A w \in Writers : writer[w].pc \in {"idle", "begun", "cleaned"} => writer[w].copy = None

\* Between the cleaning and the burial there is one less than may be.
RoomForOne ==
    /\ IsFiniteSet(dead_wood)
    /\ \A w \in Writers : writer[w].pc \in {"cleaned", "copied", "swapped"} =>
          Cardinality(dead_wood) + 1 <= Cardinality(Readers) + Cardinality(Writers)

BInv == HeapIsCurrent /\ Dead /\ RoomForOne /\ DeadWoodBounded

\* A function takes no more values than it has arguments.
LEMMA ImageBound ==
    ASSUME NEW S, IsFiniteSet(S), NEW f
    PROVE  /\ IsFiniteSet({f[x] : x \in S})
           /\ Cardinality({f[x] : x \in S}) <= Cardinality(S)
<1> DEFINE T == {f[x] : x \in S}
           g == [x \in S |-> f[x]]
<1>1. g \in Surjection(S, T)
  BY DEF Surjection
<1> QED
  BY <1>1, FS_Surjection

\* The versions in the hands of the readers and of the writers but one are fewer than they all.
Hands(w) == {reader[r].held : r \in Readers} \cup {writer[v].copy : v \in Writers \ {w}}

LEMMA InHands ==
    ASSUME NEW w \in Writers
    PROVE  /\ IsFiniteSet(Hands(w))
           /\ Cardinality(Hands(w)) + 1 <= Cardinality(Readers) + Cardinality(Writers)
<1> DEFINE f == [r \in Readers |-> reader[r].held]
           g == [v \in Writers \ {w} |-> writer[v].copy]
           F == {f[r] : r \in Readers}
           G == {g[v] : v \in Writers \ {w}}
<1>1. IsFiniteSet(F) /\ Cardinality(F) <= Cardinality(Readers)
  <2> HIDE DEF f
  <2> QED
    BY ImageBound, ThreadsAssumption
<1>2. /\ IsFiniteSet(Writers \ {w})
      /\ Cardinality(Writers \ {w}) = Cardinality(Writers) - 1
  BY FS_RemoveElement, ThreadsAssumption
<1>3. IsFiniteSet(G) /\ Cardinality(G) <= Cardinality(Writers) - 1
  <2> HIDE DEF g
  <2> QED
    BY ImageBound, <1>2
<1>4. Hands(w) = F \cup G
  BY DEF Hands
<1> HIDE DEF F, G
<1>5. /\ IsFiniteSet(F \cup G) /\ IsFiniteSet(F \cap G)
      /\ Cardinality(F \cup G) = Cardinality(F) + Cardinality(G) - Cardinality(F \cap G)
  BY <1>1, <1>3, FS_Union, FS_Subset
<1>6. /\ Cardinality(F) \in Nat /\ Cardinality(G) \in Nat /\ Cardinality(F \cap G) \in Nat
      /\ Cardinality(Readers) \in Nat /\ Cardinality(Writers) \in Nat
  BY <1>1, <1>3, <1>5, FS_CardinalityType, ThreadsAssumption
<1> QED
  BY <1>1, <1>3, <1>4, <1>5, <1>6

LEMMA InitBInv == Init => BInv
  BY FS_EmptySet, FS_CardinalityType, ThreadsAssumption
     DEF Init, BInv, HeapIsCurrent, Dead, RoomForOne, DeadWoodBounded, None

LEMMA NextBInv == IInv /\ BInv /\ [Next]_vars => BInv'
<1> SUFFICES ASSUME IInv, BInv, [Next]_vars PROVE BInv'
  OBVIOUS
<1> USE DEF BInv, Versions, None, Busy
<1> DEFINE Threads == Cardinality(Readers) + Cardinality(Writers)
<1>0. TypeOK /\ Serial /\ Numbered /\ Copied
  BY DEF IInv
<1>a. ASSUME UNCHANGED dead_wood,
             \A w \in Writers : \/ UNCHANGED writer[w]
                                \/ writer'[w].pc \notin {"cleaned", "copied", "swapped"}
                                \/ writer[w].pc \in {"cleaned", "copied", "swapped"}
      PROVE  RoomForOne' /\ DeadWoodBounded'
  BY <1>a DEF RoomForOne, DeadWoodBounded
<1>1. ASSUME NEW w \in Writers, Begin(w) PROVE BInv'
  <2>1. HeapIsCurrent' /\ Dead'
    BY <1>0, <1>1 DEF Begin, Moves, TypeOK, Serial, HeapIsCurrent, Dead
  <2> QED
    BY <2>1, <1>0, <1>1, <1>a DEF Begin, Moves, TypeOK
<1>2. ASSUME NEW w \in Writers, Clean(w) PROVE BInv'
  <2>1. heap = {rcu_value} /\ writer[w].copy = None
    BY <1>0, <1>2 DEF Clean, Moves, Serial, HeapIsCurrent, Dead
  <2>2. dead_wood' \subseteq Hands(w)
    BY <2>1, <1>0, <1>2 DEF Clean, InUse, Dead, TypeOK, Hands
  <2>3. IsFiniteSet(Hands(w)) /\ Cardinality(Hands(w)) + 1 <= Threads
    BY InHands
  <2>4. IsFiniteSet(dead_wood') /\ Cardinality(dead_wood') <= Cardinality(Hands(w))
    BY <2>2, <2>3, FS_Subset
  <2>5. /\ Cardinality(dead_wood') \in Nat /\ Cardinality(Hands(w)) \in Nat
        /\ Cardinality(Readers) \in Nat /\ Cardinality(Writers) \in Nat
    BY <2>3, <2>4, FS_CardinalityType, ThreadsAssumption
  <2>6. Cardinality(dead_wood') + 1 <= Threads /\ Cardinality(dead_wood') <= Threads
    BY <2>3, <2>4, <2>5
  <2>7. RoomForOne' /\ DeadWoodBounded'
    BY <2>4, <2>6 DEF RoomForOne, DeadWoodBounded
  <2>8. HeapIsCurrent' /\ Dead'
    BY <2>1, <1>0, <1>2 DEF Clean, Moves, TypeOK, Serial, HeapIsCurrent, Dead
  <2> QED
    BY <2>7, <2>8
<1>3. ASSUME NEW w \in Writers, Copy(w) PROVE BInv'
  <2>1. heap = {rcu_value}
    BY <1>0, <1>3 DEF Copy, Serial, HeapIsCurrent
  <2>2. HeapIsCurrent' /\ Dead'
    BY <2>1, <1>0, <1>3 DEF Copy, TypeOK, Serial, HeapIsCurrent, Dead
  <2> QED
    BY <2>2, <1>0, <1>3, <1>a DEF Copy, TypeOK
<1>4. ASSUME NEW w \in Writers, Swap(w) PROVE BInv'
  <2>1. /\ writer[w].pc = "copied" /\ rcu_value = current_write_old
    BY <1>0, <1>4 DEF Swap, Copied
  <2>2. /\ rcu_value' = writer[w].copy /\ heap' = heap \cup {writer[w].copy}
        /\ writer' = [writer EXCEPT ![w].pc = "swapped"]
        /\ UNCHANGED <<dead_wood, current_write_old, made>>
    BY <1>4, <2>1 DEF Swap, Moves
  <2>3. heap = {rcu_value} /\ \A v \in Writers \ {w} : writer[v].pc \notin Busy
    BY <1>0, <2>1 DEF Serial, HeapIsCurrent
  <2>4. writer[w].copy \in Versions /\ writer[w].copy <= made
    BY <1>0, <2>1 DEF Copied, Numbered
  <2>5. HeapIsCurrent' /\ Dead'
    BY <1>0, <2>1, <2>2, <2>3, <2>4 DEF TypeOK, HeapIsCurrent, Dead
  <2> QED
    BY <2>5, <1>0, <2>1, <2>2, <1>a DEF TypeOK
<1>5. ASSUME NEW w \in Writers, Bury(w) PROVE BInv'
  <2>1. IsFiniteSet(dead_wood') /\ Cardinality(dead_wood') <= Cardinality(dead_wood) + 1
    <3>1. IsFiniteSet(dead_wood) /\ Cardinality(dead_wood) \in Nat
      BY FS_CardinalityType DEF RoomForOne
    <3>2. dead_wood' = dead_wood \cup {current_write_old}
      BY <1>5 DEF Bury
    <3> QED
      BY <3>1, <3>2, FS_AddElement
  <2>2. Cardinality(dead_wood) + 1 <= Threads
    BY <1>5 DEF Bury, Moves, RoomForOne
  <2>3. /\ Cardinality(dead_wood') \in Nat /\ Cardinality(dead_wood) \in Nat
        /\ Cardinality(Readers) \in Nat /\ Cardinality(Writers) \in Nat
    BY <2>1, FS_CardinalityType, ThreadsAssumption DEF RoomForOne
  <2>4. DeadWoodBounded'
    BY <2>1, <2>2, <2>3 DEF DeadWoodBounded
  <2>5. \A v \in Writers : writer'[v].pc \notin {"cleaned", "copied", "swapped"}
    BY <1>0, <1>5 DEF Bury, Moves, TypeOK, Serial
  <2>6. current_write_old \in Versions /\ current_write_old # rcu_value
        /\ current_write_old <= made
    <3>1. current_write_old \in Versions /\ current_write_old # rcu_value
      BY <1>0, <1>5 DEF Bury, Moves, Copied
    <3> QED
      BY <3>1, <1>5 DEF Bury, Moves, HeapIsCurrent
  <2>7. HeapIsCurrent' /\ Dead'
    BY <1>0, <1>5, <2>5, <2>6 DEF Bury, Moves, TypeOK, Serial, HeapIsCurrent, Dead
  <2> QED
    BY <2>1, <2>4, <2>5, <2>7 DEF RoomForOne
<1>6. ASSUME NEW w \in Writers, Delete(w) PROVE BInv'
  <2>1. current_write_old # rcu_value
    BY <1>0, <1>6 DEF Delete, Moves, Copied
  <2>2. heap' = {rcu_value}
    BY <1>0, <1>6, <2>1 DEF Delete, Numbered, HeapIsCurrent
  <2>3. HeapIsCurrent' /\ Dead'
    BY <1>0, <1>6, <2>2 DEF Delete, Moves, TypeOK, HeapIsCurrent, Dead
  <2> QED
    BY <2>3, <1>0, <1>6, <1>a DEF Delete, Moves, TypeOK
<1>7. ASSUME NEW w \in Writers, Unlock(w) PROVE BInv'
  <2>1. HeapIsCurrent' /\ Dead'
    BY <1>0, <1>7 DEF Unlock, Moves, TypeOK, HeapIsCurrent, Dead
  <2> QED
    BY <2>1, <1>0, <1>7, <1>a DEF Unlock, Moves, TypeOK
<1>8. ASSUME NEW w \in Writers, Drop(w) PROVE BInv'
  <2>1. HeapIsCurrent' /\ Dead'
    BY <1>0, <1>8 DEF Drop, shared, TypeOK, HeapIsCurrent, Dead
  <2> QED
    BY <2>1, <1>0, <1>8, <1>a DEF Drop, shared, TypeOK
<1>9. ASSUME NEW w \in Writers, Flush(w) PROVE BInv'
  <2>1. HeapIsCurrent' /\ Dead'
    BY <1>0, <1>9 DEF Flush, HeapIsCurrent, Dead
  <2>2. \A v \in Writers : writer'[v].pc \notin {"cleaned", "copied", "swapped"}
    BY <1>0, <1>9, WritersAssumption DEF Flush, Serial
  <2>3. IsFiniteSet(dead_wood') /\ Cardinality(dead_wood') = 0
    BY <1>9, FS_EmptySet DEF Flush
  <2>4. Cardinality(Readers) \in Nat /\ Cardinality(Writers) \in Nat
    BY FS_CardinalityType, ThreadsAssumption
  <2> QED
    BY <2>1, <2>2, <2>3, <2>4 DEF RoomForOne, DeadWoodBounded
<1>10. ASSUME NEW r \in Readers, Reading(r) PROVE BInv'
  BY <1>10 DEF Reading, LoadPointer, CopyPointer, Release, shared,
               HeapIsCurrent, Dead, RoomForOne, DeadWoodBounded
<1>11. CASE UNCHANGED vars
  BY <1>11 DEF vars, shared, HeapIsCurrent, Dead, RoomForOne, DeadWoodBounded
<1> QED
  BY <1>1, <1>2, <1>3, <1>4, <1>5, <1>6, <1>7, <1>8, <1>9, <1>10, <1>11 DEF Next

\* Dead wood is cleaned out as it is made: whatever the readers hold and for however long,
\* there is no more of it than there are threads.
THEOREM DeadWoodStaysBounded == Spec => []DeadWoodBounded
<1>1. Spec => [](IInv /\ BInv)
  BY InitIInv, NextIInv, InitBInv, NextBInv, PTL DEF Spec
<1> QED
  BY <1>1, PTL DEF BInv

=============================================================================
