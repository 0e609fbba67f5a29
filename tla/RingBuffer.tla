----------------------------- MODULE RingBuffer -----------------------------
(***************************************************************************)
(* RingBuffer<T> between the thread that writes and the thread that reads, *)
(* without a lock: each works out the space it has from both indices,      *)
(* copies, and then sets its own index (libs/pbd/pbd/ringbuffer.h).        *)
(*                                                                         *)
(* write() and read() are the same steps as get_write_vector() and         *)
(* get_read_vector() with increment_write_idx() and increment_read_idx()   *)
(* after them, where the caller does the copying.  The indices are set and *)
(* read with GLib's atomic operations, which are taken to be sequentially  *)
(* consistent.                                                             *)
(***************************************************************************)
EXTENDS RingIndex, Sequences

CONSTANTS
    Values,       \* what the items are
    MaxCount      \* bound: the items of one read or write

ASSUME MaxCountAssumption == MaxCount \in Nat

VARIABLES
    buf,          \* buf
    write_idx, read_idx,
    writer,       \* the writing thread: its pc, and to_write items of its src
    reader,       \* the reading thread: its pc, to_read, and its dest
    put,          \* history: the items of src that the last write() wrote
    got           \* what the last read() returned

vars == <<buf, write_idx, read_idx, writer, reader, put, got>>

Init ==
    /\ buf \in [Slots -> Values]
    /\ write_idx = 0 /\ read_idx = 0
    /\ writer = [pc |-> "idle", src |-> <<>>]
    /\ reader = [pc |-> "idle", n |-> 0, dest |-> <<>>]
    /\ put = <<>> /\ got = <<>>

\* What can be written at once.
Batches == UNION {[1 .. n -> Values] : n \in 1 .. MaxCount}

Least(a, b) == IF a < b THEN a ELSE b

-----------------------------------------------------------------------------
(* The writer.                                                             *)

\* write (src, cnt), with room for at least one item.
BeginWrite(src) ==
    LET space == WriteSpace(write_idx, read_idx) IN
    /\ writer.pc = "idle" /\ space > 0 /\ src # <<>>
    /\ writer' = [pc |-> "copy", src |-> SubSeq(src, 1, Least(Len(src), space))]
    /\ UNCHANGED <<buf, write_idx, read_idx, reader, put, got>>

\* The memcpy up to the end of the buffer.
CopyIn ==
    LET n1 == FirstPart(write_idx, Len(writer.src)) IN
    /\ writer.pc = "copy"
    /\ buf' = [i \in Slots |-> IF i \in write_idx .. write_idx + n1 - 1
                               THEN writer.src[i - write_idx + 1] ELSE buf[i]]
    /\ writer' = [writer EXCEPT !.pc = "wrap"]
    /\ UNCHANGED <<write_idx, read_idx, reader, put, got>>

\* The memcpy from its start, if there is more.
CopyInWrapped ==
    LET n1 == FirstPart(write_idx, Len(writer.src))
        n2 == SecondPart(write_idx, Len(writer.src))
    IN /\ writer.pc = "wrap"
       /\ buf' = [i \in Slots |-> IF i < n2 THEN writer.src[n1 + i + 1] ELSE buf[i]]
       /\ writer' = [writer EXCEPT !.pc = "set"]
       /\ UNCHANGED <<write_idx, read_idx, reader, put, got>>

\* Mutant: the index is set before the second part is copied.
EndWriteEarly ==
    /\ writer.pc = "wrap"
    /\ write_idx' = IndexAfter(write_idx, Len(writer.src))
    /\ writer' = [pc |-> "idle", src |-> <<>>]
    /\ put' = writer.src
    /\ UNCHANGED <<buf, read_idx, reader, got>>

\* The reader may have the items.
EndWrite ==
    /\ writer.pc = "set"
    /\ write_idx' = IndexAfter(write_idx, Len(writer.src))
    /\ writer' = [pc |-> "idle", src |-> <<>>]
    /\ put' = writer.src
    /\ UNCHANGED <<buf, read_idx, reader, got>>

-----------------------------------------------------------------------------
(* The reader.                                                             *)

\* read (dest, cnt), with something to read.
BeginRead(cnt) ==
    LET space == ReadSpace(write_idx, read_idx) IN
    /\ reader.pc = "idle" /\ space > 0 /\ cnt > 0
    /\ reader' = [pc |-> "copy", n |-> Least(cnt, space), dest |-> <<>>]
    /\ UNCHANGED <<buf, write_idx, read_idx, writer, put, got>>

CopyOut ==
    LET n1 == FirstPart(read_idx, reader.n) IN
    /\ reader.pc = "copy"
    /\ reader' = [reader EXCEPT !.pc = "wrap",
                                !.dest = [k \in 1 .. n1 |-> buf[read_idx + k - 1]]]
    /\ UNCHANGED <<buf, write_idx, read_idx, writer, put, got>>

CopyOutWrapped ==
    LET n2 == SecondPart(read_idx, reader.n) IN
    /\ reader.pc = "wrap"
    /\ reader' = [reader EXCEPT !.pc = "set", !.dest = @ \o [k \in 1 .. n2 |-> buf[k - 1]]]
    /\ UNCHANGED <<buf, write_idx, read_idx, writer, put, got>>

\* The writer may have the slots.
EndRead ==
    /\ reader.pc = "set"
    /\ read_idx' = IndexAfter(read_idx, reader.n)
    /\ reader' = [pc |-> "idle", n |-> 0, dest |-> <<>>]
    /\ got' = reader.dest
    /\ UNCHANGED <<buf, write_idx, writer, put>>

\* reset(): "NOT THREAD SAFE", its callers see to it that neither thread is at work.
Reset ==
    /\ writer.pc = "idle" /\ reader.pc = "idle"
    /\ write_idx' = 0 /\ read_idx' = 0
    /\ UNCHANGED <<buf, writer, reader, put, got>>

Next == \/ \E src \in Batches : BeginWrite(src)
        \/ CopyIn \/ CopyInWrapped \/ EndWrite
        \/ \E cnt \in 1 .. MaxCount : BeginRead(cnt)
        \/ CopyOut \/ CopyOutWrapped \/ EndRead
        \/ Reset

Spec == Init /\ [][Next]_vars

-----------------------------------------------------------------------------
(* Properties.                                                             *)

Used == ReadSpace(write_idx, read_idx)

\* The items between the indices.
Contents == [k \in 1 .. Used |-> buf[Masked(read_idx + k - 1)]]

\* The buffer is a first-in first-out queue of Size - 1 items to its two threads: a put
\* when the writer sets its index, a take when the reader sets its own.
Queue == INSTANCE Fifo WITH queue <- Contents, Capacity <- Size - 1
Fifo == Queue!Spec

\* The slots that the writer copies to are none that the reader can look at, neither
\* those between the indices nor those it is copying.
NoSlotShared ==
    LET writing == {Masked(write_idx + k) : k \in 0 .. Len(writer.src) - 1}
        reading == {Masked(read_idx + k) : k \in 0 .. Used - 1}
    IN writing \cap reading = {} /\ reader.n <= Used
=============================================================================
