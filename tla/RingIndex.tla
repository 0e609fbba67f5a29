------------------------------ MODULE RingIndex ------------------------------
(***************************************************************************)
(* The index arithmetic of RingBuffer<T> (libs/pbd/pbd/ringbuffer.h): two  *)
(* indices into Size slots, one slot of which always stays empty, so that  *)
(* equal indices mean an empty buffer.                                     *)
(***************************************************************************)
EXTENDS Integers

CONSTANT Size     \* size, which the constructor makes a power of two

ASSUME SizeAssumption == Size \in Nat /\ Size >= 2

Slots == 0 .. Size - 1

\* i & size_mask
Masked(i) == i % Size

\* Mutant: every slot is used.
WriteSpaceFull(w, r) ==
    CASE w > r -> Masked(r - w + Size)
      [] w < r -> r - w
      [] w = r -> Size

WriteSpace(w, r) ==
    CASE w > r -> Masked(r - w + Size) - 1
      [] w < r -> r - w - 1
      [] w = r -> Size - 1

ReadSpace(w, r) == IF w > r THEN w - r ELSE Masked(w - r + Size)

\* read() and write() copy n items from index i on in two parts: up to the end of the
\* buffer, and the rest from its start.
FirstPart(i, n)  == IF i + n > Size THEN Size - i ELSE n
SecondPart(i, n) == IF i + n > Size THEN Masked(i + n) ELSE 0

\* The index they leave.
IndexAfter(i, n) ==
    IF SecondPart(i, n) # 0 THEN SecondPart(i, n) ELSE Masked(i + FirstPart(i, n))
==============================================================================
