-------------------------- MODULE RingBufferProofs --------------------------
(***************************************************************************)
(* Proofs about RingBuffer, for a buffer of any size: its writer and its   *)
(* reader never meet at a slot, and it implements a first-in first-out     *)
(* queue of Size - 1 items.                                                *)
(***************************************************************************)
EXTENDS RingBuffer, SequenceTheorems, TLAPS

-----------------------------------------------------------------------------
(* The arithmetic of the indices.                                          *)

\* The mask takes an index that has run past the end back to the start.
LEMMA MaskedOnce ==
    \A i \in 0 .. 2 * Size - 1 : Masked(i) = IF i < Size THEN i ELSE i - Size
<1> TAKE i \in 0 .. 2 * Size - 1
<1>1. CASE i < Size
  BY <1>1, SizeAssumption, Z3 DEF Masked
<1>2. CASE i >= Size
  BY <1>2, SizeAssumption, Z3 DEF Masked
<1> QED BY <1>1, <1>2, SizeAssumption

\* What is used and what is free make up all slots but one.
LEMMA Spaces ==
    \A w, r \in Slots :
        /\ ReadSpace(w, r) = IF w >= r THEN w - r ELSE w - r + Size
        /\ WriteSpace(w, r) = Size - 1 - ReadSpace(w, r)
<1> TAKE w, r \in Slots
<1>1. Masked(w - r + Size) = IF w - r < 0 THEN w - r + Size ELSE w - r
  BY MaskedOnce, SizeAssumption DEF Slots
<1>2. Masked(r - w + Size) = IF r - w < 0 THEN r - w + Size ELSE r - w
  BY MaskedOnce, SizeAssumption DEF Slots
<1>3. ReadSpace(w, r) = IF w >= r THEN w - r ELSE w - r + Size
  BY <1>1, SizeAssumption DEF Slots, ReadSpace
<1>4. WriteSpace(w, r) = Size - 1 - ReadSpace(w, r)
  BY <1>2, <1>3, SizeAssumption DEF Slots, WriteSpace
<1> QED BY <1>3, <1>4

\* The two parts of a copy of n items make up n, and the index ends n further on.
LEMMA Parts ==
    \A i \in Slots, n \in 0 .. Size - 1 :
        /\ FirstPart(i, n) = IF i + n > Size THEN Size - i ELSE n
        /\ SecondPart(i, n) = IF i + n > Size THEN i + n - Size ELSE 0
        /\ IndexAfter(i, n) = IF i + n >= Size THEN i + n - Size ELSE i + n
<1> TAKE i \in Slots, n \in 0 .. Size - 1
<1>1. i + n \in 0 .. 2 * Size - 1
  BY SizeAssumption DEF Slots
<1>2. SecondPart(i, n) = IF i + n > Size THEN i + n - Size ELSE 0
  BY <1>1, MaskedOnce, SizeAssumption DEF Slots, SecondPart
<1>3. i + FirstPart(i, n) \in 0 .. 2 * Size - 1
  BY <1>1, SizeAssumption DEF Slots, FirstPart
<1>4. IndexAfter(i, n) = IF i + n >= Size THEN i + n - Size ELSE i + n
  <2>1. CASE i + n > Size
    BY <2>1, <1>2, SizeAssumption DEF Slots, IndexAfter
  <2>2. CASE i + n <= Size
    BY <2>2, <1>1, <1>2, <1>3, MaskedOnce, SizeAssumption DEF Slots, IndexAfter, FirstPart
  <2> QED BY <2>1, <2>2, <1>1, SizeAssumption
<1> QED BY <1>2, <1>4 DEF FirstPart

-----------------------------------------------------------------------------
(* The inductive invariant.                                                *)

TypeOK ==
    /\ buf \in [Slots -> Values]
    /\ write_idx \in Slots /\ read_idx \in Slots
    /\ writer \in [pc : {"idle", "copy", "wrap", "set"}, src : Seq(Values)]
    /\ reader \in [pc : {"idle", "copy", "wrap", "set"}, n : Nat, dest : Seq(Values)]
    /\ got \in Seq(Values)

\* Neither thread has taken more than its share of the slots.
Shares ==
    /\ Len(writer.src) + Used <= Size - 1
    /\ reader.n <= Used
    /\ reader.pc = "idle" <=> reader.n = 0
    /\ writer.pc = "idle" => writer.src = <<>>
    /\ writer.pc # "idle" => writer.src \in Batches

\* What the writer has copied so far is in the slots.
Copied ==
    LET n1 == FirstPart(write_idx, Len(writer.src))
        n2 == SecondPart(write_idx, Len(writer.src))
    IN /\ writer.pc \in {"wrap", "set"} =>
             \A k \in 1 .. n1 : buf[write_idx + k - 1] = writer.src[k]
       /\ writer.pc = "set" => \A k \in 1 .. n2 : buf[k - 1] = writer.src[n1 + k]

\* What the reader has copied so far is what is still in the slots.
Fetched ==
    /\ reader.pc = "wrap" =>
          reader.dest = [k \in 1 .. FirstPart(read_idx, reader.n) |-> buf[read_idx + k - 1]]
    /\ reader.pc = "set" =>
          reader.dest = [k \in 1 .. reader.n |-> buf[Masked(read_idx + k - 1)]]

IInv == TypeOK /\ Shares /\ Copied /\ Fetched

LEMMA InitIInv == Init => IInv
<1> SUFFICES ASSUME Init PROVE IInv
  OBVIOUS
<1> USE SizeAssumption DEF Init
<1>1. TypeOK
  BY DEF TypeOK, Slots
<1>2. Used = 0
  BY Spaces DEF Used, Slots
<1>3. Shares /\ Copied /\ Fetched
  BY <1>2 DEF Shares, Copied, Fetched
<1> QED BY <1>1, <1>3 DEF IInv

\* In numbers.
LEMMA Bounds ==
    ASSUME IInv
    PROVE  /\ Used \in 0 .. Size - 1
           /\ Used = IF write_idx >= read_idx THEN write_idx - read_idx
                     ELSE write_idx - read_idx + Size
           /\ Len(writer.src) \in 0 .. Size - 1 - Used
           /\ reader.n \in 0 .. Used
<1> USE SizeAssumption DEF IInv, TypeOK
<1>1. Used = IF write_idx >= read_idx THEN write_idx - read_idx
             ELSE write_idx - read_idx + Size
  BY Spaces DEF Used
<1>2. Used \in 0 .. Size - 1
  BY <1>1 DEF Slots
<1>3. Len(writer.src) \in Nat
  OBVIOUS
<1> QED BY <1>1, <1>2, <1>3 DEF Shares

\* The slots between the indices are none that the writer copies to.
LEMMA Apart ==
    ASSUME IInv, NEW k \in 1 .. Used
    PROVE  LET slot == Masked(read_idx + k - 1)
               n1 == FirstPart(write_idx, Len(writer.src))
               n2 == SecondPart(write_idx, Len(writer.src))
           IN /\ slot \in Slots
              /\ slot \notin write_idx .. write_idx + n1 - 1
              /\ slot >= n2
<1> DEFINE slot == Masked(read_idx + k - 1)
           n1 == FirstPart(write_idx, Len(writer.src))
           n2 == SecondPart(write_idx, Len(writer.src))
           len == Len(writer.src)
<1> USE SizeAssumption
<1>1. read_idx \in Slots /\ write_idx \in Slots
  BY DEF IInv, TypeOK
<1>2. slot = IF read_idx + k - 1 < Size THEN read_idx + k - 1 ELSE read_idx + k - 1 - Size
  BY <1>1, Bounds, MaskedOnce DEF Slots
<1>3. /\ n1 = IF write_idx + len > Size THEN Size - write_idx ELSE len
      /\ n2 = IF write_idx + len > Size THEN write_idx + len - Size ELSE 0
  <2>1. len \in 0 .. Size - 1
    BY Bounds
  <2> HIDE DEF len
  <2>2. FirstPart(write_idx, len) = IF write_idx + len > Size THEN Size - write_idx ELSE len
    BY <1>1, <2>1, Parts
  <2>3. SecondPart(write_idx, len) = IF write_idx + len > Size THEN write_idx + len - Size ELSE 0
    BY <1>1, <2>1, Parts
  <2> QED BY <2>2, <2>3 DEF len
<1> HIDE DEF slot, n1, n2, len
<1>4. len \in 0 .. Size - 1 - Used /\ Used \in 0 .. Size - 1
  BY Bounds DEF len
<1>5. Used = IF write_idx >= read_idx THEN write_idx - read_idx ELSE write_idx - read_idx + Size
  BY Bounds
<1>6. slot \in Slots
  BY <1>1, <1>2, <1>4 DEF Slots
<1>7. slot \notin write_idx .. write_idx + n1 - 1
  BY <1>1, <1>2, <1>3, <1>4, <1>5 DEF Slots
<1>8. slot >= n2
  BY <1>1, <1>2, <1>3, <1>4, <1>5 DEF Slots
<1> QED BY <1>6, <1>7, <1>8 DEF slot, n1, n2, len

\* The slots of the first part of a read are before the end of the buffer.
LEMMA ReadParts ==
    ASSUME IInv
    PROVE  LET n1 == FirstPart(read_idx, reader.n)
               n2 == SecondPart(read_idx, reader.n)
           IN /\ n1 \in 0 .. reader.n /\ n2 \in 0 .. Size - 1 /\ n1 + n2 = reader.n
              /\ \A k \in 1 .. n1 : Masked(read_idx + k - 1) = read_idx + k - 1
              /\ \A k \in 1 .. n2 : Masked(read_idx + n1 + k - 1) = k - 1
<1> DEFINE n1 == FirstPart(read_idx, reader.n)
           n2 == SecondPart(read_idx, reader.n)
<1> USE SizeAssumption
<1>1. read_idx \in Slots /\ reader.n \in 0 .. Size - 1
  BY Bounds DEF IInv, TypeOK, Slots
<1>2. /\ n1 = IF read_idx + reader.n > Size THEN Size - read_idx ELSE reader.n
      /\ n2 = IF read_idx + reader.n > Size THEN read_idx + reader.n - Size ELSE 0
  BY <1>1, Parts
<1> HIDE DEF n1, n2
<1>3. n1 \in 0 .. reader.n /\ n2 \in 0 .. Size - 1 /\ n1 + n2 = reader.n
  BY <1>1, <1>2 DEF Slots
<1>4. ASSUME NEW k \in 1 .. n1 PROVE Masked(read_idx + k - 1) = read_idx + k - 1
  <2>1. read_idx + k - 1 \in 0 .. 2 * Size - 1 /\ read_idx + k - 1 < Size
    BY <1>1, <1>2 DEF Slots
  <2> QED BY <2>1, MaskedOnce
<1>5. ASSUME NEW k \in 1 .. n2 PROVE Masked(read_idx + n1 + k - 1) = k - 1
  <2>1. /\ read_idx + n1 + k - 1 \in 0 .. 2 * Size - 1
        /\ read_idx + n1 + k - 1 >= Size
        /\ read_idx + n1 + k - 1 - Size = k - 1
    BY <1>1, <1>2 DEF Slots
  <2> DEFINE i == read_idx + n1 + k - 1
  <2>2. Masked(i) = IF i < Size THEN i ELSE i - Size
    BY <2>1, MaskedOnce
  <2>3. i \in Int /\ ~(i < Size) /\ i - Size = k - 1
    BY <1>1, <1>3, <2>1 DEF Slots
  <2> QED BY <2>2, <2>3
<1> QED BY <1>3, <1>4, <1>5 DEF n1, n2

-----------------------------------------------------------------------------
(* The invariant is kept.  One lemma per step, after what the step leaves  *)
(* between the indices.                                                    *)

LEMMA BeginWriteIInv ==
    ASSUME IInv, NEW src \in Batches, BeginWrite(src)
    PROVE  IInv'
<1> DEFINE space == WriteSpace(write_idx, read_idx)
           n == Least(Len(src), space)
<1> USE SizeAssumption, MaxCountAssumption
<1>1. space = Size - 1 - Used /\ space \in 1 .. Size - 1
  BY Spaces, Bounds DEF IInv, TypeOK, BeginWrite, Used
<1>2. PICK m \in 1 .. MaxCount : src \in [1 .. m -> Values]
  BY DEF Batches
<1>3. src \in Seq(Values) /\ Len(src) = m
  BY <1>2
<1>4. n \in 1 .. m /\ n <= space
  BY <1>1, <1>3 DEF Least
<1> HIDE DEF n, space
<1>5. /\ SubSeq(src, 1, n) \in Seq(Values) /\ Len(SubSeq(src, 1, n)) = n
      /\ SubSeq(src, 1, n) \in [1 .. n -> Values]
  <2>1. \A i \in 1 .. n : src[i] \in Values
    BY <1>2, <1>4
  <2>2. SubSeq(src, 1, n) \in Seq(Values) /\ Len(SubSeq(src, 1, n)) = n
    BY <1>4, <2>1, SubSeqProperties
  <2> QED BY <2>2, LenProperties
<1>6. writer' = [pc |-> "copy", src |-> SubSeq(src, 1, n)]
      /\ UNCHANGED <<buf, write_idx, read_idx, reader, put, got, Used>>
  BY DEF BeginWrite, n, space, Used
<1>7. SubSeq(src, 1, n) \in Batches
  BY <1>4, <1>5 DEF Batches
<1>8. TypeOK'
  BY <1>5, <1>6 DEF IInv, TypeOK
<1>9. Shares'
  BY <1>1, <1>4, <1>5, <1>6, <1>7, Bounds DEF IInv, Shares
<1>10. Copied' /\ Fetched'
  BY <1>6 DEF IInv, Copied, Fetched
<1> QED BY <1>8, <1>9, <1>10 DEF IInv

\* The parts of the writer's copy.
LEMMA WriteParts ==
    ASSUME IInv
    PROVE  LET n1 == FirstPart(write_idx, Len(writer.src))
               n2 == SecondPart(write_idx, Len(writer.src))
           IN /\ n1 \in 0 .. Len(writer.src) /\ n2 \in 0 .. Size - 1
              /\ n1 + n2 = Len(writer.src)
              /\ write_idx + n1 <= Size
              /\ n2 # 0 => write_idx + n1 = Size /\ n2 < write_idx
<1> DEFINE len == Len(writer.src)
<1>1. write_idx \in Slots /\ len \in 0 .. Size - 1 /\ Size \in Nat
  BY Bounds, SizeAssumption DEF IInv, TypeOK, Slots
<1> HIDE DEF len
<1>2. /\ FirstPart(write_idx, len) = IF write_idx + len > Size THEN Size - write_idx ELSE len
      /\ SecondPart(write_idx, len) = IF write_idx + len > Size THEN write_idx + len - Size ELSE 0
  BY <1>1, Parts
<1>3. LET n1 == FirstPart(write_idx, len)
          n2 == SecondPart(write_idx, len)
      IN /\ n1 \in 0 .. len /\ n2 \in 0 .. Size - 1 /\ n1 + n2 = len
         /\ write_idx + n1 <= Size
         /\ n2 # 0 => write_idx + n1 = Size /\ n2 < write_idx
  BY <1>1, <1>2 DEF Slots
<1> QED BY <1>3 DEF len

\* A copy into the writer's slots changes none that the reader has.
LEMMA CopyKeeps ==
    ASSUME IInv, UNCHANGED <<write_idx, read_idx, reader>>,
           \A i \in Slots : buf'[i] # buf[i] =>
              \/ i \in write_idx .. write_idx + FirstPart(write_idx, Len(writer.src)) - 1
              \/ i < SecondPart(write_idx, Len(writer.src))
    PROVE  /\ Fetched' /\ Used' = Used
           /\ \A k \in 1 .. Used : buf'[Masked(read_idx + k - 1)] = buf[Masked(read_idx + k - 1)]
<1> USE SizeAssumption
<1>1. Used' = Used
  BY DEF Used
<1>2. ASSUME NEW k \in 1 .. Used
      PROVE  buf'[Masked(read_idx + k - 1)] = buf[Masked(read_idx + k - 1)]
  <2> DEFINE slot == Masked(read_idx + k - 1)
             n2 == SecondPart(write_idx, Len(writer.src))
  <2>1. /\ slot \in Slots
        /\ slot \notin write_idx .. write_idx + FirstPart(write_idx, Len(writer.src)) - 1
        /\ slot >= n2
    BY Apart
  <2>2. n2 \in Int
    BY WriteParts
  <2> HIDE DEF slot, n2
  <2>3. ~(slot < n2)
    BY <2>1, <2>2 DEF Slots
  <2> QED BY <2>1, <2>3 DEF slot, n2
<1>3. Fetched'
  <2>1. reader.n \in 0 .. Used /\ Used \in 0 .. Size - 1
    BY Bounds
  <2>2. FirstPart(read_idx, reader.n) \in 0 .. reader.n
    BY ReadParts
  <2>3. \A k \in 1 .. FirstPart(read_idx, reader.n) : Masked(read_idx + k - 1) = read_idx + k - 1
    BY ReadParts
  <2>4. \A k \in 1 .. FirstPart(read_idx, reader.n) : k \in 1 .. Used
    BY <2>1, <2>2
  <2>5. \A k \in 1 .. FirstPart(read_idx, reader.n) :
           buf'[read_idx + k - 1] = buf[read_idx + k - 1]
    BY <1>2, <2>3, <2>4
  <2>6. \A k \in 1 .. reader.n :
           buf'[Masked(read_idx + k - 1)] = buf[Masked(read_idx + k - 1)]
    BY <1>2, <2>1
  <2> QED BY <2>5, <2>6 DEF IInv, Fetched
<1> QED BY <1>1, <1>2, <1>3

LEMMA CopyInIInv ==
    ASSUME IInv, CopyIn
    PROVE  IInv' /\ Contents' = Contents
<1> DEFINE n1 == FirstPart(write_idx, Len(writer.src))
<1>1. /\ writer.pc = "copy" /\ writer'.pc = "wrap" /\ writer'.src = writer.src
      /\ writer' = [writer EXCEPT !.pc = "wrap"]
      /\ buf' = [i \in Slots |-> IF i \in write_idx .. write_idx + n1 - 1
                                 THEN writer.src[i - write_idx + 1] ELSE buf[i]]
      /\ UNCHANGED <<write_idx, read_idx, reader, put, got>>
  BY DEF CopyIn, IInv, TypeOK
<1>2. n1 \in 0 .. Len(writer.src) /\ write_idx \in Slots /\ write_idx + n1 <= Size
  BY WriteParts DEF IInv, TypeOK
<1>3. Fetched' /\ Used' = Used /\ Contents' = Contents
  BY <1>1, CopyKeeps DEF Contents
<1> HIDE DEF n1
<1>4. \A i \in write_idx .. write_idx + n1 - 1 :
         i \in Slots /\ i - write_idx + 1 \in 1 .. Len(writer.src)
  BY <1>2, SizeAssumption DEF IInv, TypeOK, Slots
<1>5. TypeOK'
  <2>1. \A i \in 1 .. Len(writer.src) : writer.src[i] \in Values
    BY ElementOfSeq DEF IInv, TypeOK
  <2>2. buf' \in [Slots -> Values]
    BY <1>1, <1>4, <2>1 DEF IInv, TypeOK
  <2> QED BY <1>1, <2>2 DEF IInv, TypeOK
<1>6. Copied'
  <2>1. \A k \in 1 .. n1 : write_idx + k - 1 \in write_idx .. write_idx + n1 - 1
                           /\ (write_idx + k - 1) - write_idx + 1 = k
    BY <1>2 DEF Slots
  <2>2. \A k \in 1 .. n1 : buf'[write_idx + k - 1] = writer.src[k]
    BY <1>1, <1>4, <2>1
  <2> QED BY <1>1, <2>2 DEF Copied, n1
<1> QED BY <1>1, <1>3, <1>5, <1>6 DEF IInv, Shares

LEMMA CopyInWrappedIInv ==
    ASSUME IInv, CopyInWrapped
    PROVE  IInv' /\ Contents' = Contents
<1> DEFINE n1 == FirstPart(write_idx, Len(writer.src))
           n2 == SecondPart(write_idx, Len(writer.src))
<1>1. /\ writer.pc = "wrap" /\ writer'.pc = "set" /\ writer'.src = writer.src
      /\ writer' = [writer EXCEPT !.pc = "set"]
      /\ buf' = [i \in Slots |-> IF i < n2 THEN writer.src[n1 + i + 1] ELSE buf[i]]
      /\ UNCHANGED <<write_idx, read_idx, reader, put, got>>
  BY DEF CopyInWrapped, IInv, TypeOK
<1>2. /\ n1 \in 0 .. Len(writer.src) /\ n2 \in 0 .. Size - 1 /\ n1 + n2 = Len(writer.src)
      /\ write_idx + n1 <= Size
      /\ n2 # 0 => n2 < write_idx
      /\ write_idx \in Slots
  BY WriteParts DEF IInv, TypeOK
<1>3. Fetched' /\ Used' = Used /\ Contents' = Contents
  BY <1>1, CopyKeeps DEF Contents
<1> HIDE DEF n1, n2
<1>4. \A i \in Slots : i < n2 => n1 + i + 1 \in 1 .. Len(writer.src)
  BY <1>2, SizeAssumption DEF IInv, TypeOK, Slots
<1>5. TypeOK'
  <2>1. \A i \in 1 .. Len(writer.src) : writer.src[i] \in Values
    BY ElementOfSeq DEF IInv, TypeOK
  <2>2. buf' \in [Slots -> Values]
    BY <1>1, <1>4, <2>1 DEF IInv, TypeOK
  <2> QED BY <1>1, <2>2 DEF IInv, TypeOK
<1>6. \A k \in 1 .. n1 : buf'[write_idx + k - 1] = writer.src[k]
  <2> TAKE k \in 1 .. n1
  <2>1. write_idx + k - 1 \in Slots /\ ~(write_idx + k - 1 < n2)
    BY <1>2, SizeAssumption DEF Slots
  <2>2. buf[write_idx + k - 1] = writer.src[k]
    BY <1>1 DEF IInv, Copied, n1
  <2> QED BY <1>1, <2>1, <2>2
<1>7. \A k \in 1 .. n2 : buf'[k - 1] = writer.src[n1 + k]
  <2> TAKE k \in 1 .. n2
  <2>1. k - 1 \in Slots /\ k - 1 < n2 /\ n1 + (k - 1) + 1 = n1 + k
    BY <1>2, SizeAssumption DEF Slots
  <2> QED BY <1>1, <2>1
<1>8. Copied'
  BY <1>1, <1>6, <1>7 DEF Copied, n1, n2
<1> QED BY <1>1, <1>3, <1>5, <1>8 DEF IInv, Shares

\* The contents are a sequence of the items used.
LEMMA ContentsSeq ==
    ASSUME IInv
    PROVE  Contents \in Seq(Values) /\ Len(Contents) = Used
<1>1. Used \in Nat
  BY Bounds, SizeAssumption
<1>2. \A k \in 1 .. Used : buf[Masked(read_idx + k - 1)] \in Values
  BY Apart DEF IInv, TypeOK
<1>3. Contents \in [1 .. Used -> Values]
  BY <1>2 DEF Contents
<1> QED BY <1>1, <1>3, LenProperties DEF Contents

\* The writer's slots follow those that are used.
LEMMA WriteSlots ==
    ASSUME IInv, NEW j \in 1 .. Len(writer.src)
    PROVE  LET n1 == FirstPart(write_idx, Len(writer.src))
           IN Masked(read_idx + (Used + j) - 1) = IF j <= n1 THEN write_idx + j - 1 ELSE j - n1 - 1
<1> DEFINE n1 == FirstPart(write_idx, Len(writer.src))
           len == Len(writer.src)
           i == read_idx + (Used + j) - 1
<1> USE SizeAssumption
<1>1. read_idx \in Slots /\ write_idx \in Slots /\ len \in 0 .. Size - 1 - Used /\ Used \in 0 .. Size - 1
  BY Bounds DEF IInv, TypeOK
<1>2. Used = IF write_idx >= read_idx THEN write_idx - read_idx ELSE write_idx - read_idx + Size
  BY Bounds
<1> HIDE DEF len
<1>3. FirstPart(write_idx, len) = IF write_idx + len > Size THEN Size - write_idx ELSE len
  BY <1>1, Parts DEF Slots
<1>4. j \in 1 .. len
  BY DEF len
<1>5. i \in 0 .. 2 * Size - 1
  BY <1>1, <1>4 DEF Slots
<1>6. Masked(i) = IF i < Size THEN i ELSE i - Size
  BY <1>5, MaskedOnce
<1>7. n1 = IF write_idx + len > Size THEN Size - write_idx ELSE len
  BY <1>3 DEF len
<1> HIDE DEF n1
<1> QED BY <1>1, <1>2, <1>4, <1>6, <1>7 DEF Slots, n1

LEMMA EndWriteIInv ==
    ASSUME IInv, EndWrite
    PROVE  /\ IInv'
           /\ Contents' = Contents \o writer.src
           /\ writer.src \in Batches /\ Len(Contents) + Len(writer.src) <= Size - 1
<1> DEFINE len == Len(writer.src)
           n1 == FirstPart(write_idx, len)
<1> USE SizeAssumption
<1>1. /\ writer.pc = "set" /\ writer' = [pc |-> "idle", src |-> <<>>]
      /\ write_idx' = IndexAfter(write_idx, len)
      /\ put' = writer.src
      /\ UNCHANGED <<buf, read_idx, reader, got>>
  BY DEF EndWrite
<1>2. /\ read_idx \in Slots /\ write_idx \in Slots
      /\ len \in 0 .. Size - 1 - Used /\ Used \in 0 .. Size - 1
      /\ Used = IF write_idx >= read_idx THEN write_idx - read_idx ELSE write_idx - read_idx + Size
  BY Bounds DEF IInv, TypeOK
<1>3. IndexAfter(write_idx, len) = IF write_idx + len >= Size THEN write_idx + len - Size ELSE write_idx + len
  <2>1. len \in 0 .. Size - 1
    BY <1>2
  <2> HIDE DEF len
  <2> QED BY <1>2, <2>1, Parts
<1> HIDE DEF len
<1>4. write_idx' \in Slots
  BY <1>1, <1>2, <1>3 DEF Slots
<1>5. Used' = Used + len
  <2>1. Used' = IF write_idx' >= read_idx THEN write_idx' - read_idx ELSE write_idx' - read_idx + Size
    BY <1>1, <1>2, <1>4, Spaces DEF Used
  <2> HIDE DEF Used
  <2> QED BY <1>1, <1>2, <1>3, <2>1 DEF Slots
<1>6. TypeOK'
  BY <1>1, <1>4 DEF IInv, TypeOK
<1>7. Shares' /\ Copied' /\ Fetched'
  <2>1. Len(<<>>) + Used' <= Size - 1 /\ reader.n <= Used'
    BY <1>2, <1>5, Bounds
  <2>2. Shares'
    BY <1>1, <2>1 DEF IInv, Shares
  <2>3. Copied'
    BY <1>1 DEF Copied
  <2>4. Fetched'
    BY <1>1 DEF IInv, Fetched
  <2> QED BY <2>2, <2>3, <2>4
<1>8. IInv'
  BY <1>6, <1>7 DEF IInv
<1>9. Contents \in Seq(Values) /\ Len(Contents) = Used /\ writer.src \in Seq(Values)
  BY ContentsSeq DEF IInv, TypeOK
<1>10. Contents' \in Seq(Values) /\ Len(Contents') = Used'
  <2>1. \A k \in 1 .. Used' : buf[Masked(read_idx + k - 1)] \in Values
    <3> TAKE k \in 1 .. Used'
    <3>1. read_idx + k - 1 \in 0 .. 2 * Size - 1
      BY <1>2, <1>5 DEF Slots
    <3>2. Masked(read_idx + k - 1) \in Slots
      BY <3>1, MaskedOnce DEF Slots
    <3> QED BY <3>2 DEF IInv, TypeOK
  <2>2. Contents' \in [1 .. Used' -> Values]
    BY <1>1, <2>1 DEF Contents
  <2>3. Used' \in Nat
    BY <1>2, <1>5
  <2> QED BY <2>2, <2>3, LenProperties DEF Contents
<1>11. Contents' = Contents \o writer.src
  <2>1. /\ Contents \o writer.src \in Seq(Values)
        /\ Len(Contents \o writer.src) = Used + len
        /\ \A k \in 1 .. Used + len :
              (Contents \o writer.src)[k] = IF k <= Used THEN Contents[k] ELSE writer.src[k - Used]
    BY <1>9, ConcatProperties DEF len
  <2>2. ASSUME NEW k \in 1 .. Used + len
        PROVE  Contents'[k] = (Contents \o writer.src)[k]
    <3>1. Contents'[k] = buf[Masked(read_idx + k - 1)]
      BY <1>1, <1>5 DEF Contents
    <3>2. CASE k <= Used
      <4>1. k \in 1 .. Used
        BY <3>2, <1>2
      <4>2. Contents[k] = buf[Masked(read_idx + k - 1)]
        BY <4>1 DEF Contents
      <4> QED BY <2>1, <3>1, <3>2, <4>2
    <3>3. CASE k > Used
      <4> DEFINE j == k - Used
      <4>1. j \in 1 .. len /\ Used + j = k
        BY <3>3, <1>2
      <4>2. Masked(read_idx + k - 1) = IF j <= n1 THEN write_idx + j - 1 ELSE j - n1 - 1
        BY <4>1, WriteSlots DEF len
      <4>3. buf[Masked(read_idx + k - 1)] = writer.src[j]
        <5>1. n1 \in 0 .. len /\ SecondPart(write_idx, len) = len - n1
          BY WriteParts, <1>2 DEF len
        <5>2. CASE j <= n1
          <6>1. j \in 1 .. n1
            BY <5>1, <5>2, <4>1
          <6> QED BY <1>1, <4>2, <5>2, <6>1 DEF IInv, Copied, len
        <5>3. CASE j > n1
          <6>1. j - n1 \in 1 .. SecondPart(write_idx, len) /\ n1 + (j - n1) = j /\ ~(j <= n1)
            BY <5>1, <5>3, <4>1, <1>2
          <6>2. buf[(j - n1) - 1] = writer.src[n1 + (j - n1)]
            BY <1>1, <6>1 DEF IInv, Copied, len
          <6> QED BY <4>2, <6>1, <6>2
        <5> QED BY <5>1, <5>2, <5>3, <4>1
      <4>4. (Contents \o writer.src)[k] = writer.src[j]
        <5>1. ~(k <= Used)
          BY <3>3, <1>2
        <5>2. (Contents \o writer.src)[k] = IF k <= Used THEN Contents[k] ELSE writer.src[k - Used]
          BY <2>1
        <5> QED BY <5>1, <5>2
      <4> QED BY <3>1, <4>3, <4>4
    <3>4. k <= Used \/ k > Used
      BY <1>2
    <3> QED BY <3>2, <3>3, <3>4
  <2> QED BY <1>5, <1>10, <2>1, <2>2, SeqEqual
<1> QED BY <1>1, <1>2, <1>8, <1>9, <1>11 DEF IInv, Shares, len

LEMMA BeginReadIInv ==
    ASSUME IInv, NEW cnt \in 1 .. MaxCount, BeginRead(cnt)
    PROVE  IInv' /\ Contents' = Contents
<1> DEFINE n == Least(cnt, Used)
<1> USE SizeAssumption, MaxCountAssumption
<1>1. n \in 1 .. Used
  BY Bounds DEF BeginRead, Used, Least
<1>2. /\ reader' = [pc |-> "copy", n |-> n, dest |-> <<>>]
      /\ UNCHANGED <<buf, write_idx, read_idx, writer, put, got, Used>>
  BY DEF BeginRead, Used
<1>3. n \in Nat /\ n > 0 /\ n <= Used
  BY <1>1, Bounds
<1> HIDE DEF n
<1>4. TypeOK' /\ Shares' /\ Copied' /\ Fetched'
  BY <1>2, <1>3 DEF IInv, TypeOK, Shares, Copied, Fetched
<1> QED BY <1>2, <1>4 DEF IInv, Contents

LEMMA CopyOutIInv ==
    ASSUME IInv, CopyOut
    PROVE  IInv' /\ Contents' = Contents
<1> DEFINE n1 == FirstPart(read_idx, reader.n)
           part == [k \in 1 .. n1 |-> buf[read_idx + k - 1]]
<1> USE SizeAssumption
<1>1. /\ reader.pc = "copy" /\ reader' = [reader EXCEPT !.pc = "wrap", !.dest = part]
      /\ UNCHANGED <<buf, write_idx, read_idx, writer, put, got, Used>>
  BY DEF CopyOut, Used
<1>2. /\ n1 \in Nat
      /\ \A k \in 1 .. n1 : k \in 1 .. Used /\ Masked(read_idx + k - 1) = read_idx + k - 1
  BY ReadParts, Bounds
<1>3. part \in Seq(Values)
  <2>1. \A k \in 1 .. n1 : buf[read_idx + k - 1] \in Values
    BY <1>2, Apart DEF IInv, TypeOK
  <2>2. part \in [1 .. n1 -> Values]
    BY <2>1
  <2> HIDE DEF part
  <2> QED BY <1>2, <2>2
<1>4. /\ reader'.pc = "wrap" /\ reader'.n = reader.n /\ reader'.dest = part
  BY <1>1 DEF IInv, TypeOK
<1> HIDE DEF part
<1>5. TypeOK'
  BY <1>1, <1>3 DEF IInv, TypeOK
<1>6. Shares' /\ Copied'
  BY <1>1, <1>4 DEF IInv, Shares, Copied
<1>7. Fetched'
  BY <1>1, <1>4 DEF Fetched, part
<1> QED BY <1>1, <1>5, <1>6, <1>7 DEF IInv, Contents

LEMMA CopyOutWrappedIInv ==
    ASSUME IInv, CopyOutWrapped
    PROVE  IInv' /\ Contents' = Contents
<1> DEFINE n1 == FirstPart(read_idx, reader.n)
           n2 == SecondPart(read_idx, reader.n)
           part == [k \in 1 .. n2 |-> buf[k - 1]]
           all == [k \in 1 .. reader.n |-> buf[Masked(read_idx + k - 1)]]
<1> USE SizeAssumption
<1>1. /\ reader.pc = "wrap" /\ reader' = [reader EXCEPT !.pc = "set", !.dest = reader.dest \o part]
      /\ UNCHANGED <<buf, write_idx, read_idx, writer, put, got, Used>>
  BY DEF CopyOutWrapped, Used
<1>2. /\ n1 \in 0 .. reader.n /\ n2 \in 0 .. Size - 1 /\ n1 + n2 = reader.n
      /\ \A k \in 1 .. n1 : Masked(read_idx + k - 1) = read_idx + k - 1
      /\ \A k \in 1 .. n2 : Masked(read_idx + n1 + k - 1) = k - 1
      /\ reader.n \in 0 .. Used /\ read_idx \in Slots
  BY ReadParts, Bounds DEF IInv, TypeOK
<1>3. \A k \in 1 .. reader.n : buf[Masked(read_idx + k - 1)] \in Values
  BY <1>2, Apart, Bounds DEF IInv, TypeOK
<1>4. all \in Seq(Values) /\ Len(all) = reader.n
  <2>1. all \in [1 .. reader.n -> Values] /\ reader.n \in Nat
    BY <1>2, <1>3 DEF IInv, TypeOK
  <2> HIDE DEF all
  <2> QED BY <2>1, LenProperties
<1>5. reader.dest = [k \in 1 .. n1 |-> buf[read_idx + k - 1]] /\ reader.dest \in Seq(Values)
  BY <1>1 DEF IInv, Fetched, TypeOK
<1>6. Len(reader.dest) = n1
  BY <1>2, <1>5, LenProperties
<1>7. part \in Seq(Values) /\ Len(part) = n2
  <2>1. \A k \in 1 .. n2 : k - 1 \in Slots
    BY <1>2 DEF Slots
  <2>2. part \in [1 .. n2 -> Values] /\ n2 \in Nat
    BY <1>2, <2>1 DEF IInv, TypeOK
  <2> QED BY <2>2, LenProperties
<1>8. reader.dest \o part = all
  <2>1. /\ reader.dest \o part \in Seq(Values) /\ Len(reader.dest \o part) = n1 + n2
        /\ \A k \in 1 .. n1 + n2 :
              (reader.dest \o part)[k] = IF k <= n1 THEN reader.dest[k] ELSE part[k - n1]
    <3> DEFINE s == reader.dest
    <3>1. s \in Seq(Values) /\ Len(s) = n1 /\ part \in Seq(Values) /\ Len(part) = n2
      BY <1>5, <1>6, <1>7
    <3> HIDE DEF part, n1, n2, s
    <3>2. /\ s \o part \in Seq(Values) /\ Len(s \o part) = Len(s) + Len(part)
          /\ \A k \in 1 .. Len(s) + Len(part) :
                (s \o part)[k] = IF k <= Len(s) THEN s[k] ELSE part[k - Len(s)]
      BY <3>1, ConcatProperties
    <3> QED BY <3>1, <3>2 DEF s
  <2>2. ASSUME NEW k \in 1 .. n1 + n2 PROVE (reader.dest \o part)[k] = all[k]
    <3>1. all[k] = buf[Masked(read_idx + k - 1)]
      BY <1>2
    <3>2. CASE k <= n1
      <4>1. k \in 1 .. n1
        BY <3>2, <1>2
      <4>2. reader.dest[k] = buf[read_idx + k - 1]
        BY <4>1, <1>5
      <4> QED BY <1>2, <2>1, <3>1, <3>2, <4>1, <4>2
    <3>3. CASE k > n1
      <4> DEFINE j == k - n1
      <4>1. j \in 1 .. n2 /\ n1 + j = k /\ read_idx + n1 + j - 1 = read_idx + k - 1 /\ ~(k <= n1)
        BY <3>3, <1>2 DEF Slots
      <4>2. part[j] = buf[j - 1]
        BY <4>1
      <4>3. Masked(read_idx + k - 1) = j - 1
        <5> HIDE DEF n1, n2, j
        <5> QED BY <4>1, <1>2
      <4> HIDE DEF part, all
      <4> QED BY <2>1, <3>1, <4>1, <4>2, <4>3
    <3>4. k <= n1 \/ k > n1
      BY <1>2
    <3> HIDE DEF part, all, n1, n2
    <3> QED BY <3>2, <3>3, <3>4
  <2> HIDE DEF part, all
  <2> QED BY <1>2, <1>4, <2>1, <2>2, SeqEqual
<1>9. reader'.pc = "set" /\ reader'.n = reader.n /\ reader'.dest = all
  BY <1>1, <1>8 DEF IInv, TypeOK
<1>10. reader' = [reader EXCEPT !.pc = "set", !.dest = all]
  BY <1>1, <1>8
<1> HIDE DEF all, part, n1, n2
<1>11. TypeOK'
  BY <1>1, <1>4, <1>10 DEF IInv, TypeOK
<1>12. Shares' /\ Copied'
  BY <1>1, <1>9 DEF IInv, Shares, Copied
<1>13. Fetched'
  BY <1>1, <1>9 DEF Fetched, all
<1> QED BY <1>1, <1>11, <1>12, <1>13 DEF IInv, Contents

\* The slots of a read of n items, from its end on, are those that stay used.
LEMMA EndReadIInv ==
    ASSUME IInv, EndRead
    PROVE  /\ IInv'
           /\ reader.n \in 1 .. Len(Contents)
           /\ got' = SubSeq(Contents, 1, reader.n)
           /\ Contents' = SubSeq(Contents, reader.n + 1, Len(Contents))
<1> DEFINE n == reader.n
<1> USE SizeAssumption
<1>1. /\ reader.pc = "set" /\ reader' = [pc |-> "idle", n |-> 0, dest |-> <<>>]
      /\ read_idx' = IndexAfter(read_idx, n) /\ got' = reader.dest
      /\ UNCHANGED <<buf, write_idx, writer, put>>
  BY DEF EndRead
<1>2. /\ read_idx \in Slots /\ write_idx \in Slots /\ n \in 1 .. Used /\ Used \in 0 .. Size - 1
      /\ Used = IF write_idx >= read_idx THEN write_idx - read_idx ELSE write_idx - read_idx + Size
  BY <1>1, Bounds DEF IInv, TypeOK, Shares
<1>3. IndexAfter(read_idx, n) = IF read_idx + n >= Size THEN read_idx + n - Size ELSE read_idx + n
  <2>1. n \in 0 .. Size - 1
    BY <1>2
  <2> HIDE DEF n
  <2> QED BY <1>2, <2>1, Parts
<1> HIDE DEF n
<1>4. read_idx' \in Slots
  BY <1>1, <1>2, <1>3 DEF Slots
<1>5. Used' = Used - n
  <2>1. Used' = IF write_idx >= read_idx' THEN write_idx - read_idx' ELSE write_idx - read_idx' + Size
    BY <1>1, <1>2, <1>4, Spaces DEF Used
  <2> HIDE DEF Used
  <2> QED BY <1>1, <1>2, <1>3, <2>1 DEF Slots
<1>6. Contents \in Seq(Values) /\ Len(Contents) = Used
  BY ContentsSeq
<1>7. \A k \in 1 .. Used : Contents[k] \in Values /\ Contents[k] = buf[Masked(read_idx + k - 1)]
  BY Apart DEF Contents, IInv, TypeOK
<1>8. \A k \in 1 .. Used - n : Masked(read_idx' + k - 1) = Masked(read_idx + (n + k) - 1)
  <2> TAKE k \in 1 .. Used - n
  <2> DEFINE i == read_idx' + k - 1
             j == read_idx + (n + k) - 1
  <2> USE DEF Slots
  <2>0. k \in Int /\ k >= 1 /\ n + k <= Used /\ Used <= Size - 1
    BY <1>2
  <2>1. i \in 0 .. 2 * Size - 1 /\ j \in 0 .. 2 * Size - 1
    <3> DEFINE r == read_idx'
    <3>1. r \in 0 .. Size - 1 /\ read_idx \in 0 .. Size - 1 /\ n \in Nat /\ Used \in Nat
      BY <1>2, <1>4
    <3> HIDE DEF r
    <3>2. r + k - 1 \in 0 .. 2 * Size - 1 /\ read_idx + (n + k) - 1 \in 0 .. 2 * Size - 1
      BY <2>0, <3>1
    <3> QED BY <3>2 DEF r
  <2>2. /\ Masked(i) = IF i < Size THEN i ELSE i - Size
        /\ Masked(j) = IF j < Size THEN j ELSE j - Size
    BY <2>1, MaskedOnce
  <2>3. i = IF read_idx + n >= Size THEN j - Size ELSE j
    BY <1>1, <1>2, <1>3 DEF Slots
  <2>4. read_idx + n >= Size => j >= Size
    BY <1>2 DEF Slots
  <2>5. i < Size \/ read_idx + n < Size
    BY <1>1, <1>2, <1>3 DEF Slots
  <2>6. read_idx + n \in Int
    BY <1>2 DEF Slots
  <2> HIDE DEF i, j
  <2>7. Masked(i) = Masked(j)
    BY <2>1, <2>2, <2>3, <2>4, <2>5, <2>6
  <2> QED BY <2>7 DEF i, j
<1>9. TypeOK'
  BY <1>1, <1>4 DEF IInv, TypeOK
<1>10. Shares' /\ Copied' /\ Fetched'
  <2>1. Len(writer.src) + Used' <= Size - 1 /\ 0 <= Used'
    BY <1>2, <1>5, Bounds
  <2>2. Shares'
    BY <1>1, <2>1 DEF IInv, Shares
  <2>3. Copied' /\ Fetched'
    BY <1>1 DEF IInv, Copied, Fetched
  <2> QED BY <2>2, <2>3
<1>11. got' = SubSeq(Contents, 1, n)
  <2>1. /\ SubSeq(Contents, 1, n) \in Seq(Values)
        /\ Len(SubSeq(Contents, 1, n)) = n
        /\ \A k \in 1 .. n : SubSeq(Contents, 1, n)[k] = Contents[k]
    <3>1. \A k \in 1 .. n : Contents[k] \in Values
      BY <1>2, <1>7
    <3>2. 1 \in Int /\ n \in Int /\ 1 <= n
      BY <1>2
    <3> QED BY <3>1, <3>2, SubSeqProperties
  <2>2. got' = [k \in 1 .. n |-> buf[Masked(read_idx + k - 1)]] /\ got' \in Seq(Values)
    BY <1>1, <1>9 DEF IInv, Fetched, TypeOK, n
  <2>3. Len(got') = n
    BY <2>2, <1>2, LenProperties
  <2>4. \A k \in 1 .. n : got'[k] = SubSeq(Contents, 1, n)[k]
    BY <2>1, <2>2, <1>2, <1>7
  <2> QED BY <2>1, <2>2, <2>3, <2>4, SeqEqual
<1>12. Contents' = SubSeq(Contents, n + 1, Used)
  <2>1. Contents' = [k \in 1 .. Used - n |-> buf[Masked(read_idx' + k - 1)]]
    BY <1>1, <1>5 DEF Contents
  <2>2. \A k \in 1 .. Used - n : n + k \in 1 .. Used /\ (n + 1) + k - 1 = n + k
    BY <1>2
  <2>3. \A k \in 1 .. Used - n : Contents'[k] = Contents[n + k] /\ Contents'[k] \in Values
    BY <1>7, <1>8, <2>1, <2>2
  <2>4. Contents' \in Seq(Values) /\ Len(Contents') = Used - n
    <3>1. Contents' \in [1 .. Used - n -> Values]
      BY <2>1, <2>3
    <3>2. Used - n \in Nat
      BY <1>2
    <3> HIDE DEF Contents
    <3> QED BY <3>1, <3>2, <2>1, LenProperties
  <2>5. /\ SubSeq(Contents, n + 1, Used) \in Seq(Values)
        /\ Len(SubSeq(Contents, n + 1, Used)) = Used - n
        /\ \A k \in 1 .. Used - n : SubSeq(Contents, n + 1, Used)[k] = Contents[n + k]
    <3>1. \A k \in n + 1 .. Used : Contents[k] \in Values
      BY <1>2, <1>7
    <3>2. n + 1 \in Int /\ Used \in Int
      BY <1>2
    <3>3. /\ SubSeq(Contents, n + 1, Used) \in Seq(Values)
          /\ Len(SubSeq(Contents, n + 1, Used)) = IF n + 1 <= Used THEN Used - (n + 1) + 1 ELSE 0
          /\ \A k \in 1 .. Used - (n + 1) + 1 :
                SubSeq(Contents, n + 1, Used)[k] = Contents[(n + 1) + k - 1]
      BY <3>1, <3>2, SubSeqProperties
    <3>4. Used - (n + 1) + 1 = Used - n /\ (n + 1 <= Used \/ Used - n = 0)
      BY <1>2
    <3> HIDE DEF Contents
    <3> QED BY <2>2, <3>3, <3>4
  <2>6. \A k \in 1 .. Used - n : Contents'[k] = SubSeq(Contents, n + 1, Used)[k]
    BY <2>3, <2>5
  <2> QED BY <2>4, <2>5, <2>6, SeqEqual
<1> QED BY <1>2, <1>6, <1>9, <1>10, <1>11, <1>12 DEF IInv, n

LEMMA ResetIInv ==
    ASSUME IInv, Reset
    PROVE  IInv' /\ Contents' = <<>>
<1> USE SizeAssumption
<1>1. /\ writer.pc = "idle" /\ reader.pc = "idle" /\ write_idx' = 0 /\ read_idx' = 0
      /\ UNCHANGED <<buf, writer, reader, put, got>>
  BY DEF Reset
<1>2. Used' = 0
  <2>1. 0 \in Slots
    BY DEF Slots
  <2>2. ReadSpace(0, 0) = 0
    BY <2>1, Spaces
  <2> QED BY <1>1, <2>2 DEF Used
<1>3. TypeOK'
  BY <1>1 DEF IInv, TypeOK, Slots
<1>4. Shares' /\ Copied' /\ Fetched'
  BY <1>1, <1>2 DEF IInv, Shares, Copied, Fetched
<1>5. Contents' = <<>>
  BY <1>2 DEF Contents
<1> QED BY <1>3, <1>4, <1>5 DEF IInv

-----------------------------------------------------------------------------
(* Every step keeps the invariant and is one of the queue.                 *)

LEMMA Step ==
    ASSUME IInv, [Next]_vars
    PROVE  IInv' /\ [Queue!Next]_<<Contents, put, got>>
<1>1. ASSUME NEW src \in Batches, BeginWrite(src)
      PROVE  IInv' /\ UNCHANGED <<Contents, put, got>>
  BY <1>1, BeginWriteIInv DEF BeginWrite, Contents, Used
<1>2. CASE CopyIn
  BY <1>2, CopyInIInv DEF CopyIn
<1>3. CASE CopyInWrapped
  BY <1>3, CopyInWrappedIInv DEF CopyInWrapped
<1>4. CASE EndWrite
  <2>1. Queue!Put(writer.src)
    BY <1>4, EndWriteIInv DEF EndWrite, Queue!Put
  <2> QED BY <1>4, <2>1, EndWriteIInv DEF Queue!Next
<1>5. ASSUME NEW cnt \in 1 .. MaxCount, BeginRead(cnt)
      PROVE  IInv' /\ UNCHANGED <<Contents, put, got>>
  BY <1>5, BeginReadIInv DEF BeginRead
<1>6. CASE CopyOut
  BY <1>6, CopyOutIInv DEF CopyOut
<1>7. CASE CopyOutWrapped
  BY <1>7, CopyOutWrappedIInv DEF CopyOutWrapped
<1>8. CASE EndRead
  <2>1. Queue!Take(reader.n)
    BY <1>8, EndReadIInv DEF EndRead, Queue!Take
  <2> QED BY <1>8, <2>1, EndReadIInv DEF Queue!Next
<1>9. CASE Reset
  <2>1. Queue!Clear
    BY <1>9, ResetIInv DEF Reset, Queue!Clear
  <2> QED BY <1>9, <2>1, ResetIInv DEF Queue!Next
<1>10. CASE UNCHANGED vars
  BY <1>10 DEF vars, IInv, TypeOK, Shares, Copied, Fetched, Contents, Used
<1> QED BY <1>1, <1>2, <1>3, <1>4, <1>5, <1>6, <1>7, <1>8, <1>9, <1>10 DEF Next

\* The slots that the writer copies to are apart from those between the indices.
LEMMA IInvApart == IInv => NoSlotShared
<1> SUFFICES ASSUME IInv PROVE NoSlotShared
  OBVIOUS
<1> DEFINE len == Len(writer.src)
<1>1. /\ read_idx \in Slots /\ write_idx \in Slots
      /\ len \in 0 .. Size - 1 - Used /\ Used \in 0 .. Size - 1 /\ reader.n \in 0 .. Used
      /\ Used = IF write_idx >= read_idx THEN write_idx - read_idx ELSE write_idx - read_idx + Size
  BY Bounds DEF IInv, TypeOK
<1> HIDE DEF len
<1>2. ASSUME NEW i \in 0 .. len - 1, NEW k \in 0 .. Used - 1
      PROVE  Masked(write_idx + i) # Masked(read_idx + k)
  <2> DEFINE a == write_idx + i
             b == read_idx + k
  <2>1. a \in 0 .. 2 * Size - 1 /\ b \in 0 .. 2 * Size - 1
    BY <1>1, SizeAssumption DEF Slots
  <2>2. /\ Masked(a) = IF a < Size THEN a ELSE a - Size
        /\ Masked(b) = IF b < Size THEN b ELSE b - Size
    BY <2>1, MaskedOnce
  <2> QED BY <1>1, <2>2, SizeAssumption DEF Slots
<1> QED BY <1>1, <1>2 DEF NoSlotShared, len

\* The invariant of a ring buffer of any size: the indices, and what has been copied.
THEOREM Invariance == Spec => []IInv
<1>1. Init => IInv
  BY InitIInv
<1>2. IInv /\ [Next]_vars => IInv'
  BY Step
<1> QED BY <1>1, <1>2, PTL DEF Spec

\* The writer and the reader never meet at a slot, although neither waits for the other:
\* each works out its space from an index that the other may be about to move.
THEOREM SlotsApart == Spec => []NoSlotShared
<1> QED BY Invariance, IInvApart, PTL

\* RingBuffer is a bounded first-in first-out queue: nothing is lost, repeated, taken out
\* of order, or taken half written.
THEOREM Implements == Spec => Fifo
<1>1. Init => Queue!Init
  <2> SUFFICES ASSUME Init PROVE Contents = <<>> /\ put = <<>> /\ got = <<>>
    BY DEF Queue!Init
  <2>1. ReadSpace(0, 0) = 0
    BY Spaces, SizeAssumption DEF Slots
  <2> QED BY <2>1 DEF Init, Contents, Used
<1>2. IInv /\ [Next]_vars => [Queue!Next]_<<Contents, put, got>>
  BY Step
<1> QED BY <1>1, <1>2, Invariance, PTL DEF Spec, Fifo, Queue!Spec
=============================================================================
