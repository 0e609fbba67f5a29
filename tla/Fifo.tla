-------------------------------- MODULE Fifo --------------------------------
(***************************************************************************)
(* What a ring buffer promises its one writer and its one reader: items    *)
(* are taken in the order they were put, each once, and none is lost.      *)
(***************************************************************************)
EXTENDS Integers, Sequences

CONSTANTS
    Batches,      \* the sequences of items that one write may put
    Capacity      \* how many items fit

VARIABLES
    queue,        \* the items put and not yet taken
    put,          \* what the last write put
    got           \* what the last read took

Init == queue = <<>> /\ put = <<>> /\ got = <<>>

\* A write of the items src.
Put(src) ==
    /\ Len(queue) + Len(src) <= Capacity
    /\ queue' = queue \o src
    /\ put' = src
    /\ UNCHANGED got

\* A read of n items.
Take(n) ==
    /\ got' = SubSeq(queue, 1, n)
    /\ queue' = SubSeq(queue, n + 1, Len(queue))
    /\ UNCHANGED put

Clear == queue' = <<>> /\ UNCHANGED <<put, got>>

Next == \/ \E src \in Batches : Put(src)
        \/ \E n \in 1 .. Len(queue) : Take(n)
        \/ Clear

Spec == Init /\ [][Next]_<<queue, put, got>>
=============================================================================
