------------------------------ MODULE MCButler ------------------------------
(* Small instances of Butler for TLC. *)
EXTENDS Butler

\* One kind of work of each sort: Reverse, which is interruptible unless a locate is
\* flagged; Locate, which is not; Stop, which is; and OverWrite, which is and does not
\* hold up the process thread.
OneOfEachSort == {"Reverse", "Locate", "Stop", "OverWrite"}
=============================================================================
