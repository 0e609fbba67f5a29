--------------------------- MODULE TransportWork ---------------------------
(***************************************************************************)
(* What Session promises about post_transport_work, whoever performs it:   *)
(* a kind of work that is flagged stays flagged until it has been done     *)
(* from beginning to end, by an execution that began after the last time   *)
(* it was flagged.  Then, and only then, the flags are collected.          *)
(***************************************************************************)
CONSTANT Kinds

VARIABLES
    flagged,     \* post_transport_work
    owed,        \* flagged, and not performed since
    performing   \* the part of owed that an execution in progress will settle

vars == <<flagged, owed, performing>>

Init == flagged = {} /\ owed = {} /\ performing = {}

\* Work is flagged; an execution of it that has already begun no longer counts.
Flag(w) ==
    /\ flagged' = flagged \cup {w}
    /\ owed' = owed \cup {w}
    /\ performing' = performing \ {w}

Begin ==
    /\ performing = {}
    /\ \E S \in SUBSET owed : performing' = S
    /\ UNCHANGED <<flagged, owed>>

Complete ==
    /\ owed' = owed \ performing
    /\ performing' = {}
    /\ UNCHANGED flagged

\* New work interrupts the execution; nothing of it counts.
GiveUp ==
    /\ performing' = {}
    /\ UNCHANGED <<flagged, owed>>

\* post_transport()
Collect ==
    /\ owed = {}
    /\ flagged' = {}
    /\ UNCHANGED <<owed, performing>>

Next == (\E w \in Kinds : Flag(w)) \/ Begin \/ Complete \/ GiveUp \/ Collect

Spec == Init /\ [][Next]_vars
=============================================================================
