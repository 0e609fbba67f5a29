---------------------------- MODULE MCTransport ----------------------------
(***************************************************************************)
(* Small sessions for TLC.                                                 *)
(***************************************************************************)
EXTENDS Transport

OneToFour == [there |-> TRUE, start |-> 1, end |-> 4]

\* Plays, stops and locates.
Plain == [latency |-> 1, auto_return |-> FALSE, punch_in |-> FALSE, punch_out |-> FALSE,
          auto_loop |-> NoRange, auto_punch |-> NoRange,
          asks |-> {"Play", "Stop", "Locate", "LocateRoll"}, requests |-> 4]

\* Loops, and records now and then.
Looping == [Plain EXCEPT !.auto_loop = OneToFour,
                         !.asks = {"Play", "Stop", "Locate", "LoopOn", "LoopOff", "Record"}]

\* Records, with a latency of more than a block.
Punching == [latency |-> 3, auto_return |-> TRUE, punch_in |-> TRUE, punch_out |-> TRUE,
             auto_loop |-> NoRange, auto_punch |-> OneToFour,
             asks |-> {"Play", "Stop", "Locate", "Record", "NoRecord", "RollAndReturn",
                       "BoundedRoll"},
             requests |-> 3]

\* Records what is played of a range, with a latency of more than a block.
Bounded == [Punching EXCEPT !.punch_in = FALSE, !.punch_out = FALSE, !.auto_punch = NoRange,
                            !.auto_return = FALSE, !.asks = {"Play", "Record", "BoundedRoll"}]

BoundedSessions == {Bounded}

Sessions == {Plain, Looping, Punching}
=============================================================================
