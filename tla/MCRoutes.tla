------------------------------ MODULE MCRoutes ------------------------------
(***************************************************************************)
(* Small sets of routes for TLC.                                           *)
(***************************************************************************)
EXTENDS Routes

CONSTANTS t1, t2, b1, ctl, g

\* Two tracks, a bus and the control outs; the bus was made first.
FourRoutes == {t1, t2, b1, ctl}
KeyOfFour == (t1 :> 1) @@ (t2 :> 2) @@ (b1 :> 0) @@ (ctl :> 3)
AddressOfFour == <<t2, b1, t1, ctl>>
KindOfFour == (t1 :> "audio") @@ (t2 :> "audio") @@ (b1 :> "bus") @@ (ctl :> "control")
\* Tracks into the bus, and feedback from the bus to a track and between the tracks.
FeedsOfFour == {<<t1, b1>>, <<t2, b1>>, <<b1, t1>>, <<t1, t2>>}

\* The order of the list and solo do not look at each other's variables, so a session is
\* checked for either: with connections and nobody soloing, or with solo and no connection.
VARIABLE session

Either(kind) == session = kind /\ UNCHANGED session

EitherInit == Init /\ session \in {"connecting", "soloing"}

EitherNext ==
    \/ Either("connecting") /\ NextList
    \/ Either("soloing") /\ NextSolo
    \/ Either("soloing") /\ NextList /\ wires' = wires

EitherSpec == EitherInit /\ [][EitherNext]_<<vars, session>>
=============================================================================
