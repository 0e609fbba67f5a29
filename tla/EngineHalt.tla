----------------------------- MODULE EngineHalt -----------------------------
(***************************************************************************)
(* Session::engine_halted(): JACK has gone away, process() is called no    *)
(* more, and the thread that finds out resets the transport work and stops *)
(* the butler before it stops the transport itself.  Callers has that      *)
(* thread alone.                                                           *)
(***************************************************************************)
EXTENDS Butler

VARIABLE halted     \* engine_halted() has been entered

haltVars == <<vars, halted>>

HaltInit == Init /\ halted = FALSE

\* The counter and the flags are reset, whatever the butler is doing with them.
EngineHalted ==
    /\ ~halted /\ ppc = "idle"
    /\ halted' = TRUE
    /\ transport_work' = 0
    /\ post_transport_work' = {} /\ owed' = {} /\ doing' = {}
    /\ UNCHANGED <<pipe, butlerVars, bufferVars, processVars, callerVars>>

\* stop_butler(), up to its wait.
StopButler == halted /\ \E halter \in Callers : Ask(halter, "Pause")

WaitForButler == \E halter \in Callers : Wait(halter)

HaltNext ==
    \/ EngineHalted
    \/ ~halted /\ Process /\ UNCHANGED halted
    \/ (StopButler \/ WaitForButler \/ ButlerThread) /\ UNCHANGED halted

HaltSpec ==
    /\ HaltInit /\ [][HaltNext]_haltVars
    /\ WF_haltVars(ButlerThread /\ UNCHANGED halted)
    /\ WF_haltVars(StopButler /\ UNCHANGED halted)
    /\ WF_haltVars(WaitForButler /\ UNCHANGED halted)

\* "first, make sure the butler is out of the picture": engine_halted() gets past
\* stop_butler(), to stop the transport.
ButlerOutOfThePicture ==
    \A halter \in Callers : halted ~> cpc[halter] = "released"
=============================================================================
