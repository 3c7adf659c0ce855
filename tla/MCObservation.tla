---------------------------- MODULE MCObservation ----------------------------
(* Those who look at the booth from outside, for TLC: independent components, which *)
(* share no variable.  So each behaviour drives one of them, and leaves the  *)
(* others as they start: the interleavings of two would show nothing more.   *)
EXTENDS TelemetryBus, DebugServer

CONSTANTS p1, p2, a, b, question, recording

VARIABLE driven     \* which of the components runs

\* The components that are not driven start in one of their initial states.
Init ==
    /\ driven \in {"bus", "debug"}
    /\ BusInit
    /\ DebugInit /\ (driven = "debug" \/ accepting)

Next ==
    /\ UNCHANGED driven
    /\ \/ driven = "bus" /\ BusNext /\ UNCHANGED <<debugVars>>
       \/ driven = "debug" /\ DebugNext /\ UNCHANGED <<telemetryVars>>

Spec ==
    /\ Init /\ [][Next]_<<driven, telemetryVars, debugVars>>
    /\ \/ driven = "debug" /\ DebugFairness
       \/ driven \in {"bus"}
=============================================================================
