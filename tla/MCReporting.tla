---------------------------- MODULE MCReporting ----------------------------
(* What the booth tells the operator, for TLC: independent components, which *)
(* share no variable.  So each behaviour drives one of them, and leaves the  *)
(* others as they start: the interleavings of two would show nothing more.   *)
EXTENDS StatusReporting, EventForwarder, OperatorUpload

VARIABLE driven     \* which of the components runs

TwoStates == {"Idle", "DialTone"}

\* The statuses that are not told apart otherwise.
OtherStatuses == {401, 429, 500}

\* The components that are not driven start in one of their initial states.
Init ==
    /\ driven \in {"status", "events", "upload"}
    /\ StatusInit /\ (driven = "status" \/ shown = "Idle")
    /\ ForwarderInit /\ (driven = "events" \/ published = 0)
    /\ OperatorInit /\ (driven = "upload" \/ (active /\ gate = "Open"))

\* The gate is read here, and moves only here: nobody sees where it was between.
GateIsRead == request # "none" /\ wire = Ready /\ transfer = 0

Next ==
    /\ UNCHANGED driven
    /\ \/ driven = "status" /\ StatusNext /\ UNCHANGED <<forwarderVars, operatorVars>>
       \/ driven = "events" /\ ForwarderNext /\ UNCHANGED <<statusVars, operatorVars>>
       \/ driven = "upload" /\ OperatorNext /\ (GateMoves => GateIsRead)
          /\ UNCHANGED <<statusVars, forwarderVars>>

Spec ==
    /\ Init /\ [][Next]_<<driven, statusVars, forwarderVars, operatorVars>>
    /\ \/ driven = "status" /\ StatusFairness
       \/ driven = "events" /\ ForwarderFairness /\ <>[][NothingFails]_forwarderVars
       \/ driven = "upload" /\ OperatorFairness

\* What the booth has to tell reaches the operator in the end.
OperatorHears ==
    /\ OperatorCatchesUp /\ EventuallyDelivered /\ UploadEnds /\ KeepsUntilDelivered
=============================================================================
