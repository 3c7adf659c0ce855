---------------------------- MODULE MCCollectors ----------------------------
(* The collectors and the calendar for TLC: independent components, which    *)
(* share no variable.  So each behaviour drives one of them, and leaves the  *)
(* others as they start: the interleavings of two would show nothing more.   *)
EXTENDS CivilDate, Collectors

VARIABLE driven     \* which of the components runs

TemperaturesAtLimit == {20, 100, 101}
TimesAtLimit == {-1, 0}
AllCodes == 0..99
None == {}

\* The components that are not driven start in one of their initial states.
Init ==
    /\ driven \in {"date", "weather", "system"}
    /\ DateInit
    /\ WeatherInit
    /\ SnapshotInit

Next ==
    /\ UNCHANGED driven
    /\ \/ driven = "date" /\ DateNext /\ UNCHANGED <<weatherVars, snapshotVars>>
       \/ driven = "weather" /\ WeatherNext /\ UNCHANGED <<dateVars, snapshotVars>>
       \/ driven = "system" /\ SnapshotNext /\ UNCHANGED <<dateVars, weatherVars>>

Spec ==
    /\ Init /\ [][Next]_<<driven, dateVars, weatherVars, snapshotVars>>
    /\ \/ driven = "weather" /\ WeatherFairness
       \/ driven = "system" /\ SnapshotFairness
       \/ driven \in {"date"}
=============================================================================
