---------------------------- MODULE MCUnit ----------------------------
(* The unit under systemd, its power button, and the simulator that stands   *)
(* for its devices, for TLC: independent components, which                   *)
(* share no variable.  So each behaviour drives one of them, and leaves the  *)
(* others as they start: the interleavings of two would show nothing more.   *)
EXTENDS PowerButton, Startup, Simulator

VARIABLE driven     \* which of the components runs

\* Configurations that differ in what start-up looks at: a pin of its own for the button, or
\* one that the status LED or the hook has too; a hold of zero; the startup mode.
Bcm(button, led) ==
    [Default.bcm EXCEPT !["power_button"] = button, !["status_led"] = led]
Real ==
    {[Default EXCEPT !.bcm = pins, !.button = on, !.led = TRUE] :
        pins \in {Bcm(4, 5), Bcm(4, 4), Bcm(1, 5)}, on \in BOOLEAN}
Synthetic ==
    {[Default EXCEPT !.hold_ms = h, !.mock = m, !.simulator = s] :
        h \in {0, DefaultHold}, m \in BOOLEAN, s \in BOOLEAN}
MCSettings == Real \cup Synthetic

\* The components that are not driven start in one of their initial states.
Init ==
    /\ driven \in {"power", "startup", "simulator"}
    /\ PowerInit /\ (driven = "power" \/ (pin = "Up" /\ prompt))
    /\ StartupInit /\ (driven = "startup" \/ (settings = Default /\ override = "unset" /\ audio))
    /\ SimulatorInit

Next ==
    /\ UNCHANGED driven
    /\ \/ driven = "power" /\ PowerNext /\ UNCHANGED <<startupVars, simulatorVars>>
       \/ driven = "startup" /\ StartupNext /\ UNCHANGED <<powerVars, simulatorVars>>
       \/ driven = "simulator" /\ SimulatorNext /\ UNCHANGED <<powerVars, startupVars>>

Spec ==
    /\ Init /\ [][Next]_<<driven, powerVars, startupVars, simulatorVars>>
    /\ \/ driven = "power" /\ PowerFairness
       \/ driven = "startup" /\ StartupFairness
       \/ driven \in {"simulator"}

\* A button that is held for good is noticed, and a healthy unit comes up again and again
\* (power_button_task; Restart=on-failure of the unit).
UnitGoesOn ==
    /\ driven = "power" => HoldIsNoticed
    /\ driven = "startup" => UnitComesUp
=============================================================================
