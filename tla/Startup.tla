-------------------------------- MODULE Startup --------------------------------
(***************************************************************************)
(* How the booth is started: telephone-booth.service, which runs `check`   *)
(* before `run` and starts again after a failure, a person at a shell who  *)
(* runs the booth with flags, and the two commands themselves, from the    *)
(* configuration to the point where the runtime's loop is entered.  The    *)
(* unit has the terminal docs/configuration.md asks for, so that a         *)
(* terminal surface can be drawn.                                          *)
(*                                                                         *)
(* Of the configuration the model keeps the pins, the two optional devices *)
(* that claim one (one pin stands for the three of the status LED), the    *)
(* hold threshold and the startup mode; one overriding environment         *)
(* variable stands for all of them.                                        *)
(***************************************************************************)
EXTENDS Integers, FiniteSets, Functions

CONSTANTS
    Settings,       \* configurations a file may hold
    Overrides,      \* what the environment says of the power button: "on", "off", "unset"
    Pins,           \* pins that something else may have taken
    DefaultHold,    \* PowerButtonConfig::default().hold_ms
    Booted,         \* how often the unit may crash or be started by hand
    MaxChanges      \* bound: changes of configuration and hardware

PinRoles == {"hook", "rotary_pulse", "rotary_read", "power_button", "status_led"}
Configs == [bcm : [PinRoles -> Nat], button : BOOLEAN, led : BOOLEAN, hold_ms : Nat,
            mock : BOOLEAN, simulator : BOOLEAN]

ASSUME StartupAssumption ==
    /\ Settings \subseteq Configs /\ Overrides \subseteq {"on", "off", "unset"} /\ Pins \subseteq Nat
    /\ DefaultHold \in Nat \ {0} /\ Booted \in Nat /\ MaxChanges \in Nat

VARIABLES
    \* The world.
    file,           \* /etc/phone-booth/config.toml: "absent", "unreadable" or "present"
    settings, override,
    taken,          \* pins that cannot be claimed
    audio,          \* there is an audio device
    disk,           \* the recordings directory can be written
    changes, changed,   \* changes so far; whether one came since the unit last started
    \* The process.
    by, flags,      \* "unit" or "shell", and the flags of the command line
    at,             \* how far it is
    config, source, \* the effective configuration, and where it came from
    surface, mock,  \* "headless", "monitor" or "simulator", on mocked adapters or not
    why,            \* what the last process failed of
    ready, boots    \* READY=1 was sent; starts so far

world == <<file, settings, override, taken, audio, disk>>
mode == <<surface, mock>>
process == <<by, flags, at, config, source, mode, why, ready, boots>>
startupVars == <<world, changes, changed, process>>

Flags == [mock : BOOLEAN, simulator : BOOLEAN, tui : BOOLEAN]
NoFlags == [mock |-> FALSE, simulator |-> FALSE, tui |-> FALSE]
Steps == {"off", "check", "probe", "load", "adapters", "runtime", "loop", "failed"}

Default == [bcm |-> [r \in PinRoles |-> CASE r = "hook" -> 1 [] r = "rotary_pulse" -> 2
                                       [] r = "rotary_read" -> 3 [] r = "power_button" -> 4
                                       [] OTHER -> 5],
            button |-> FALSE, led |-> FALSE, hold_ms |-> DefaultHold,
            mock |-> FALSE, simulator |-> FALSE]

StartupInit ==
    /\ file = "present" /\ settings \in Settings /\ override \in Overrides
    /\ taken = {} /\ audio \in BOOLEAN /\ disk = TRUE /\ changes = 0 /\ changed = FALSE
    /\ by = "unit" /\ flags = NoFlags /\ at = "off" /\ config = Default /\ source = "none"
    /\ surface = "headless" /\ mock = FALSE /\ why = "nothing" /\ ready = FALSE /\ boots = 0

-----------------------------------------------------------------------------
(* Configuration.                                                          *)

apply_env_overrides(c) ==
    IF override = "unset" THEN c ELSE [c EXCEPT !.button = (override = "on")]

PhoneRoles == {"hook", "rotary_pulse", "rotary_read"}
InputRoles(c) == PhoneRoles \cup {r \in {"power_button"} : c.button}
ClaimedRoles(c) == InputRoles(c) \cup {r \in {"status_led"} : c.led}

\* Mutated validate_config: the pins of the optional devices are not looked at.
ValidatePhonePins(c) ==
    IsInjective(Restrict(c.bcm, PhoneRoles)) /\ (c.button => c.hold_ms > 0)

validate_config(c) ==
    IsInjective(Restrict(c.bcm, ClaimedRoles(c))) /\ (c.button => c.hold_ms > 0)

\* Mutated config_path_to_read: a file one may not read is taken for none.
PathIfReadable == [present |-> "file", absent |-> "defaults", unreadable |-> "defaults"][file]

\* A file one may not read is an error, and not an absent one.
config_path_to_read == [present |-> "file", absent |-> "defaults", unreadable |-> "error"][file]

Loaded == apply_env_overrides(IF config_path_to_read = "file" THEN settings ELSE Default)

\* Mutated load_config: the error of the path is dropped.
LoadIgnoresError(next) ==
    IF validate_config(Loaded)
    THEN /\ config' = Loaded /\ source' = config_path_to_read /\ at' = next
         /\ UNCHANGED <<why, boots>>
    ELSE at' = "failed" /\ why' = "config" /\ UNCHANGED <<config, source, boots>>

\* load_config, and on to the step `next`.
load_config(next) ==
    IF config_path_to_read # "error" /\ validate_config(Loaded)
    THEN /\ config' = Loaded /\ source' = config_path_to_read /\ at' = next
         /\ UNCHANGED <<why, boots>>
    ELSE at' = "failed" /\ why' = "config" /\ UNCHANGED <<config, source, boots>>

-----------------------------------------------------------------------------
(* The adapters.                                                           *)

\* Every role has a pin of its own that nothing else has taken.
Claims(c, roles) ==
    IsInjective(Restrict(c.bcm, roles)) /\ \A r \in roles : c.bcm[r] \notin taken

Fails(reason) == at' = "failed" /\ why' = reason /\ UNCHANGED <<config, source, ready, boots>>
Proceeds(next) == at' = next /\ UNCHANGED <<why, boots>>

\* Mutated check_runtime: the button's pin is not reserved.
CheckWithoutButton ==
    /\ at = "probe"
    /\ IF ~Claims(config, PhoneRoles) THEN Fails("gpio")
       ELSE IF config.led /\ ~Claims(config, {"status_led"}) THEN Fails("led")
       ELSE Proceeds("load") /\ UNCHANGED <<config, source, ready>>
    /\ UNCHANGED <<world, changes, changed, by, flags, mode>>

\* The audio sink is told to stop, which it does without a device when it plays nothing.
check_runtime ==
    /\ at = "probe"
    /\ IF ~Claims(config, InputRoles(config)) THEN Fails("gpio")
       ELSE IF config.led /\ ~Claims(config, {"status_led"}) THEN Fails("led")
       ELSE Proceeds("load") /\ UNCHANGED <<config, source, ready>>
    /\ UNCHANGED <<world, changes, changed, by, flags, mode>>

Check ==
    /\ at = "check" /\ load_config("probe")
    /\ UNCHANGED <<world, changes, changed, by, flags, mode, ready>>

\* A terminal asked for by --tui comes before the mode of the configuration.
run_cli ==
    /\ at = "load" /\ load_config("adapters")
    /\ mock' = (flags.mock \/ config'.mock)
    /\ surface' = IF flags.tui THEN "monitor"
                  ELSE IF flags.simulator \/ config'.simulator THEN "simulator" ELSE "headless"
    /\ UNCHANGED <<world, changes, changed, by, flags, ready>>

build_pi_adapters ==
    /\ at = "adapters" /\ surface # "simulator" /\ ~mock
    /\ IF ~Claims(config, InputRoles(config)) THEN Fails("gpio")
       ELSE IF ~disk THEN Fails("disk")
       ELSE IF config.led /\ ~Claims(config, {"status_led"}) THEN Fails("led")
       ELSE Proceeds("runtime") /\ UNCHANGED <<config, source, ready>>
    /\ UNCHANGED <<world, changes, changed, by, flags, mode>>

build_mock_adapters ==
    /\ at = "adapters" /\ surface # "simulator" /\ mock
    /\ Proceeds("runtime") /\ UNCHANGED <<world, changes, changed, by, flags, mode, config, source, ready>>

\* Mutated RepairsHold: the threshold stays as it was.
RepairsNothing(c) == [c EXCEPT !.button = TRUE]

\* The simulator turns the power button on, and must not do so with a threshold of zero.
RepairsHold(c) ==
    IF c.button THEN c
    ELSE [c EXCEPT !.button = TRUE, !.hold_ms = IF @ = 0 THEN DefaultHold ELSE @]

run_simulator ==
    /\ at = "adapters" /\ surface = "simulator"
    /\ IF ~mock /\ ~disk THEN Fails("disk")
       ELSE Proceeds("runtime") /\ config' = RepairsHold(config) /\ UNCHANGED <<source, ready>>
    /\ UNCHANGED <<world, changes, changed, by, flags, mode>>

\* The spool of pending uploads, and then READY=1: only a headless booth notifies systemd.
run_runtime ==
    /\ at = "runtime"
    /\ IF ~disk THEN Fails("disk")
       ELSE Proceeds("loop") /\ ready' = (surface = "headless") /\ UNCHANGED <<config, source>>
    /\ UNCHANGED <<world, changes, changed, by, flags, mode>>

-----------------------------------------------------------------------------
(* Who starts it.                                                          *)

Begins(who, f, step) ==
    /\ by' = who /\ flags' = f /\ at' = step /\ why' = "nothing" /\ ready' = FALSE
    /\ source' = "none" /\ changed' = FALSE
    /\ UNCHANGED <<world, changes, config, mode>>

\* systemctl start, and a person at a shell, when nothing runs.
Started ==
    /\ at = "off" /\ boots < Booted /\ boots' = boots + 1
    /\ \/ Begins("unit", NoFlags, "check")
       \/ \E f \in Flags : Begins("shell", f, "load")

\* Mutated Restarts: a failing check is not tried again.
RestartsAfterRun ==
    /\ at = "failed" /\ by = "unit" /\ why \notin {"config", "gpio"}
    /\ Begins("unit", NoFlags, "check") /\ UNCHANGED boots

\* Restart=on-failure.
Restarts ==
    /\ at = "failed" /\ by = "unit" /\ Begins("unit", NoFlags, "check") /\ UNCHANGED boots

GivesUp ==
    /\ at = "failed" /\ by = "shell" /\ at' = "off"
    /\ UNCHANGED <<world, changes, changed, by, flags, config, source, mode, why, ready, boots>>

\* Type=notify: a unit that does not say it is ready is stopped.
StartTimesOut ==
    /\ at = "loop" /\ by = "unit" /\ ~ready /\ Fails("timeout")
    /\ UNCHANGED <<world, changes, changed, by, flags, mode>>

\* The process panics, or its watchdog is not fed.
Crashes ==
    /\ at = "loop" /\ boots < Booted /\ boots' = boots + 1 /\ at' = "failed" /\ why' = "crash"
    /\ UNCHANGED <<world, changes, changed, by, flags, config, source, mode, ready>>

Stops ==
    /\ at = "loop" /\ at' = "off" /\ ready' = FALSE
    /\ UNCHANGED <<world, changes, changed, by, flags, config, source, mode, why, boots>>

Change ==
    /\ changes < MaxChanges /\ changes' = changes + 1 /\ changed' = TRUE
    /\ \/ /\ file' \in {"absent", "unreadable", "present"} \ {file}
          /\ UNCHANGED <<settings, override, taken, audio, disk>>
       \/ settings' \in Settings \ {settings} /\ UNCHANGED <<file, override, taken, audio, disk>>
       \/ /\ \E p \in Pins : taken' = IF p \in taken THEN taken \ {p} ELSE taken \cup {p}
          /\ UNCHANGED <<file, settings, override, audio, disk>>
       \/ disk' = ~disk /\ UNCHANGED <<file, settings, override, taken, audio>>
    /\ UNCHANGED process

Process ==
    \/ Check \/ check_runtime \/ run_cli \/ build_pi_adapters \/ build_mock_adapters
    \/ run_simulator \/ run_runtime
StartupNext == Process \/ Started \/ Restarts \/ GivesUp \/ StartTimesOut \/ Crashes \/ Stops \/ Change

\* A process goes on, and systemd stops a unit that is not ready in its default time, and
\* starts a failed one again: RestartSec is two seconds, so that the limit of five starts in
\* ten seconds is not reached.
StartupFairness ==
    WF_startupVars(Process) /\ WF_startupVars(StartTimesOut) /\ WF_startupVars(Restarts)

StartupSpec == StartupInit /\ [][StartupNext]_startupVars /\ StartupFairness

-----------------------------------------------------------------------------
\* Every variable has its type.
StartupTypeOK ==
    /\ file \in {"absent", "unreadable", "present"} /\ settings \in Settings
    /\ override \in Overrides /\ taken \subseteq Pins /\ {audio, disk, changed, mock, ready} \subseteq BOOLEAN
    /\ by \in {"unit", "shell"} /\ flags \in Flags /\ at \in Steps /\ config \in Configs
    /\ source \in {"none", "file", "defaults"} /\ surface \in {"headless", "monitor", "simulator"}
    /\ why \in {"nothing", "config", "gpio", "led", "disk", "timeout", "crash"}
    /\ changes \in 0..MaxChanges /\ boots \in 0..Booted

\* What `check` has let pass does not keep `run` from its pins or its configuration, when
\* nothing changed in between.  Comment of check_runtime: the service must not "fail during
\* `ExecStart` instead (systemd restart loop)".
CheckCoversPins ==
    [][(at \in {"load", "adapters"} /\ at' = "failed" /\ by = "unit" /\ ~changed)
            => why' = "disk"]_startupVars

\* A configuration that is accepted never stands in its own way: when the pins fail, one of
\* them is taken by something else.
PinsFailForOthers ==
    at = "failed" /\ why \in {"gpio", "led"} /\ ~changed =>
        \E r \in ClaimedRoles(config) : config.bcm[r] \in taken

\* The booth never times a hold of zero, which makes a power-off of every press.
HoldIsPositive == at = "loop" /\ config.button => config.hold_ms > 0

\* A booth runs on built-in defaults only when there is no file.  Comment of
\* config_path_to_read: "Present-but-unreadable must not be mistaken".
DefaultsOnlyWithoutFile == source = "defaults" /\ ~changed => file = "absent"

Healthy ==
    /\ by = "unit" /\ at # "off" /\ disk /\ taken = {} /\ ~settings.simulator
    /\ config_path_to_read # "error" /\ validate_config(Loaded)

\* A unit whose configuration and hardware are in order, and that nobody stops, is up again
\* and again, whatever failed before.
UnitComesUp == <>[]Healthy => []<>(at = "loop" /\ ready)

\* docs/runbook.md: `check` fails if audio probing fails.
CheckProbesAudio == by = "unit" /\ at = "load" /\ ~changed => audio

\* docs/configuration.md: `[runtime]` lets the unit autostart the booth as a simulator.
AutostartedBoothIsKept == why # "timeout"

\* No configuration that is accepted keeps the booth from running as it says
\* (load_config, check_runtime, build_pi_adapters, run_simulator).
StartsAsConfigured ==
    /\ [](StartupTypeOK /\ PinsFailForOthers /\ HoldIsPositive /\ DefaultsOnlyWithoutFile)
    /\ CheckCoversPins
=============================================================================
