------------------------------ MODULE PowerButton ------------------------------
(***************************************************************************)
(* From the power button's pin to a reboot or a power-off: the polling     *)
(* adapter of crates/booth-pi/src/gpio.rs, gpio_task and power_button_task *)
(* of crates/booth-bin/src/lib.rs, with the bounded queues between them.   *)
(* A short press reboots, a hold powers off.                               *)
(*                                                                         *)
(* Time passes in polling intervals.  The poller and gpio_task run within  *)
(* one, unless a queue is full; power_button_task may be late, and the     *)
(* core may leave no room for its event for any time.                      *)
(***************************************************************************)
EXTENDS Naturals, Sequences, SequencesExt

CONSTANTS
    Hold,       \* hold_threshold, in polling intervals
    Debounce,   \* the debounce window, likewise
    EdgeCap,    \* room for edges between poller and gpio_task
    SignalCap,  \* room for signals before power_button_task
    MaxPresses, \* bound: presses of the button
    MaxLosses   \* bound: losses of the edge stream

ASSUME PowerButtonAssumption ==
    /\ {Hold, Debounce, EdgeCap, SignalCap, MaxPresses} \subseteq Nat \ {0}
    /\ MaxLosses \in Nat

VARIABLES
    pin,     \* the raw level
    poll,    \* the polling task
    level,   \* what snapshot returns
    edges,   \* debounced edges; those of other pins are "Other"
    gpio,    \* gpio_task
    signals, \* before power_button_task
    task,    \* power_button_task
    room,    \* the core takes events
    prompt,  \* power_button_task is never late, and the core always leaves room
    presses, \* times the button went down (history)
    acted,   \* events sent to the core (history)
    longest, \* length of the longest debounced press since the last event (history)
    losses

powerVars == <<pin, poll, level, edges, gpio, signals, task, room, prompt, presses, acted, longest,
               losses>>

Absent == "Absent"
Level == {"Down", "Up"}
Signal == Level \cup {"Interrupted"}
Events == {"PowerButtonPressed", "PowerButtonHeld"}

\* age: intervals since the candidate level was first seen.  waiting: pending_power.
Poller(confirmed) ==
    [alive |-> TRUE, seeded |-> TRUE, sampled |-> FALSE, confirmed |-> confirmed,
     pending |-> FALSE, age |-> 0, waiting |-> Absent]

\* Forward: has a signal for the power button task, after which it goes to `then`.
Gpio(at) == [at |-> at, signal |-> Absent, then |-> Absent]
Forward(s, next) == [at |-> "Forward", signal |-> s, then |-> next]

Task(at) == [at |-> at, left |-> 0, event |-> Absent]

PowerTypeOK ==
    /\ {pin, level, poll.confirmed} \subseteq Level
    /\ {room, prompt, poll.alive, poll.seeded, poll.sampled, poll.pending} \subseteq BOOLEAN
    /\ poll.age \in 0..Debounce /\ poll.waiting \in Level \cup {Absent}
    /\ edges \in Seq(Level \cup {"Other"}) /\ Len(edges) <= EdgeCap
    /\ gpio.at \in {"Read", "Forward", "Lost", "Reconcile"}
    /\ gpio.at = "Forward" <=> gpio.signal \in Signal
    /\ signals \in Seq(Signal) /\ Len(signals) <= SignalCap
    /\ task.at \in {"Idle", "Timing", "Sending", "Held"} /\ task.left \in 0..Hold
    /\ task.at = "Sending" <=> task.event \in Events
    /\ longest \in 0..Hold /\ presses \in 0..MaxPresses /\ losses \in 0..MaxLosses
    /\ acted \in 0..(MaxPresses + MaxLosses)

PowerInit ==
    /\ pin \in Level /\ level = pin /\ poll = Poller(pin) /\ edges = <<>>
    /\ gpio = Gpio("Read") /\ signals = <<>> /\ task = Task("Idle") /\ room = TRUE
    /\ prompt \in BOOLEAN
    /\ presses = (IF pin = "Down" THEN 1 ELSE 0) /\ acted = 0 /\ longest = 0 /\ losses = 0

----------------------------------------------------------------------------
(* The button, other pins, and the core *)

Press ==
    /\ pin = "Up" /\ presses < MaxPresses
    /\ pin' = "Down" /\ presses' = presses + 1
    /\ UNCHANGED <<poll, level, edges, gpio, signals, task, room, prompt, acted, longest, losses>>

Release ==
    /\ pin = "Down" /\ pin' = "Up"
    /\ UNCHANGED <<poll, level, edges, gpio, signals, task, room, prompt, presses, acted, longest,
                   losses>>

OtherEdge ==
    /\ ~prompt /\ poll.alive /\ Len(edges) < EdgeCap /\ gpio.at = "Forward"
    /\ edges' = Append(edges, "Other")
    /\ UNCHANGED <<pin, poll, level, gpio, signals, task, room, prompt, presses, acted, longest,
                   losses>>

Wedge ==
    /\ ~prompt /\ room' = ~room
    /\ UNCHANGED <<pin, poll, level, edges, gpio, signals, task, prompt, presses, acted, longest,
                   losses>>

----------------------------------------------------------------------------
(* poll_edges *)

\* After a rebuild the task reads the pin for itself.
Seed ==
    /\ poll.alive /\ ~poll.seeded
    /\ poll' = [Poller(pin) EXCEPT !.sampled = poll.sampled]
    /\ UNCHANGED <<pin, level, edges, gpio, signals, task, room, prompt, presses, acted, longest,
                   losses>>

\* Mutated Deliver: the newest level is delivered, whatever waits.
DeliverNewest(p, e, change) ==
    IF Len(e) < EdgeCap
    THEN edges' = Append(e, pin) /\ poll' = [change EXCEPT !.waiting = p.waiting]
    ELSE edges' = e /\ poll' = [change EXCEPT !.waiting = pin]

\* A confirmed level is sent, waits, or is merged into the level that waits: a
\* release that waits wins over a later press.
Deliver(p, e, change) ==
    IF p.waiting # Absent
    THEN /\ edges' = e
         /\ poll' = [change EXCEPT !.waiting = IF p.waiting = "Down" \/ pin = "Up" THEN pin ELSE p.waiting]
    ELSE IF Len(e) < EdgeCap THEN edges' = Append(e, pin) /\ poll' = change
    ELSE edges' = e /\ poll' = [change EXCEPT !.waiting = pin]

\* Mutated SampleAfterRetry: a level must outlast the window.
SampleTooLong(p, e) ==
    IF pin = p.confirmed
    THEN poll' = [p EXCEPT !.pending = FALSE, !.age = 0] /\ edges' = e
    ELSE IF ~p.pending THEN poll' = [p EXCEPT !.pending = TRUE] /\ edges' = e
    ELSE IF p.age <= Debounce THEN poll' = p /\ edges' = e
    ELSE Deliver(p, e, [p EXCEPT !.confirmed = pin, !.pending = FALSE, !.age = 0])

\* One sample of the pin, with p and e what a retry left behind.
SampleAfterRetry(p, e) ==
    IF pin = p.confirmed
    THEN poll' = [p EXCEPT !.pending = FALSE, !.age = 0] /\ edges' = e
    ELSE IF ~p.pending THEN poll' = [p EXCEPT !.pending = TRUE] /\ edges' = e
    ELSE IF p.age < Debounce THEN poll' = p /\ edges' = e
    ELSE Deliver(p, e, [p EXCEPT !.confirmed = pin, !.pending = FALSE, !.age = 0])

\* A level that waits is retried first.
Sample ==
    /\ poll.alive /\ poll.seeded /\ ~poll.sampled
    /\ LET retries == poll.waiting # Absent /\ Len(edges) < EdgeCap
           p == [poll EXCEPT !.sampled = TRUE,
                             !.waiting = IF retries THEN Absent ELSE @]
       IN SampleAfterRetry(p, IF retries THEN Append(edges, poll.waiting) ELSE edges)
    /\ level' = pin
    /\ UNCHANGED <<pin, gpio, signals, task, room, prompt, presses, acted, longest, losses>>

\* The polling task is gone.
StreamLost ==
    /\ poll.alive /\ poll.seeded /\ losses < MaxLosses
    /\ losses' = losses + 1 /\ poll' = [poll EXCEPT !.alive = FALSE]
    /\ UNCHANGED <<pin, level, edges, gpio, signals, task, room, prompt, presses, acted, longest>>

----------------------------------------------------------------------------
(* gpio_task *)

GpioStays == UNCHANGED <<pin, poll, level, task, room, prompt, presses, acted, longest, losses>>

GpioReads ==
    /\ gpio.at = "Read" /\ edges # <<>>
    /\ edges' = Tail(edges)
    /\ gpio' = IF Head(edges) = "Other" THEN gpio ELSE Forward(Head(edges), "Read")
    /\ UNCHANGED signals /\ GpioStays

\* Mutated GpioForwards: there is always room.
GpioForwardsAlways ==
    /\ gpio.at = "Forward"
    /\ signals' = Append(signals, gpio.signal) /\ gpio' = Gpio(gpio.then)
    /\ UNCHANGED edges /\ GpioStays

GpioForwards ==
    /\ gpio.at = "Forward" /\ Len(signals) < SignalCap
    /\ signals' = Append(signals, gpio.signal) /\ gpio' = Gpio(gpio.then)
    /\ UNCHANGED edges /\ GpioStays

\* next_edge fails once the edges already delivered are read.
GpioLoses ==
    /\ gpio.at = "Read" /\ edges = <<>> /\ ~poll.alive
    /\ gpio' = Forward("Interrupted", "Lost")
    /\ UNCHANGED <<edges, signals>> /\ GpioStays

\* A new adapter, after any number of attempts.
Rebuild ==
    /\ gpio.at = "Lost"
    /\ gpio' = Gpio("Reconcile") /\ level' = pin
    /\ poll' = [Poller("Up") EXCEPT !.seeded = FALSE, !.sampled = poll.sampled]
    /\ UNCHANGED <<pin, edges, signals, task, room, prompt, presses, acted, longest, losses>>

\* reconcile_power_button
Reconcile ==
    /\ gpio.at = "Reconcile"
    /\ gpio' = Forward(level, "Read")
    /\ UNCHANGED <<edges, signals>> /\ GpioStays

----------------------------------------------------------------------------
(* power_button_task *)

TaskStays == UNCHANGED <<pin, poll, level, edges, gpio, room, prompt, presses, acted, longest,
                         losses>>

Sending(e) == [Task("Sending") EXCEPT !.event = e]

\* Only a press starts the timer.
TaskTakes ==
    /\ task.at = "Idle" /\ signals # <<>>
    /\ task' = IF Head(signals) = "Down" THEN [Task("Timing") EXCEPT !.left = Hold] ELSE task
    /\ signals' = Tail(signals)
    /\ TaskStays

\* Mutated TaskHears: the release after a hold counts as a press.
TaskHearsEveryRelease ==
    /\ \/ task.at = "Timing" /\ task.left > 0
       \/ task.at = "Held"
    /\ signals # <<>> /\ signals' = Tail(signals)
    /\ task' = CASE Head(signals) = "Down" -> task
                 [] Head(signals) = "Up" -> Sending("PowerButtonPressed")
                 [] Head(signals) = "Interrupted" -> Task("Idle")
    /\ TaskStays

\* The timer is looked at first; a hold swallows its release.
TaskHears ==
    /\ \/ task.at = "Timing" /\ task.left > 0
       \/ task.at = "Held"
    /\ signals # <<>> /\ signals' = Tail(signals)
    /\ task' = CASE Head(signals) = "Down" -> task
                 [] Head(signals) = "Up" /\ task.at = "Timing" -> Sending("PowerButtonPressed")
                 [] Head(signals) = "Up" /\ task.at = "Held" -> Task("Idle")
                 [] Head(signals) = "Interrupted" -> Task("Idle")
    /\ TaskStays

\* drain_release: the first signal that ends the press decides.
TimerFires ==
    /\ task.at = "Timing" /\ task.left = 0
    /\ LET ends == {i \in DOMAIN signals : signals[i] # "Down"} IN
       IF ends = {} THEN signals' = <<>> /\ task' = Sending("PowerButtonHeld")
       ELSE \E i \in ends :
              /\ \A j \in ends : i <= j
              /\ signals' = SubSeq(signals, i + 1, Len(signals))
              /\ task' = IF signals[i] = "Up" THEN Sending("PowerButtonPressed") ELSE Task("Idle")
    /\ TaskStays

Send ==
    /\ task.at = "Sending" /\ room
    /\ task' = Task(IF task.event = "PowerButtonHeld" THEN "Held" ELSE "Idle")
    /\ acted' = acted + 1 /\ longest' = 0
    /\ UNCHANGED <<pin, poll, level, edges, gpio, signals, room, prompt, presses, losses>>

----------------------------------------------------------------------------

\* Time passes when the poller has sampled and gpio_task has nothing it can do.
Pass ==
    /\ poll.alive => poll.seeded /\ poll.sampled
    /\ gpio.at = "Read" => edges = <<>> /\ poll.alive
    /\ gpio.at = "Forward" => Len(signals) >= SignalCap
    /\ gpio.at # "Reconcile"
    /\ prompt => signals = <<>> /\ task.at # "Sending" /\ (task.at = "Timing" => task.left > 0)
    /\ poll' = [poll EXCEPT !.sampled = FALSE,
                            !.age = IF poll.pending /\ poll.age < Debounce THEN @ + 1 ELSE @]
    /\ task' = [task EXCEPT !.left = IF @ > 0 THEN @ - 1 ELSE 0]
    /\ longest' = IF poll.alive /\ poll.confirmed = "Down" /\ longest < Hold THEN longest + 1 ELSE longest
    /\ UNCHANGED <<pin, level, edges, gpio, signals, room, prompt, presses, acted, losses>>

GpioTask == GpioReads \/ GpioForwards \/ GpioLoses \/ Reconcile
PowerButtonTask == TaskTakes \/ TaskHears \/ TimerFires \/ Send

PowerNext ==
    \/ Press \/ Release \/ OtherEdge \/ Wedge
    \/ Seed \/ Sample \/ StreamLost
    \/ GpioTask \/ Rebuild
    \/ PowerButtonTask
    \/ Pass

\* The tasks run and time passes.
PowerFairness ==
    /\ WF_powerVars(Seed)
    /\ WF_powerVars(Sample)
    /\ WF_powerVars(GpioTask)
    /\ WF_powerVars(Rebuild)
    /\ WF_powerVars(PowerButtonTask) /\ WF_powerVars(Pass)

PowerSpec == PowerInit /\ [][PowerNext]_powerVars /\ PowerFairness

----------------------------------------------------------------------------
(* Properties *)

\* The power goes off only when the button, debounced, was down that long, whatever
\* was queued, merged or late (drain_release, poll_edges: "losing a release turns
\* a short press into an unintended power-off"), as long as the edge stream is not
\* lost: after a rebuild it may (README.md, section 3.3).
HeldMeansHeld ==
    [][task'.event = "PowerButtonHeld" /\ task.at # "Sending" /\ losses = 0 => longest >= Hold]_powerVars

\* No press acts twice, and nothing else acts: not its release after a hold, nor
\* a stray one.  A press may act again after a loss of the edge stream, when the
\* level found then starts a fresh timer.
EachPressActsOnce ==
    acted + (IF task.at = "Sending" THEN 1 ELSE 0) <= presses + losses

\* A button that is held for good is noticed by a task that is prompt, unless the
\* edge stream is lost (one held since the booth started is not: the poller knows
\* no other level).
HoldIsNoticed ==
    pin = "Up" /\ prompt /\ [](losses = 0) /\ <>[](pin = "Down") => <>[](task.at = "Held")

\* The button powers the booth off only when it is held, and each press acts once
\* (power_button_task behind poll_edges and gpio_task).
ButtonIsTrue == [](PowerTypeOK /\ EachPressActsOnce) /\ HeldMeansHeld
=============================================================================
