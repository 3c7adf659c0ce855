------------------------------- MODULE Simulator -------------------------------
(***************************************************************************)
(* The interactive simulator: the terminal of simulator.rs, which turns    *)
(* keys into the edges of a mocked GPIO port (GpioInjector of booth-mock), *)
(* the booth behind it, and the web page, whose events reach the booth     *)
(* through the command queue instead.  The terminal shows the position of  *)
(* the hook it set last or read last from telemetry, and goes by it when   *)
(* it handles a key.                                                       *)
(*                                                                         *)
(* Of the booth the model keeps the hook and the digit being dialled, and  *)
(* gpio_task with the events it has queued; a burst of pulses takes less   *)
(* than the pulse timeout.  Of telemetry it keeps the edges, each told     *)
(* twice (by the injector and by gpio_task), and the changes of state.     *)
(***************************************************************************)
EXTENDS Integers, Sequences, SequencesExt

CONSTANTS
    Digits,                 \* digit keys
    CHANNEL_CAPACITY,       \* edges the mocked port holds
    EVENT_CHANNEL,          \* events the handoff queue holds, and the event queue
    RETAINED,               \* records the bus keeps for the terminal
    MAX_PULSES_PER_DIGIT,
    MaxKeys,                \* bound: keys pressed
    MaxWebEvents            \* bound: events sent by the web page

ASSUME SimulatorAssumption ==
    /\ Digits \subseteq 0..9 /\ {CHANNEL_CAPACITY, EVENT_CHANNEL, RETAINED} \subseteq Nat \ {0}
    /\ MAX_PULSES_PER_DIGIT \in Nat \ {0} /\ MaxKeys \in Nat /\ MaxWebEvents \in Nat

VARIABLES
    \* SimulatorState.
    hook_on_hook,   \* where the terminal believes the handset to be
    current_state,  \* the state it shows
    keys,           \* keys pressed so far
    todo,           \* edges the handler of the last key has still to push
    stage,          \* of the first of them: "store", "send" or "publish"
    releases,       \* detached releases of the power button
    \* The mocked port.
    hook_on,        \* the pin, as a snapshot would read it
    pinEdges,       \* the port's channel
    \* Telemetry, as the terminal's receiver sees it.
    feed, lagged,
    \* The booth.
    eventQueue,     \* the edges whose events gpio_task has queued for the core
    core,           \* its phase, and the pulses counted or the digit dialled
    commands,       \* events sent by the web page
    web,            \* how many it has sent
    \* History.
    lost,           \* the terminal has missed a record
    edgeDropped,    \* gpio_task has dropped an event
    keyed           \* digits keyed since the pin of the hook last moved

terminal == <<hook_on_hook, current_state, keys, keyed>>
handler == <<todo, stage, releases>>
port == <<hook_on, pinEdges>>
telemetry == <<feed, lagged, lost>>
booth == <<core, commands, web>>
intake == <<eventQueue, edgeDropped>>
simulatorVars == <<terminal, handler, port, telemetry, intake, booth>>

Edge(role, value) == [role |-> role, value |-> value]
Roles == {"Hook", "RotaryPulse", "PowerButton"}
Edges == [role : Roles, value : BOOLEAN]
StateTransition(to) == [role |-> "state", value |-> to]
Phases == {"on_hook", "dial_tone", "dialing", "dialed"}
Core(phase, n) == [phase |-> phase, n |-> n]

\* The receivers subscribe before the runtime starts; the handset rests.
SimulatorInit ==
    /\ hook_on_hook = TRUE /\ current_state = "on_hook" /\ keys = 0 /\ keyed = <<>>
    /\ todo = <<>> /\ stage = "store" /\ releases = 0
    /\ hook_on = TRUE /\ pinEdges = <<>>
    /\ feed = <<>> /\ lagged = FALSE /\ lost = FALSE
    /\ eventQueue = <<>> /\ edgeDropped = FALSE
    /\ core = Core("on_hook", 0) /\ commands = <<>> /\ web = 0

\* Published on the bus; the oldest records give way.
Published(records) ==
    LET all == feed \o records
        over == Len(all) - RETAINED
    IN  IF over > 0 THEN /\ feed' = SubSeq(all, over + 1, Len(all))
                         /\ lagged' = TRUE /\ lost' = TRUE
        ELSE feed' = all /\ UNCHANGED <<lagged, lost>>

-----------------------------------------------------------------------------
(* The keys.  drive_tui takes the next when the last has been handled.     *)

Presses == todo = <<>> /\ keys < MaxKeys /\ keys' = keys + 1

toggle_hook ==
    /\ Presses
    /\ hook_on_hook' = ~hook_on_hook /\ todo' = <<Edge("Hook", ~hook_on_hook)>>
    /\ keyed' = IF hook_on_hook = hook_on THEN <<>> ELSE keyed
    /\ UNCHANGED <<current_state, stage, releases, port, telemetry, intake, booth>>

PulsesOf(digit) == IF digit = 0 THEN 10 ELSE digit

\* Falling and rising edges, one pair for each pulse.
Pulses(n) == [i \in 1..(2 * n) |-> Edge("RotaryPulse", i % 2 = 0)]

\* A digit is refused while the terminal shows the handset on the hook.
dial_digit ==
    /\ Presses
    /\ IF hook_on_hook THEN UNCHANGED <<todo, keyed>>
       ELSE \E digit \in Digits : /\ todo' = Pulses(PulsesOf(digit))
                                  /\ keyed' = Append(keyed, digit)
    /\ UNCHANGED <<hook_on_hook, current_state, stage, releases, port, telemetry, intake, booth>>

short_power_press ==
    /\ Presses /\ todo' = <<Edge("PowerButton", TRUE), Edge("PowerButton", FALSE)>>
    /\ UNCHANGED <<hook_on_hook, current_state, keyed, stage, releases>>
    /\ UNCHANGED <<port, telemetry, intake, booth>>

\* The release comes later, from a task of its own.
long_power_press ==
    /\ Presses /\ todo' = <<Edge("PowerButton", TRUE)>> /\ releases' = releases + 1
    /\ UNCHANGED <<hook_on_hook, current_state, keyed, stage, port, telemetry, intake, booth>>

-----------------------------------------------------------------------------
(* GpioInjector::push, in three steps.                                     *)

StoresPin ==
    /\ todo # <<>> /\ stage = "store" /\ stage' = "send"
    /\ hook_on' = IF Head(todo).role = "Hook" THEN Head(todo).value ELSE hook_on
    /\ UNCHANGED <<terminal, todo, releases, pinEdges, telemetry, intake, booth>>

\* Mutated SendsEdge: a full channel drops the edge.
SendsOrDrops ==
    /\ todo # <<>> /\ stage = "send" /\ stage' = "publish"
    /\ pinEdges' = IF Len(pinEdges) = CHANNEL_CAPACITY THEN pinEdges
                   ELSE Append(pinEdges, Head(todo))
    /\ UNCHANGED <<terminal, todo, releases, hook_on, telemetry, intake, booth>>

\* Waits for room.
SendsEdge ==
    /\ todo # <<>> /\ stage = "send" /\ Len(pinEdges) < CHANNEL_CAPACITY
    /\ pinEdges' = Append(pinEdges, Head(todo)) /\ stage' = "publish"
    /\ UNCHANGED <<terminal, todo, releases, hook_on, telemetry, intake, booth>>

PublishesEdge ==
    /\ todo # <<>> /\ stage = "publish" /\ Published(<<Head(todo)>>)
    /\ todo' = Tail(todo) /\ stage' = "store"
    /\ UNCHANGED <<terminal, releases, port, intake, booth>>

\* The detached release: of the power button, so that no pin is stored.
Releases ==
    /\ releases > 0 /\ Len(pinEdges) < CHANNEL_CAPACITY /\ releases' = releases - 1
    /\ pinEdges' = Append(pinEdges, Edge("PowerButton", FALSE))
    /\ Published(<<Edge("PowerButton", FALSE)>>)
    /\ UNCHANGED <<terminal, todo, stage, hook_on, intake, booth>>

-----------------------------------------------------------------------------
(* The terminal reads telemetry between two keys.                          *)

NotesLag ==
    /\ todo = <<>> /\ lagged /\ lagged' = FALSE
    /\ UNCHANGED <<terminal, handler, port, feed, lost, intake, booth>>

\* Mutated HookOf: the edges of other pins move the hook.
HookOfAnyEdge(record) == IF record.role = "state" THEN hook_on_hook ELSE record.value

HookOf(record) == IF record.role = "Hook" THEN record.value ELSE hook_on_hook

ingest ==
    /\ todo = <<>> /\ ~lagged /\ feed # <<>> /\ feed' = Tail(feed)
    /\ hook_on_hook' = HookOf(Head(feed))
    /\ current_state' = IF Head(feed).role = "state" THEN Head(feed).value ELSE current_state
    /\ UNCHANGED <<keys, keyed, handler, port, lagged, lost, intake, booth>>

-----------------------------------------------------------------------------
(* The booth.                                                              *)

\* Mutated handle_pulse: a group has no limit.
PulseWithoutLimit(c) ==
    IF c.phase \in {"dial_tone", "dialing"} THEN Core("dialing", c.n + 1) ELSE c

handle_pulse(c) ==
    CASE c.phase = "dial_tone" -> Core("dialing", 1)
      [] c.phase = "dialing" /\ c.n < MAX_PULSES_PER_DIGIT -> Core("dialing", c.n + 1)
      [] c.phase = "dialing" /\ c.n = MAX_PULSES_PER_DIGIT -> Core("dial_tone", 0)
      [] OTHER -> c

handle(c, event) ==
    CASE event = "HookOn" -> Core("on_hook", 0)
      [] event = "HookOff" -> IF c.phase = "on_hook" THEN Core("dial_tone", 0) ELSE c
      [] event = "RotaryPulse" -> handle_pulse(c)
      [] event = "Tick" -> IF c.phase = "dialing" THEN Core("dialed", c.n % 10) ELSE c
      [] OTHER -> c

\* A change of phase is told by telemetry.
Handles(event) ==
    /\ core' = handle(core, event)
    /\ IF core'.phase = core.phase THEN UNCHANGED telemetry
       ELSE Published(<<StateTransition(core'.phase)>>)

\* Mutated event_from_gpio: both edges of a pulse count.
EventFromBothEdges(edge) ==
    CASE edge.role = "Hook" -> IF edge.value THEN "HookOn" ELSE "HookOff"
      [] edge.role = "RotaryPulse" -> "RotaryPulse"
      [] edge.role = "PowerButton" -> "none"

event_from_gpio(edge) ==
    CASE edge.role = "Hook" -> IF edge.value THEN "HookOn" ELSE "HookOff"
      [] edge.role = "RotaryPulse" -> IF edge.value THEN "none" ELSE "RotaryPulse"
      [] edge.role = "PowerButton" -> "none"

\* The handoff queue, the event in the forwarder's hand and the event queue, one
\* after the other.
Waiting == 2 * EVENT_CHANNEL + 1

\* The event of an edge goes on unless the handoff queue is full.  That it may be
\* from EVENT_CHANNEL events on, when the forwarder has not run.
queue_event(edge) ==
    \/ /\ Len(eventQueue) < Waiting
       /\ eventQueue' = Append(eventQueue, edge) /\ UNCHANGED edgeDropped
    \/ Len(eventQueue) >= EVENT_CHANNEL /\ edgeDropped' = TRUE /\ UNCHANGED eventQueue

\* gpio_task takes an edge: it tells telemetry once more, and queues the event.
ReadsEdge ==
    /\ pinEdges # <<>> /\ pinEdges' = Tail(pinEdges) /\ Published(<<Head(pinEdges)>>)
    /\ IF event_from_gpio(Head(pinEdges)) = "none" THEN UNCHANGED intake
       ELSE queue_event(Head(pinEdges))
    /\ UNCHANGED <<terminal, handler, hook_on, booth>>

\* The core handles the oldest event.
HearsEvent ==
    /\ eventQueue # <<>> /\ eventQueue' = Tail(eventQueue)
    /\ Handles(event_from_gpio(Head(eventQueue)))
    /\ UNCHANGED <<terminal, handler, port, edgeDropped, commands, web>>

\* The pulse timeout passes when no pulse is on its way.
TimesOut ==
    /\ core.phase = "dialing"
    /\ \A e \in ToSet(todo \o pinEdges \o eventQueue) : e.role # "RotaryPulse"
    /\ Handles("Tick")
    /\ UNCHANGED <<terminal, handler, port, intake, commands, web>>

\* POST /v1/simulate/event from the page.
WebSends ==
    /\ web < MaxWebEvents /\ web' = web + 1
    /\ \E event \in {"HookOn", "HookOff"} : commands' = Append(commands, event)
    /\ UNCHANGED <<terminal, handler, port, telemetry, intake, core>>

\* RuntimeCommand::InjectEvent: the event goes to the core, and no edge is published.
HearsWeb ==
    /\ commands # <<>> /\ commands' = Tail(commands) /\ Handles(Head(commands))
    /\ UNCHANGED <<terminal, handler, port, intake, web>>

SimulatorNext ==
    \/ toggle_hook \/ dial_digit \/ short_power_press \/ long_power_press
    \/ StoresPin \/ SendsEdge \/ PublishesEdge \/ Releases
    \/ NotesLag \/ ingest
    \/ ReadsEdge \/ HearsEvent \/ TimesOut \/ WebSends \/ HearsWeb
SimulatorSpec == SimulatorInit /\ [][SimulatorNext]_simulatorVars

-----------------------------------------------------------------------------
Quiet ==
    todo = <<>> /\ pinEdges = <<>> /\ eventQueue = <<>> /\ feed = <<>> /\ commands = <<>>

\* Every variable has its type.
SimulatorTypeOK ==
    /\ {hook_on_hook, hook_on, lagged, lost, edgeDropped} \subseteq BOOLEAN
    /\ current_state \in Phases /\ keys \in 0..MaxKeys /\ releases \in 0..MaxKeys
    /\ todo \in Seq(Edges) /\ stage \in {"store", "send", "publish"}
    /\ pinEdges \in Seq(Edges) /\ Len(pinEdges) <= CHANNEL_CAPACITY /\ Len(feed) <= RETAINED
    /\ eventQueue \in Seq(Edges) /\ Len(eventQueue) <= Waiting
    /\ core.phase \in Phases /\ core.n \in 0..MAX_PULSES_PER_DIGIT
    /\ keyed \in Seq(Digits)

\* When all is quiet, the terminal shows the pin and the state of the booth, whatever keys
\* came between the two echoes of an edge, and whether or not the booth heard of it, unless
\* the terminal has missed a record.
ScreenIsCurrent ==
    Quiet /\ ~lost => hook_on_hook = hook_on /\ current_state = core.phase

\* When all is quiet, the booth is on the hook just when the pin is: no edge is lost or
\* overtaken while the port is full, unless gpio_task has said that it dropped an event.
BoothFollowsPin ==
    Quiet /\ web = 0 /\ ~edgeDropped => (core.phase = "on_hook" <=> hook_on)

Decodes == core.phase = "dialing" /\ core'.phase = "dialed"

\* One digit keyed since the hook was moved is the digit the booth decodes, unless gpio_task
\* has dropped an event.
DigitIsHeard ==
    [][Decodes /\ web = 0 /\ ~edgeDropped /\ Len(keyed) = 1 => core'.n = keyed[1]]_simulatorVars

\* Comment of run_simulator: terminal and page "stay in lock-step".
LockStep == Quiet /\ ~lost => (core.phase = "on_hook" <=> hook_on_hook)

\* docs/simulator.md: the key toggles the hook switch.  An echo of an earlier edge may have
\* moved the position the key starts from.
HookKeyToggles ==
    [][todo = <<>> /\ todo' # <<>> /\ Head(todo').role = "Hook"
           => Head(todo').value # hook_on]_simulatorVars

\* docs/simulator.md: a digit key dials a digit.  Two keys within the pulse timeout are one
\* group of pulses.
DigitKeyDials == [][Decodes => core'.n \in ToSet(keyed)]_simulatorVars

\* Terminal, mocked pin and booth agree when all is quiet.
SimulatorIsTrue ==
    [](SimulatorTypeOK /\ ScreenIsCurrent /\ BoothFollowsPin) /\ DigitIsHeard
=============================================================================
