----------------------------- MODULE DebugServer -----------------------------
(***************************************************************************)
(* The requests of booth-debug that reach the runtime: /v1/state and the   *)
(* controls /v1/simulate/*.  A handler talks to the main loop of           *)
(* booth-bin's run_runtime through a bounded queue of commands; the loop   *)
(* takes nothing from it while handle_event waits for the effect task.     *)
(* When the loop does not answer in time, /v1/state is read off the        *)
(* telemetry ring.                                                         *)
(*                                                                         *)
(* Who may connect (tokens, TLS, origins) is not modelled.  The core is    *)
(* the one of BoothCore; its effects count only by whether there are any.  *)
(***************************************************************************)
EXTENDS BoothCore, FiniteSets, SequencesExt

CONSTANTS
    Clients,         \* who sends requests, one at a time each
    Dials,           \* what is dialled: numbers of pulses
    CommandChannel,  \* COMMAND_CHANNEL
    RingCapacity,    \* the telemetry ring
    AllowControls,   \* [debug].allow_controls
    RuntimeMode,     \* DebugConfig::runtime_mode: "real", "mock" or "simulator"
    MaxRequests,     \* bound: requests of a client
    MaxMoves         \* bound: what else happens at the booth

ASSUME DebugServerAssumption ==
    /\ Dials \subseteq Nat /\ AllowControls \in BOOLEAN
    /\ CommandChannel \in Nat \ {0} /\ RingCapacity \in Nat \ {0}
    /\ RuntimeMode \in {"real", "mock", "simulator"}
    /\ MaxRequests \in Nat /\ MaxMoves \in Nat

VARIABLES
    core,       \* run_runtime: state
    accepting,  \* run_runtime: accepting_calls
    loop,       \* the main loop: "free", "sending" effects, "left", or "ended"
    commands,   \* the queue of RuntimeCommands
    telemetryRing,       \* the telemetry records that are retained: tags, "Error" or "Other"
    client,     \* each client's request: [phase, request, left, dial]
    owed,       \* history: how many events each client's dials have asked for
    answer,     \* each client's last answer: [from, name]
    names,      \* history: the states the core was in since a client's request
    group,      \* history: whose pulses the core has counted since the last digit
    broken,     \* history: a digit was dialled that nobody asked for
    handled,    \* history: how many of a client's events the core has handled
    moves

debugVars == <<core, accepting, loop, commands, telemetryRing, client, owed, answer, names,
          group, broken, handled, moves>>

\* status_from_hal: the names the operator knows, by status.
NameOf(b) ==
    CASE b = "Idle" -> "idle"
      [] b = "DialTone" -> "dialTone"
      [] b = "PlayingQuestion" -> "playingQuestion"
      [] b = "Recording" -> "recording"
      [] b = "Uploading" -> "uploading"
      [] b = "PlayingMessage" -> "playingMessage"
      [] b = "PlayingInstructions" -> "playingInstructions"
      [] b = "CallUnavailable" -> "callUnavailable"

Name(s) == NameOf(status(s))

\* operator_state_name: what becomes of a tag in a telemetry record.
operator_state_name(t) ==
    CASE t = "Dialing" -> "dialing"
      [] t \in {"RingingQuestion", "PlayingQuestion"} -> "playingQuestion"
      [] t = "Beep" -> "beep"
      [] t \in {"FinishingTimedOutRecording", "Uploading", "UploadingTimedOut",
                "RecordingEndedBeep"} -> "uploading"
      [] t = "Error" -> "error"
      [] t \in {"CallsPaused", "FinishingRecording"} -> "another"
      [] t \in {"Idle", "DialTone", "Recording", "PlayingMessage", "PlayingInstructions",
                "CallUnavailable"} -> NameOf(t)

\* The newest record that tells a state; an error of any source tells "error".
status_from_telemetry(records) ==
    LET found == {i \in DOMAIN records : records[i] # "Other"}
    IN IF found = {} THEN "idle"
       ELSE operator_state_name(records[CHOOSE i \in found : \A j \in found : i >= j])

RecordPushed(record) ==
    IF Len(telemetryRing) < RingCapacity THEN Append(telemetryRing, record) ELSE Append(Tail(telemetryRing), record)

NoRequest == [phase |-> "idle", request |-> 0, left |-> 0, dial |-> 0]

DebugInit ==
    /\ accepting \in BOOLEAN
    /\ core = IF accepting THEN Plain("Idle") ELSE CallsPaused(TRUE)
    /\ loop = "free"
    /\ commands = <<>>
    /\ telemetryRing = <<>>
    /\ client = [c \in Clients |-> NoRequest]
    /\ owed = [c \in Clients |-> 0]
    /\ answer = [c \in Clients |-> [from |-> "nobody", name |-> "idle"]]
    /\ names = [c \in Clients |-> {}]
    /\ group = <<>>
    /\ broken = FALSE
    /\ handled = [c \in Clients |-> 0]
    /\ moves = 0

asking == <<client, owed, answer, handled>>

-----------------------------------------------------------------------------
(* The main loop.                                                          *)

Booth == [by |-> "booth", request |-> 0, dial |-> 0]
Source(q) == <<q.by, q.request>>

\* The Tick of a request ends a group that is exactly the request's pulses.
IsWhole(q) == group = [i \in 1..q.dial |-> Source(q)]

\* handle_event: a transition, its record, and its effects, for which there may
\* be no room.  q says whose event it is.
Handle(e, q) ==
    LET step == handle_with_call_availability(core, e, accepting')
    IN  /\ core' = step.state
        /\ telemetryRing' = RecordPushed(step.state.tag)
        /\ loop' \in IF step.effects = <<>> THEN {"free"} ELSE {"free", "sending"}
        /\ names' = [c \in Clients |-> names[c] \cup {Name(step.state)}]
        /\ group' = IF step.state.tag = "Dialing" /\ e.ev = "RotaryPulse"
                    THEN Append(group, Source(q)) ELSE <<>>
        /\ broken' = (broken \/ (/\ core.tag = "Dialing" /\ e.ev = "Tick" /\ accepting'
                                 /\ ~IsWhole(q)))

\* InjectEvent.  The controls are looked at a second time: ensure_controls has
\* let none through without them.
HandlesInjected ==
    /\ loop = "free" /\ commands # <<>> /\ Head(commands).kind = "InjectEvent"
    /\ AllowControls
    /\ UNCHANGED accepting
    /\ Handle(Signal(Head(commands).event), Head(commands))
    /\ handled' = [handled EXCEPT ![Head(commands).by] = @ + 1]
    /\ commands' = Tail(commands)
    /\ UNCHANGED <<client, owed, answer, moves>>

IsAwaited(q) == client[q.by].phase = "asking" /\ client[q.by].request = q.request

Answers(c, from, name) ==
    /\ answer' = [answer EXCEPT ![c] = [from |-> from, name |-> name]]
    /\ client' = [client EXCEPT ![c].phase = "idle"]

\* Snapshot.  The reply to a request that has timed out goes nowhere.
AnswersSnapshot ==
    /\ loop = "free" /\ commands # <<>> /\ Head(commands).kind = "Snapshot"
    /\ commands' = Tail(commands)
    /\ IF IsAwaited(Head(commands)) THEN Answers(Head(commands).by, "core", Name(core))
       ELSE UNCHANGED <<client, answer>>
    /\ UNCHANGED <<core, accepting, loop, telemetryRing, owed, names, group, broken, handled, moves>>

\* The effect task makes room.
Unblocks ==
    /\ loop = "sending"
    /\ loop' = "free"
    /\ UNCHANGED <<core, accepting, commands, telemetryRing, asking, names, group, broken, moves>>

\* The loop is left at shutdown; its queue is open still, and nobody reads it.
Leaves ==
    /\ loop = "free" /\ moves < MaxMoves
    /\ moves' = moves + 1
    /\ loop' = "left"
    /\ UNCHANGED <<core, accepting, commands, telemetryRing, asking, names, group, broken>>

\* run_runtime returns, after the shutdown, or as the effect task has stopped: the
\* queue is closed, and with it the replies under way.
Ends ==
    /\ loop \in {"left", "sending"}
    /\ loop' = "ended"
    /\ commands' = <<>>
    /\ UNCHANGED <<core, accepting, telemetryRing, asking, names, group, broken, moves>>

\* What else the loop is woken by: the handset, the timer of a group of pulses,
\* and the admission gate.
BoothMoves ==
    /\ loop = "free" /\ moves < MaxMoves
    /\ moves' = moves + 1
    /\ \/ UNCHANGED accepting /\ \E e \in {"HookOff", "HookOn"} : Handle(Signal(e), Booth)
       \/ UNCHANGED accepting /\ core.tag = "Dialing" /\ Handle(Signal("Tick"), Booth)
       \/ accepting' = ~accepting /\ Handle(Signal("Tick"), Booth)
    /\ UNCHANGED <<commands, asking>>

\* Other tasks publish: errors, levels, edges.
Publishes(record) ==
    /\ moves < MaxMoves
    /\ moves' = moves + 1
    /\ telemetryRing' = RecordPushed(record)
    /\ UNCHANGED <<core, accepting, loop, commands, asking, names, group, broken>>

-----------------------------------------------------------------------------
(* The handlers.                                                           *)

\* Mutated HasRoom: the queue is not bounded.
HasAlwaysRoom == loop # "ended"

HasRoom == loop # "ended" /\ Len(commands) < CommandChannel
Queued(k, c, e) ==
    Append(commands, [kind |-> k, by |-> c, request |-> client'[c].request,
                      dial |-> client[c].dial, event |-> e])

\* current_status: the query is sent if there is room for it.
Asks(c) ==
    /\ client[c].phase = "idle" /\ client[c].request < MaxRequests
    /\ client' = [client EXCEPT ![c].phase = IF HasRoom THEN "asking" ELSE "falling",
                                ![c].request = @ + 1]
    /\ commands' = IF HasRoom THEN Queued("Snapshot", c, "none")
                   ELSE commands
    /\ names' = [names EXCEPT ![c] = {Name(core)}]
    /\ UNCHANGED <<core, accepting, loop, telemetryRing, owed, answer, group, broken, handled, moves>>

\* Mutated TimesOut: only a closed channel ends the wait.
TimesOutNever(c) ==
    /\ client[c].phase = "asking" /\ loop = "ended"
    /\ client' = [client EXCEPT ![c].phase = "falling"]
    /\ UNCHANGED <<core, accepting, loop, commands, telemetryRing, owed, answer, names, group, broken,
                   handled, moves>>

\* DEFAULT_STATE_QUERY_TIMEOUT passes, or the reply's sender is dropped.
TimesOut(c) ==
    /\ client[c].phase = "asking"
    /\ client' = [client EXCEPT ![c].phase = "falling"]
    /\ UNCHANGED <<core, accepting, loop, commands, telemetryRing, owed, answer, names, group, broken,
                   handled, moves>>

FallsBack(c) ==
    /\ client[c].phase = "falling"
    /\ Answers(c, "telemetry", status_from_telemetry(telemetryRing))
    /\ UNCHANGED <<core, accepting, loop, commands, telemetryRing, owed, names, group, broken, handled,
                   moves>>

\* ensure_controls.
ControlsAllowed == AllowControls /\ RuntimeMode # "real"

\* simulate_pulse.
SimulatesPulse(c, n) ==
    /\ client[c].phase = "idle" /\ client[c].request < MaxRequests
    /\ IF ControlsAllowed
       THEN /\ client' = [client EXCEPT ![c] = [phase |-> "pulsing", request |-> @.request + 1,
                                                left |-> n + 1, dial |-> n]]
            /\ owed' = [owed EXCEPT ![c] = @ + n + 1]
            /\ UNCHANGED answer
       ELSE /\ client' = [client EXCEPT ![c].request = @ + 1]
            /\ answer' = [answer EXCEPT ![c] = [from |-> "denied", name |-> "idle"]]
            /\ UNCHANGED owed
    /\ UNCHANGED <<core, accepting, loop, commands, telemetryRing, names, group, broken, handled,
                   moves>>

\* Mutated SendsNext: a full queue loses the pulse.
SendsIfRoom(c) ==
    /\ client[c].phase = "pulsing" /\ loop # "ended"
    /\ client' = [client EXCEPT ![c].left = @ - 1,
                                ![c].phase = IF client[c].left = 1 THEN "idle" ELSE @]
    /\ answer' = IF client[c].left > 1 THEN answer
                 ELSE [answer EXCEPT ![c] = [from |-> "accepted", name |-> "idle"]]
    /\ commands' = IF ~HasRoom THEN commands
                   ELSE Queued("InjectEvent", c, IF client[c].left = 1 THEN "Tick" ELSE "RotaryPulse")
    /\ UNCHANGED <<core, accepting, loop, telemetryRing, owed, names, group, broken, handled, moves>>

\* Its events are sent one after another, each when there is room; the last is
\* a Tick, and the request is accepted.
SendsNext(c) ==
    /\ client[c].phase = "pulsing" /\ HasRoom
    /\ client' = [client EXCEPT ![c].left = @ - 1,
                                ![c].phase = IF client[c].left = 1 THEN "idle" ELSE @]
    /\ answer' = IF client[c].left > 1 THEN answer
                 ELSE [answer EXCEPT ![c] = [from |-> "accepted", name |-> "idle"]]
    /\ commands' = Queued("InjectEvent", c, IF client[c].left = 1 THEN "Tick" ELSE "RotaryPulse")
    /\ UNCHANGED <<core, accepting, loop, telemetryRing, owed, names, group, broken, handled, moves>>

\* Mutated IsUnavailable: a request that waits for room is not told.
IsUnavailableLater(c) ==
    /\ client[c].phase = "pulsing" /\ loop = "ended"
    /\ Len(commands) = CommandChannel
    /\ Answers(c, "unavailable", "idle")
    /\ UNCHANGED <<core, accepting, loop, commands, telemetryRing, owed, names, group, broken, handled,
                   moves>>

\* The loop has ended: SERVICE_UNAVAILABLE, with part of the pulses sent.
IsUnavailable(c) ==
    /\ client[c].phase = "pulsing" /\ loop = "ended"
    /\ Answers(c, "unavailable", "idle")
    /\ UNCHANGED <<core, accepting, loop, commands, telemetryRing, owed, names, group, broken, handled,
                   moves>>

-----------------------------------------------------------------------------
Handler(c) ==
    \/ Asks(c) \/ TimesOut(c) \/ FallsBack(c)
    \/ \E n \in Dials : SimulatesPulse(c, n)
    \/ SendsNext(c) \/ IsUnavailable(c)

DebugNext ==
    \/ HandlesInjected \/ AnswersSnapshot \/ Unblocks \/ Leaves \/ Ends
    \/ BoothMoves
    \/ \E record \in {"Error", "Other"} : Publishes(record)
    \/ \E c \in Clients : Handler(c)

\* The handlers run, and the timeout passes.  Nothing is assumed of the loop.
DebugFairness ==
    \A c \in Clients : WF_debugVars(TimesOut(c)) /\ WF_debugVars(FallsBack(c))

DebugSpec == DebugInit /\ [][DebugNext]_debugVars /\ DebugFairness

\* For dialling, the loop is assumed to come round, or to end.
LoopIsFair ==
    /\ WF_debugVars(HandlesInjected \/ AnswersSnapshot) /\ WF_debugVars(Unblocks) /\ WF_debugVars(Ends)
    /\ \A c \in Clients : SF_debugVars(SendsNext(c)) /\ WF_debugVars(IsUnavailable(c))

-----------------------------------------------------------------------------
Phases == {"idle", "asking", "falling", "pulsing"}
Events(c) == {i \in DOMAIN commands : commands[i].kind = "InjectEvent" /\ commands[i].by = c}

\* Every variable has its type, and the core stays well formed.
DebugTypeOK ==
    /\ WellFormed(core) /\ accepting \in BOOLEAN
    /\ loop \in {"free", "sending", "left", "ended"}
    /\ Len(commands) <= CommandChannel
    /\ telemetryRing \in Seq(Tags \cup {"Other"}) /\ Len(telemetryRing) <= RingCapacity
    /\ \A c \in Clients :
          /\ client[c].phase \in Phases /\ client[c].request \in 0..MaxRequests
          /\ client[c].left \in 0..(client[c].dial + 1)
    /\ Len(group) <= MAX_PULSES_PER_DIGIT
    /\ moves \in 0..MaxMoves

\* As long as the loop runs, the events a client's dials have asked for are each on
\* their way exactly once: to be sent, queued, or handled.
PulsesAreKept ==
    loop # "ended" =>
        \A c \in Clients :
            handled[c] + Cardinality(Events(c)) + client[c].left = owed[c]

\* /v1/state is answered though the loop never comes round and its queue is full.
EveryQueryIsAnswered ==
    \A c \in Clients : (client[c].phase = "asking") ~> (client[c].phase = "idle")

\* A dial is answered when the loop comes round, or ends under it.
EveryDialIsAnswered ==
    LoopIsFair => \A c \in Clients : (client[c].phase = "pulsing") ~> (client[c].phase = "idle")

\* What the README of booth-debug says of /v1/state, "current": the answer is a
\* state the booth was in while it was asked for.
AnswerIsCurrent ==
    \A c \in Clients :
        answer[c].from \in {"core", "telemetry"} /\ client[c].phase = "idle" =>
            answer[c].name \in names[c] \cup {"beep", "dialing", "error", "another"}

\* What it says there too, "operator-compatible": the name is one of those that
\* status_from_hal and operator_state_name know.
NameIsCompatible == \A c \in Clients : answer[c].name # "another"

\* What it says of simulate/pulse, "N rotary pulses followed by Tick": the digit
\* that is dialled is the one that was asked for.
DialsWhatWasAsked == ~broken

\* No injected event is lost or doubled.
DebugInv ==
    /\ DebugTypeOK /\ PulsesAreKept

\* Every request of a client is answered, whatever the main loop does.
EveryRequestIsAnswered == EveryQueryIsAnswered /\ EveryDialIsAnswered
=============================================================================
