------------------------------ MODULE HookIntake ------------------------------
(***************************************************************************)
(* How the core learns where the handset is: the hook pin, the polling     *)
(* adapter of crates/booth-pi/src/gpio.rs, gpio_task with its forwarder    *)
(* and the main loop's queue (crates/booth-bin/src/lib.rs).  A lost edge   *)
(* stream is rebuilt, and the handset's position reconciled.               *)
(*                                                                         *)
(* The debounce window is two samples; time is left out.  Every queue may  *)
(* be full, and then an edge is dropped.                                   *)
(***************************************************************************)
EXTENDS Naturals, Sequences

CONSTANTS
    EdgeCap,    \* room for edges between poller and gpio_task
    QueueCap,   \* EVENT_CHANNEL
    MaxToggles, \* bound: movements of the handset
    MaxLosses   \* bound: losses of the edge stream

ASSUME HookIntakeAssumption ==
    {EdgeCap, QueueCap} \subseteq Nat \ {0} /\ {MaxToggles, MaxLosses} \subseteq Nat

VARIABLES
    pin,      \* the raw level
    poll,     \* the polling task
    level,    \* what snapshot returns
    edges,    \* debounced edges
    gpio,     \* gpio_task
    queue,    \* hook events before the forwarder
    core,     \* where the core takes the handset to be
    busy,     \* the main loop is held up
    toggles,
    losses,
    edgeDropped,  \* an edge or event found its queue full (history)
    missed    \* the snapshot the core was given is not the poller's confirmed level (history)

hookVars == <<pin, poll, level, edges, gpio, queue, core, busy, toggles, losses, edgeDropped, missed>>

Level == {"On", "Off"}

Poller(confirmed) == [alive |-> TRUE, seeded |-> TRUE, confirmed |-> confirmed, pending |-> FALSE]
Unseeded == [Poller("On") EXCEPT !.seeded = FALSE]

Polling == [alive : BOOLEAN, seeded : BOOLEAN, confirmed : Level, pending : BOOLEAN]

HookTypeOK ==
    /\ {pin, level, core} \subseteq Level /\ {busy, edgeDropped, missed} \subseteq BOOLEAN
    /\ poll \in Polling
    /\ edges \in Seq(Level) /\ Len(edges) <= EdgeCap
    /\ queue \in Seq(Level) /\ Len(queue) <= QueueCap
    /\ gpio \in {"Starting", "Read", "Lost", "Reconcile"}
    /\ toggles \in 0..MaxToggles /\ losses \in 0..MaxLosses

\* The adapter is new; the runtime has not read the handset's position yet.
HookInit ==
    /\ pin \in Level /\ level = pin /\ poll = Unseeded /\ edges = <<>> /\ queue = <<>>
    /\ gpio = "Starting" /\ core = "On" /\ busy = FALSE
    /\ toggles = 0 /\ losses = 0 /\ edgeDropped = FALSE /\ missed = FALSE

----------------------------------------------------------------------------

Toggle ==
    /\ toggles < MaxToggles
    /\ toggles' = toggles + 1 /\ pin' \in Level \ {pin}
    /\ UNCHANGED <<poll, level, edges, gpio, queue, core, busy, losses, edgeDropped, missed>>

Busy ==
    /\ busy' = ~busy
    /\ UNCHANGED <<pin, poll, level, edges, gpio, queue, core, toggles, losses, edgeDropped, missed>>

\* The poller reads the pin for itself, after the snapshot levels were read.
Seed ==
    /\ poll.alive /\ ~poll.seeded
    /\ poll' = Poller(pin) /\ missed' = (missed \/ pin # level)
    /\ UNCHANGED <<pin, level, edges, gpio, queue, core, busy, toggles, losses, edgeDropped>>

\* A level seen in two samples is confirmed and forwarded if there is room.
Sample ==
    /\ poll.alive /\ poll.seeded
    /\ level' = pin
    /\ IF pin = poll.confirmed
       THEN poll' = [poll EXCEPT !.pending = FALSE] /\ UNCHANGED <<edges, edgeDropped>>
       ELSE IF ~poll.pending
       THEN poll' = [poll EXCEPT !.pending = TRUE] /\ UNCHANGED <<edges, edgeDropped>>
       ELSE /\ poll' = Poller(pin)
            /\ IF Len(edges) < EdgeCap THEN edges' = Append(edges, pin) /\ UNCHANGED edgeDropped
               ELSE edgeDropped' = TRUE /\ UNCHANGED edges
    /\ UNCHANGED <<pin, gpio, queue, core, busy, toggles, losses, missed>>

StreamLost ==
    /\ poll.alive /\ gpio = "Read" /\ losses < MaxLosses
    /\ losses' = losses + 1 /\ poll' = [poll EXCEPT !.alive = FALSE]
    /\ UNCHANGED <<pin, level, edges, gpio, queue, core, busy, toggles, edgeDropped, missed>>

\* The snapshot returns a level the poller has not confirmed.
Bounce == poll.seeded /\ level # poll.confirmed

\* The runtime's first snapshot; then gpio_task takes the adapter.
Start ==
    /\ gpio = "Starting"
    /\ core' = level /\ gpio' = "Read" /\ missed' = (missed \/ Bounce)
    /\ UNCHANGED <<pin, poll, level, edges, queue, busy, toggles, losses, edgeDropped>>

\* Mutated Enqueue: the queue has no bound.
EnqueueUnbounded(l) == queue' = Append(queue, l) /\ UNCHANGED edgeDropped

\* queue_event: an event that finds the queue full is dropped.
Enqueue(l) ==
    IF Len(queue) < QueueCap THEN queue' = Append(queue, l) /\ UNCHANGED edgeDropped
    ELSE edgeDropped' = TRUE /\ UNCHANGED queue

GpioReads ==
    /\ gpio = "Read" /\ edges # <<>>
    /\ edges' = Tail(edges) /\ Enqueue(Head(edges))
    /\ UNCHANGED <<pin, poll, level, gpio, core, busy, toggles, losses, missed>>

GpioLoses ==
    /\ gpio = "Read" /\ edges = <<>> /\ ~poll.alive
    /\ gpio' = "Lost"
    /\ UNCHANGED <<pin, poll, level, edges, queue, core, busy, toggles, losses, edgeDropped, missed>>

\* A new adapter, after any number of attempts.
Rebuild ==
    /\ gpio = "Lost"
    /\ gpio' = "Reconcile" /\ level' = pin /\ poll' = Unseeded
    /\ UNCHANGED <<pin, edges, queue, core, busy, toggles, losses, edgeDropped, missed>>

\* Mutated Reconcile: only future edges count.
ReconcileNothing ==
    /\ gpio = "Reconcile" /\ gpio' = "Read"
    /\ UNCHANGED <<queue, edgeDropped, pin, poll, level, edges, core, busy, toggles, losses, missed>>

\* reconcile_hook
Reconcile ==
    /\ gpio = "Reconcile"
    /\ Enqueue(level) /\ gpio' = "Read" /\ missed' = (missed \/ Bounce)
    /\ UNCHANGED <<pin, poll, level, edges, core, busy, toggles, losses>>

\* Mutated CoreHears: the last event overtakes the others.
CoreHearsLast ==
    /\ queue # <<>> /\ ~busy
    /\ core' = queue[Len(queue)] /\ queue' = SubSeq(queue, 1, Len(queue) - 1)
    /\ UNCHANGED <<pin, poll, level, edges, gpio, busy, toggles, losses, edgeDropped, missed>>

\* The forwarder and the main loop, in the order of the edges.
CoreHears ==
    /\ queue # <<>> /\ ~busy
    /\ core' = Head(queue) /\ queue' = Tail(queue)
    /\ UNCHANGED <<pin, poll, level, edges, gpio, busy, toggles, losses, edgeDropped, missed>>

GpioTask == Start \/ GpioReads \/ GpioLoses \/ Rebuild \/ Reconcile

HookNext ==
    \/ Toggle \/ Busy \/ Seed \/ Sample \/ StreamLost
    \/ GpioTask
    \/ CoreHears

\* The tasks run, and the main loop is not held up for ever.
HookFairness ==
    /\ WF_hookVars(Seed)
    /\ WF_hookVars(Sample)
    /\ WF_hookVars(GpioTask)
    /\ SF_hookVars(CoreHears)
    /\ []<>~busy

HookSpec == HookInit /\ [][HookNext]_hookVars /\ HookFairness

----------------------------------------------------------------------------
(* Properties *)

\* A handset that is left alone is known to the core in the end, across bounces,
\* hold-ups and lost streams, unless an edge found a queue full or the handset
\* moved while the adapter was being opened (poll_edges, reconcile_hook).
HookIsFollowed == <>[](core = pin \/ edgeDropped \/ missed)

\* Reconciliation "resyncs with any lift or hang-up that happened while the edge
\* stream was down" (reconcile_hook).
ReconciledInTheEnd == <>[](core = pin \/ edgeDropped)

\* When all is quiet the core is right: nothing is under way, the poller has
\* confirmed the pin, and no edge was lost on the way.
QuietMeansKnown ==
    /\ edges = <<>> /\ queue = <<>> /\ gpio = "Read"
    /\ poll.alive /\ poll.seeded /\ pin = poll.confirmed
    => core = pin \/ edgeDropped \/ missed

\* The core's handset is the real one when nothing is under way.
HookInv ==
    /\ HookTypeOK /\ QuietMeansKnown
=============================================================================
