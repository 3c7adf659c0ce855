# Telephone Booth: a verification development

Telephone-Booth is the program inside a rotary payphone. A caller lifts the
handset, dials, hears a question and records an answer, which is uploaded to an
operator's server. This directory holds TLA+ modules of its core behaviour, the
TLC runs that check them on small instances, and theorems about them checked by
TLAPS. Paths below are relative to `src/`; `core` is
`crates/booth-core/src/lib.rs` and `bin` is `crates/booth-bin/src/lib.rs`.

## 1. The system

| component | state it keeps | operations | speaks to |
|---|---|---|---|
| call state machine (`core`) | none: a pure function | `handle_with_call_availability(state, event, accepting)` | main loop |
| main loop (`bin`, `run_runtime`, `handle_event`) | the `State`, its copy of the admission decision | take an event, send its effects | all tasks, through queues |
| admission gate (`booth-bin/src/installation.rs`) | mode, time of the last answer, revision | `check`, `observe`, `reconcile`, the poller | operator client, main loop, replay |
| effect dispatcher (`bin`, `effect_task`) | two timers, the operator tasks, effects postponed | one arm per effect | audio, recorder, operator, main loop |
| audio task (`bin`, `audio_task`) | whether a clip is being waited for | play, stop, end of a clip | main loop |
| clip fetches (`bin`, `fetch_*`) | fetch generation, `next_remote_audio` | fetch, discard when abandoned | operator, main loop |
| live upload and replay (`bin`, `upload_recording`, `spawn_upload_replay`; `pending_uploads.rs`) | spool directory, claims | enqueue, upload, dequeue, replay | operator, main loop |
| GPIO task, power button task (`bin`) | adapter, hold timer | edges, rebuild, reconcile, press and hold | main loop |
| session tracker, forwarder, heartbeat (`observability.rs`), event spool (`event_spool.rs`) | current session, buffer, files, last status | observe, flush, spill, replay, beat | telemetry bus, operator |
| status writer (`bin`, `spawn_status_writer`) | a queue of 32 | put the status | operator |
| telemetry bus (`booth-telemetry`) | ring, next id, last LED record | publish, snapshot | everyone |
| status LED driver (`booth-pi/src/status_led.rs`) | running animation | set | effect task |
| playback (`booth-pi/src/audio.rs`, `PiAudioSink`) | the thread of the open stream, its meter | play, stop, wait for the end | audio task, telemetry |
| recorder (`PiAudioSource`, `file_storage.rs`) | the recording thread, finished files, stored paths | start, stop, finalize, store | effect task, disk |
| operator client (`booth-pi/src/operator.rs`, `retry_operator`) | none | three requests of an upload, retried; classification of replies | operator, blob service |
| debug server (`booth-debug`) | a queue of commands, a cached LED | state, simulated input, telemetry socket | main loop, telemetry bus |
| collectors and pusher (`weather.rs`, `shelly.rs`, `booth-metrics`, `observability.rs`) | gauges, latest readings | poll, sample, push | provider, meter, operator |
| simulator and attached terminal (`simulator.rs`, `booth-mock`) | the shown hook and state | keys, echo | mocked GPIO port, telemetry |
| entry point (`main.rs`, `booth-config`, `packaging/`) | the effective configuration | load, validate, check, run | systemd, adapters |
| FLAC pass (`flac_frame.rs`) | none: a function on bytes | `rewrite_frame_sample_rates` | recorder |

Tasks run concurrently on tokio and communicate through bounded `mpsc` queues;
the main loop alone owns the state. What makes the booth hard to get right:

* **replies come late.** A timer, a clip, a fetch, the recorder or an upload may
  answer after the caller has hung up, and the next caller has lifted;
* **admission.** The operator opens and closes the exhibition at any moment. A
  call is then silenced, except that an answer being recorded, finalized or
  uploaded must be followed to its end;
* **the handset moves at any moment**, also while the booth finalizes or uploads;
* **failures.** The recorder may not start or not finalize, a clip may not play,
  an upload may be deferred or fail, the process may stop;
* **bounded queues** between tasks that send to each other.

Per component, what makes it correct: the core's outputs (sound, microphone,
timers, status) follow its state and the handset, and no answer is lost or
filed under another question; the gate never lets a stale answer reopen it; a
recorded answer survives crashes until the operator confirms it and is never
uploaded by two workers at once; a short press never powers off; every call
session ends once, with the right outcome; the operator's status converges to
the booth's; events are forwarded at least once and in order; one stream plays
at a time and can always be stopped; a file under a recording's name is whole;
one colour of the LED is lit, and it is the one reported; no gauge shows an
older reading; what `check` accepts, `run` can start with.

## 2. Modules

### `BoothCore` - the call state machine

The pure function of `core`, complete: 17 states, every event, every effect
except log lines, the admission decision. `handle_inner` is split into one
operator per part of the call (`WhileDialing`, `WhilePlaying`, `WhileRecording`,
`WhileFinishing`, `WhileUploading`, ...), `handle_available` keeps its name and
its parts (`Stale`, `Protected`, `Paused`, `Resume`, `Muted`). A state is a
record of one shape with blank fields where the Rust variant has none;
`WellFormed` says which. An effect struck out by `effects.retain` leaves
`NoEffect` at its place. Texts (`reason`, `Effect::Log`) are left out; digits
above 9 are one value, 10. Operators whose comment begins with "Mutated" are
faulty variants: each shows that the property it is paired with in PROJECT.json
can be broken by an error in this code.

### `BoothCall` - the booth as its caller meets it

`BoothCore` driven by the main loop, with what its effects command. Variables:

| variable | in the code |
|---|---|
| `core` | the `State` owned by `run_runtime` |
| `accepting`, `known` | `InstallationGate::accepting_calls()` now; the main loop's `accepting_calls` |
| `device.audio` | what the audio task plays; `Failed` is a clip that gave up without an event |
| `device.mic`, `device.asked` | the recorder, and the question of its last start |
| `device.failures` | `RecordingFailed` replies not yet taken (failed start; stop with nothing to stop) |
| `device.armed` | the two timer tasks of `effect_task` |
| `uploads` | recordings whose `UploadFinished` is still to come |
| `advertised` | the status last put |
| `hook`, `finished`, `handed` | history: the last hook event, what the recorder produced, what was handed to the uploader |

`Take(e, d)` is `handle_event`: it reads the gate, runs the core and carries
out the effects in their order. Every other action is one source of events:
handset (`Hook`), dial, power button and debug surface (`Input`), operator
(`OperatorAnswers`), timers (`TimerFires`), audio (`PlaybackEnds`,
`PlaybackFails`), recorder (`RecorderFinishes`, `RecorderCannotFinish`,
`RecorderReportsFailure`), uploads (`UploadEnds`), admission (`AdmissionMoves`,
`AdmissionNotified`), and replies that were queued before their timer or clip
was cancelled (`LateReply`).

The abstraction: effects are carried out before the next event is taken. In the
code they wait in a queue; `LateReply` lets a reply to something cancelled come
at any later moment, and hook events may repeat. Two orders of the queues are
kept: the effect task reports a recorder failure before it hands on the next
`Play`, so no clip ends while a failure is owed (`failures = 0`). The queues
themselves are in `BoothRuntime`.

### `MCBoothCall`

One question and one recording: the module is run for liveness, which asks whether
a wait ends, not what is filed where; its safety is checked by `MCCallSessions`,
with two recordings, so that the upload of an abandoned call ends during the next.
Nothing else is bounded: the state space is finite, `failures` being at most 2 by
the code (part of `TypeOK`), which `TypeCorrect` proves.

### `InstallationGate` - whether the booth takes calls

`booth-bin/src/installation.rs`, complete, with the operations that pass it.

| variable | in the code |
|---|---|
| `mode`, `age` | `Observation.mode`, the time since `checked` |
| `probe` | the poller's request: not sent, sent, answered (with which news), and whether `revision` is still the one it copied (`latest`) |
| `since` | the poller's `interval` and the `timeout` of its probe |
| `requests` | an operation under `retry_operator`: before an attempt, sent, answered (with which news) |
| `current` | the fetches whose `FetchToken::is_current()` |
| `told`, `unseen` | `accepting_calls` of `run_runtime`; its `watch` receiver has a change |
| `news`, `held` | external: what the operator would answer, in succession, and for how long it has held |
| `heard`, `ended` | history: the newest news that reached the gate, and the newest that ended an exhibition |

The poller is `ProbeStarts`, `ProbeReturns` (`reconcile` of an answer) and
`ProbeFails` (`reconcile` of an error or of the deadline). An operation is
`BeginRequest` (a fetch takes its token), `Attempt` (the gate's first check),
`ConflictReturns` (`observe`), `AnswerReturns` (with the second check of the
three fetches) and `AttemptFails`; after a retryable error it waits for another
attempt or ends, the number of attempts being left open. `CallResets` is the
invalidation by `StopAudio`; `LoopHears` is the main loop's
`installation_rx.changed()`. `revision` is only compared with one copy, so
`latest` stands for it, and `generation` likewise for `current`; 64-bit
wrap-around would take more conflicts than a booth can receive.

`accepting_calls` is computed from the age, as in the code: a lease runs out by
the passing of time, without a step of the gate. The other modules use the gate
as a boolean that moves at any moment (`AdmissionMoves`), with a notification
that comes later (`AdmissionNotified`).

One state has no way out and is by design excluded from `FollowsOperator`: a
client that cannot report the exhibition is not polled, so that after a typed
conflict nothing reopens its gate.

### `Admission` - what the gate promises

`open` and `basis`, the newest news the booth has heard: calls are taken only on
news at least as new as the basis and that says so; to stop is always allowed.
`InstallationGate` implements it with `open <- accepting_calls`,
`basis <- heard` (property `Promise`).

### `MCInstallationGate`

One fetch and one write, so that the conflict of one overtakes the other and the
probe. A clock tick is five seconds: `POLL_INTERVAL` and `PROBE_TIMEOUT` are one,
`ACTIVE_LEASE` three, as in the code. `MaxNews = 2` is the bound on what the
operator says: the exhibition changes once, in either direction (the proofs have any
number). Ages are counted up to `Lease + Poll + Timeout`; nothing distinguishes older
ones.

### `BoothRuntime` - the queues below the core

`BoothCore` again, now with `run_runtime`'s three queues: `events`, `effects`
and `audio`. The main loop takes an event and then sends its effects one by one
(`loop`), waiting when the effect queue is full; `worker` is `effect_task`,
which may itself wait to hand on a sound or to report a recorder's reply;
`player` is `audio_task` with its sink; `tasks` and `waiting` are
`operator_tasks` and `pending_operator_effects`; `remote` is
`next_remote_audio`. Fetches check their generation, store the clip and announce
it in three steps. Every reply carries, as history, the core's step it answers
(`last`). Calls are admitted; status, ring and power commands wait in the effect
queue like all others and are then only handed on (`TakeOther`), for they have
modules of their own. `early` is a history: in state `Beep` the core took the end of
a clip that was called off for the end of the beep, and recording began before the
beep had sounded. `Restart` is systemd's watchdog, which fires when the loop can no
longer move. `RuntimeAssumption` says of the data that a question's id is not the name of a
sound, which in the code are values of different types.

### `UploadDurability` and `AnswerStore` - what becomes of an answer

| variable | in the code |
|---|---|
| `queue`, `live`, `writing` | `UploadRecording` effects; the operator tasks of `effect_task`; the durability tasks |
| `spool`, `claims` | the directory of `PendingUploadSpool`; its `in_flight` |
| `replay`, `last` | `spawn_upload_replay` (where it is, the scan, the entry it has); `last_attempt` |
| `process`, `restarts` | running, shutting down, stopped or crashed |
| `confirmed`, `outcome` | external: what the operator has; `UploadFinished` as told to the core |
| `handed`, `unstored`, `stored` | history |

A live upload is `StartUpload`, `Persist` (the entry is written by a task that a
shutdown waits for), `LiveChecksGate`, three requests (`LiveSends`, `LiveFails`)
and `LiveDequeues`; the replay worker scans, claims (`ReplayTakes`), looks again
whether the entry is still there (`ReplayChecks`), sends and dequeues. `Crash`
loses memory and may undo removals that were not synced. `AnswerStore` is the
promise: an answer in store is kept until the operator has it;
`kept <- spool`, `delivered <- confirmed` (property `Keeps`).

### `OperatorUpload` - one upload, request by request

`upload_recording`, `retry_operator` and `PiOperatorClient`: slot, transfer and
completion, each retried `OPERATOR_ATTEMPTS` times, the transfer retried again
within an attempt; replies lost, and requests that were given up carried out
later (`lateRequests`). Replies are classified as in the code: conflicts,
`installation_inactive` and the blob service's 409 are told apart. A slot's address
is allowed or not; the caps of `validate_upload_caps` are kept. An upload that
does not end in `Complete` is repeated, as the replay worker does.

`ExhibitionOperator` stands before all three: an attempt is sent only when the gate
is open (`Admitted`), and otherwise refused without a request (`NotAdmitted`) -
between exhibitions with `InstallationInactive`, which defers the upload, on an
unknown or lapsed lease with `Transport`, which is retried. It is asked once for each
attempt, not for each transfer within one. The gate is one variable here, `gate`, which
moves as it may (`GateMoves`): when it says what is `InstallationGate`'s matter, except
that it comes to say that the exhibition is closed only once one has been (`hasEnded`).

### `StatusReporting`, `EventForwarder`, `CallSessions` - what the operator sees

`StatusReporting` has the two writers of the status: `spawn_status_writer`
behind its queue, and the heartbeat, which repeats the status of the last
transition it has heard of. Requests given up may still arrive (`late`). The
names and statuses are those of `BoothCore`.

`EventForwarder` is the forwarder's one task - `Ingest`, `Tick`, the replay of a
file, `Flush`, `Spill`, splitting of oversized files, `Drain` on shutdown - with
the files of `event_spool.rs`, crash and restart. Events are numbered as they are
published; `gone` records the ones given up for a reason the code accepts.

`CallSessions` composes `SessionTracker` with the whole of `BoothCall`: every
step of the booth that publishes is paired with what the tracker hears of it
(`Hears`), and uploads publish their end before the core hears of it
(`UploadPublished`). `call` is the history of what really happened.

### `HookIntake` and `PowerButton` - from the pins

Both have the polling task with its debounce, `gpio_task`, the loss and rebuild
of the edge stream with the snapshot that follows, and bounded queues. In
`HookIntake` an edge that finds a queue full is dropped (`dropped`), and the
core's position is compared with the pin. `PowerButton` counts time in polling
intervals and has `power_button_task` with its hold timer, `drain_release` and
the reconciliation of a level.

### `Playback` and `Recorder` - the audio adapters

`Playback` is `audio_task` (`at`: which await it is in, all of which a command
may interrupt), `PiAudioSink`, every playback thread spawned with its stream,
and the level meter with its channel. Loading a clip succeeds or fails.
`Recorder` is `PiAudioSource` (`holder`), the recording thread from capture
through encoding, writing, renaming and syncing, and `FileStorage`. The disk is
explicit: `dir` is what programs see, `ondisk` what a power failure leaves,
`written` and `synced` the contents. Digests of distinct recordings differ.

### `FlacFrame` and `CivilDate` - two pure algorithms

`FlacFrame` runs `rewrite_frame_sample_rates` on real bytes with real CRC-8 and
CRC-16: `Stream` is the encoder, external, and the pass is checked against
encoding the same frames with the rate named. `CivilDate` is `civil_from_days`,
checked against a calendar that counts days one by one.

### `TelemetryBus`, `StatusLedDriver`, `DebugServer`, `Simulator`

`TelemetryBus` splits `publish` where its locks do (id, ring and live channel,
retained LED record) and follows two readers: the debug server's tracker and a
terminal attached over the websocket, which reconnects with a cursor, also
across restarts of the booth. `StatusLedDriver` has `set`, the animation tasks -
a task that is aborted stops when it next waits -, the lock of the channels and
writes pin by pin that may fail. `DebugServer` has the handlers of `/v1/state`
and `/v1/simulate/*` with the bounded command queue, the timeout and the
fallback to the ring, against a main loop that may be held up. `Simulator` has
the keys, the mocked port, telemetry and the web page's events; the booth behind it
is its hook and the digit being dialled. An edge is told twice, by
`GpioInjector::push` and again by `gpio_task` when it takes it, and the terminal sets
its hook by either. From there its event goes through the handoff queue, the forwarder
and the event queue (one variable, `eventQueue`, of the capacity of all three), and
`queue_event` drops it when it finds no room (`edgeDropped`).

### `WeatherCollector`, `SystemSnapshots`, `Collectors` - gauges and snapshots

`WeatherCollector` reads a chunked answer up to the cap, checks every value and
sets the gauges one after the other while a scrape may read them.
`SystemSnapshots` has the power meter's collector, the sampler and the pusher
with the bus between them. One value stands for each group that the code treats
alike; the module comments say which. `Collectors` is the two together, as `run`
spawns them.

### `Startup` - from systemd to the loop

`load`, `apply_env_overrides` and the validation of pins, the pin reservations,
`check_runtime` and `run` in every mode, the unit's `ExecStartPre`, readiness
and restarts; configuration, environment, pins, audio device and disk may change
between two starts.

### How the modules meet

`BoothCall` and `BoothRuntime` extend `BoothCore`; `CallSessions` extends
`BoothCall`; `StatusReporting` and `DebugServer` use the core's states and
transitions. The remaining modules meet at narrow interfaces that each
over-approximates: an admission decision that moves at any moment
(`InstallationGate` says when), an upload that ends in one of three ways
(`UploadDurability`, whose requests are `OperatorUpload`'s), a clip that ends or
fails (`Playback`), a recorder that replies or fails (`Recorder`), hook events
that may repeat or be missed (`HookIntake`).

### MC modules and proof modules

`MCBoothCall`, `MCCallSessions`, `MCBoothRuntime`, `MCInstallationGate` and
`MCUploadDurability` instantiate one specification each. The others put
components side by side that share no variable: `MCDevices` (`Playback`,
`Recorder`, `HookIntake`, `StatusLedDriver`, `FlacFrame`), `MCReporting`
(`StatusReporting`, `EventForwarder`, `OperatorUpload`), `MCObservation`
(`TelemetryBus`, `DebugServer`), `MCCollectors` (`CivilDate`, `Collectors`)
and `MCUnit` (`PowerButton`, `Startup`, `Simulator`). A
behaviour of such a module drives one component, named by the variable `driven`,
and leaves the others in an initial state: interleaving components that never
read each other's variables would multiply the states and show nothing. The
names of such a component are prefixed (`HookInit`, `HookNext`, `HookSpec`,
`HookFairness`, `hookVars`, ...), and its fairness is assumed of the behaviours
that drive it.

Proof modules: `BoothCoreProofs`, `BoothCallProofs` (with `CallSessions`),
`BoothRuntimeProofs`, `UploadDurabilityProofs`, `DeviceProofs`, `ReportingProofs` (with
`CivilDate` and `InstallationGate`), `UnitProofs`, `ObservationProofs`: section 4. Operators
whose comment begins with "Mutated" are faulty variants of the one that follows; PROJECT.json pairs
each with the property that finds it out.

## 3. Runs

Twelve runs, each of which finishes within minutes. Eleven pass; `tick` (3.3)
shows a statement of the documentation that the code does not keep. A property
that ends in `Inv`, or whose name says what a component is for, is the
conjunction of the ones listed under it; each part is a definition of the module,
with its own comment. Bounds on inputs end a behaviour by design, so most runs do
not check for deadlock.

| run | module | what is let happen |
|---|---|---|
| `sessions` | `MCCallSessions` | one question and two recordings, every interleaving of the booth's events, the session tracker beside it |
| `liveness` | `MCBoothCall` | one question and one recording: whether a wait ends, not what is filed where |
| `gate` | `MCInstallationGate` | a fetch and a write with retries, a probe, a change of the exhibition, the clock |
| `uploads` | `MCUploadDurability` | three recordings, one always refused and one too short, two slots, one shutdown or crash |
| `runtime`, `runtime_liveness` | `MCBoothRuntime` | four inputs, which are a call that records and the beginning of the next; queues that fill |
| `devices` | `MCDevices` | commands that cut in at every await, failures of streams, disks and pins, lost edges |
| `reporting` | `MCReporting` | lost and late requests, failing disks, a shutdown or a crash |
| `observation` | `MCObservation` | two publishers, a lagging tracker, a terminal that reconnects; two clients of the debug server |
| `collectors` | `MCCollectors` | every day of an era of 400 years; polls that fail at every step, every weather code |
| `unit` | `MCUnit` | three presses with late tasks and a lost stream; two starts with clashing configurations; three keys and an event of the page |

### 3.1 Safety

`sessions`:

* `MicrophoneOnlyWhileAnswering`: the recorder runs only in `Recording`, with the
  handset lifted, for the question that was asked.
* `EveryAnswerHandedOver`: what the recorder finished is what was handed to the
  uploader, with its question.
* `OutputsFollowState`: the core's idea of the handset is the last hook event,
  through pauses, resumptions, uploads and late replies (`HookIsKnown`); no sound
  in an empty or a paused booth (`SilentWithoutCaller`); no timer outlives what it
  times (`TimersBelongToState`); the operator was told the current status
  (`StatusIsCurrent`, which excludes the paused booth, whose status writes are
  suppressed by design, an answer under way during a pause, and `Error`, which
  puts no status of its own after a failed fetch or upload).
* `WaitIsAnswered`: what each state waits for is under way.
* `NothingPlayedWhilePaused`: no step starts a sound while calls are not admitted.
* `OnlyOwnUploadEnds`: the wait for an upload is ended by the result of that
  recording's upload, never by an earlier call's.
* `SessionIsTrue`: sessions open and close with calls (`SessionFollowsCall`), and
  the outcomes of calls without an upload are true (`BeforeDialMeansNoDigit`,
  `DuringRecordingMeansNoAnswer`).

`gate`:

* `Promise`: the gate implements `Admission`; a stale probe never reopens it.
* `ClipFromThisExhibition`: a clip that would still be given to a call was handed
  out after the last end of an exhibition the booth heard of, however its fetch
  was delayed or retried. A clip handed out before an end the booth has *not*
  heard of may be played: the ADR allows an operation in flight to race the end.
* `LapseIsTold`: a lease runs out silently, and the poller turns that into an
  observation within the lease, an interval and a deadline (`LapseIsFoundOut`); the
  main loop's copy of the decision is wrong only while a change waits for it or a
  lease has lapsed (`LoopIsTold`).

That a booth that hears nothing stops taking calls within the lease and one
probe's transit of the exhibition's end (`ClosesInTime`) is proved only, section 4.

`uploads`:

* `ExclusiveUpload`: a live upload and the replay worker never have the same
  recording.
* `OutcomeIsTrue`: what the core is told of an upload is so, and told once.
* `ShutdownKeepsAnswers`: an orderly shutdown loses nothing handed over before.
* `Keeps`: the spool implements `AnswerStore`.

`runtime`:

* `RecorderIsHeardInTime`: what the recorder and its timer report is about the
  recording the core waits for, although three queues lie between. Excepted is a
  recording that began early (`early`): it owes nothing to the order of the queues, see 3.3.
* `QueuesSettle`: when every queue has run empty, an idle booth is silent and deaf
  with no timer running (`IdleIsQuiet`), and what a waiting core waits for is under
  way, replies of recorder and uploader not being lost (`WaitIsUnderWay`). Where
  recording began early, neither says anything of the microphone. This is what justifies `BoothCall`'s carrying out effects
  at once.

`devices`:

* `PlaybackInv`: the stream that plays is the one the sink holds (`LiveIsHeld`), or
  one told to stop; one plays at a time (`OneStream`); the meters fall silent
  (`MeterFallsSilent`).
* `RecorderInv`: a name holds its recording whole or nothing (`NamesAreContents`),
  an answer returned stays on disk (`AnswerIsOnDisk`), one known long enough stays
  readable (`KnownIsThere`).
* `HookInv`: with nothing under way the core's handset is the real one, unless an
  edge found a queue full (`QuietMeansKnown`).
* `LedInv`: one channel at most is lit (`OneChannel`), between calls in no colour
  but the reported one (`LitIsReported`).
* `FlacInv`: every frame names the rate asked for (`RateIsNamed`), or the file is
  left as it was (`AllOrNothing`), and checksums hold (`ChecksumsHold`).

`reporting`:

* `StatusInv`: the writes keep the order of the transitions (`LastWordIsCurrent`).
* `ForwarderInv`: an event is in the buffer, on disk, with the operator, or given up
  for a reason the code accepts (`Accounted`); a shutdown takes the last events along
  (`ShutdownKeepsEvents`); the spool is replayed in order (`OldestFirst`).
* `OperatorInv`: the core is told Complete only when the operator has the answer
  (`CompleteIsStored`); an upload told that the exhibition is closed, by a reply to any
  of its requests or by the gate before one of its attempts, sends nothing more and is
  deferred; none is deferred that was not told so, or before an exhibition was closed
  (`InactiveEndsUpload`).

`observation`: `BusInv` (what the readers take for the latest state and indication is
it, also across drops and lag: `LatestIsNewest`, `CacheIsNewest`, `RetainedIsSeen`,
`LedIsShown`) and `DebugInv` (`PulsesAreKept`: injected pulses are neither lost nor
doubled).

`collectors`: `DateIsCalendars`; `GaugesAreCurrent`, which is `WeatherInv`
(`ShowsLatestObservation`, `FlagShowsLatestPoll`, `BodyIsBounded`) and `SnapshotInv`
(`UpShowsLatestPoll`, `MeterShowsNewestReading`, `FanShowsLastSample`). The action
property `SkipsOnlyAfterSuccess` is checked as a part of `CollectorsGoOn`: a snapshot is
skipped only while the one before it that the operator took is younger than the
interval, so that a failed push is made good. Where the interval is longer than the
hour that `last_pushed` is set back at the start, the first snapshots are skipped too,
until the interval has passed since that hour.

`unit`: `ButtonIsTrue` (one press, one action: `EachPressActsOnce`; power-off only for
a button held for the threshold, however late the tasks, without a loss of the
stream: `HeldMeansHeld`); `StartsAsConfigured` (`PinsFailForOthers`,
`HoldIsPositive`, `DefaultsOnlyWithoutFile`, `CheckCoversPins`); `SimulatorIsTrue`
(`ScreenIsCurrent`, unless the terminal's receiver lagged and missed a record;
`BoothFollowsPin` and `DigitIsHeard`, unless `gpio_task` dropped an event or the page
sent one).

### 3.2 Liveness and the fairness it rests on

| run | property | assumed, and why |
|---|---|---|
| `liveness` | `CallMovesOn`: the booth comes back to a state in which the caller or the operator has the next move, unless a clip failed (`NeverWaitsForEver`), and a call hung up comes to its end (`HungUpCallEnds`) | a clip ends (`audio_task` awaits `wait_for_end`), the recorder replies (each branch of `StopRecording` and the failing branch of `StartRecording` send an event), the recording timer fires (`ArmRecordingTimeout`), an upload ends (every path of `upload_recording` calls `send_upload_outcome`, requests have a timeout and `retry_operator` a bounded number of attempts). Nothing of the caller, the operator's answers, the gate or the debug surface. A clip that fails to play sends no event; the code makes no promise for it, so the property excludes it |
| `gate` | `FollowsOperator`: when the operator no longer moves, calls are taken again and again in an exhibition and in the end never outside one | time passes and the poller polls (weak: its loop has no exit); of the probes made again and again some are answered and some answers arrive (strong: each may fail, not all of them for ever). Nothing of requests, of the operator or of the main loop |
| `uploads` | `UploadsProgress` (`EveryUploadAnswered`, `NoStarvation`) | the booth's tasks go on, requests are answered or time out, a stopped booth is started; for the second the exhibition stays open and requests for good recordings succeed in the end |
| `runtime_liveness` | `LoopComesBack` | tasks run; systemd's watchdog restarts a loop that no longer moves. Without it main loop and effect task may wait for each other for ever, which the run reaches |
| `devices` | `DevicesGoOn` | playback (`EndIsTheClips`, `StopReturns`, `ClipComesToEnd`): the task and the threads run, the device calls back until the clip ends or the stream fails. Recorder (`FailedStreamCloses`, `RecorderStopReturns`): the thread and the task that stops run; nothing of device or clock. Hook (`HookIsFollowed`): tasks run, the main loop is not held up for ever. LED (`AnimationTakesOver`, `FadeEndsDark`): tasks run and the channels' lock is fair (tokio's mutex is first come, first served) |
| `reporting` | `OperatorHears` | status (`OperatorCatchesUp`): writer and heartbeat run; beats made again and again are served in the end. Events (`EventuallyDelivered`): the forwarder runs; its flush tick, offered again and again, is taken; failures end. Upload (`UploadEnds`, with the refinement `KeepsUntilDelivered`): tasks run; the HTTP client has a deadline |
| `observation` | `EveryRequestIsAnswered` | handlers run and their timeout passes; for a dial also that the loop comes round or ends |
| `collectors` | `CollectorsGoOn` | weather (`EveryPollEnds`): the task runs; the client's deadline covers the whole exchange; nothing of the provider. Snapshots (`SkipsOnlyAfterSuccess`, `OperatorIsServed`): tasks run, time passes; a lagging pusher receives a record before the whole bus is overwritten again; an operator asked again and again takes one; other traffic is bounded |
| `unit` | `UnitGoesOn` | button (`HoldIsNoticed`): poller and `gpio_task` run within a polling interval, time passes. Startup (`UnitComesUp`): a started process goes on; systemd restarts a failed unit (`RestartSec` of two seconds keeps it under the start limit of five in ten) |

### 3.3 Disagreements between code and documentation

The run `tick` checks one such sentence, quoted in PROJECT.json's findings: an
admission change told with `Tick` closes the pulse group of a caller who began to
dial. The following were met while modelling. Each is stated as a property of the
module named, which no run lists because the code does not keep it: TLC finds the
behaviour described on an instance of a few values.

| module | property | what the code does |
|---|---|---|
| `StatusReporting` | `PathNeverStalls` | slow writes fill the status queue (32 in the code), and the effect task waits |
| `StatusReporting` | `HeartbeatTellsStatus` | the heartbeat tells Idle while a recording is finalized after a hang-up (with all states as `Tag`) |
| `StatusReporting` | `NeverLeftStale` | a heartbeat lands after a newer status |
| `EventForwarder` | `BacklogBeforeNew` | new events are sent before older spooled files |
| `CallSessions` | `CompletedIsOwn` | an earlier call's upload completes the next call's session |
| `CallSessions` | `DuringUploadMeansUploading` | a completed upload is reported as hung up during the upload |
| `CallSessions` | `OperatorErrorIsOperators` | any error state is reported as an operator error |
| `CallSessions` | `OnePickup` | a second caller continues the first caller's session |
| `PowerButton` | `HeldMeansHeld` (without `losses = 0`) | a release during a rebuild is missed, and the booth powers off |
| `HookIntake` | `ReconciledInTheEnd` | a movement during a rebuild is missed for good |
| `BoothRuntime` | `EndIsOwn` | the end of a clip that was called off is taken for the end of the next |
| `BoothRuntime` | `RecorderIsHeardInTime` (without `~early`) | ends of clips that were called off carry a call to its recording while the queue still holds the last one's reply, which is taken for its own. It takes queues as deep as the code's (256): TLC was led along a behaviour of 260 steps |
| `BoothRuntime` | `AskedIsHeard` | a fetch called off after its token check announces its question; the caller hears another clip |
| `Playback` | `EveryPlayIsTried` | a tone's error is returned by the next play, which plays nothing |
| `Playback` | `ShutdownEnds` | a shutdown leaves a tone playing |
| `Recorder` | `KeysAreWhole` | the path of a recording is renamed into place unsynced |
| `TelemetryBus` | `RetainedIsSeen` (without `drops = 0`) | the leading LED record raises the terminal's cursor past records not yet sent; two publishers pass each other between id and ring |
| `TelemetryBus` | `RetainedIsSeen` (without `epoch = 0`) | ids begin again after a restart, the cursor does not |
| `StatusLedDriver` | `SteadyShows` | an aborted animation writes once more, over a steady indication |
| `DebugServer` | `AnswerIsCurrent` | `/v1/state` tells an old transition, or idle |
| `DebugServer` | `NameIsCompatible` | two tags that are no name of the operator |
| `DebugServer` | `DialsWhatWasAsked` | two clients share one group of pulses |
| `OperatorUpload` | `DuplicateIsStored` | four conflicts of the blob service are called a duplicate |
| `OperatorUpload` | `StatusIsReturned` | a refused transfer is told with another status |
| `WeatherCollector` | `ConditionIsOneHot` | a scrape sees two conditions at once |
| `Simulator` | `LockStep` | an event of the page leaves the terminal with the hook's old position |
| `Simulator` | `HookKeyToggles` | one of the two echoes of an edge, read after a later key, makes the hook key push the level the pin has |
| `Simulator` | `DigitKeyDials` | two digit keys make one other digit |
| `Startup` | `CheckProbesAudio` | the check passes without an audio device |
| `Startup` | `AutostartedBoothIsKept` | a unit started as a simulator never says it is ready and is stopped |

### 3.4 Bounds

Bounds are constants named in each module's header ("bound:"). They count inputs
(keys, presses, commands, restarts, losses), so that each fault can meet each
stage of one operation and the beginning of the next; queues have a capacity of
one or two where the code has 16 to 256, so that they fill. Data are the two or
three values the properties tell apart. Where the code's own number matters it is
the code's (`MAX_PULSES_PER_DIGIT`, the gate's ratio of lease to poll, the lengths
of a coded frame number); hold times and debounce keep their order, in polling
intervals. An upload has two attempts and one retry of the transfer, where the code
has three of each: enough for a lost, a late and a true reply of every request, and
the theorems hold for any number.

Some bounds are chosen for what they let happen:

* `reporting`: a batch is one event and the spool may start with a file of two
  (`Legacy`), which an earlier release left, so that it is split, and the splitting
  stopped half-way. `MCReporting` moves the gate only where it is read next
  (`GateIsRead`): where it stood in between makes no difference to the upload.
* `devices`: one power failure at any point of a recording. A recording's file is patched
  once; that a later pass leaves a patched file as it is, is not exercised by the run.
* `collectors`: the interval is longer than the hour that `last_pushed` is set back, so
  that first snapshots are skipped. The proof has any lengths.
* `unit`: the port, the handoff queue and the event queue hold one element each, so that
  keys wait and an event is dropped; the bus keeps three records for a terminal that
  is behind, so that it lags, and can also catch up.

## 4. Proofs

Each theorem holds for every value of the constants that its module's `ASSUME`
allows, and TLC checks the assumption and, on the instance above, the invariant. A
property that a run checks is seldom inductive; what follows says what each inductive
invariant adds to it.

1. `BoothCoreProofs` and `BoothCallProofs`, for arbitrary `QuestionId`, `RecordingId` and
   `None`, from `NoneAssumption` (no question and no recording is `None`).
   The former goes lemma by lemma over the parts of `handle_inner`, then `Resume` and
   `Paused`, to `CoreStepSound`: from a well-formed state every event leads to a
   well-formed state, whose hook position is the one the event implies, with a list
   of effects. The latter begins with the effect lists that a step may produce with regard
   to the recorder and the uploader (`Follows`): the recorder is started only on
   entering `Recording`, stopped only on leaving it, and an upload is requested
   exactly when a finalized recording is taken; `CoreStepFollows` proves it of every
   step. Then comes the inductive invariant
   `Inv == TypeOK /\ HookIsKnown /\ RecorderTracked /\ EveryAnswerHandedOver`.
   `MicrophoneOnlyWhileAnswering` is not inductive: it does not say what the
   recorder owes when it is stopping, nor that an owed failure and a running
   recorder exclude each other. `RecorderTracked` says both. `InvHolds` proves
   it, one lemma per action; `TypeCorrect`, `HandsetKnown`, `MicrophoneSafe` and
   `AnswersHandedOver` follow.
2. `BoothCallProofs`, the booth's outputs. A step of the core sends a list of
   effects of which, for sound, each timer and the status, only the last counts; the
   relation `Moves` says what that last command is for each pair of states, and every
   part of `handle_inner` is shown to keep it. The inductive invariant `OutputsInv`
   adds to `Inv` what the sound, the timers, the advertised status and the awaited
   uploads are in each state. `OutputsFollow` and `WaitsAreAnswered` follow, and from
   the invariant and one step the action properties `OwnUploadEnds` and
   `PausedIsSilent`.
3. `BoothCallProofs`, the tracker beside the booth, from `NoOutcomeAssumption` as
   well (`None` is no outcome). `SessionFollowsCall` is not inductive with the
   outcomes; the invariant `SessionSound` adds `SessionMatches`: the tracker has
   noticed the digit of a call that acted on one, and while an answer is under way, or
   taken to be, none of this call is with the uploader. It rests on lemmas about the
   core: a step acts on a digit only when it publishes one (`CoreStepPublishes`), and
   a finished recording is what is uploaded (`FinishedIsUploaded`).
   `OperatorIsToldTheTruth` is `SessionIsTrue`.
4. `ReportingProofs`, the gate: the inductive invariant `IInv`, one lemma per part.
   `TokenFollowsGate`: a fetch under way with a current token was sent since the
   gate last closed (`ClipFromThisExhibition` says nothing of the attempts not
   yet answered, whose answer might be old). `ProbeIsNew`: a probe whose revision
   is current brings nothing older than what was heard, and an Active gate's
   probe is never overtaken; this carries the refinement. `LeaseIsWatched` and
   `AnswerIsRecent`: how old leases and answers may be at each stage of the
   poller's cycle, from which the two bounds in time follow.
   `ClipsAreFromThisExhibition`, `GateClosesInTime`, `LapsesAreTold` and
   `GateKeepsPromise` follow.

5. `UploadDurabilityProofs`: for every set of recordings (numbered, short and
   refused ones among them), every number of slots and of restarts, from
   `UploadAssumption`. The properties say nothing of a recording between two
   tasks, so the inductive invariant `IInv` follows it: `QueueIsNew` (what is
   queued is queued once, and neither taken up nor reported), `LiveIsKnown` and
   `ReplayIsKnown` (what a task's or the worker's step says of the entry),
   `RemovedIsConfirmed` (`stored \ spool \subseteq confirmed`, which carries the
   refinement), `HandedIsKept` and `ReportIsTrue`. One lemma per part, one step
   per action. That a sweep finds a next entry (`FirstIsOne`) is the
   well-ordering of the naturals, from the library. Theorems: `TypeCorrect`,
   `UploadsExclude`, `ClaimsFollowWork`, `ReplayIsPending`, `ReportsAreTrue`,
   `ShutdownIsSafe`, and `AnswersAreKept`, the refinement of `AnswerStore`.
6. `DeviceProofs`: one inductive invariant per adapter, each needed because its
   property speaks of what users see and says nothing of what is on its way.
   `HookSound` follows an edge from the poller through `edges`, `gpio_task` and
   `queue` to the core: the last of what is on its way is what the poller confirmed,
   unless an edge was dropped or missed. `RecorderSound` says, for each stage of the
   recording thread, what is on the disk under the temporary and the final name, of
   the directory in memory and of the one a power failure leaves. `PlaybackSound`: the
   thread that plays is the last one, held by the sink or being joined and told to
   stop; its levels, and the last of them when it has ended. `LedSound`: who holds the
   lock of the channels and which request a pending write belongs to, and that a
   request under way has no animation yet. Theorems: `HandsetIsKnown`,
   `RecordingsSurvive`, `OneStreamIsHeld`, `EndsAreTheClips` (an action property),
   `RingIsSafe`.
7. `ReportingProofs`: `StatusSound` (the newest status that effect task, queue or
   writer holds is that of the present state) gives `LastWordIsTold`. `UploadSound`
   counts, for every attempt and transfer, how often each request can have been sent,
   and says of each reply what it shows about the operator's store, replies to
   requests that were given up included. Its part `EndIsReal` says that neither a
   reply on the wire nor the gate tells that the exhibition is closed before one has been.
   `OperatorHasWhatIsLetGo` follows, for any numbers of attempts and retries and wherever
   the gate moves between two attempts, and `UploadKeepsTheAnswer`, the refinement of
   `AnswerStore`, step by step. The forwarder: `ForwarderInv` says where every event is
   and that the oldest file has the earliest, but a file may hold what another one,
   or the buffer, holds too. The inductive invariant `ForwarderSound` names the events
   that only the buffer has (`Fresh`) and those that only files have (`Pending`): the
   former are all later (`FreshIsLater`), and of two of the latter the earlier one is
   first found in no later file (`FirstsInOrder`), which survives a file that could not
   be removed after it was delivered or split. `Writing` says that what is to be written
   covers `Fresh`, unless the detached write of an interrupted spill has it, and then
   what is fresh is later; `Ending`, what has been drained at each stage of a
   shutdown. One lemma per action, from lemmas about chunks and files:
   the parts of a file hold its events in its order and are numbered apart,
   whatever the length of a batch. Theorem `EventsAreKept`.
8. `UnitProofs`, the power button: the inductive invariant `PowerSound`.
   `PressesAreSpent` counts every press on its way from the pin through the poller,
   `edges`, `gpio_task` and `signals` to the task's timer: with those that have acted
   there are never more than were pressed, one more for each loss of the stream (the
   level read after it). Without a loss, `Line` says that presses and releases alternate
   along that way (`Alternates`), nothing else being sent (`Undisturbed`), and that the timer is behind
   the time the button has been down unless a release is on its way that comes before
   it runs out (`ReleaseIsInTime`). Theorem `PowerOffIsHeld` assumes `Hold > 1`: with a threshold
   of one polling interval a release may wait one interval behind edges of other pins
   and come late, and TLC finds that violation. The code's interval is 2 ms; a
   threshold is some seconds.
   Start-up: `StartupSound` says which of the checks made so far still hold when the
   configuration is loaded and the adapters are built, unless something was changed
   between. The proof found that a unit that gave up and is started by hand must not be
   taken for unchanged since its check; the model now keeps `changed` there. Theorem
   `AcceptedConfigurationsRun`.
   The simulator: `SimulatorSound` follows every record and every edge to where it is
   read. `PinIsCurrent`: the last hook edge in the port's channel, whose second echo is
   still to come, has the pin's present level, or the edge that sets it is in the hand of
   the key's handler; so the later echo of an edge cannot leave the terminal with an
   older position. `ScreenSound` and `BoothSound` say the same of what telemetry has to
   tell and of the edges between pin and core, `eventQueue \o pinEdges`; the latter, like
   `DigitSound`, only as long as no event was dropped. `DigitSound`: while one digit has
   been keyed since the hook moved, the falling edges after the last one on its way that
   moves the hook, those not yet sent, and, if none moves it, the pulses counted, add up
   to the digit. Theorem `SimulatorStandsIn` assumes that a group holds ten pulses, as the
   code's constant does. Looking for this invariant showed that a hook key that leaves
   the pin where it is (the terminal was behind) does not part two digits: the history
   `keyed` begins anew only when the pin moves.
9. `ObservationProofs`, the telemetry bus: the inductive invariant `BusSound`. `Numbered`:
   no id is used twice, in the hands of a publisher or sent. `SlotsAreNewest`: the slot is
   not behind any record that passed it, the cache not behind what the tracker has read.
   `FirstMissesNothing` says where each record of the ring is that a terminal on its first
   connection has not seen: on the wire, still to be replayed, ahead of the receiver, or
   with a publisher that has pushed it and not sent it. `NewestIsOnItsWay` is the reason
   that the last indication shown is the newest: for every indication that the receiver
   has passed, one as new is the last of what is still to be replayed, of what is on the
   wire, or is shown. It needs `LedsInOrder` (as long as no two publishers of an indication
   pass each other, indications are sent in the order of their ids, and the ring loses the
   oldest first) and `TodoInOrder`. The property speaks of a terminal that has caught up;
   the invariant has to say it of all the stages of `telemetry_socket`. For this proof the
   replay is modelled by the records' places in the ring, which go out in their order,
   and no longer as a filtered sequence: of `SelectSeq` nothing can be proved here. Theorem
   `FollowersCatchUp`.
10. `ObservationProofs`, the debug server: the inductive invariant `DebugSound`.
    Its part `KeptInQueue` is the balance that `PulsesAreKept` states: what is handled,
    what is in the queue of commands and what the request still has to send add up to
    what the client was promised. It is not inductive alone: `RequestsTyped` says that a
    request has something left to send just while it sends, `GroupIsCounted` that the
    group of pulses kept beside the core, with the origin of each, is never longer than
    the number the core has counted (lemma `PulseCounts`, from `CoreStepSound`'s cases).
    Theorem `InjectedEventsAreKept`.
11. `ReportingProofs`, the timestamps: for every day from 1970 on the computed date is the
    calendar's (`DateIsCorrect`; the run has one era of 400 years). Lemmas give
    the year from the day of the era, the month from the day of a year that begins
    in March, and the repetition of eras; the invariant is the property itself.
    `SecondsAreSplit` does the same for the time of day.

12. `UnitProofs`, the collectors. Weather: the properties speak of the time between two
    polls; `WeatherSound` has to speak of the writes. While the gauges are written, just
    the first `written` series have the new answer's values (`SetSoFar`). This is
    inductive because no series is set twice for one answer, and after the last write
    the whole answer is on show because every condition is among the series
    (`WritesAre`, from the list of conditions and the codes that `condition_for_code`
    knows, `CodesAreListed`). Theorem `WeatherIsCurrent`. Meter, sampler and pusher:
    `SnapshotSound` follows a reading from the answer to the gauges and from there to
    the sampler, and says that the pusher's own clock (`last_pushed`) is the time since
    the operator's last snapshot or, before the first, an hour more than the time since
    the start. Theorems `GaugesShowTheNewest` and, for any capacity of
    the bus, `FailedPushesAreMadeGood`. `CollectorsAreCurrent` puts the gauges together.
13. `BoothRuntimeProofs`, the queues, for every depth of each, any finite number of
    operator tasks and any number of inputs, from `RuntimeAssumption` and
    `NoneAssumption`. First, from the cases of `handle_inner` once more, `CoreDoes`:
    which kinds of effect a step asks for between which states (`Meets`). Both
    invariants speak of `Q`, the effect queue followed by what the loop has yet to
    send, so that a loop that waits for room is no case of its own.
    `RecorderIsHeardInTime` says nothing of calls whose effects are still in the
    queue. `HeardInv` adds `Marks` (no sound, queued, passed on or ended, has a mark that
    the core has not given out yet), `TimersAreCalledOff` (once the core has left the state
    a timer belongs to, its cancellation waits behind every order to arm it, and as long
    as it runs) and `RecorderInv`. Its centre is `BeepIsLast`: while the
    core waits for its beep, all work for the recorder is before the beep in the
    queue, and every report of the last recording before the beep's end. So the microphone is off
    when the answer begins (`MicIsOff`); from then on all that recorder and timer have to
    do is this answer's (`AnswerIsOwn`, `StartIsFirst`, `TimerIsOwn`). The proof found the
    exception `early`: without it `BeepIsLast` is not preserved, and the
    counterexample is a behaviour of the code (3.3). It also showed that effects of other
    kinds must not be dropped on entering the queue, as the model did before.
    `QueuesSettle` speaks of empty queues only. Its invariant `SettledInv` says, at any
    time, who has what is still owed: the recorder and its timer (`RunsInv`), the upload
    that the core waits for (`UploadRuns`), and what will sound when all that waits has
    been carried out (`SoundInv`, `WillSound`: the last command in the effect queue, or
    else the one being handed on, or else the last of the audio queue, or else the
    player). With the queues empty nobody is left who could have it but the recorder,
    the timer and the player themselves. Theorems `TheRecorderIsHeardInTime`,
    `TheQueuesSettle`.

Left to TLC:

* liveness, which is outside TLAPS;
* `FlacInv`: `FlacFrame` uses bitwise operators and recursion over bytes, about which
  nothing can be proved here.

## 5. Not modelled

Every component is modelled at least in part; PROJECT.json says of each what is
left out. In short:

* addresses, headers, tokens, TLS and serialization of the operator client and
  the debug server: decisions about one request, without state;
* samples, formats and device selection of the audio adapters, drawing of the
  screen: data and I/O;
* bounds of single numbers in the configuration, and printing it;
* counters of the telemetry consumer, parsing of sysfs, the system library's
  probes: numbers nobody acts on;
* mocks that only record what they are told;
* what runs outside the process: the reboot and power-off themselves, the
  operator's server (external in `UploadDurability`, `OperatorUpload`,
  `InstallationGate`), the encoder, the sound device.

The telemetry event `AudioDeviceChange` is consumed in three places and published
in none, so no module has it.

## 6. Plan

Done: every component above; proofs of the core, the booth, its outputs and the session
tracker, the queues below the core, the gate, the spool, the device adapters, the
status, the upload, the forwarder, the power button, start-up, the simulator, the
collectors, the telemetry bus, the debug server and the calendar.

Left: a refinement from `BoothRuntime` to `BoothCall`. The effects of an event are
carried out late there, so the mapping needs the queues' contents; and the behaviours
in which an earlier clip's end is heard (`EndIsOwn`, `early`) have no counterpart in
`BoothCall`, whose events would first have to allow for them.
