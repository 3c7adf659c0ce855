----------------------------- MODULE BoothRuntime -----------------------------
(***************************************************************************)
(* The tasks between the core and its devices and the queues that join     *)
(* them (crates/booth-bin/src/lib.rs): the main loop, effect_task with its *)
(* timers and operator tasks, and audio_task.  BoothCall carries out the   *)
(* effects of an event before the next one; here they wait in a queue, the *)
(* sound waits in a second one, and whatever comes back waits in a third.  *)
(*                                                                         *)
(* Calls are admitted.  The status, the ring and the power commands wait   *)
(* in the queue like every effect; what becomes of them is in modules of   *)
(* their own.                                                              *)
(***************************************************************************)
EXTENDS BoothCore, FiniteSets

CONSTANTS
    EventCap,   \* EVENT_CHANNEL
    EffectCap,  \* EFFECT_CHANNEL
    AudioCap,   \* depth of the audio queue
    Slots,      \* OPERATOR_CONCURRENCY operator tasks
    Inputs,     \* what callers do
    MaxInputs   \* bound

ASSUME RuntimeAssumption ==
    /\ {EventCap, EffectCap, AudioCap} \subseteq Nat \ {0} /\ MaxInputs \in Nat
    /\ IsFiniteSet(Slots) /\ Inputs \subseteq {"HookOn", "HookOff", "RotaryPulse"}
    /\ QuestionId \cap (AudioRef \cup {"None", "Message", "Stop", "Failed"}) = {}   \* the names of sounds

VARIABLES
    core,     \* State
    last,     \* the core's steps, and those that last asked for each thing (history)
    early,    \* an answer was recorded before its beep had ended (history)
    loop,     \* effects handle_event has yet to send
    events,   \* event queue
    effects,  \* effect queue
    worker,   \* effect_task
    waiting,  \* pending_operator_effects
    tasks,    \* operator_tasks
    remote,   \* next_remote_audio
    audio,    \* audio queue
    player,   \* audio_task and its sink
    mic,      \* the recorder: 0, or the step that started it
    armed,    \* timers that run, with the step that armed them
    made,     \* recordings made
    inputs

vars == <<core, last, early, loop, events, effects, worker, waiting, tasks, remote, audio,
          player, mic, armed, made, inputs>>

Fetches == {"FetchRandomQuestion", "FetchRandomMessage", "FetchInstructions"}
Tones == {"DialTone", "LineBusy"}
NoClip == "None"
Spoken == {"Message"} \cup QuestionId   \* what a fetched clip says

\* Every queued thing carries the number of the core's step it answers to.
Mark(x, n) == [x |-> x, n |-> n]

Free == [at |-> "Free", fx |-> NoEffect, n |-> 0, current |-> FALSE, clip |-> NoClip, event |-> NoEffect]
Resting == [at |-> "Ready", item |-> Mark(NoEffect, 0)]
Silent == [at |-> "Idle", sound |-> NoClip, n |-> 0]
Unasked == [step |-> 0, play |-> 0, fetch |-> 0, record |-> 0, timer |-> 0]

TypeOK ==
    /\ WellFormed(core)
    /\ \A i \in DOMAIN events : events[i].x \in Event
    /\ \A i \in DOMAIN effects : effects[i].x \in Effect
    /\ Len(events) <= EventCap /\ Len(effects) <= EffectCap /\ Len(audio) <= AudioCap
    /\ worker.at \in {"Ready", "Finalizing", "Reporting", "Passing"}
    /\ \A s \in Slots : tasks[s].at \in {"Free", "Asking", "Storing", "Sending"}
    /\ remote \in Spoken \cup {NoClip}
    /\ player.at \in {"Idle", "Starting", "Playing", "Ended"}
    /\ \A t \in armed : t.x \in {"Tick", "RecordingTimedOut"}
    /\ made \subseteq RecordingId /\ inputs \in 0..MaxInputs

\* A booth that starts with the handset lifted hears of it at once.
Init ==
    /\ \E lifted \in BOOLEAN :
           /\ core = Plain(IF lifted THEN "DialTone" ELSE "Idle")
           /\ last = [Unasked EXCEPT !.step = IF lifted THEN 1 ELSE 0, !.play = IF lifted THEN 1 ELSE 0]
           /\ effects = IF lifted THEN <<Mark(Play("DialTone"), 1)>> ELSE <<>>
    /\ early = FALSE /\ loop = <<>> /\ events = <<>> /\ audio = <<>> /\ waiting = <<>>
    /\ worker = Resting /\ tasks = [s \in Slots |-> Free] /\ remote = NoClip
    /\ player = Silent /\ mic = 0 /\ armed = {} /\ made = {} /\ inputs = 0

EventRoom == Len(events) < EventCap

\* Mutated Enqueue: nobody counts.
EnqueueUnbounded(e, n) == events' = Append(events, Mark(e, n))

Enqueue(e, n) == EventRoom /\ events' = Append(events, Mark(e, n))

----------------------------------------------------------------------------
(* The main loop *)

Has(step, kinds) == \E i \in DOMAIN step : step[i].fx \in kinds

\* Which step the core last asked each thing in: 0 when it has called it off.
Asked(before, step) ==
    LET n == before.step + 1
        After(old, asks, ends) ==
            IF Has(step, asks) THEN n ELSE IF Has(step, ends) THEN 0 ELSE old
    IN [step |-> n,
        play |-> After(before.play, {"Play"}, {"StopAudio"}),
        fetch |-> After(before.fetch, Fetches, {"StopAudio"}),
        record |-> After(before.record, {"StartRecording"}, {}),
        timer |-> After(before.timer, {"ArmRecordingTimeout"}, {"CancelRecordingTimeout"})]

\* As many effects as there is room for; the rest waits in handle_event.
Send(pending) ==
    LET all == effects \o pending
        room == IF Len(all) > EffectCap THEN EffectCap ELSE Len(all)
    IN effects' = SubSeq(all, 1, room) /\ loop' = SubSeq(all, room + 1, Len(all))

\* handle_event
Handle ==
    /\ loop = <<>> /\ events # <<>>
    /\ events' = Tail(events)
    /\ early' = (early \/ (core.tag = "Beep" /\ Head(events).x.ev = "PlaybackEnded"
                              /\ Head(events).n # last.play))
    /\ LET step == handle_with_call_availability(core, Head(events).x, TRUE)
           fxs == step.effects
       IN /\ core' = step.state
          /\ last' = IF fxs = <<>> THEN last ELSE Asked(last, fxs)
          /\ Send([i \in DOMAIN fxs |-> Mark(fxs[i], IF fxs[i] = StopRecording THEN last.record ELSE last.step + 1)])
    /\ UNCHANGED <<worker, waiting, tasks, remote, audio, player, mic, armed, made, inputs>>

\* handle_event goes on when there is room.
SendRest ==
    /\ loop # <<>> /\ Len(effects) < EffectCap
    /\ Send(loop)
    /\ UNCHANGED <<core, last, early, events, worker, waiting, tasks, remote, audio, player, mic, armed, made, inputs>>

Input ==
    /\ inputs < MaxInputs /\ inputs' = inputs + 1
    /\ \E e \in Inputs : Enqueue(Signal(e), 0)
    /\ UNCHANGED <<core, last, early, loop, effects, worker, waiting, tasks, remote, audio, player, mic, armed, made>>

\* Mutated Stuck: the watchdog is pinged from a task of its own.
StuckUnseen == FALSE

\* The loop that is stuck in handle_event no longer pings the watchdog, and the
\* process is restarted.
Stuck == loop # <<>> /\ Len(effects) = EffectCap

Restart ==
    /\ Stuck
    /\ core' = Plain("Idle") /\ last' = Unasked /\ early' = FALSE
    /\ loop' = <<>> /\ events' = <<>> /\ effects' = <<>> /\ audio' = <<>> /\ waiting' = <<>>
    /\ worker' = Resting /\ tasks' = [s \in Slots |-> Free] /\ remote' = NoClip
    /\ player' = Silent /\ mic' = 0 /\ armed' = {}
    /\ UNCHANGED <<made, inputs>>

----------------------------------------------------------------------------
(* effect_task *)

Full == \A s \in Slots : tasks[s].at # "Free"

IsOperators(fx) == fx.fx \in Fetches \cup {"UploadRecording"}

\* The effect to carry out next: one that waited for a slot goes first.
Next1 == IF waiting # <<>> /\ ~Full THEN Head(waiting) ELSE Head(effects)

MayTake ==
    /\ worker.at = "Ready"
    /\ \/ waiting # <<>> /\ ~Full
       \/ effects # <<>> /\ (Full => ~IsOperators(Head(effects).x))

Took ==
    IF waiting # <<>> /\ ~Full THEN waiting' = Tail(waiting) /\ UNCHANGED effects
    ELSE effects' = Tail(effects) /\ UNCHANGED waiting

\* An operator effect that finds every slot taken waits for one.
Defer ==
    /\ worker.at = "Ready" /\ Full /\ effects # <<>> /\ IsOperators(Head(effects).x)
    /\ waiting' = Append(waiting, Head(effects)) /\ effects' = Tail(effects)
    /\ UNCHANGED <<core, last, early, loop, events, worker, tasks, remote, audio, player, mic, armed, made, inputs>>

Takes(kinds) == MayTake /\ Next1.x.fx \in kinds /\ Took

\* A command for audio_task; the clip it stands for is taken out of the slot.
Pass(command, n) ==
    IF Len(audio) < AudioCap
    THEN audio' = Append(audio, Mark(command, n)) /\ UNCHANGED worker
    ELSE worker' = [at |-> "Passing", item |-> Mark(command, n)] /\ UNCHANGED audio

\* resolve_audio_ref
TakePlay ==
    /\ Takes({"Play"})
    /\ IF Next1.x.audio = RemoteAudio
       THEN Pass(remote, Next1.n) /\ remote' = NoClip
       ELSE Pass(Next1.x.audio, Next1.n) /\ UNCHANGED remote
    /\ UNCHANGED <<core, last, early, loop, events, tasks, player, mic, armed, made, inputs>>

\* Stopping the sound calls off every fetch and forgets the clip.
TakeStop ==
    /\ Takes({"StopAudio"})
    /\ tasks' = [s \in Slots |-> [tasks[s] EXCEPT !.current = FALSE]]
    /\ remote' = NoClip /\ Pass("Stop", Next1.n)
    /\ UNCHANGED <<core, last, early, loop, events, player, mic, armed, made, inputs>>

PassOn ==
    /\ worker.at = "Passing" /\ Len(audio) < AudioCap
    /\ audio' = Append(audio, worker.item) /\ worker' = Resting
    /\ UNCHANGED <<core, last, early, loop, events, effects, waiting, tasks, remote, player, mic, armed, made, inputs>>

Reporting(e, n) == [at |-> "Reporting", item |-> Mark(e, n)]

TakeStart ==
    /\ Takes({"StartRecording"})
    /\ \/ mic = 0 /\ mic' = Next1.n /\ UNCHANGED worker
       \/ worker' = Reporting(Signal("RecordingFailed"), Next1.n) /\ UNCHANGED mic
    /\ UNCHANGED <<core, last, early, loop, events, tasks, remote, audio, player, armed, made, inputs>>

\* Finalizing takes a while; there may be nothing to finalize.
TakeStopRecording ==
    /\ Takes({"StopRecording"})
    /\ worker' = IF mic = 0 THEN Reporting(Signal("RecordingFailed"), Next1.n)
                 ELSE [at |-> "Finalizing", item |-> Mark(NoEffect, mic)]
    /\ mic' = 0
    /\ UNCHANGED <<core, last, early, loop, events, tasks, remote, audio, player, armed, made, inputs>>

Finalized ==
    /\ worker.at = "Finalizing"
    /\ \/ worker' = Reporting(Signal("RecordingFailed"), worker.item.n) /\ UNCHANGED made
       \/ \E r \in RecordingId \ made :
              /\ made' = made \cup {r}
              /\ worker' = Reporting([ev |-> "RecordingFinished", recording |-> r], worker.item.n)
    /\ UNCHANGED <<core, last, early, loop, events, effects, waiting, tasks, remote, audio, player, mic, armed, inputs>>

Report ==
    /\ worker.at = "Reporting"
    /\ Enqueue(worker.item.x, worker.item.n) /\ worker' = Resting
    /\ UNCHANGED <<core, last, early, loop, effects, waiting, tasks, remote, audio, player, mic, armed, made, inputs>>

TimerOf(fx) == IF fx \in {"ArmPulseTimeout", "CancelPulseTimeout"} THEN "Tick" ELSE "RecordingTimedOut"

\* Mutated TakeTimer: a timer that is called off runs on.
TakeTimerArmOnly ==
    /\ Takes({"ArmPulseTimeout", "CancelPulseTimeout", "ArmRecordingTimeout", "CancelRecordingTimeout"})
    /\ LET fx == Next1.x.fx IN
       armed' = IF fx \in {"ArmPulseTimeout", "ArmRecordingTimeout"}
                THEN {t \in armed : t.x # TimerOf(fx)} \cup {Mark(TimerOf(fx), Next1.n)} ELSE armed
    /\ UNCHANGED <<core, last, early, loop, events, worker, tasks, remote, audio, player, mic, made, inputs>>

\* Arming a timer stops the one that ran; a stopped one no longer sends.
TakeTimer ==
    /\ Takes({"ArmPulseTimeout", "CancelPulseTimeout", "ArmRecordingTimeout", "CancelRecordingTimeout"})
    /\ LET fx == Next1.x.fx IN
       armed' = {t \in armed : t.x # TimerOf(fx)}
                    \cup (IF fx \in {"ArmPulseTimeout", "ArmRecordingTimeout"}
                          THEN {Mark(TimerOf(fx), Next1.n)} ELSE {})
    /\ UNCHANGED <<core, last, early, loop, events, worker, tasks, remote, audio, player, mic, made, inputs>>

TimerFires ==
    /\ \E t \in armed : Enqueue(Signal(t.x), t.n) /\ armed' = armed \ {t}
    /\ UNCHANGED <<core, last, early, loop, effects, worker, waiting, tasks, remote, audio, player, mic, made, inputs>>

\* The status, the ring and the power are handed on.
TakeOther ==
    /\ Takes({"PutStatus", "SetStatusLed", "Reboot", "PowerOff", "NoEffect"})
    /\ UNCHANGED <<core, last, early, loop, events, worker, tasks, remote, audio, player, mic, armed, made, inputs>>

\* A fetch, with a token of the present generation, or an upload.
TakeOperator ==
    /\ Takes(Fetches \cup {"UploadRecording"})
    /\ \E s \in Slots :
           /\ s = CHOOSE t \in Slots : tasks[t].at = "Free"
           /\ tasks' = [tasks EXCEPT ![s] = [Free EXCEPT !.at = "Asking", !.fx = Next1.x,
                                                         !.n = Next1.n, !.current = TRUE]]
    /\ UNCHANGED <<core, last, early, loop, events, worker, remote, audio, player, mic, armed, made, inputs>>

----------------------------------------------------------------------------
(* The operator tasks *)

Become(s, task) ==
    /\ tasks' = [tasks EXCEPT ![s] = task]
    /\ UNCHANGED <<core, last, early, loop, effects, worker, waiting, audio, player, mic, armed, made, inputs>>

\* What a clip means to the core, and what its absence means.
Ready(kind, clip) ==
    CASE kind = "FetchRandomQuestion" -> [ev |-> "QuestionReady", question |-> clip]
      [] kind = "FetchRandomMessage" -> Signal("MessageReady")
      [] kind = "FetchInstructions" -> Signal("InstructionsReady")
Failed(kind) ==
    CASE kind = "FetchRandomQuestion" -> Signal("QuestionFailed")
      [] kind = "FetchRandomMessage" -> Signal("MessageFailed")
      [] kind = "FetchInstructions" -> Signal("InstructionsFailed")

\* fetch_random_question and its like: an answer for an abandoned call is
\* dropped; otherwise the clip is stored, and then announced.
Answered(s) ==
    /\ tasks[s].at = "Asking" /\ tasks[s].fx.fx \in Fetches
    /\ IF ~tasks[s].current THEN Become(s, Free)
       ELSE \/ Become(s, [tasks[s] EXCEPT !.at = "Sending", !.event = Failed(tasks[s].fx.fx)])
            \/ \E clip \in IF tasks[s].fx.fx = "FetchRandomQuestion" THEN QuestionId ELSE {"Message"} :
                   Become(s, [tasks[s] EXCEPT !.at = "Storing", !.clip = clip,
                                              !.event = Ready(tasks[s].fx.fx, clip)])
    /\ UNCHANGED <<events, remote>>

Stores(s) ==
    /\ tasks[s].at = "Storing"
    /\ remote' = tasks[s].clip
    /\ Become(s, [tasks[s] EXCEPT !.at = "Sending"])
    /\ UNCHANGED events

\* send_upload_outcome, after whatever came of the upload.
Uploaded(s) ==
    /\ tasks[s].at = "Asking" /\ tasks[s].fx.fx = "UploadRecording"
    /\ \E o \in Outcome :
           Become(s, [tasks[s] EXCEPT !.at = "Sending",
                         !.event = [ev |-> "UploadFinished", recording |-> tasks[s].fx.recording,
                                    outcome |-> o]])
    /\ UNCHANGED <<events, remote>>

Announces(s) ==
    /\ tasks[s].at = "Sending"
    /\ Enqueue(tasks[s].event, tasks[s].n)
    /\ Become(s, Free)
    /\ UNCHANGED remote

----------------------------------------------------------------------------
(* audio_task *)

Played(p, rest) ==
    /\ player' = p /\ audio' = rest
    /\ UNCHANGED <<core, last, early, loop, effects, worker, waiting, tasks, remote, mic, armed, made, inputs>>

\* Mutated TakeCommand: with no end to wait for there is nothing to stop.
TakeCommandIdle ==
    /\ audio # <<>> /\ player.at \in {"Idle", "Playing"}
    /\ Played(IF Head(audio).x = "Stop" THEN (IF player.at = "Idle" THEN player ELSE Silent)
              ELSE [at |-> "Starting", sound |-> Head(audio).x, n |-> Head(audio).n], Tail(audio))
    /\ UNCHANGED events

\* A new command stops what is playing; starting may take a download.
TakeCommand ==
    /\ audio # <<>> /\ player.at \in {"Idle", "Playing"}
    /\ Played(IF Head(audio).x = "Stop" THEN Silent
              ELSE [at |-> "Starting", sound |-> Head(audio).x, n |-> Head(audio).n], Tail(audio))
    /\ UNCHANGED events

\* Mutated Starts: nobody waits for a clip that follows another.
StartsUnwatched ==
    /\ player.at = "Starting" /\ UNCHANGED events
    /\ \/ player.sound # NoClip /\ Played([player EXCEPT !.at = IF player.sound \in Tones \cup {"Beep"} THEN "Idle" ELSE "Playing"], audio)
       \/ Played([Silent EXCEPT !.sound = "Failed", !.n = player.n], audio)

\* The tones repeat, and nobody waits for their end.
Starts ==
    /\ player.at = "Starting" /\ UNCHANGED events
    /\ \/ player.sound # NoClip /\ Played([player EXCEPT !.at = IF player.sound \in Tones THEN "Idle" ELSE "Playing"], audio)
       \/ Played([Silent EXCEPT !.sound = "Failed", !.n = player.n], audio)

\* wait_for_end: the clip ends, or its stream fails and nothing is sent.
Ends ==
    /\ player.at = "Playing" /\ UNCHANGED events
    /\ \/ Played([player EXCEPT !.at = "Ended", !.sound = NoClip], audio)
       \/ Played([Silent EXCEPT !.sound = "Failed", !.n = player.n], audio)

Tells ==
    /\ player.at = "Ended"
    /\ Enqueue(Signal("PlaybackEnded"), player.n)
    /\ Played(Silent, audio)

----------------------------------------------------------------------------

MainLoop == Handle \/ SendRest
EffectTask ==
    \/ Defer \/ TakePlay \/ TakeStop \/ PassOn \/ TakeStart \/ TakeStopRecording
    \/ Finalized \/ Report \/ TakeTimer \/ TakeOther \/ TakeOperator
OperatorTasks == \E s \in Slots : Answered(s) \/ Stores(s) \/ Uploaded(s) \/ Announces(s)
AudioTask == TakeCommand \/ Starts \/ Ends \/ Tells

Next == Input \/ MainLoop \/ EffectTask \/ TimerFires \/ OperatorTasks \/ AudioTask \/ Restart

Spec == Init /\ [][Next]_vars

\* The tasks run, and systemd watches.
FairSpec ==
    /\ Spec
    /\ WF_vars(MainLoop) /\ WF_vars(EffectTask) /\ WF_vars(Restart)

----------------------------------------------------------------------------
(* Properties *)

\* What the recorder and its timer report is about the recording the core is
\* waiting for: queues in order, and a timer that is stopped before the next
\* call's sound can start, leave no room for an earlier one
\* (Effect::CancelRecordingTimeout, Effect::StopRecording).  A recording that began
\* early, on the end of an earlier clip, may overtake the reports of the last one.
RecorderIsHeardInTime ==
    events # <<>> /\ ~early =>
        LET e == Head(events) IN
        /\ e.x.ev = "RecordingTimedOut" /\ core.tag = "Recording" => e.n = last.timer
        /\ /\ e.x.ev \in {"RecordingFinished", "RecordingFailed"}
           /\ core.tag \in {"Recording", "FinishingRecording", "FinishingTimedOutRecording"}
           => e.n = last.record

WaitsForClip ==
    \/ core.tag \in {"RingingQuestion", "PlayingQuestion", "Beep", "RecordingEndedBeep",
                     "PlayingMessage", "PlayingInstructions", "CallUnavailable"}
    \/ core.tag = "UploadingTimedOut" /\ core.beep_pending

\* "The current playback finished naturally" (Event::PlaybackEnded): the end the
\* core hears of is that of the clip it is waiting for.
EndIsOwn ==
    events # <<>> /\ Head(events).x.ev = "PlaybackEnded" /\ WaitsForClip
        => Head(events).n = last.play

\* A fetch that was called off does not play "an abandoned clip to the next
\* caller" (FetchGeneration): the caller hears the question that is asked.
AskedIsHeard ==
    core.tag = "PlayingQuestion" /\ player.at = "Playing" /\ player.n = last.play
        => player.sound = core.question

Drained ==
    /\ loop = <<>> /\ events = <<>> /\ effects = <<>> /\ audio = <<>> /\ waiting = <<>>
    /\ worker = Resting /\ \A s \in Slots : tasks[s].at = "Free"
    /\ player.at \in {"Idle", "Playing"}

\* When every queue has run empty, an idle booth is silent, with no timer that
\* could act on the next caller, and deaf unless an answer began early.
IdleIsQuiet ==
    Drained /\ core.tag = "Idle" =>
        /\ player.sound \in {NoClip, "Failed"} /\ armed = {}
        /\ ~early => mic = 0

\* When every queue has run empty, what the core waits for is still under way:
\* the clip plays (or could not be played), the recorder runs with its timer;
\* no reply of recorder or uploader was lost.
WaitIsUnderWay ==
    Drained =>
        /\ WaitsForClip => player.at = "Playing" \/ player.sound = "Failed"
        /\ ~early => (core.tag = "Recording" <=> mic # 0)
        /\ core.tag = "Recording" <=> \E t \in armed : t.x = "RecordingTimedOut"
        /\ core.tag \notin {"FinishingRecording", "FinishingTimedOutRecording",
                           "Uploading", "UploadingTimedOut"}

\* "systemd stops seeing keepalives and restarts the process" (run_runtime): the
\* main loop and the effect task may wait for each other, but not for ever.
LoopComesBack == []<>(loop = <<>>)

\* When the queues have run empty nothing is left over from an earlier call, and nothing of
\* this one is lost.
QueuesSettle == TypeOK /\ IdleIsQuiet /\ WaitIsUnderWay
=============================================================================
