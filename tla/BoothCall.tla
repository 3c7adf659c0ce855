------------------------------ MODULE BoothCall ------------------------------
(***************************************************************************)
(* The booth as its caller meets it: the core of BoothCore driven by the   *)
(* main loop, with the devices its effects command (the handset's sound,   *)
(* the recorder, the timers), what it hands on (answers to upload, the     *)
(* advertised status) and the replies that come back.  Here the effects of *)
(* a step are carried out before the next event is taken; a reply may come *)
(* late, after what it replies to has been cancelled.                      *)
(***************************************************************************)
EXTENDS BoothCore

VARIABLES
    core,        \* State of the state machine
    accepting,   \* InstallationGate::accepting_calls at this moment
    known,       \* the main loop's own copy, from the last change it was told of
    device,      \* the sound, the recorder and the timers
    uploads,     \* recordings whose upload outcome is still to come
    advertised,  \* the status last put to the operator
    hook,        \* the last hook event was HookOn (history)
    finished,    \* what the recorder produced, with the question it was started for (history)
    handed       \* what was handed to the uploader, with the question it answers (history)

vars == <<core, accepting, known, device, uploads, advertised, hook, finished, handed>>

\* Clips end by themselves; the dial tone and the busy tone repeat until stopped.
Clips == {"Ringback", "Beep", "CallUnavailable", RemoteAudio}
Tones == {"DialTone", "LineBusy"}
Timers == {"Pulse", "Recording"}
Answer == RecordingId \X QuestionId

\* audio: what plays; "Failed" for a clip that could not be played.
\* mic, asked: the recorder, and the question it was last started for.
\* failures: RecordingFailed replies still owed.  armed: the running timers.
Device ==
    [audio: Clips \cup Tones \cup {"Silent", "Failed"},
     mic: {"Off", "On", "Stopping"}, asked: QuestionId \cup {None},
     failures: 0..2, armed: SUBSET Timers]

TypeOK ==
    /\ WellFormed(core)
    /\ accepting \in BOOLEAN /\ known \in BOOLEAN /\ hook \in BOOLEAN
    /\ device \in Device
    /\ uploads \subseteq RecordingId
    /\ advertised \in BoothStatus \cup {"Unknown"}
    /\ finished \subseteq Answer /\ handed \subseteq Answer

----------------------------------------------------------------------------
(* Carrying out the effects of a step, in their order *)

Has(effects, kind) == \E i \in DOMAIN effects : effects[i].fx = kind

\* The last effect of the given kinds decides; NoEffect if there is none.
LastOf(effects, kinds) ==
    LET places == {i \in DOMAIN effects : effects[i].fx \in kinds}
    IN IF places = {} THEN NoEffect
       ELSE effects[CHOOSE i \in places : \A j \in places : j <= i]

AudioAfter(effects, audio) ==
    LET last == LastOf(effects, {"Play", "StopAudio"})
    IN CASE last.fx = "Play" -> last.audio
         [] last.fx = "StopAudio" -> "Silent"
         [] OTHER -> audio

ArmedAfter(effects, armed) ==
    LET pulse == LastOf(effects, {"ArmPulseTimeout", "CancelPulseTimeout"}).fx
        recording == LastOf(effects, {"ArmRecordingTimeout", "CancelRecordingTimeout"}).fx
    IN {t \in Timers :
          \/ t = "Pulse" /\ pulse = "ArmPulseTimeout"
          \/ t = "Recording" /\ recording = "ArmRecordingTimeout"
          \/ t \in armed /\ NoEffect.fx = (IF t = "Pulse" THEN pulse ELSE recording)}

\* Starting the recorder may fail, and then stopping it finds nothing to stop;
\* either way the core is owed a RecordingFailed.
MicAfter(effects, question, d) ==
    LET failing == [d EXCEPT !.failures = d.failures + 1]
    IN IF Has(effects, "StartRecording")
       THEN {[d EXCEPT !.mic = "On", !.asked = question], failing}
       ELSE IF Has(effects, "StopRecording")
       THEN {IF d.mic = "On" THEN [d EXCEPT !.mic = "Stopping"] ELSE failing}
       ELSE {d}

DeviceAfter(effects, question, d) ==
    {[m EXCEPT !.audio = AudioAfter(effects, d.audio),
               !.armed = ArmedAfter(effects, d.armed)] : m \in MicAfter(effects, question, d)}

HandedBy(effects) ==
    {<<effects[i].recording, effects[i].question>> :
        i \in {j \in DOMAIN effects : effects[j].fx = "UploadRecording"}}

\* The state and the effects of a step that took event e become those of the
\* booth, whose devices were left in state d when e came from them.
CarryOut(step, e, d) ==
    LET fresh == HandedBy(step.effects)
        put == LastOf(step.effects, {"PutStatus"})
    IN /\ core' = step.state
       /\ device' \in DeviceAfter(step.effects, step.state.question, d)
       /\ handed' = handed \cup fresh
       /\ uploads' = (IF e.ev = "UploadFinished" THEN uploads \ {e.recording} ELSE uploads)
                        \cup {a[1] : a \in fresh}
       /\ advertised' = IF put = NoEffect THEN advertised ELSE put.status

\* The main loop takes event e.
Take(e, d) == CarryOut(handle_with_call_availability(core, e, accepting), e, d)

----------------------------------------------------------------------------
(* Events *)

\* A booth that starts with the handset lifted hears of it at once.
Init ==
    /\ hook \in BOOLEAN
    /\ accepting \in BOOLEAN
    /\ known = accepting
    /\ core = IF ~accepting THEN CallsPaused(hook)
              ELSE IF hook THEN Plain("Idle") ELSE Plain("DialTone")
    /\ device = [audio |-> IF accepting /\ ~hook THEN "DialTone" ELSE "Silent",
                 mic |-> "Off", asked |-> None, failures |-> 0, armed |-> {}]
    /\ advertised = IF accepting /\ ~hook THEN "DialTone" ELSE "Unknown"
    /\ uploads = {} /\ finished = {} /\ handed = {}

\* A hook edge, or a repeated one: the GPIO task's reconciliation may repeat it.
Hook(on) ==
    /\ hook' = on
    /\ Take(Signal(IF on THEN "HookOn" ELSE "HookOff"), device)
    /\ UNCHANGED <<accepting, known, finished>>

\* The dial, the power button and the debug surface.
Input(e) ==
    /\ e.ev \in {"RotaryPulse", "DigitDialed", "PowerButtonPressed", "PowerButtonHeld"}
    /\ Take(e, device)
    /\ UNCHANGED <<accepting, known, hook, finished>>

\* The operator's answer to a fetch; a fetch of an abandoned call may answer too.
OperatorAnswers(e) ==
    /\ e.ev \in {"QuestionReady", "QuestionFailed", "MessageReady", "MessageFailed",
                 "InstructionsReady", "InstructionsFailed"}
    /\ Take(e, device)
    /\ UNCHANGED <<accepting, known, hook, finished>>

TimerFires(t) ==
    /\ t \in device.armed
    /\ Take(Signal(IF t = "Pulse" THEN "Tick" ELSE "RecordingTimedOut"),
            [device EXCEPT !.armed = @ \ {t}])
    /\ UNCHANGED <<accepting, known, hook, finished>>

\* The effect task reports a recorder failure before it passes on the next
\* Play, so a clip that ends was started after the reply.
PlaybackEnds ==
    /\ device.audio \in Clips
    /\ device.failures = 0
    /\ Take(Signal("PlaybackEnded"), [device EXCEPT !.audio = "Silent"])
    /\ UNCHANGED <<accepting, known, hook, finished>>

\* A clip that cannot be fetched, decoded or played ends without an event.
PlaybackFails ==
    /\ device.audio \in Clips
    /\ device' = [device EXCEPT !.audio = "Failed"]
    /\ UNCHANGED <<core, accepting, known, uploads, advertised, hook, finished, handed>>

\* A reply that was already queued when its timer or its clip was cancelled.
LateReply(e) ==
    /\ \/ e.ev \in {"Tick", "RecordingTimedOut"}
       \/ e.ev = "PlaybackEnded" /\ device.failures = 0
    /\ Take(e, device)
    /\ UNCHANGED <<accepting, known, hook, finished>>

RecorderFinishes(r) ==
    /\ device.mic = "Stopping"
    /\ r \notin uploads
    /\ finished' = finished \cup {<<r, device.asked>>}
    /\ Take([ev |-> "RecordingFinished", recording |-> r], [device EXCEPT !.mic = "Off"])
    /\ UNCHANGED <<accepting, known, hook>>

\* The recording cannot be finalized.
RecorderCannotFinish ==
    /\ device.mic = "Stopping"
    /\ Take(Signal("RecordingFailed"), [device EXCEPT !.mic = "Off"])
    /\ UNCHANGED <<accepting, known, hook, finished>>

\* The recorder could not be started, or there was nothing to stop.
RecorderReportsFailure ==
    /\ device.failures > 0
    /\ Take(Signal("RecordingFailed"), [device EXCEPT !.failures = @ - 1])
    /\ UNCHANGED <<accepting, known, hook, finished>>

UploadEnds(r, outcome) ==
    /\ r \in uploads
    /\ Take([ev |-> "UploadFinished", recording |-> r, outcome |-> outcome], device)
    /\ UNCHANGED <<accepting, known, hook, finished>>

\* The installation gate opens or closes; a lease that runs out tells nobody.
AdmissionMoves ==
    /\ accepting' = ~accepting
    /\ UNCHANGED <<core, known, device, uploads, advertised, hook, finished, handed>>

\* The main loop hears of a change.
AdmissionNotified ==
    /\ accepting # known \/ (accepting /\ core.tag = "CallsPaused")
    /\ known' = accepting
    /\ Take(Signal("Tick"), device)
    /\ UNCHANGED <<accepting, hook, finished>>

RecorderReplies ==
    (\E r \in RecordingId : RecorderFinishes(r)) \/ RecorderCannotFinish \/ RecorderReportsFailure

Next ==
    \/ \E on \in BOOLEAN : Hook(on)
    \/ \E e \in Event : Input(e) \/ OperatorAnswers(e) \/ LateReply(e)
    \/ \E t \in Timers : TimerFires(t)
    \/ PlaybackEnds \/ PlaybackFails
    \/ RecorderReplies
    \/ \E r \in RecordingId, outcome \in Outcome : UploadEnds(r, outcome)
    \/ AdmissionMoves \/ AdmissionNotified

\* Clips end, the recorder and the uploader reply, the main loop polls the gate.
Fairness ==
    /\ WF_vars(PlaybackEnds)
    /\ WF_vars(RecorderReplies)
    /\ \A r \in RecordingId : WF_vars(\E outcome \in Outcome : UploadEnds(r, outcome))
    /\ WF_vars(TimerFires("Recording"))

Spec == Init /\ [][Next]_vars
FairSpec == Spec /\ Fairness
----------------------------------------------------------------------------
(* Properties *)

\* The core always knows where the handset is: what its state says of the hook
\* is the last hook event, through every pause, resumption and late reply.
HookIsKnown == OnHook(core) = hook

\* The microphone is open only while the caller holds the handset and has been
\* asked a question: StartRecording and StopRecording are never out of step
\* with the handset (handle_inner, Effect::StopRecording).
MicrophoneOnlyWhileAnswering ==
    device.mic = "On" => core.tag = "Recording" /\ ~hook /\ core.question = device.asked

\* "A full reset of the booth's outputs": nothing plays to an empty booth, nor
\* while calls are paused.
SilentWithoutCaller ==
    hook \/ core.tag = "CallsPaused" => device.audio \in {"Silent", "Failed"}

\* No answer is dropped or filed under another question: what the recorder
\* finished is exactly what was handed to the uploader, whether the caller hung
\* up, lifted again, ran out of time or was paused meanwhile.
EveryAnswerHandedOver == finished = handed

Finishes(s) == s.tag \in {"FinishingRecording", "FinishingTimedOutRecording"}

WaitsForClip(s) ==
    \/ s.tag \in {"RingingQuestion", "PlayingQuestion", "Beep", "RecordingEndedBeep",
                  "PlayingMessage", "PlayingInstructions", "CallUnavailable"}
    \/ s.tag = "UploadingTimedOut" /\ s.beep_pending

\* What each state waits for is under way: a clip that plays (unless it could
\* not be played), a recorder that owes a reply, a timer that limits the
\* recording, an upload that will end.
WaitIsAnswered ==
    /\ WaitsForClip(core) => device.audio \in Clips \cup {"Failed"}
    /\ core.tag = "Recording" => device.mic = "On" \/ device.failures > 0
    /\ device.mic = "On" => "Recording" \in device.armed
    /\ Finishes(core) => device.mic = "Stopping" \/ device.failures > 0
    /\ core.tag \in {"Uploading", "UploadingTimedOut"} => core.recording \in uploads

\* No timer outlives what it times: one left running would end the next
\* caller's recording or close the next caller's pulse group.
TimersBelongToState ==
    /\ "Recording" \in device.armed => core.tag = "Recording"
    /\ "Pulse" \in device.armed => core.tag \in {"Dialing", "Error"}

\* Outside a pause, an error and an answer under way, the operator was last
\* told the status of the state the booth is in (Effect::PutStatus).
StatusIsCurrent ==
    core.tag \notin {"CallsPaused", "Error"} /\ ~Protected(core)
        => advertised \in {status(core), "Unknown"}

\* While calls are not admitted no step starts a sound, "including cached prompts".
NothingPlayedWhilePaused ==
    [][~accepting /\ device'.audio # device.audio
           => device'.audio \in {"Silent", "Failed"}]_vars

\* "Results for an abandoned call must not advance a later caller's upload
\* state" (Event::UploadFinished): with the handset lifted, the booth stops
\* waiting for an upload only when that very upload has ended.
OnlyOwnUploadEnds ==
    [][core.tag \in {"Uploading", "UploadingTimedOut"} /\ ~hook'
           /\ core'.tag \notin {"Uploading", "UploadingTimedOut"}
           => core.recording \notin uploads']_vars

\* Tick is "used (only) to time out pulse groups": the Tick that tells the core
\* of a change of admission does not cut a digit short.
AdmissionNeverClosesPulseGroup ==
    [][known' # known /\ core.tag = "Dialing"
           => core'.tag \in {"Dialing", "CallsPaused"}]_vars

\* The booth never waits for ever: from every state it comes back to one in
\* which the caller or the operator has the next move, unless a clip failed.
NeverWaitsForEver ==
    []<>(\/ core.tag \in {"Idle", "DialTone", "Dialing", "Error", "CallsPaused"}
         \/ device.audio = "Failed")

\* The call of a caller who hung up ends, however the recorder and the
\* uploader reply: the next caller finds an idle booth (HookOn, on_hook).
HungUpCallEnds ==
    (hook /\ core.tag \notin {"Idle", "CallsPaused"})
        ~> (core.tag \in {"Idle", "CallsPaused"} \/ ~hook)

\* What the booth commands agrees with where its core stands, whoever moved first: the
\* handset, the sound, the timers and the last status.
OutputsFollowState ==
    /\ TypeOK /\ HookIsKnown /\ SilentWithoutCaller /\ TimersBelongToState /\ StatusIsCurrent

\* Every call moves on: towards the caller's next move, or to its end.
CallMovesOn == NeverWaitsForEver /\ HungUpCallEnds
=============================================================================
