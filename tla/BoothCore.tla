------------------------------ MODULE BoothCore ------------------------------
(***************************************************************************)
(* The booth's call state machine, crates/booth-core/src/lib.rs: the pure  *)
(* function from (state, event, admission decision) to (next state,        *)
(* effects).  The operators carry the names of the Rust functions.         *)
(*                                                                         *)
(* A state is a record with one shape for all the variants of `State`; a   *)
(* field the variant does not carry has its blank value.  Error texts and  *)
(* log lines (`reason`, Effect::Log) carry no decision and are left out.   *)
(* An effect list is a sequence; NoEffect marks a place whose effect has   *)
(* been struck out of the list: nothing is done there.                     *)
(***************************************************************************)
EXTENDS Integers, Sequences

CONSTANTS
    QuestionId,   \* operator ids of questions
    RecordingId,  \* content-addressed ids of finished recordings
    None          \* no question, no recording

ASSUME NoneAssumption == None \notin QuestionId /\ None \notin RecordingId

MAX_PULSES_PER_DIGIT == 10

----------------------------------------------------------------------------
(* States *)

Tags ==
    {"CallsPaused", "Idle", "DialTone", "Dialing", "RingingQuestion",
     "PlayingQuestion", "Beep", "Recording", "FinishingTimedOutRecording",
     "FinishingRecording", "Uploading", "UploadingTimedOut",
     "RecordingEndedBeep", "PlayingMessage", "PlayingInstructions",
     "CallUnavailable", "Error"}

State ==
    [tag: Tags, pulses: 0..MAX_PULSES_PER_DIGIT,
     question: QuestionId \cup {None}, recording: RecordingId \cup {None},
     on_hook: BOOLEAN, beep_pending: BOOLEAN]

\* t{pulses: n, question_id: q, recording_id: r, on_hook: h, beep_pending: b}
Variant(t, n, q, r, h, b) ==
    [tag |-> t, pulses |-> n, question |-> q, recording |-> r,
     on_hook |-> h, beep_pending |-> b]

Plain(t) == Variant(t, 0, None, None, FALSE, FALSE)
CallsPaused(h) == Variant("CallsPaused", 0, None, None, h, FALSE)
Dialing(n) == Variant("Dialing", n, None, None, FALSE, FALSE)

\* RingingQuestion, PlayingQuestion, Beep and Recording carry the question.
Asking(t, q) == Variant(t, 0, q, None, FALSE, FALSE)

\* FinishingRecording and FinishingTimedOutRecording.
Finishing(t, q, h) == Variant(t, 0, q, None, h, FALSE)

Uploading(q, r, h) == Variant("Uploading", 0, q, r, h, FALSE)
UploadingTimedOut(q, r, b) == Variant("UploadingTimedOut", 0, q, r, FALSE, b)

\* The fields a variant carries; the others are blank.
CarriesQuestion(t) ==
    t \in {"RingingQuestion", "PlayingQuestion", "Beep", "Recording", "FinishingRecording",
           "FinishingTimedOutRecording", "Uploading", "UploadingTimedOut"}
CarriesRecording(t) == t \in {"Uploading", "UploadingTimedOut"}
CarriesHook(t) ==
    t \in {"CallsPaused", "FinishingRecording", "FinishingTimedOutRecording", "Uploading"}

WellFormed(s) ==
    /\ s \in State
    /\ CarriesQuestion(s.tag) => s.question \in QuestionId
    /\ CarriesRecording(s.tag) => s.recording \in RecordingId
    /\ ~CarriesHook(s.tag) => ~s.on_hook
    /\ s.tag # "UploadingTimedOut" => ~s.beep_pending
    /\ s.tag = "Dialing" => s.pulses \in 1..MAX_PULSES_PER_DIGIT

\* State::status: what the booth advertises to the operator.
status(s) ==
    CASE s.tag \in {"Idle", "CallsPaused", "Error"} -> "Idle"
      [] s.tag \in {"DialTone", "Dialing"} -> "DialTone"
      [] s.tag \in {"RingingQuestion", "PlayingQuestion", "Beep"} -> "PlayingQuestion"
      [] s.tag \in {"FinishingRecording", "FinishingTimedOutRecording", "Uploading",
                    "UploadingTimedOut", "RecordingEndedBeep"} -> "Uploading"
      [] s.tag \in {"Recording", "PlayingMessage", "PlayingInstructions",
                    "CallUnavailable"} -> s.tag

\* status_led_for: the colour and animation of the ring for a state.
status_led_for(s) ==
    CASE s.tag = "CallsPaused" -> <<"Blue", "Dim">>
      [] s.tag = "Idle" -> <<"Green", "Dim">>
      [] s.tag \in {"DialTone", "Dialing"} -> <<"Green", "Full">>
      [] s.tag \in {"RingingQuestion", "PlayingQuestion", "PlayingMessage",
                    "PlayingInstructions", "CallUnavailable"} -> <<"Blue", "Full">>
      [] \/ s.tag \in {"Beep", "Recording", "RecordingEndedBeep"}
         \/ s.tag = "UploadingTimedOut" /\ s.beep_pending -> <<"Red", "Full">>
      [] \/ s.tag \in {"FinishingRecording", "FinishingTimedOutRecording", "Uploading"}
         \/ s.tag = "UploadingTimedOut" /\ ~s.beep_pending -> <<"Blue", "FastBlink">>
      [] s.tag = "Error" -> <<"Red", "FastBlink">>

----------------------------------------------------------------------------
(* Events and effects *)

\* How an upload attempt ended; UploadFinished carries one of them and a recording.
Outcome == {"UploadComplete", "UploadDeferred", "UploadFailed"}

Signals ==
    {"HookOn", "HookOff", "RotaryPulse", "PlaybackEnded", "RecordingTimedOut",
     "RecordingFailed", "QuestionFailed", "MessageReady", "MessageFailed",
     "InstructionsReady", "InstructionsFailed", "Tick", "PowerButtonPressed",
     "PowerButtonHeld"} \cup Outcome

\* A digit above 9 is invalid; 10 stands for all of them.
Event ==
         [ev: Signals]
    \cup [ev: {"DigitDialed"}, digit: 0..10]
    \cup [ev: {"QuestionReady"}, question: QuestionId]
    \cup [ev: {"RecordingFinished"}, recording: RecordingId]
    \cup [ev: {"UploadFinished"}, recording: RecordingId, outcome: Outcome]

Signal(k) == [ev |-> k]

\* AudioRef::RemoteUrl("", None): the clip the runtime fetched last.
RemoteAudio == "Remote"

AudioRef == {"DialTone", "Ringback", "Beep", "LineBusy", "CallUnavailable", RemoteAudio}
BoothStatus == {"Idle", "DialTone", "PlayingQuestion", "Recording", "Uploading",
                "PlayingMessage", "PlayingInstructions", "CallUnavailable"}
Led == {"Blue", "Green", "Red"} \X {"Dim", "Full", "FastBlink"}

Commands ==
    {"StopAudio", "ArmPulseTimeout", "CancelPulseTimeout", "StartRecording",
     "ArmRecordingTimeout", "CancelRecordingTimeout", "StopRecording",
     "FetchRandomQuestion", "FetchRandomMessage", "FetchInstructions", "Reboot", "PowerOff",
     "NoEffect"}

Effect ==
         [fx: Commands]
    \cup [fx: {"Play"}, audio: AudioRef]
    \cup [fx: {"PutStatus"}, status: BoothStatus]
    \cup [fx: {"UploadRecording"}, recording: RecordingId, question: QuestionId]
    \cup [fx: {"SetStatusLed"}, led: Led]

Command(k) == [fx |-> k]
Play(a) == [fx |-> "Play", audio |-> a]
PutStatus(b) == [fx |-> "PutStatus", status |-> b]
UploadRecording(r, q) == [fx |-> "UploadRecording", recording |-> r, question |-> q]
SetStatusLed(led) == [fx |-> "SetStatusLed", led |-> led]
NoEffect == Command("NoEffect")

StopAudio == Command("StopAudio")
CancelPulseTimeout == Command("CancelPulseTimeout")
CancelRecordingTimeout == Command("CancelRecordingTimeout")
StopRecording == Command("StopRecording")

To(s, effects) == [state |-> s, effects |-> effects]

----------------------------------------------------------------------------
(* handle_inner, one operator per part of the call *)

ToDialTone == To(Plain("DialTone"), <<Play("DialTone"), PutStatus("DialTone")>>)
\* Mutated ToIdle: the return to Idle is not advertised.
ToIdleUnadvertised == To(Plain("Idle"), <<>>)

ToIdle == To(Plain("Idle"), <<PutStatus("Idle")>>)
ToBusyTone == To(Plain("Error"), <<Play("LineBusy")>>)

\* Mutated HangUp: an answer being recorded is no exception.
HangUpAlways(s) ==
    To(Plain("Idle"), <<StopAudio, CancelPulseTimeout, CancelRecordingTimeout, PutStatus("Idle")>>)

\* HookOn resets every state to Idle, except that an answer being recorded is
\* finalized and one being finalized is waited for.
HangUp(s) ==
    CASE s.tag = "Recording" ->
             To(Finishing("FinishingRecording", s.question, TRUE),
                <<StopAudio, CancelRecordingTimeout, StopRecording,
                  CancelPulseTimeout, PutStatus("Uploading")>>)
      [] s.tag = "FinishingRecording" ->
             To([s EXCEPT !.on_hook = TRUE], <<StopAudio, CancelPulseTimeout>>)
      [] s.tag = "FinishingTimedOutRecording" ->
             To([s EXCEPT !.on_hook = TRUE],
                <<StopAudio, CancelRecordingTimeout, CancelPulseTimeout>>)
      [] OTHER ->
             To(Plain("Idle"), <<StopAudio, CancelPulseTimeout,
                                 CancelRecordingTimeout, PutStatus("Idle")>>)

\* Digits 0, 1 and 2 stay in DialTone until the operator answers.
decode_digit(d) ==
    CASE d = 0 -> To(Plain("DialTone"), <<Command("FetchInstructions"), CancelPulseTimeout>>)
      [] d = 1 -> To(Plain("DialTone"), <<Command("FetchRandomQuestion"), CancelPulseTimeout>>)
      [] d = 2 -> To(Plain("DialTone"), <<Command("FetchRandomMessage"), CancelPulseTimeout>>)
      [] d \in 3..9 -> To(Plain("CallUnavailable"),
                          <<Play("CallUnavailable"), CancelPulseTimeout,
                            PutStatus("CallUnavailable")>>)
      [] d > 9 -> ToBusyTone

\* Mutated CountPulse: off by one.
CountPulseOffByOne(s) ==
    IF s.pulses > MAX_PULSES_PER_DIGIT
    THEN To(Plain("DialTone"), <<Play("DialTone"), CancelPulseTimeout>>)
    ELSE To(Dialing(s.pulses + 1), <<Command("ArmPulseTimeout")>>)

\* Mutated CountPulse: the timer of a discarded group keeps running.
CountPulseKeepingTimer(s) ==
    IF s.pulses + 1 > MAX_PULSES_PER_DIGIT THEN ToDialTone
    ELSE To(Dialing(s.pulses + 1), <<Command("ArmPulseTimeout")>>)

\* One more pulse in the group; the eleventh discards the group.
CountPulse(s) ==
    IF s.pulses + 1 > MAX_PULSES_PER_DIGIT
    THEN To(Plain("DialTone"), <<Play("DialTone"), CancelPulseTimeout>>)
    ELSE To(Dialing(s.pulses + 1), <<Command("ArmPulseTimeout")>>)

\* DialTone and Dialing: pulses, digits and the operator's answers.
WhileDialing(s, e) ==
    CASE e.ev = "DigitDialed" -> decode_digit(e.digit)
      [] e.ev = "RotaryPulse" /\ s.tag = "DialTone" ->
             To(Dialing(1), <<StopAudio, Command("ArmPulseTimeout")>>)
      [] e.ev = "RotaryPulse" /\ s.tag = "Dialing" -> CountPulse(s)
      [] e.ev = "Tick" /\ s.tag = "Dialing" ->
             decode_digit(IF s.pulses = 10 THEN 0 ELSE s.pulses)
      [] e.ev = "QuestionReady" /\ s.tag = "DialTone" ->
             To(Asking("RingingQuestion", e.question),
                <<Play("Ringback"), PutStatus("PlayingQuestion")>>)
      [] e.ev = "MessageReady" /\ s.tag = "DialTone" ->
             To(Plain("PlayingMessage"), <<Play(RemoteAudio), PutStatus("PlayingMessage")>>)
      [] e.ev = "InstructionsReady" /\ s.tag = "DialTone" ->
             To(Plain("PlayingInstructions"),
                <<Play(RemoteAudio), PutStatus("PlayingInstructions")>>)
      [] /\ e.ev \in {"QuestionFailed", "MessageFailed", "InstructionsFailed"}
         /\ s.tag = "DialTone" -> ToBusyTone
      [] OTHER -> To(s, <<>>)

\* The states that wait for PlaybackEnded.
WhilePlaying(s, e) ==
    IF e.ev # "PlaybackEnded" THEN To(s, <<>>)
    ELSE CASE s.tag = "RingingQuestion" ->
                  To(Asking("PlayingQuestion", s.question),
                     <<Play(RemoteAudio), PutStatus("PlayingQuestion")>>)
           [] s.tag = "PlayingQuestion" ->
                  To(Asking("Beep", s.question),
                     <<Play("Beep"), PutStatus("PlayingQuestion")>>)
           [] s.tag = "Beep" ->
                  To(Asking("Recording", s.question),
                     <<Command("StartRecording"), Command("ArmRecordingTimeout"),
                       PutStatus("Recording")>>)
           [] OTHER -> ToDialTone

\* Mutated EndBeep: the beep that is waited for is never started.
EndBeepUnheard(s, r, before) ==
    To(UploadingTimedOut(s.question, r, TRUE),
       before \o <<UploadRecording(r, s.question), PutStatus("Uploading")>>)

\* The answer is finalized while the caller is still listening for the beep.
EndBeep(s, r, before) ==
    To(UploadingTimedOut(s.question, r, TRUE),
       before \o <<Play("Beep"), UploadRecording(r, s.question), PutStatus("Uploading")>>)

WhileRecording(s, e) ==
    CASE e.ev = "RecordingTimedOut" ->
             To(Finishing("FinishingTimedOutRecording", s.question, FALSE),
                <<CancelRecordingTimeout, StopRecording, PutStatus("Uploading")>>)
      [] e.ev = "RecordingFinished" -> EndBeep(s, e.recording, <<CancelRecordingTimeout>>)
      [] e.ev = "RecordingFailed" ->
             To(Plain("Error"),
                <<Play("LineBusy"), CancelRecordingTimeout, PutStatus("Idle")>>)
      [] OTHER -> To(s, <<>>)

\* Mutated WhileFinishing: a recorder that fails is not answered.
WhileFinishingUnfailing(s, e) ==
    CASE e.ev = "HookOff" -> To([s EXCEPT !.on_hook = FALSE], <<>>)
      [] e.ev = "RecordingFinished" ->
             To(Uploading(s.question, e.recording, s.on_hook),
                <<UploadRecording(e.recording, s.question), PutStatus("Uploading")>>)
      [] OTHER -> To(s, <<>>)

\* FinishingRecording and FinishingTimedOutRecording.
WhileFinishing(s, e) ==
    CASE e.ev = "HookOff" -> To([s EXCEPT !.on_hook = FALSE], <<>>)
      [] e.ev = "RecordingFinished" ->
             IF s.tag = "FinishingTimedOutRecording" /\ ~s.on_hook
             THEN EndBeep(s, e.recording, <<>>)
             ELSE To(Uploading(s.question, e.recording, s.on_hook),
                     <<UploadRecording(e.recording, s.question), PutStatus("Uploading")>>)
      [] e.ev = "RecordingFailed" ->
             IF s.on_hook THEN To(Plain("Idle"), <<StopAudio, PutStatus("Idle")>>)
             ELSE ToDialTone
      [] OTHER -> To(s, <<>>)

\* Mutated WhileUploading: a caller who lifts again is not noticed.
WhileUploadingDeaf(s, e) ==
    CASE e.ev \in {"UploadComplete", "UploadDeferred"} ->
             IF s.on_hook THEN ToIdle ELSE ToDialTone
      [] e.ev = "UploadFailed" -> IF s.on_hook THEN ToIdle ELSE ToBusyTone
      [] OTHER -> To(s, <<>>)

WhileUploading(s, e) ==
    CASE e.ev = "HookOff" -> To([s EXCEPT !.on_hook = FALSE], <<>>)
      [] e.ev \in {"UploadComplete", "UploadDeferred"} ->
             IF s.on_hook THEN ToIdle ELSE ToDialTone
      [] e.ev = "UploadFailed" -> IF s.on_hook THEN ToIdle ELSE ToBusyTone
      [] OTHER -> To(s, <<>>)

WhileUploadingTimedOut(s, e) ==
    CASE e.ev = "PlaybackEnded" -> To([s EXCEPT !.beep_pending = FALSE], <<>>)
      [] e.ev \in {"UploadComplete", "UploadDeferred"} ->
             IF s.beep_pending THEN To(Plain("RecordingEndedBeep"), <<>>) ELSE ToDialTone
      [] e.ev = "UploadFailed" -> ToBusyTone
      [] OTHER -> To(s, <<>>)

handle_inner(s, e) ==
    CASE e.ev = "HookOn" -> HangUp(s)
      [] e.ev = "PowerButtonPressed" -> To(s, <<Command("Reboot")>>)
      [] e.ev = "PowerButtonHeld" -> To(s, <<Command("PowerOff")>>)
      [] e.ev \notin {"HookOn", "PowerButtonPressed", "PowerButtonHeld"} ->
             CASE s.tag = "Idle" -> IF e.ev = "HookOff" THEN ToDialTone ELSE To(s, <<>>)
               [] s.tag \in {"DialTone", "Dialing"} -> WhileDialing(s, e)
               [] s.tag \in {"RingingQuestion", "PlayingQuestion", "Beep",
                             "RecordingEndedBeep", "PlayingMessage",
                             "PlayingInstructions", "CallUnavailable"} -> WhilePlaying(s, e)
               [] s.tag = "Recording" -> WhileRecording(s, e)
               [] s.tag \in {"FinishingRecording", "FinishingTimedOutRecording"} ->
                      WhileFinishing(s, e)
               [] s.tag = "Uploading" -> WhileUploading(s, e)
               [] s.tag = "UploadingTimedOut" -> WhileUploadingTimedOut(s, e)
               [] OTHER -> To(s, <<>>)

----------------------------------------------------------------------------
(* Call admission *)

\* Mutated Protected: a timed out answer is not yet with the operator.
ProtectedWhenUploading(s) ==
    s.tag \in {"Recording", "FinishingRecording", "Uploading", "UploadingTimedOut"}

\* States that a pause leaves alone: an answer is on its way to the operator.
Protected(s) ==
    s.tag \in {"Recording", "FinishingRecording", "FinishingTimedOutRecording",
               "Uploading", "UploadingTimedOut"}

\* Where the core takes the handset to be in state s, and after event e.
OnHook(s) == s.tag = "Idle" \/ s.on_hook

HookAfter(s, e) ==
    CASE e.ev = "HookOn" -> TRUE
      [] e.ev = "HookOff" -> FALSE
      [] OTHER -> OnHook(s)

Then(first, second) == To(second.state, first.effects \o second.effects)

\* CallsPaused and calls are admitted: resume where the handset is, and take
\* the first dial input of a caller who is already dialing.
Resume(s, e) ==
    IF HookAfter(s, e) THEN ToIdle
    ELSE IF e.ev \in {"RotaryPulse", "DigitDialed"}
    THEN Then(ToDialTone, handle_inner(Plain("DialTone"), e))
    ELSE ToDialTone

\* Mutated Muted: prompts that need no network still play.
MutedStatus(effects) ==
    [i \in DOMAIN effects |->
        IF effects[i].fx = "PutStatus" THEN NoEffect ELSE effects[i]]

\* Struck out of what a paused booth does: nothing is played or advertised.
Muted(effects) ==
    [i \in DOMAIN effects |->
        IF effects[i].fx \in {"PutStatus", "Play"} THEN NoEffect ELSE effects[i]]

WithoutBeep(s) == IF s.tag = "UploadingTimedOut" THEN [s EXCEPT !.beep_pending = FALSE] ELSE s

\* Mutated Silence: what is playing plays on.
SilenceLater == <<CancelPulseTimeout>>

Silence == <<StopAudio, CancelPulseTimeout>>

\* The step `inner` of an answer under way, without a sound.
Quietly(s, e, inner) ==
    LET beepCut == WithoutBeep(s) # s \/ WithoutBeep(inner.state) # inner.state
        effects == (IF beepCut THEN <<StopAudio>> ELSE <<>>) \o Muted(inner.effects)
    IN IF Protected(inner.state)
       THEN To(WithoutBeep(inner.state), effects)
       ELSE To(CallsPaused(HookAfter(s, e)), effects \o Silence)

\* Calls are not admitted: everything becomes CallsPaused, except that an
\* answer under way is followed to its end.
Paused(s, e) ==
    IF ~Protected(s)
    THEN To(CallsPaused(HookAfter(s, e)), IF s.tag = "CallsPaused" THEN <<>> ELSE Silence)
    ELSE Quietly(s, e, handle_inner(WithoutBeep(s), e))

\* Mutated Stale: any result will do.
StaleByState(s, e) ==
    e.ev = "UploadFinished" /\ s.tag \notin {"Uploading", "UploadingTimedOut"}

\* An upload result counts only for the recording the call is waiting for.
Stale(s, e) ==
    /\ e.ev = "UploadFinished"
    /\ ~(s.tag \in {"Uploading", "UploadingTimedOut"} /\ s.recording = e.recording)

handle_available(s, e, accepting) ==
    LET event == IF e.ev = "UploadFinished" THEN Signal(e.outcome) ELSE e
    IN CASE Stale(s, e) -> To(s, <<>>)
         [] e.ev \in {"PowerButtonPressed", "PowerButtonHeld"} -> handle_inner(s, e)
         [] ~Stale(s, e) /\ e.ev \notin {"PowerButtonPressed", "PowerButtonHeld"} ->
                IF ~accepting THEN Paused(s, event)
                ELSE IF s.tag = "CallsPaused" THEN Resume(s, event)
                ELSE handle_inner(s, event)

\* The ring changes before anything that may take long.
LedFirst(s, step) ==
    IF status_led_for(step.state) = status_led_for(s) THEN step
    ELSE To(step.state, <<SetStatusLed(status_led_for(step.state))>> \o step.effects)

\* The entry point of the core.
handle_with_call_availability(s, e, accepting) ==
    LedFirst(s, handle_available(s, e, accepting))
=============================================================================
