----------------------------- MODULE CallSessions -----------------------------
(***************************************************************************)
(* What the operator is told of a call: the session tracker of             *)
(* crates/booth-bin/src/observability.rs, which hears of the transitions   *)
(* that handle_event publishes and of uploads, and derives from them when  *)
(* a call starts and how it ended.  It is composed with the booth of       *)
(* BoothCall, whose main loop and upload tasks publish concurrently.       *)
(*                                                                         *)
(* The tracker hears records in the order they are published; a record     *)
(* missed by a forwarder that lags behind is left out.                     *)
(***************************************************************************)
EXTENDS BoothCall

VARIABLES
    session,  \* SessionTracker::current
    ended,    \* the outcome in the CallEnded of the last step, or None
    told,     \* what was published of each upload whose end the core awaits
    call      \* what really happened in the session (history)

sessionVars == <<session, ended, told, call>>
allVars == <<vars, sessionVars>>

Phase == {"Prompt", "Recording", "Uploading", "RecordingDone", "RecordingFailed",
          "OperatorErrorPhase"}
CallOutcome == {"HungUpBeforeDial", "HungUpDuringPrompt", "HungUpDuringRecording",
                "HungUpDuringUpload", "RecordingCompleted", "UploadFailed", "OperatorError",
                "Aborted"}

\* None is what no session, or no outcome, is.
ASSUME NoOutcomeAssumption == None \notin CallOutcome

NoSession == [live |-> FALSE, phase |-> "Prompt", dialed |-> FALSE]
Fresh == [NoSession EXCEPT !.live = TRUE]

\* answers: handed over since the last recording began.  done: one of them is
\* with the operator.  decoded: a digit was.  refused: a fetch has failed.
NewCall == [answers |-> {}, done |-> FALSE, decoded |-> FALSE, refused |-> FALSE]

SessionTypeOK ==
    /\ session \in [live: BOOLEAN, phase: Phase, dialed: BOOLEAN]
    /\ ~session.live => session = NoSession
    /\ ended \in CallOutcome \cup {None}
    /\ told \in [RecordingId -> {"Nothing", "Completed", "Failed"}]
    /\ \A r \in RecordingId \ uploads : told[r] = "Nothing"
    /\ call \in [answers: SUBSET RecordingId, done: BOOLEAN, decoded: BOOLEAN, refused: BOOLEAN]

----------------------------------------------------------------------------
(* SessionTracker::observe *)

Quiet(tag) == tag \in {"Idle", "CallsPaused"}

Digit(s) == IF s.live THEN [s EXCEPT !.dialed = TRUE] ELSE s

\* Mutated PhaseAfter: an answer that ran out of time is uploaded unnoticed.
PhaseAfterHangUp(tag, phase) ==
    CASE tag = "Recording" -> "Recording"
      [] tag = "Uploading" -> "Uploading"
      [] tag = "Error" -> "OperatorErrorPhase"
      [] OTHER -> phase

PhaseAfter(tag, phase) ==
    CASE tag = "Recording" -> "Recording"
      [] tag \in {"Uploading", "UploadingTimedOut"} -> "Uploading"
      [] tag = "Error" -> "OperatorErrorPhase"
      [] OTHER -> phase

\* The session after the transition, before it is closed.
Moved(s, from, to) ==
    LET open == IF Quiet(from) /\ ~Quiet(to) /\ ~s.live THEN Fresh ELSE s
    IN IF open.live THEN [open EXCEPT !.phase = PhaseAfter(to, @)] ELSE open

\* Mutated Closes: a pause does not end a call.
ClosesAtIdle(from, to) == ~Quiet(from) /\ to = "Idle"

Closes(from, to) == ~Quiet(from) /\ Quiet(to)

OutcomeOf(s, to) ==
    CASE s.phase \in {"Prompt", "Recording", "Uploading"} /\ to = "CallsPaused" -> "Aborted"
      [] s.phase = "Prompt" /\ to = "Idle" ->
             IF s.dialed THEN "HungUpDuringPrompt" ELSE "HungUpBeforeDial"
      [] s.phase = "Recording" /\ to = "Idle" -> "HungUpDuringRecording"
      [] s.phase = "Uploading" /\ to = "Idle" -> "HungUpDuringUpload"
      [] s.phase = "RecordingDone" -> "RecordingCompleted"
      [] s.phase = "RecordingFailed" -> "UploadFailed"
      [] s.phase = "OperatorErrorPhase" -> "OperatorError"

----------------------------------------------------------------------------
(* What handle_event publishes when the core takes e *)

\* dialed_digit_for_telemetry
Dialed(s, e) ==
    \/ e.ev = "Tick" /\ s.tag = "Dialing" /\ s.pulses \in 1..10
    \/ /\ e.ev = "DigitDialed" /\ e.digit <= 9
       /\ s.tag \in {"DialTone", "Dialing"} \/ (s.tag = "CallsPaused" /\ ~s.on_hook)

\* Mutated Heard: the digit that resumes a call is published before the call starts.
HeardInOrder(e) ==
    LET before == IF accepting /\ Dialed(core, e) THEN Digit(session) ELSE session
    IN Moved(before, core.tag, core'.tag)

\* A digit is published before the transition, unless it resumes the call.
Heard(e) ==
    LET resumes == core.tag = "CallsPaused" /\ ~Quiet(core'.tag)
        digit == accepting /\ Dialed(core, e)
        before == IF digit /\ ~resumes THEN Digit(session) ELSE session
        after == Moved(before, core.tag, core'.tag)
    IN IF digit /\ resumes THEN Digit(after) ELSE after

\* What the step, with its effects, really did to the call.
Decodes(effects) ==
    \E i \in DOMAIN effects :
        \/ effects[i].fx \in {"FetchInstructions", "FetchRandomQuestion", "FetchRandomMessage"}
        \/ effects[i] = Play("CallUnavailable")

Happened(e, effects) ==
    LET before == IF Quiet(core.tag) /\ ~Quiet(core'.tag) THEN NewCall ELSE call
        begins == core'.tag = "Recording" /\ core.tag # "Recording"
    IN [answers |-> (IF begins THEN {} ELSE before.answers) \cup {a[1] : a \in HandedBy(effects)},
        done |-> before.done /\ ~begins,
        decoded |-> before.decoded \/ Decodes(effects),
        refused |-> before.refused \/ (core'.tag = "Error" /\ e.ev \in
                        {"QuestionFailed", "MessageFailed", "InstructionsFailed"})]

Hears(e) ==
    /\ \E s \in {Heard(e)} :
         IF Closes(core.tag, core'.tag)
         THEN session' = NoSession /\ ended' = IF s.live THEN OutcomeOf(s, core'.tag) ELSE None
         ELSE session' = s /\ ended' = None
    /\ \E effects \in {handle_with_call_availability(core, e, accepting).effects} :
         call' = Happened(e, effects)
    /\ told' = [r \in RecordingId |-> IF r \in uploads' THEN told[r] ELSE "Nothing"]

----------------------------------------------------------------------------
(* The booth, and what is published of it *)

SInit ==
    /\ Init
    /\ session = IF Quiet(core.tag) THEN NoSession ELSE Fresh
    /\ ended = None /\ call = NewCall
    /\ told = [r \in RecordingId |-> "Nothing"]

\* Mutated UploadPublished: there need be no session.
UploadPublishedAnyway(r, what) ==
    /\ r \in uploads /\ told[r] = "Nothing"
    /\ told' = [told EXCEPT ![r] = what]
    /\ session' = [session EXCEPT !.phase = IF what = "Completed" THEN "RecordingDone"
                                            ELSE "RecordingFailed"]
    /\ call' = [call EXCEPT !.done = @ \/ (what = "Completed" /\ r \in call.answers)]
    /\ ended' = None
    /\ UNCHANGED vars

\* upload_recording publishes how it went before it tells the core.
UploadPublished(r, what) ==
    /\ r \in uploads /\ told[r] = "Nothing"
    /\ told' = [told EXCEPT ![r] = what]
    /\ session' = IF ~session.live THEN session
                  ELSE [session EXCEPT !.phase = IF what = "Completed" THEN "RecordingDone"
                                                 ELSE "RecordingFailed"]
    /\ call' = [call EXCEPT !.done = @ \/ (what = "Completed" /\ r \in call.answers)]
    /\ ended' = None
    /\ UNCHANGED vars

\* Nothing is published for an upload without a session, or one that was
\* deferred or never begun.
UploadEndIsHeard(r, outcome) ==
    /\ UploadEnds(r, outcome)
    /\ told[r] = "Completed" => outcome = "UploadComplete"
    /\ told[r] = "Failed" => outcome = "UploadFailed"
    /\ Hears([ev |-> "UploadFinished", recording |-> r, outcome |-> outcome])

Silent ==
    /\ PlaybackFails \/ AdmissionMoves
    /\ ended' = None /\ UNCHANGED <<session, told, call>>

SNext ==
    \/ \E on \in BOOLEAN : Hook(on) /\ Hears(Signal(IF on THEN "HookOn" ELSE "HookOff"))
    \/ \E e \in Event : (Input(e) \/ OperatorAnswers(e) \/ LateReply(e)) /\ Hears(e)
    \/ TimerFires("Pulse") /\ Hears(Signal("Tick"))
    \/ TimerFires("Recording") /\ Hears(Signal("RecordingTimedOut"))
    \/ PlaybackEnds /\ Hears(Signal("PlaybackEnded"))
    \/ \E r \in RecordingId :
           RecorderFinishes(r) /\ Hears([ev |-> "RecordingFinished", recording |-> r])
    \/ (RecorderCannotFinish \/ RecorderReportsFailure) /\ Hears(Signal("RecordingFailed"))
    \/ \E r \in RecordingId, outcome \in Outcome : UploadEndIsHeard(r, outcome)
    \/ AdmissionNotified /\ Hears(Signal("Tick"))
    \/ \E r \in RecordingId, what \in {"Completed", "Failed"} : UploadPublished(r, what)
    \/ Silent

SSpec == SInit /\ [][SNext]_allVars

----------------------------------------------------------------------------
(* Properties *)

\* The tracker, which sees only published records, has a session exactly while
\* the core has a call: through pauses, resumptions and a start off the hook.
SessionFollowsCall == session.live <=> ~Quiet(core.tag)

\* "Caller hung up [...] before any digit was fully decoded" (CallOutcome): the
\* digits in the telemetry are decoded apart from those the core acts on, and
\* published before or after the transition that opens the session.
BeforeDialMeansNoDigit ==
    [][ended' = "HungUpBeforeDial" => ~call.decoded]_allVars

\* "Caller hung up while recording their answer": then that answer was not
\* kept; one that was is reported by what became of its upload.
DuringRecordingMeansNoAnswer ==
    [][ended' = "HungUpDuringRecording" => call.answers = {}]_allVars

\* RecordingCompleted: "Recording was made and uploaded successfully", in this call.
CompletedIsOwn == [][ended' = "RecordingCompleted" => call.done]_allVars

\* HungUpDuringUpload: "Caller hung up while the recording was uploading".
DuringUploadMeansUploading == [][ended' = "HungUpDuringUpload" => ~call.done]_allVars

\* OperatorError: "Pre-prompt operator interaction [...] failed".
OperatorErrorIsOperators == [][ended' = "OperatorError" => call.refused]_allVars

\* "One pickup-to-hangup call session": nobody else picks up during it.
OnePickup == [][session.live /\ session'.live => ~(hook /\ ~hook')]_allVars

\* What the operator is told of a call is true of it.
SessionIsTrue ==
    /\ [](SessionTypeOK /\ SessionFollowsCall)
    /\ BeforeDialMeansNoDigit /\ DuringRecordingMeansNoAnswer
=============================================================================
