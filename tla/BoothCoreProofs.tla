---------------------------- MODULE BoothCoreProofs ----------------------------
(***************************************************************************)
(* The states of the core, for any questions and recordings: a step keeps  *)
(* the state well formed and its idea of the handset true to the last hook *)
(* event, in every state the core can be in, on every event, for both      *)
(* admission decisions.                                                    *)
(***************************************************************************)
EXTENDS BoothCore, TLAPS

\* A step from s on e is sound when the new state is well formed and has the
\* handset where e left it.
Sound(s, e, new) == WellFormed(new) /\ (OnHook(new) <=> HookAfter(s, e))

LEMMA PlainWellFormed ==
    ASSUME NEW t \in Tags, ~CarriesQuestion(t), t # "Dialing"
    PROVE  WellFormed(Plain(t)) /\ (OnHook(Plain(t)) <=> t = "Idle")
  BY DEF WellFormed, Plain, Variant, State, Tags, CarriesQuestion, CarriesRecording,
         CarriesHook, OnHook, MAX_PULSES_PER_DIGIT

\* The variants the core builds from the question and the recording at hand.
LEMMA AskingWellFormed ==
    ASSUME NEW q \in QuestionId,
           NEW t \in {"RingingQuestion", "PlayingQuestion", "Beep", "Recording"}
    PROVE  WellFormed(Asking(t, q)) /\ ~OnHook(Asking(t, q))
  BY DEF WellFormed, Asking, Variant, State, Tags, CarriesQuestion,
         CarriesRecording, CarriesHook, OnHook, MAX_PULSES_PER_DIGIT

LEMMA FinishingWellFormed ==
    ASSUME NEW q \in QuestionId, NEW b \in BOOLEAN,
           NEW t \in {"FinishingRecording", "FinishingTimedOutRecording"}
    PROVE  WellFormed(Finishing(t, q, b)) /\ (OnHook(Finishing(t, q, b)) <=> b)
  BY DEF WellFormed, Finishing, Variant, State, Tags, CarriesQuestion,
         CarriesRecording, CarriesHook, OnHook, MAX_PULSES_PER_DIGIT

LEMMA UploadingWellFormed ==
    ASSUME NEW q \in QuestionId, NEW r \in RecordingId, NEW b \in BOOLEAN
    PROVE  /\ WellFormed(Uploading(q, r, b)) /\ (OnHook(Uploading(q, r, b)) <=> b)
           /\ WellFormed(UploadingTimedOut(q, r, b)) /\ ~OnHook(UploadingTimedOut(q, r, b))
  BY DEF WellFormed, Uploading, UploadingTimedOut, Variant, State, Tags, CarriesQuestion,
         CarriesRecording, CarriesHook, OnHook, MAX_PULSES_PER_DIGIT

LEMMA PausedWellFormed ==
    ASSUME NEW b \in BOOLEAN
    PROVE  WellFormed(CallsPaused(b)) /\ (OnHook(CallsPaused(b)) <=> b)
  BY DEF WellFormed, CallsPaused, Variant, State, Tags, CarriesQuestion, CarriesRecording,
         CarriesHook, OnHook, MAX_PULSES_PER_DIGIT

LEMMA DialingWellFormed ==
    ASSUME NEW n \in 1..MAX_PULSES_PER_DIGIT
    PROVE  WellFormed(Dialing(n)) /\ ~OnHook(Dialing(n))
  BY DEF WellFormed, Dialing, Variant, State, Tags, CarriesQuestion, CarriesRecording,
         CarriesHook, OnHook, MAX_PULSES_PER_DIGIT

\* Setting the hook of a variant that carries one.
LEMMA HookSet ==
    ASSUME NEW s, WellFormed(s), CarriesHook(s.tag), NEW b \in BOOLEAN
    PROVE  WellFormed([s EXCEPT !.on_hook = b]) /\ (OnHook([s EXCEPT !.on_hook = b]) <=> b)
  BY DEF WellFormed, State, Tags, CarriesQuestion, CarriesRecording, CarriesHook, OnHook

LEMMA BeepSet ==
    ASSUME NEW s, WellFormed(s)
    PROVE  /\ WellFormed(WithoutBeep(s))
           /\ OnHook(WithoutBeep(s)) <=> OnHook(s)
           /\ WithoutBeep(s).tag = s.tag
  BY DEF WellFormed, WithoutBeep, State, Tags, CarriesQuestion, CarriesRecording, CarriesHook,
         OnHook

LEMMA FieldTypes ==
    ASSUME NEW s, WellFormed(s)
    PROVE  /\ s.tag \in Tags /\ s.on_hook \in BOOLEAN /\ s.beep_pending \in BOOLEAN
           /\ CarriesQuestion(s.tag) => s.question \in QuestionId
           /\ CarriesRecording(s.tag) => s.recording \in RecordingId
           /\ s.tag = "Dialing" => s.pulses \in 1..MAX_PULSES_PER_DIGIT
           /\ ~CarriesHook(s.tag) => ~s.on_hook
  BY DEF WellFormed, State

----------------------------------------------------------------------------
(* handle_inner, part by part *)

LEMMA HangUpSound ==
    ASSUME NEW s, WellFormed(s), NEW e, e.ev = "HookOn"
    PROVE  Sound(s, e, HangUp(s).state)
<1>1. HookAfter(s, e)
  BY DEF HookAfter
<1>2. CASE s.tag = "Recording"
  <2>1. HangUp(s).state = Finishing("FinishingRecording", s.question, TRUE)
    BY <1>2 DEF HangUp, To
  <2>2. s.question \in QuestionId
    BY <1>2, FieldTypes DEF CarriesQuestion
  <2>3. QED
    BY <1>1, <2>1, <2>2, FinishingWellFormed DEF Sound
<1>3. CASE s.tag \in {"FinishingRecording", "FinishingTimedOutRecording"}
  <2>1. HangUp(s).state = [s EXCEPT !.on_hook = TRUE]
    BY <1>3 DEF HangUp, To
  <2>2. QED
    BY <1>1, <1>3, <2>1, HookSet DEF Sound, CarriesHook
<1>4. CASE s.tag \notin {"Recording", "FinishingRecording", "FinishingTimedOutRecording"}
  <2>1. HangUp(s).state = Plain("Idle")
    BY <1>4 DEF HangUp, To
  <2>2. QED
    BY <1>1, <2>1, PlainWellFormed DEF Sound, Tags, CarriesQuestion
<1>5. QED
  BY <1>2, <1>3, <1>4

LEMMA DecodeState ==
    ASSUME NEW d \in Nat
    PROVE  decode_digit(d).state \in {Plain("DialTone"), Plain("CallUnavailable"), Plain("Error")}
  BY DEF decode_digit, To, ToBusyTone

\* Events other than HookOn and HookOff leave the handset where it was.
LEMMA HandsetKept ==
    ASSUME NEW s, NEW e, e.ev \notin {"HookOn", "HookOff"}
    PROVE  HookAfter(s, e) <=> OnHook(s)
  BY DEF HookAfter

LEMMA UnchangedSound ==
    ASSUME NEW s, WellFormed(s), NEW e, HookAfter(s, e) <=> OnHook(s)
    PROVE  Sound(s, e, To(s, <<>>).state)
  BY DEF Sound, To

LEMMA EventTypes ==
    ASSUME NEW e \in Event
    PROVE  /\ e.ev = "DigitDialed" => e.digit \in 0..10
           /\ e.ev = "QuestionReady" => e.question \in QuestionId
           /\ e.ev = "RecordingFinished" => e.recording \in RecordingId
           /\ e.ev = "UploadFinished" => e.recording \in RecordingId /\ e.outcome \in Outcome
  BY DEF Event, Signals, Outcome

\* An off-hook caller who is not waiting for the operator.
LEMMA OffHookSound ==
    ASSUME NEW s, WellFormed(s), ~OnHook(s), NEW e, e.ev # "HookOn",
           NEW new, WellFormed(new), ~OnHook(new)
    PROVE  Sound(s, e, new)
  BY DEF Sound, HookAfter

LEMMA WhileDialingSound ==
    ASSUME NEW s, WellFormed(s), s.tag \in {"DialTone", "Dialing"}, NEW e \in Event, e.ev # "HookOn"
    PROVE  Sound(s, e, WhileDialing(s, e).state)
<1> DEFINE new == WhileDialing(s, e).state
<1>1. ~OnHook(s)
  BY FieldTypes DEF OnHook, CarriesHook
<1>2. \A t \in {"DialTone", "CallUnavailable", "Error", "PlayingMessage", "PlayingInstructions"} :
         WellFormed(Plain(t)) /\ ~OnHook(Plain(t))
  BY PlainWellFormed DEF Tags, CarriesQuestion
<1>3. CASE e.ev = "DigitDialed"
  <2>1. new = decode_digit(e.digit).state
    BY <1>3 DEF WhileDialing
  <2>2. QED
    BY <1>1, <1>2, <1>3, <2>1, DecodeState, EventTypes, OffHookSound
<1>4. CASE e.ev = "RotaryPulse"
  <2>1. CASE s.tag = "DialTone"
    <3>1. new = Dialing(1)
      BY <1>4, <2>1 DEF WhileDialing, To
    <3>2. 1 \in 1..MAX_PULSES_PER_DIGIT
      BY DEF MAX_PULSES_PER_DIGIT
    <3>3. QED
      BY <1>1, <1>4, <3>1, <3>2, DialingWellFormed, OffHookSound
  <2>2. CASE s.tag = "Dialing"
    <3>1. new = CountPulse(s).state
      BY <1>4, <2>2 DEF WhileDialing
    <3>2. s.pulses \in 1..MAX_PULSES_PER_DIGIT
      BY <2>2, FieldTypes
    <3>3. \/ new = Plain("DialTone")
          \/ s.pulses + 1 \in 1..MAX_PULSES_PER_DIGIT /\ new = Dialing(s.pulses + 1)
      BY <3>1, <3>2 DEF CountPulse, To, MAX_PULSES_PER_DIGIT
    <3>4. QED
      BY <1>1, <1>2, <1>4, <3>3, DialingWellFormed, OffHookSound
  <2>3. QED
    BY <2>1, <2>2
<1>5. CASE e.ev = "Tick" /\ s.tag = "Dialing"
  <2>1. new = decode_digit(IF s.pulses = 10 THEN 0 ELSE s.pulses).state
    BY <1>5 DEF WhileDialing
  <2>2. (IF s.pulses = 10 THEN 0 ELSE s.pulses) \in Nat
    BY <1>5, FieldTypes DEF MAX_PULSES_PER_DIGIT
  <2>3. QED
    BY <1>1, <1>2, <1>5, <2>1, <2>2, DecodeState, OffHookSound
<1>6. CASE e.ev = "QuestionReady" /\ s.tag = "DialTone"
  <2>1. new = Asking("RingingQuestion", e.question)
    BY <1>6 DEF WhileDialing, To
  <2>2. QED
    BY <1>1, <1>6, <2>1, EventTypes, AskingWellFormed, OffHookSound
<1>7. CASE /\ e.ev \in {"MessageReady", "InstructionsReady", "QuestionFailed", "MessageFailed",
                        "InstructionsFailed"}
           /\ s.tag = "DialTone"
  <2>1. new \in {Plain("PlayingMessage"), Plain("PlayingInstructions"), Plain("Error")}
    BY <1>7 DEF WhileDialing, To, ToBusyTone
  <2>2. QED
    BY <1>1, <1>2, <1>7, <2>1, OffHookSound
<1>8. CASE \/ e.ev \notin {"DigitDialed", "RotaryPulse", "Tick", "QuestionReady", "MessageReady",
                           "InstructionsReady", "QuestionFailed", "MessageFailed",
                           "InstructionsFailed"}
           \/ /\ s.tag = "Dialing"
              /\ e.ev \notin {"DigitDialed", "RotaryPulse", "Tick"}
           \/ /\ s.tag = "DialTone"
              /\ e.ev = "Tick"
  <2>1. new = s
    BY <1>8 DEF WhileDialing, To
  <2>2. QED
    BY <1>1, <2>1, OffHookSound
<1>9. QED
  BY <1>3, <1>4, <1>5, <1>6, <1>7, <1>8

LEMMA WhilePlayingSound ==
    ASSUME NEW s, WellFormed(s), NEW e, e.ev # "HookOn",
           s.tag \in {"RingingQuestion", "PlayingQuestion", "Beep", "RecordingEndedBeep",
                      "PlayingMessage", "PlayingInstructions", "CallUnavailable"}
    PROVE  Sound(s, e, WhilePlaying(s, e).state)
<1>1. ~OnHook(s)
  BY FieldTypes DEF OnHook, CarriesHook
<1>2. CASE e.ev # "PlaybackEnded"
  <2>1. WhilePlaying(s, e).state = s
    BY <1>2 DEF WhilePlaying, To
  <2>2. QED
    BY <1>1, <2>1, OffHookSound
<1>3. CASE e.ev = "PlaybackEnded" /\ s.tag \in {"RingingQuestion", "PlayingQuestion", "Beep"}
  <2>1. \E t \in {"PlayingQuestion", "Beep", "Recording"} :
           WhilePlaying(s, e).state = Asking(t, s.question)
    BY <1>3 DEF WhilePlaying, To
  <2>2. s.question \in QuestionId
    BY <1>3, FieldTypes DEF CarriesQuestion
  <2>3. e.ev # "HookOn"
    OBVIOUS
  <2>4. QED
    BY <1>1, <2>1, <2>2, AskingWellFormed, OffHookSound
<1>4. CASE e.ev = "PlaybackEnded" /\ s.tag \notin {"RingingQuestion", "PlayingQuestion", "Beep"}
  <2>1. WhilePlaying(s, e).state = Plain("DialTone")
    BY <1>4 DEF WhilePlaying, ToDialTone, To
  <2>2. QED
    BY <1>1, <2>1, PlainWellFormed, OffHookSound DEF Tags, CarriesQuestion
<1>5. QED
  BY <1>2, <1>3, <1>4

LEMMA WhileRecordingSound ==
    ASSUME NEW s, WellFormed(s), s.tag = "Recording", NEW e \in Event, e.ev # "HookOn"
    PROVE  Sound(s, e, WhileRecording(s, e).state)
<1> DEFINE new == WhileRecording(s, e).state
<1>1. ~OnHook(s) /\ s.question \in QuestionId
  BY FieldTypes DEF OnHook, CarriesHook, CarriesQuestion
<1>2. CASE e.ev = "RecordingTimedOut"
  <2>1. new = Finishing("FinishingTimedOutRecording", s.question, FALSE)
    BY <1>2 DEF WhileRecording, To
  <2>2. QED
    BY <1>1, <2>1, FinishingWellFormed, OffHookSound
<1>3. CASE e.ev = "RecordingFinished"
  <2>1. new = UploadingTimedOut(s.question, e.recording, TRUE)
    BY <1>3 DEF WhileRecording, EndBeep, To
  <2>2. e.recording \in RecordingId
    BY <1>3, EventTypes
  <2>3. QED
    BY <1>1, <2>1, <2>2, UploadingWellFormed, OffHookSound
<1>4. CASE e.ev = "RecordingFailed"
  <2>1. new = Plain("Error")
    BY <1>4 DEF WhileRecording, To
  <2>2. QED
    BY <1>1, <2>1, PlainWellFormed, OffHookSound DEF Tags, CarriesQuestion
<1>5. CASE e.ev \notin {"RecordingTimedOut", "RecordingFinished", "RecordingFailed"}
  <2>1. new = s
    BY <1>5 DEF WhileRecording, To
  <2>2. QED
    BY <1>1, <2>1, OffHookSound
<1>6. QED
  BY <1>2, <1>3, <1>4, <1>5

LEMMA WhileFinishingSound ==
    ASSUME NEW s, WellFormed(s), s.tag \in {"FinishingRecording", "FinishingTimedOutRecording"},
           NEW e \in Event, e.ev # "HookOn"
    PROVE  Sound(s, e, WhileFinishing(s, e).state)
<1> DEFINE new == WhileFinishing(s, e).state
<1>1. (OnHook(s) <=> s.on_hook) /\ s.question \in QuestionId /\ s.on_hook \in BOOLEAN
  BY FieldTypes DEF OnHook, CarriesQuestion
<1>2. CASE e.ev = "HookOff"
  <2>1. new = [s EXCEPT !.on_hook = FALSE]
    BY <1>2 DEF WhileFinishing, To
  <2>2. QED
    BY <1>2, <2>1, HookSet DEF Sound, HookAfter, CarriesHook
<1>3. CASE e.ev = "RecordingFinished"
  <2>1. e.recording \in RecordingId /\ (HookAfter(s, e) <=> OnHook(s))
    BY <1>3, EventTypes, HandsetKept
  <2>2. CASE s.tag = "FinishingTimedOutRecording" /\ ~s.on_hook
    <3>1. new = UploadingTimedOut(s.question, e.recording, TRUE)
      BY <1>3, <2>2 DEF WhileFinishing, EndBeep, To
    <3>2. QED
      BY <1>1, <2>1, <2>2, <3>1, UploadingWellFormed DEF Sound
  <2>3. CASE ~(s.tag = "FinishingTimedOutRecording" /\ ~s.on_hook)
    <3>1. new = Uploading(s.question, e.recording, s.on_hook)
      BY <1>3, <2>3 DEF WhileFinishing, To
    <3>2. QED
      BY <1>1, <2>1, <3>1, UploadingWellFormed DEF Sound
  <2>4. QED
    BY <2>2, <2>3
<1>4. CASE e.ev = "RecordingFailed"
  <2>1. new = Plain(IF s.on_hook THEN "Idle" ELSE "DialTone")
    BY <1>4 DEF WhileFinishing, ToDialTone, To
  <2>2. QED
    BY <1>1, <1>4, <2>1, HandsetKept, PlainWellFormed DEF Sound, Tags, CarriesQuestion
<1>5. CASE e.ev \notin {"HookOff", "RecordingFinished", "RecordingFailed"}
  <2>1. new = s
    BY <1>5 DEF WhileFinishing, To
  <2>2. QED
    BY <1>5, <2>1, HandsetKept DEF Sound
<1>6. QED
  BY <1>2, <1>3, <1>4, <1>5

LEMMA WhileUploadingSound ==
    ASSUME NEW s, WellFormed(s), s.tag = "Uploading", NEW e, e.ev # "HookOn"
    PROVE  Sound(s, e, WhileUploading(s, e).state)
<1> DEFINE new == WhileUploading(s, e).state
<1>1. (OnHook(s) <=> s.on_hook) /\ s.on_hook \in BOOLEAN
  BY FieldTypes DEF OnHook
<1>2. CASE e.ev = "HookOff"
  <2>1. new = [s EXCEPT !.on_hook = FALSE]
    BY <1>2 DEF WhileUploading, To
  <2>2. QED
    BY <1>2, <2>1, HookSet DEF Sound, HookAfter, CarriesHook
<1>3. CASE e.ev \in {"UploadComplete", "UploadDeferred", "UploadFailed"}
  <2>1. \E t \in {"DialTone", "Error"} : new = Plain(IF s.on_hook THEN "Idle" ELSE t)
    BY <1>3 DEF WhileUploading, ToDialTone, ToIdle, ToBusyTone, To
  <2>2. QED
    BY <1>1, <1>3, <2>1, HandsetKept, PlainWellFormed DEF Sound, Tags, CarriesQuestion
<1>4. CASE e.ev \notin {"HookOff", "UploadComplete", "UploadDeferred", "UploadFailed"}
  <2>1. new = s
    BY <1>4 DEF WhileUploading, To
  <2>2. QED
    BY <1>4, <2>1, HandsetKept DEF Sound
<1>5. QED
  BY <1>2, <1>3, <1>4

LEMMA WhileUploadingTimedOutSound ==
    ASSUME NEW s, WellFormed(s), s.tag = "UploadingTimedOut", NEW e, e.ev # "HookOn"
    PROVE  Sound(s, e, WhileUploadingTimedOut(s, e).state)
<1> DEFINE new == WhileUploadingTimedOut(s, e).state
<1>1. ~OnHook(s)
  BY FieldTypes DEF OnHook, CarriesHook
<1>2. CASE e.ev = "PlaybackEnded"
  <2>1. new = WithoutBeep(s)
    BY <1>2 DEF WhileUploadingTimedOut, WithoutBeep, To
  <2>2. QED
    BY <1>1, <1>2, <2>1, BeepSet, OffHookSound
<1>3. CASE e.ev \in {"UploadComplete", "UploadDeferred", "UploadFailed"}
  <2>1. \E t \in {"RecordingEndedBeep", "DialTone", "Error"} : new = Plain(t)
    BY <1>3 DEF WhileUploadingTimedOut, ToDialTone, ToBusyTone, To
  <2>2. QED
    BY <1>1, <1>3, <2>1, PlainWellFormed, OffHookSound DEF Tags, CarriesQuestion
<1>4. CASE e.ev \notin {"PlaybackEnded", "UploadComplete", "UploadDeferred", "UploadFailed"}
  <2>1. new = s
    BY <1>4 DEF WhileUploadingTimedOut, To
  <2>2. QED
    BY <1>1, <2>1, OffHookSound
<1>5. QED
  BY <1>2, <1>3, <1>4

LEMMA InnerSound ==
    ASSUME NEW s, WellFormed(s), NEW e \in Event,
           s.tag # "CallsPaused" \/ e.ev \in {"PowerButtonPressed", "PowerButtonHeld"}
    PROVE  Sound(s, e, handle_inner(s, e).state)
<1> DEFINE new == handle_inner(s, e).state
<1>1. CASE e.ev = "HookOn"
  <2>1. new = HangUp(s).state
    BY <1>1 DEF handle_inner
  <2>2. QED
    BY <1>1, <2>1, HangUpSound
<1>2. CASE e.ev \in {"PowerButtonPressed", "PowerButtonHeld"}
  <2>1. new = s
    BY <1>2 DEF handle_inner, To
  <2>2. QED
    BY <1>2, <2>1, HandsetKept DEF Sound
<1>3. CASE e.ev \notin {"HookOn", "PowerButtonPressed", "PowerButtonHeld"}
  <2>0. e.ev # "HookOn" /\ s.tag # "CallsPaused" /\ s.tag \in Tags
    BY <1>3, FieldTypes
  <2>1. CASE s.tag = "Idle"
    <3>1. CASE e.ev = "HookOff"
      <4>1. new = Plain("DialTone")
        BY <1>3, <2>1, <3>1 DEF handle_inner, ToDialTone, To
      <4>2. QED
        BY <3>1, <4>1, PlainWellFormed DEF Sound, HookAfter, Tags, CarriesQuestion
    <3>2. CASE e.ev # "HookOff"
      <4>1. new = s
        BY <1>3, <2>1, <3>2 DEF handle_inner, To
      <4>2. QED
        BY <2>0, <3>2, <4>1, HandsetKept DEF Sound
    <3>3. QED
      BY <3>1, <3>2
  <2>2. CASE s.tag \in {"DialTone", "Dialing"}
    <3>1. new = WhileDialing(s, e).state
      BY <1>3, <2>2 DEF handle_inner
    <3>2. QED
      BY <2>0, <2>2, <3>1, WhileDialingSound
  <2>3. CASE s.tag \in {"RingingQuestion", "PlayingQuestion", "Beep", "RecordingEndedBeep",
                        "PlayingMessage", "PlayingInstructions", "CallUnavailable"}
    <3>1. new = WhilePlaying(s, e).state
      BY <1>3, <2>3 DEF handle_inner
    <3>2. QED
      BY <2>0, <2>3, <3>1, WhilePlayingSound
  <2>4. CASE s.tag = "Recording"
    <3>1. new = WhileRecording(s, e).state
      BY <1>3, <2>4 DEF handle_inner
    <3>2. QED
      BY <2>0, <2>4, <3>1, WhileRecordingSound
  <2>5. CASE s.tag \in {"FinishingRecording", "FinishingTimedOutRecording"}
    <3>1. new = WhileFinishing(s, e).state
      BY <1>3, <2>5 DEF handle_inner
    <3>2. QED
      BY <2>0, <2>5, <3>1, WhileFinishingSound
  <2>6. CASE s.tag = "Uploading"
    <3>1. new = WhileUploading(s, e).state
      BY <1>3, <2>6 DEF handle_inner
    <3>2. QED
      BY <2>0, <2>6, <3>1, WhileUploadingSound
  <2>7. CASE s.tag = "UploadingTimedOut"
    <3>1. new = WhileUploadingTimedOut(s, e).state
      BY <1>3, <2>7 DEF handle_inner
    <3>2. QED
      BY <2>0, <2>7, <3>1, WhileUploadingTimedOutSound
  <2>8. CASE s.tag = "Error"
    <3>1. new = s
      BY <1>3, <2>8 DEF handle_inner, To
    <3>2. ~OnHook(s)
      BY <2>8, FieldTypes DEF OnHook, CarriesHook
    <3>3. QED
      BY <2>0, <3>1, <3>2, OffHookSound
  <2>9. QED
    BY <2>0, <2>1, <2>2, <2>3, <2>4, <2>5, <2>6, <2>7, <2>8 DEF Tags
<1>4. QED
  BY <1>1, <1>2, <1>3

----------------------------------------------------------------------------
(* Call admission *)

LEMMA HookAfterBoolean ==
    ASSUME NEW s, WellFormed(s), NEW e
    PROVE  HookAfter(s, e) \in BOOLEAN
<1>1. s.on_hook \in BOOLEAN
  BY FieldTypes
<1>2. QED
  BY <1>1 DEF HookAfter, OnHook

LEMMA ResumeSound ==
    ASSUME NEW s, WellFormed(s), s.tag = "CallsPaused", NEW e \in Event
    PROVE  Sound(s, e, Resume(s, e).state)
<1>1. WellFormed(Plain("Idle")) /\ OnHook(Plain("Idle"))
  BY PlainWellFormed DEF Tags, CarriesQuestion
<1>2. WellFormed(Plain("DialTone")) /\ ~OnHook(Plain("DialTone"))
  BY PlainWellFormed DEF Tags, CarriesQuestion
<1>3. CASE HookAfter(s, e)
  <2>1. Resume(s, e).state = Plain("Idle")
    BY <1>3 DEF Resume, ToIdle, To
  <2>2. QED
    BY <1>1, <1>3, <2>1 DEF Sound
<1>4. CASE ~HookAfter(s, e) /\ e.ev \in {"RotaryPulse", "DigitDialed"}
  <2>1. Resume(s, e).state = handle_inner(Plain("DialTone"), e).state
    BY <1>4 DEF Resume, Then, ToDialTone, To
  <2>2. Plain("DialTone").tag # "CallsPaused"
    BY DEF Plain, Variant
  <2>3. Sound(Plain("DialTone"), e, handle_inner(Plain("DialTone"), e).state)
    BY <1>2, <2>2, InnerSound
  <2>4. ~HookAfter(Plain("DialTone"), e)
    BY <1>2, <1>4, HandsetKept
  <2>5. QED
    BY <1>4, <2>1, <2>3, <2>4 DEF Sound
<1>5. CASE ~HookAfter(s, e) /\ e.ev \notin {"RotaryPulse", "DigitDialed"}
  <2>1. Resume(s, e).state = Plain("DialTone")
    BY <1>5 DEF Resume, ToDialTone, To
  <2>2. QED
    BY <1>2, <1>5, <2>1 DEF Sound
<1>6. QED
  BY <1>3, <1>4, <1>5

LEMMA PausedSound ==
    ASSUME NEW s, WellFormed(s), NEW e \in Event
    PROVE  Sound(s, e, Paused(s, e).state)
<1> DEFINE inner == handle_inner(WithoutBeep(s), e)
<1>1. Sound(s, e, CallsPaused(HookAfter(s, e)))
  BY HookAfterBoolean, PausedWellFormed DEF Sound
<1>2. CASE ~Protected(s)
  <2>1. Paused(s, e).state = CallsPaused(HookAfter(s, e))
    BY <1>2 DEF Paused, To
  <2>2. QED
    BY <1>1, <2>1
<1>3. CASE Protected(s)
  <2>1. WithoutBeep(s).tag # "CallsPaused" /\ WellFormed(WithoutBeep(s))
    BY <1>3, BeepSet DEF Protected
  <2>2. Sound(WithoutBeep(s), e, inner.state)
    BY <2>1, InnerSound
  <2>3. HookAfter(WithoutBeep(s), e) <=> HookAfter(s, e)
    BY BeepSet DEF HookAfter
  <2>4. Sound(s, e, WithoutBeep(inner.state))
    BY <2>2, <2>3, BeepSet DEF Sound
  <2>5. Paused(s, e).state \in {WithoutBeep(inner.state), CallsPaused(HookAfter(s, e))}
    BY <1>3 DEF Paused, Quietly, To
  <2>6. QED
    BY <1>1, <2>4, <2>5
<1>4. QED
  BY <1>2, <1>3

\* The result of a step of the whole core: the state stays one the program can
\* be in, and it has the handset where the event left it.
THEOREM CoreStepSound ==
    ASSUME NEW s, WellFormed(s), NEW e \in Event, NEW accepting_calls \in BOOLEAN
    PROVE  Sound(s, e, handle_with_call_availability(s, e, accepting_calls).state)
<1> DEFINE step == handle_available(s, e, accepting_calls)
           event == IF e.ev = "UploadFinished" THEN Signal(e.outcome) ELSE e
<1>1. handle_with_call_availability(s, e, accepting_calls).state = step.state
  BY DEF handle_with_call_availability, LedFirst, To
<1>2. event \in Event /\ (HookAfter(s, event) <=> HookAfter(s, e))
  <2>1. CASE e.ev = "UploadFinished"
    <3>1. e.outcome \in Outcome
      BY <2>1, EventTypes
    <3>2. Signal(e.outcome) \in Event /\ Signal(e.outcome).ev = e.outcome
      BY <3>1 DEF Signal, Event, Signals
    <3>3. QED
      BY <2>1, <3>1, <3>2, HandsetKept DEF Outcome
  <2>2. QED
    BY <2>1
<1>3. Sound(s, e, step.state)
  <2>1. CASE Stale(s, e)
    <3>1. step.state = s /\ e.ev = "UploadFinished"
      BY <2>1 DEF handle_available, Stale, To
    <3>2. QED
      BY <3>1, HandsetKept DEF Sound
  <2>2. CASE e.ev \in {"PowerButtonPressed", "PowerButtonHeld"}
    <3>1. step = handle_inner(s, e)
      BY <2>2 DEF handle_available, Stale
    <3>2. QED
      BY <2>2, <3>1, InnerSound
  <2>3. CASE ~Stale(s, e) /\ e.ev \notin {"PowerButtonPressed", "PowerButtonHeld"}
    <3>1. CASE ~accepting_calls
      <4>1. step = Paused(s, event)
        BY <2>3, <3>1 DEF handle_available
      <4>2. QED
        BY <1>2, <4>1, PausedSound DEF Sound
    <3>2. CASE accepting_calls /\ s.tag = "CallsPaused"
      <4>1. step = Resume(s, event)
        BY <2>3, <3>2 DEF handle_available
      <4>2. QED
        BY <1>2, <3>2, <4>1, ResumeSound DEF Sound
    <3>3. CASE accepting_calls /\ s.tag # "CallsPaused"
      <4>1. step = handle_inner(s, event)
        BY <2>3, <3>3 DEF handle_available
      <4>2. QED
        BY <1>2, <3>3, <4>1, InnerSound DEF Sound
    <3>4. QED
      BY <3>1, <3>2, <3>3
  <2>4. QED
    BY <2>1, <2>2, <2>3
<1>4. QED
  BY <1>1, <1>3
=============================================================================
