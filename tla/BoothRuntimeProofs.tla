-------------------------- MODULE BoothRuntimeProofs --------------------------
(***************************************************************************)
(* That what the recorder and its timer report is heard in time, and that  *)
(* nothing is left over or lost when the queues have run empty, whatever   *)
(* the depths of the queues and the number of operator tasks.              *)
(***************************************************************************)
EXTENDS BoothRuntime, BoothCoreProofs, SequenceTheorems

----------------------------------------------------------------------------
(* What a step of the core asks for *)

Sounds == {"Play", "StopAudio"}
RecorderWork == {"StartRecording", "StopRecording", "ArmRecordingTimeout", "CancelRecordingTimeout"}
Replies == {"RecordingFinished", "RecordingFailed"}
Answers == {"Recording", "FinishingRecording", "FinishingTimedOutRecording"}
Single == Sounds \cup {"StartRecording"}

\* A list of effects of kinds K; what a list has once is at p, and it plays a
\* and uploads r, if anything.
Lists(fxs, K, p, a, r) ==
    /\ fxs \in Seq(Effect)
    /\ {fxs[i].fx : i \in 1..Len(fxs)} = K
    /\ \A i \in 1..Len(fxs) :
           /\ fxs[i].fx \in Single => i = p
           /\ fxs[i].fx = "Play" => fxs[i].audio = a
           /\ fxs[i].fx = "UploadRecording" => fxs[i].recording = r

Fits(x, i, p, a, r) ==
    /\ x \in Effect /\ (x.fx \in Single => i = p)
    /\ (x.fx = "Play" => x.audio = a) /\ (x.fx = "UploadRecording" => x.recording = r)

LEMMA Lists0 ==
    ASSUME NEW p, NEW a, NEW r
    PROVE  Lists(<<>>, {}, p, a, r)
<1>1. <<>> \in Seq(Effect) /\ Len(<<>>) = 0
  BY EmptySeq
<1>2. QED
  BY <1>1 DEF Lists

LEMMA Lists1 ==
    ASSUME NEW x, NEW p, NEW a, NEW r, Fits(x, 1, p, a, r)
    PROVE  Lists(<<x>>, {x.fx}, p, a, r)
<1>1. <<x>> \in Seq(Effect) /\ Len(<<x>>) = 1
  BY DEF Fits
<1>2. QED
  BY <1>1 DEF Lists, Fits

LEMMA Lists2 ==
    ASSUME NEW x, NEW y, NEW p, NEW a, NEW r, Fits(x, 1, p, a, r), Fits(y, 2, p, a, r)
    PROVE  Lists(<<x, y>>, {x.fx, y.fx}, p, a, r)
<1>1. <<x, y>> \in Seq(Effect) /\ Len(<<x, y>>) = 2
  BY DEF Fits
<1>2. QED
  BY <1>1 DEF Lists, Fits

LEMMA Lists3 ==
    ASSUME NEW x, NEW y, NEW z, NEW p, NEW a, NEW r,
           Fits(x, 1, p, a, r), Fits(y, 2, p, a, r), Fits(z, 3, p, a, r)
    PROVE  Lists(<<x, y, z>>, {x.fx, y.fx, z.fx}, p, a, r)
<1>1. <<x, y, z>> \in Seq(Effect) /\ Len(<<x, y, z>>) = 3
  BY DEF Fits
<1>2. QED
  BY <1>1 DEF Lists, Fits

LEMMA Lists4 ==
    ASSUME NEW w, NEW x, NEW y, NEW z, NEW p, NEW a, NEW r,
           Fits(w, 1, p, a, r), Fits(x, 2, p, a, r), Fits(y, 3, p, a, r), Fits(z, 4, p, a, r)
    PROVE  Lists(<<w, x, y, z>>, {w.fx, x.fx, y.fx, z.fx}, p, a, r)
<1>1. <<w, x, y, z>> \in Seq(Effect) /\ Len(<<w, x, y, z>>) = 4
  BY DEF Fits
<1>2. QED
  BY <1>1 DEF Lists, Fits

LEMMA Lists5 ==
    ASSUME NEW v, NEW w, NEW x, NEW y, NEW z, NEW p, NEW a, NEW r,
           Fits(v, 1, p, a, r), Fits(w, 2, p, a, r), Fits(x, 3, p, a, r), Fits(y, 4, p, a, r),
           Fits(z, 5, p, a, r)
    PROVE  Lists(<<v, w, x, y, z>>, {v.fx, w.fx, x.fx, y.fx, z.fx}, p, a, r)
<1>1. <<v, w, x, y, z>> \in Seq(Effect) /\ Len(<<v, w, x, y, z>>) = 5
  BY DEF Fits
<1>2. QED
  BY <1>1 DEF Lists, Fits

LEMMA EffectTypes ==
    /\ \A k \in Commands : Command(k) \in Effect /\ Command(k).fx = k
    /\ \A x \in AudioRef : Play(x) \in Effect /\ Play(x).fx = "Play" /\ Play(x).audio = x
    /\ \A x \in BoothStatus : PutStatus(x) \in Effect /\ PutStatus(x).fx = "PutStatus"
    /\ \A x \in RecordingId, y \in QuestionId :
           /\ UploadRecording(x, y) \in Effect /\ UploadRecording(x, y).fx = "UploadRecording"
           /\ UploadRecording(x, y).recording = x
    /\ \A x \in Led : SetStatusLed(x) \in Effect /\ SetStatusLed(x).fx = "SetStatusLed"
  BY DEF Command, Play, PutStatus, UploadRecording, SetStatusLed, Effect

----------------------------------------------------------------------------

\* The states that wait for the end of what plays.
Waits(s) ==
    \/ s.tag \in {"RingingQuestion", "PlayingQuestion", "Beep", "RecordingEndedBeep",
                  "PlayingMessage", "PlayingInstructions", "CallUnavailable"}
    \/ s.tag = "UploadingTimedOut" /\ s.beep_pending

Finishes(s) == s.tag \in {"FinishingRecording", "FinishingTimedOutRecording"}
Uploads(s) == s.tag \in {"Uploading", "UploadingTimedOut"}
Hushed(s) == s.tag = "Idle" \/ s.on_hook

\* The recorder is started after a beep only, it is stopped or has replied when
\* its answer is over, and its timer is called off then.
RecorderMeets(s, e, new, K) ==
    /\ "StartRecording" \in K \/ "ArmRecordingTimeout" \in K
          => s.tag = "Beep" /\ e.ev = "PlaybackEnded" /\ new.tag = "Recording"
    /\ new.tag = "Recording" /\ s.tag # "Recording" =>
          /\ s.tag = "Beep" /\ e.ev = "PlaybackEnded"
          /\ {"StartRecording", "ArmRecordingTimeout"} \subseteq K
          /\ "StopRecording" \notin K /\ "CancelRecordingTimeout" \notin K /\ K \cap Sounds = {}
    /\ s.tag = "Recording" /\ new.tag = "Recording" =>
          K \cap RecorderWork = {} /\ e.ev \notin Replies /\ e.ev # "RecordingTimedOut"
    /\ s.tag = "Recording" /\ new.tag # "Recording" => "CancelRecordingTimeout" \in K
    /\ "StopRecording" \in K => s.tag = "Recording"
    /\ Finishes(new) =>
          \/ s.tag = "Recording" /\ "StopRecording" \in K
          \/ Finishes(s) /\ e.ev \notin Replies
    /\ s.tag \in Answers /\ new.tag \notin Answers => e.ev \in Replies

\* What is to sound in the new state.
SoundMeets(s, e, new, K, a) ==
    /\ new.tag = "Beep" =>
          /\ K \cap RecorderWork = {}
          /\ \/ s.tag = "Beep" /\ K \cap Sounds = {} /\ e.ev # "PlaybackEnded"
             \/ s.tag # "Beep" /\ "Play" \in K
    /\ Hushed(new) => "Play" \notin K /\ ("StopAudio" \in K \/ Hushed(s))
    /\ Waits(new) =>
          \/ "Play" \in K /\ a \notin Tones
          \/ Waits(s) /\ e.ev # "PlaybackEnded" /\ K \cap Sounds = {}

\* The pulse timer runs while a digit is dialled only, and an upload awaited is one asked for.
RestMeets(s, e, new, K, r) ==
    /\ new.tag # "CallsPaused"
    /\ new.tag # "Dialing" => "ArmPulseTimeout" \notin K /\ (s.tag # "Dialing" \/ "CancelPulseTimeout" \in K)
    /\ Uploads(new) =>
          \/ "UploadRecording" \in K /\ r = new.recording
          \/ /\ Uploads(s) /\ s.recording = new.recording
             /\ ~(e.ev = "UploadFinished" /\ e.recording = s.recording)

Meets(s, e, new, K, a, r) ==
    RecorderMeets(s, e, new, K) /\ SoundMeets(s, e, new, K, a) /\ RestMeets(s, e, new, K, r)

Does(s, e, new, fxs) ==
    \E K, p, a, r : Lists(fxs, K, p, a, r) /\ Meets(s, e, new, K, a, r)

LEMMA VariantFields ==
    /\ \A t : Plain(t).tag = t /\ ~Plain(t).on_hook /\ ~Plain(t).beep_pending
    /\ \A n : Dialing(n).tag = "Dialing" /\ ~Dialing(n).on_hook /\ ~Dialing(n).beep_pending
    /\ \A t, q : Asking(t, q).tag = t /\ ~Asking(t, q).on_hook /\ ~Asking(t, q).beep_pending
    /\ \A t, q, h : Finishing(t, q, h).tag = t /\ Finishing(t, q, h).on_hook = h
                       /\ ~Finishing(t, q, h).beep_pending
    /\ \A q, r, h : /\ Uploading(q, r, h).tag = "Uploading" /\ Uploading(q, r, h).on_hook = h
                    /\ Uploading(q, r, h).recording = r
    /\ \A q, r, b : /\ UploadingTimedOut(q, r, b).tag = "UploadingTimedOut"
                    /\ ~UploadingTimedOut(q, r, b).on_hook
                    /\ UploadingTimedOut(q, r, b).recording = r
                    /\ UploadingTimedOut(q, r, b).beep_pending = b
  BY DEF Plain, Dialing, Asking, Finishing, Uploading, UploadingTimedOut, Variant

\* Of a state in which nothing changes nothing is asked.
LEMMA StaysDoes ==
    ASSUME NEW s, NEW e, s.tag # "CallsPaused",
           ~(Waits(s) /\ e.ev = "PlaybackEnded"),
           ~(s.tag \in Answers /\ e.ev \in Replies),
           ~(s.tag = "Recording" /\ e.ev = "RecordingTimedOut"),
           ~(Uploads(s) /\ e.ev = "UploadFinished" /\ e.recording = s.recording)
    PROVE  Does(s, e, s, <<>>)
<1>1. Lists(<<>>, {}, 0, 0, 0)
  BY Lists0
<1>2. Meets(s, e, s, {}, 0, 0)
  <2>1. RecorderMeets(s, e, s, {})
    BY DEF RecorderMeets, Finishes, Answers
  <2>2. SoundMeets(s, e, s, {}, 0)
    BY DEF SoundMeets, Waits
  <2>3. RestMeets(s, e, s, {}, 0)
    BY DEF RestMeets
  <2>4. QED
    BY <2>1, <2>2, <2>3 DEF Meets
<1>3. QED
  BY <1>1, <1>2 DEF Does
LEMMA ToDialToneDoes ==
    ASSUME NEW s, NEW e, s.tag # "Recording", s.tag # "Dialing"
           , s.tag \in Answers => e.ev \in Replies
    PROVE  Does(s, e, ToDialTone.state, ToDialTone.effects)
<1> DEFINE x == Play("DialTone")
           y == PutStatus("DialTone")
           new == Plain("DialTone")
<1>1. ToDialTone.state = new /\ ToDialTone.effects = <<x, y>>
  BY DEF ToDialTone, To
<1>2. /\ x \in Effect /\ x.fx = "Play" /\ x.audio = "DialTone"
      /\ y \in Effect /\ y.fx = "PutStatus"
  BY EffectTypes DEF AudioRef, BoothStatus
<1>3. Fits(x, 1, 1, "DialTone", 0) /\ Fits(y, 2, 1, "DialTone", 0)
  BY <1>2 DEF Fits, Single, Sounds
<1>4. Lists(<<x, y>>, {x.fx, y.fx}, 1, "DialTone", 0)
  BY <1>3, Lists2
<1>5. Lists(<<x, y>>, {"Play", "PutStatus"}, 1, "DialTone", 0)
  BY <1>4, <1>2
<1>6. new.tag = "DialTone" /\ ~new.on_hook /\ ~new.beep_pending
  BY VariantFields
<1>7. Meets(s, e, new, {"Play", "PutStatus"}, "DialTone", 0)
  BY <1>6 DEF Meets, RecorderMeets, SoundMeets, RestMeets, Finishes, Answers, Waits, Hushed, Uploads,
        RecorderWork, Sounds
<1>8. QED
  BY <1>1, <1>5, <1>7 DEF Does

LEMMA ToIdleDoes ==
    ASSUME NEW s, NEW e, s.tag # "Recording", s.tag # "Dialing", s.on_hook,
           s.tag \in Answers => e.ev \in Replies
    PROVE  Does(s, e, ToIdle.state, ToIdle.effects)
<1> DEFINE x == PutStatus("Idle")
           new == Plain("Idle")
<1>1. ToIdle.state = new /\ ToIdle.effects = <<x>>
  BY DEF ToIdle, To
<1>2. x \in Effect /\ x.fx = "PutStatus"
  BY EffectTypes DEF BoothStatus
<1>3. Lists(<<x>>, {"PutStatus"}, 1, 0, 0)
  BY <1>2, Lists1 DEF Fits, Single, Sounds
<1>6. new.tag = "Idle" /\ ~new.on_hook /\ ~new.beep_pending
  BY VariantFields
<1>7. Meets(s, e, new, {"PutStatus"}, 0, 0)
  BY <1>6 DEF Meets, RecorderMeets, SoundMeets, RestMeets, Finishes, Answers, Waits, Hushed, Uploads,
        RecorderWork, Sounds
<1>8. QED
  BY <1>1, <1>3, <1>7 DEF Does

LEMMA ToBusyToneDoes ==
    ASSUME NEW s, NEW e, s.tag \notin {"Recording", "Dialing"} \cup Answers
    PROVE  Does(s, e, ToBusyTone.state, ToBusyTone.effects)
<1> DEFINE x == Play("LineBusy")
           new == Plain("Error")
<1>1. ToBusyTone.state = new /\ ToBusyTone.effects = <<x>>
  BY DEF ToBusyTone, To
<1>2. x \in Effect /\ x.fx = "Play" /\ x.audio = "LineBusy"
  BY EffectTypes DEF AudioRef
<1>3. Lists(<<x>>, {"Play"}, 1, "LineBusy", 0)
  BY <1>2, Lists1 DEF Fits, Single, Sounds
<1>6. new.tag = "Error" /\ ~new.on_hook /\ ~new.beep_pending
  BY VariantFields
<1>7. Meets(s, e, new, {"Play"}, "LineBusy", 0)
  BY <1>6 DEF Meets, RecorderMeets, SoundMeets, RestMeets, Finishes, Answers, Waits, Hushed, Uploads,
        RecorderWork, Sounds
<1>8. QED
  BY <1>1, <1>3, <1>7 DEF Does
\* The lists that the core's handlers give, by the kinds in them.
LEMMA CommandFits ==
    ASSUME NEW k \in Commands, NEW i, NEW p, NEW a, NEW r, k \in Single => i = p
    PROVE  Fits(Command(k), i, p, a, r) /\ Command(k).fx = k
  BY EffectTypes DEF Fits, Commands

LEMMA PlayFits ==
    ASSUME NEW x \in AudioRef, NEW p, NEW r
    PROVE  Fits(Play(x), p, p, x, r) /\ Play(x).fx = "Play"
  BY EffectTypes DEF Fits

LEMMA PutFits ==
    ASSUME NEW b \in BoothStatus, NEW i, NEW p, NEW a, NEW r
    PROVE  Fits(PutStatus(b), i, p, a, r) /\ PutStatus(b).fx = "PutStatus"
  BY EffectTypes DEF Fits, Single, Sounds

LEMMA UploadFits ==
    ASSUME NEW r \in RecordingId, NEW q \in QuestionId, NEW i, NEW p, NEW a
    PROVE  Fits(UploadRecording(r, q), i, p, a, r) /\ UploadRecording(r, q).fx = "UploadRecording"
  BY EffectTypes DEF Fits, Single, Sounds

LEMMA LedFits ==
    ASSUME NEW l \in Led, NEW i, NEW p, NEW a, NEW r
    PROVE  Fits(SetStatusLed(l), i, p, a, r) /\ SetStatusLed(l).fx = "SetStatusLed"
  BY EffectTypes DEF Fits, Single, Sounds

\* A sound and a status.
LEMMA PlayPutDoes ==
    ASSUME NEW s, NEW e, NEW new, NEW x \in AudioRef, NEW b \in BoothStatus,
           Meets(s, e, new, {"Play", "PutStatus"}, x, 0)
    PROVE  Does(s, e, new, <<Play(x), PutStatus(b)>>)
<1>1. Lists(<<Play(x), PutStatus(b)>>, {Play(x).fx, PutStatus(b).fx}, 1, x, 0)
  BY Lists2, PlayFits, PutFits
<1>2. QED
  BY <1>1, PlayFits, PutFits DEF Does

LEMMA WhileDialingDoes ==
    ASSUME NEW s, WellFormed(s), s.tag \in {"DialTone", "Dialing"}, NEW e \in Event,
           e.ev \notin {"HookOn", "DigitDialed"}
    PROVE  Does(s, e, WhileDialing(s, e).state, WhileDialing(s, e).effects)
<1> DEFINE new == WhileDialing(s, e).state
           fxs == WhileDialing(s, e).effects
<1> USE DEF RecorderMeets, SoundMeets, RestMeets, Finishes, Answers, Waits, Hushed, Uploads, RecorderWork,
            Sounds, Replies
<1>1. CASE e.ev = "Tick" /\ s.tag = "Dialing"
  <2> DEFINE d == IF s.pulses = 10 THEN 0 ELSE s.pulses
  <2>1. s.pulses \in 1..10
    BY <1>1 DEF WellFormed, MAX_PULSES_PER_DIGIT
  <2>2. d \in 0..9
    BY <2>1
  <2>3. new = decode_digit(d).state /\ fxs = decode_digit(d).effects
    BY <1>1 DEF WhileDialing
  <2> HIDE DEF d, new, fxs
  <2>4. CASE d \in 0..2
    <3>1. PICK k \in Fetches : fxs = <<Command(k), Command("CancelPulseTimeout")>> /\ new = Plain("DialTone")
      BY <2>3, <2>4 DEF decode_digit, To, Fetches, CancelPulseTimeout
    <3>2. k \in Commands /\ k \notin Single /\ "CancelPulseTimeout" \in Commands \ Single
      BY DEF Fetches, Commands, Single
    <3>3. Lists(fxs, {k, "CancelPulseTimeout"}, 1, 0, 0)
      BY <3>1, <3>2, Lists2, CommandFits
    <3>4. Meets(s, e, new, {k, "CancelPulseTimeout"}, 0, 0)
      BY <1>1, <3>1, VariantFields DEF Meets, Fetches
    <3>5. QED
      BY <3>3, <3>4 DEF Does, new, fxs
  <2>5. CASE d \in 3..9
    <3>1. /\ fxs = <<Play("CallUnavailable"), Command("CancelPulseTimeout"), PutStatus("CallUnavailable")>>
          /\ new = Plain("CallUnavailable")
      BY <2>3, <2>5 DEF decode_digit, To, CancelPulseTimeout
    <3>2. /\ "CallUnavailable" \in AudioRef /\ "CallUnavailable" \in BoothStatus
          /\ "CancelPulseTimeout" \in Commands \ Single
      BY DEF AudioRef, BoothStatus, Commands, Single
    <3>3. Lists(fxs, {"Play", "CancelPulseTimeout", "PutStatus"}, 1, "CallUnavailable", 0)
      BY <3>1, <3>2, Lists3, CommandFits, PlayFits, PutFits
    <3>4. Meets(s, e, new, {"Play", "CancelPulseTimeout", "PutStatus"}, "CallUnavailable", 0)
      BY <1>1, <3>1, VariantFields DEF Meets, Tones
    <3>5. QED
      BY <3>3, <3>4 DEF Does, new, fxs
  <2>6. QED
    BY <2>2, <2>4, <2>5
<1>2. CASE e.ev = "RotaryPulse" /\ s.tag = "DialTone"
  <2>1. new = Dialing(1) /\ fxs = <<Command("StopAudio"), Command("ArmPulseTimeout")>>
    BY <1>2 DEF WhileDialing, To, StopAudio
  <2>2. Lists(fxs, {"StopAudio", "ArmPulseTimeout"}, 1, 0, 0)
    BY <2>1, Lists2, CommandFits DEF Commands, Single
  <2>3. Meets(s, e, new, {"StopAudio", "ArmPulseTimeout"}, 0, 0)
    BY <1>2, <2>1, VariantFields DEF Meets
  <2>4. QED
    BY <2>2, <2>3 DEF Does
<1>3. CASE e.ev = "RotaryPulse" /\ s.tag = "Dialing"
  <2>0. new = CountPulse(s).state /\ fxs = CountPulse(s).effects
    BY <1>3 DEF WhileDialing
  <2>1. CASE s.pulses + 1 > MAX_PULSES_PER_DIGIT
    <3>1. new = Plain("DialTone") /\ fxs = <<Play("DialTone"), Command("CancelPulseTimeout")>>
      BY <2>0, <2>1 DEF CountPulse, To, CancelPulseTimeout
    <3>2. Lists(fxs, {"Play", "CancelPulseTimeout"}, 1, "DialTone", 0)
      BY <3>1, Lists2, CommandFits, PlayFits DEF Commands, Single, AudioRef
    <3>3. Meets(s, e, new, {"Play", "CancelPulseTimeout"}, "DialTone", 0)
      BY <1>3, <3>1, VariantFields DEF Meets
    <3>4. QED
      BY <3>2, <3>3 DEF Does
  <2>2. CASE ~(s.pulses + 1 > MAX_PULSES_PER_DIGIT)
    <3>1. new = Dialing(s.pulses + 1) /\ fxs = <<Command("ArmPulseTimeout")>>
      BY <2>0, <2>2 DEF CountPulse, To
    <3>2. Lists(fxs, {"ArmPulseTimeout"}, 1, 0, 0)
      BY <3>1, Lists1, CommandFits DEF Commands, Single
    <3>3. Meets(s, e, new, {"ArmPulseTimeout"}, 0, 0)
      BY <1>3, <3>1, VariantFields DEF Meets
    <3>4. QED
      BY <3>2, <3>3 DEF Does
  <2>3. QED
    BY <2>1, <2>2
<1>4. CASE e.ev = "QuestionReady" /\ s.tag = "DialTone"
  <2>1. /\ new = Asking("RingingQuestion", e.question)
        /\ fxs = <<Play("Ringback"), PutStatus("PlayingQuestion")>>
    BY <1>4 DEF WhileDialing, To
  <2>2. Meets(s, e, new, {"Play", "PutStatus"}, "Ringback", 0)
    BY <1>4, <2>1, VariantFields DEF Meets, Tones
  <2>3. QED
    BY <2>1, <2>2, PlayPutDoes DEF AudioRef, BoothStatus
<1>5. CASE e.ev \in {"MessageReady", "InstructionsReady"} /\ s.tag = "DialTone"
  <2>1. PICK t \in {"PlayingMessage", "PlayingInstructions"} :
            new = Plain(t) /\ fxs = <<Play(RemoteAudio), PutStatus(t)>>
    BY <1>5 DEF WhileDialing, To
  <2>2. Meets(s, e, new, {"Play", "PutStatus"}, RemoteAudio, 0)
    BY <1>5, <2>1, VariantFields DEF Meets, Tones, RemoteAudio
  <2>3. QED
    BY <2>1, <2>2, PlayPutDoes DEF AudioRef, BoothStatus
<1>6. CASE e.ev \in {"QuestionFailed", "MessageFailed", "InstructionsFailed"} /\ s.tag = "DialTone"
  <2>1. WhileDialing(s, e) = ToBusyTone
    BY <1>6 DEF WhileDialing
  <2>2. s.tag \notin {"Recording", "Dialing"} \cup Answers
    BY <1>6
  <2>3. QED
    BY <2>1, <2>2, ToBusyToneDoes
<1>7. CASE \/ s.tag = "Dialing" /\ e.ev \notin {"Tick", "RotaryPulse"}
           \/ s.tag = "DialTone" /\ e.ev \notin {"RotaryPulse", "QuestionReady", "MessageReady",
                  "InstructionsReady", "QuestionFailed", "MessageFailed", "InstructionsFailed"}
  <2>1. WhileDialing(s, e) = To(s, <<>>)
    BY <1>7 DEF WhileDialing
  <2>2. new = s /\ fxs = <<>>
    BY <2>1 DEF To
  <2>3. QED
    BY <2>2, StaysDoes
<1>8. QED
  BY <1>1, <1>2, <1>3, <1>4, <1>5, <1>6, <1>7
LEMMA WhilePlayingDoes ==
    ASSUME NEW s, NEW e, e.ev # "HookOn",
           s.tag \in {"RingingQuestion", "PlayingQuestion", "Beep", "RecordingEndedBeep",
                      "PlayingMessage", "PlayingInstructions", "CallUnavailable"}
    PROVE  Does(s, e, WhilePlaying(s, e).state, WhilePlaying(s, e).effects)
<1> DEFINE new == WhilePlaying(s, e).state
           fxs == WhilePlaying(s, e).effects
<1> USE DEF RecorderMeets, SoundMeets, RestMeets, Finishes, Answers, Waits, Hushed, Uploads, RecorderWork,
            Sounds, Replies
<1>1. CASE e.ev # "PlaybackEnded"
  <2>1. new = s /\ fxs = <<>>
    BY <1>1 DEF WhilePlaying, To
  <2>2. QED
    BY <2>1, <1>1, StaysDoes
<1>2. CASE e.ev = "PlaybackEnded" /\ s.tag \in {"RingingQuestion", "PlayingQuestion"}
  <2>1. PICK t \in {"PlayingQuestion", "Beep"}, x \in {RemoteAudio, "Beep"} :
            /\ new = Asking(t, s.question) /\ fxs = <<Play(x), PutStatus("PlayingQuestion")>>
            /\ t = "Beep" <=> s.tag = "PlayingQuestion"
    BY <1>2 DEF WhilePlaying, To
  <2>2. Meets(s, e, new, {"Play", "PutStatus"}, x, 0)
    BY <1>2, <2>1, VariantFields DEF Meets, Tones, RemoteAudio
  <2>3. QED
    BY <2>1, <2>2, PlayPutDoes DEF AudioRef, BoothStatus
<1>3. CASE e.ev = "PlaybackEnded" /\ s.tag = "Beep"
  <2>1. /\ new = Asking("Recording", s.question)
        /\ fxs = <<Command("StartRecording"), Command("ArmRecordingTimeout"), PutStatus("Recording")>>
    BY <1>3 DEF WhilePlaying, To
  <2>2. Lists(fxs, {"StartRecording", "ArmRecordingTimeout", "PutStatus"}, 1, 0, 0)
    BY <2>1, Lists3, CommandFits, PutFits DEF Commands, Single, BoothStatus
  <2>3. Meets(s, e, new, {"StartRecording", "ArmRecordingTimeout", "PutStatus"}, 0, 0)
    BY <1>3, <2>1, VariantFields DEF Meets
  <2>4. QED
    BY <2>2, <2>3 DEF Does
<1>4. CASE e.ev = "PlaybackEnded" /\ s.tag \notin {"RingingQuestion", "PlayingQuestion", "Beep"}
  <2>1. WhilePlaying(s, e) = ToDialTone
    BY <1>4 DEF WhilePlaying
  <2>2. QED
    BY <2>1, <1>4, ToDialToneDoes
<1>5. QED
  BY <1>1, <1>2, <1>3, <1>4

LEMMA OneThenThree ==
    ASSUME NEW w \in Effect, NEW x \in Effect, NEW y \in Effect, NEW z \in Effect
    PROVE  <<w>> \o <<x, y, z>> = <<w, x, y, z>>
<1>1. /\ <<w>> \in Seq(Effect) /\ <<x, y, z>> \in Seq(Effect) /\ <<w, x, y, z>> \in Seq(Effect)
      /\ Len(<<w>>) = 1 /\ Len(<<x, y, z>>) = 3 /\ Len(<<w, x, y, z>>) = 4
  OBVIOUS
<1>2. /\ <<w>> \o <<x, y, z>> \in Seq(Effect) /\ Len(<<w>> \o <<x, y, z>>) = 4
      /\ \A i \in 1..4 : (<<w>> \o <<x, y, z>>)[i] = IF i <= 1 THEN <<w>>[i] ELSE <<x, y, z>>[i - 1]
  BY <1>1, ConcatProperties
<1>3. \A i \in 1..4 : (<<w>> \o <<x, y, z>>)[i] = <<w, x, y, z>>[i]
  BY <1>2
<1>4. QED
  BY <1>1, <1>2, <1>3, SeqEqual

\* The end of an answer for which the caller is to hear a beep.
LEMMA EndBeepDoes ==
    ASSUME NEW s, NEW e, WellFormed(s), s.tag \in Answers, NEW r \in RecordingId, e.ev \in Replies,
           NEW before, s.tag = "Recording" => before = <<CancelRecordingTimeout>>,
           s.tag # "Recording" => before = <<>>
    PROVE  Does(s, e, EndBeep(s, r, before).state, EndBeep(s, r, before).effects)
<1> DEFINE new == EndBeep(s, r, before).state
           fxs == EndBeep(s, r, before).effects
           rest == <<Play("Beep"), UploadRecording(r, s.question), PutStatus("Uploading")>>
<1> USE DEF RecorderMeets, SoundMeets, RestMeets, Finishes, Answers, Waits, Hushed, Uploads, RecorderWork,
            Sounds, Replies
<1>1. new = UploadingTimedOut(s.question, r, TRUE) /\ fxs = before \o rest
  BY DEF EndBeep, To
<1>2. s.question \in QuestionId
  BY DEF WellFormed, CarriesQuestion
<1>3. \A p : Fits(UploadRecording(r, s.question), p + 1, p, "Beep", r) /\ Fits(PutStatus("Uploading"), p + 2, p, "Beep", r)
  BY <1>2, UploadFits, PutFits DEF BoothStatus
<1>0. /\ new.tag = "UploadingTimedOut" /\ ~new.on_hook /\ new.recording = r /\ new.beep_pending
  BY <1>1 DEF UploadingTimedOut, Variant
<1> HIDE DEF new
<1>4. /\ Fits(Play("Beep"), 1, 1, "Beep", r) /\ Fits(Play("Beep"), 2, 2, "Beep", r)
      /\ Play("Beep").fx = "Play" /\ UploadRecording(r, s.question).fx = "UploadRecording"
      /\ PutStatus("Uploading").fx = "PutStatus"
  BY <1>2, PlayFits, UploadFits, PutFits DEF AudioRef, BoothStatus
<1>5. CASE s.tag = "Recording"
  <2>1. fxs = <<Command("CancelRecordingTimeout"), Play("Beep"), UploadRecording(r, s.question), PutStatus("Uploading")>>
    <3>1. before \o rest = <<CancelRecordingTimeout>> \o rest
      BY <1>5
    <3>2. CancelRecordingTimeout = Command("CancelRecordingTimeout") /\ CancelRecordingTimeout \in Effect
      BY EffectTypes DEF CancelRecordingTimeout, Commands
    <3>3. Play("Beep") \in Effect /\ UploadRecording(r, s.question) \in Effect /\ PutStatus("Uploading") \in Effect
      BY <1>2, EffectTypes DEF AudioRef, BoothStatus
    <3>4. QED
      BY <1>1, <3>1, <3>2, <3>3, OneThenThree
  <2>2. Fits(UploadRecording(r, s.question), 3, 2, "Beep", r) /\ Fits(PutStatus("Uploading"), 4, 2, "Beep", r)
    BY <1>2, UploadFits, PutFits DEF BoothStatus
  <2>3. Lists(fxs, {"CancelRecordingTimeout", "Play", "UploadRecording", "PutStatus"}, 2, "Beep", r)
    BY <2>1, <2>2, <1>4, Lists4, CommandFits DEF Commands, Single
  <2>4. Meets(s, e, new, {"CancelRecordingTimeout", "Play", "UploadRecording", "PutStatus"}, "Beep", r)
    BY <1>0, <1>5 DEF Meets, Tones
  <2>5. QED
    BY <2>3, <2>4 DEF Does, new
<1>6. CASE s.tag # "Recording"
  <2>1. fxs = rest
    <3>1. rest \in Seq(Effect)
      BY <1>2, EffectTypes DEF AudioRef, BoothStatus
    <3>2. QED
      BY <1>1, <1>6, <3>1, ConcatEmptySeq
  <2>2. Fits(UploadRecording(r, s.question), 2, 1, "Beep", r) /\ Fits(PutStatus("Uploading"), 3, 1, "Beep", r)
    BY <1>2, UploadFits, PutFits DEF BoothStatus
  <2>3. Lists(fxs, {"Play", "UploadRecording", "PutStatus"}, 1, "Beep", r)
    BY <2>1, <2>2, <1>4, Lists3
  <2>4. Meets(s, e, new, {"Play", "UploadRecording", "PutStatus"}, "Beep", r)
    BY <1>0, <1>6 DEF Meets, Tones
  <2>5. QED
    BY <2>3, <2>4 DEF Does, new
<1>7. QED
  BY <1>5, <1>6

LEMMA WhileRecordingDoes ==
    ASSUME NEW s, WellFormed(s), s.tag = "Recording", NEW e \in Event, e.ev # "HookOn"
    PROVE  Does(s, e, WhileRecording(s, e).state, WhileRecording(s, e).effects)
<1> DEFINE new == WhileRecording(s, e).state
           fxs == WhileRecording(s, e).effects
<1> USE DEF RecorderMeets, SoundMeets, RestMeets, Finishes, Answers, Waits, Hushed, Uploads, RecorderWork,
            Sounds, Replies
<1>0. ~s.on_hook
  BY FieldTypes DEF CarriesHook
<1>1. CASE e.ev = "RecordingTimedOut"
  <2>1. /\ new = Finishing("FinishingTimedOutRecording", s.question, FALSE)
        /\ fxs = <<Command("CancelRecordingTimeout"), Command("StopRecording"), PutStatus("Uploading")>>
    BY <1>1 DEF WhileRecording, To, CancelRecordingTimeout, StopRecording
  <2>2. Lists(fxs, {"CancelRecordingTimeout", "StopRecording", "PutStatus"}, 1, 0, 0)
    BY <2>1, Lists3, CommandFits, PutFits DEF Commands, Single, BoothStatus
  <2>5. new.tag = "FinishingTimedOutRecording" /\ ~new.on_hook
    BY <2>1 DEF Finishing, Variant
  <2>3. Meets(s, e, new, {"CancelRecordingTimeout", "StopRecording", "PutStatus"}, 0, 0)
    BY <1>1, <2>5 DEF Meets
  <2>4. QED
    BY <2>2, <2>3 DEF Does
<1>2. CASE e.ev = "RecordingFinished"
  <2>1. WhileRecording(s, e) = EndBeep(s, e.recording, <<CancelRecordingTimeout>>)
    BY <1>2 DEF WhileRecording
  <2>2. e.recording \in RecordingId
    BY <1>2, EventTypes
  <2>3. QED
    BY <2>1, <2>2, <1>2, EndBeepDoes
<1>3. CASE e.ev = "RecordingFailed"
  <2>1. /\ new = Plain("Error")
        /\ fxs = <<Play("LineBusy"), Command("CancelRecordingTimeout"), PutStatus("Idle")>>
    BY <1>3 DEF WhileRecording, To, CancelRecordingTimeout
  <2>2. Lists(fxs, {"Play", "CancelRecordingTimeout", "PutStatus"}, 1, "LineBusy", 0)
    BY <2>1, Lists3, CommandFits, PlayFits, PutFits DEF Commands, Single, BoothStatus, AudioRef
  <2>3. Meets(s, e, new, {"Play", "CancelRecordingTimeout", "PutStatus"}, "LineBusy", 0)
    BY <1>3, <2>1, VariantFields DEF Meets
  <2>4. QED
    BY <2>2, <2>3 DEF Does
<1>4. CASE e.ev \notin {"RecordingTimedOut", "RecordingFinished", "RecordingFailed"}
  <2>1. new = s /\ fxs = <<>>
    BY <1>4 DEF WhileRecording, To
  <2>2. QED
    BY <2>1, <1>4, StaysDoes
<1>5. QED
  BY <1>1, <1>2, <1>3, <1>4

\* The handset is lifted while an answer is on its way: nothing is asked.
LEMMA LiftedDoes ==
    ASSUME NEW s, WellFormed(s), NEW e, e.ev = "HookOff", Finishes(s) \/ s.tag = "Uploading"
    PROVE  Does(s, e, [s EXCEPT !.on_hook = FALSE], <<>>)
<1> DEFINE new == [s EXCEPT !.on_hook = FALSE]
<1>1. /\ new.tag = s.tag /\ new.recording = s.recording /\ ~new.on_hook
      /\ new.beep_pending = s.beep_pending
  BY DEF WellFormed, State
<1>2. Meets(s, e, new, {}, 0, 0)
  BY <1>1 DEF Meets, RecorderMeets, SoundMeets, RestMeets, Finishes, Answers, Waits, Hushed, Uploads,
       RecorderWork, Sounds, Replies
<1>3. QED
  BY <1>2, Lists0 DEF Does
LEMMA WhileFinishingDoes ==
    ASSUME NEW s, WellFormed(s), Finishes(s), NEW e \in Event, e.ev # "HookOn"
    PROVE  Does(s, e, WhileFinishing(s, e).state, WhileFinishing(s, e).effects)
<1> DEFINE new == WhileFinishing(s, e).state
           fxs == WhileFinishing(s, e).effects
<1>1. CASE e.ev = "HookOff"
  <2>1. new = [s EXCEPT !.on_hook = FALSE] /\ fxs = <<>>
    BY <1>1 DEF WhileFinishing, To
  <2>2. QED
    BY <2>1, <1>1, LiftedDoes
<1>2. CASE e.ev = "RecordingFinished"
  <2>1. e.recording \in RecordingId /\ s.question \in QuestionId /\ s.tag \in Answers /\ s.tag # "Recording"
        /\ e.ev \in Replies /\ s.on_hook \in BOOLEAN
    BY <1>2, EventTypes, FieldTypes DEF CarriesQuestion, Finishes, Answers, Replies
  <2>2. CASE s.tag = "FinishingTimedOutRecording" /\ ~s.on_hook
    <3>1. WhileFinishing(s, e) = EndBeep(s, e.recording, <<>>)
      BY <1>2, <2>2 DEF WhileFinishing
    <3>2. QED
      BY <2>1, <3>1, EndBeepDoes
  <2>3. CASE ~(s.tag = "FinishingTimedOutRecording" /\ ~s.on_hook)
    <3>1. /\ new = Uploading(s.question, e.recording, s.on_hook)
          /\ fxs = <<UploadRecording(e.recording, s.question), PutStatus("Uploading")>>
      BY <1>2, <2>3 DEF WhileFinishing, To
    <3>2. Lists(fxs, {"UploadRecording", "PutStatus"}, 1, 0, e.recording)
      BY <2>1, <3>1, Lists2, UploadFits, PutFits DEF BoothStatus
    <3>3. new.tag = "Uploading" /\ new.recording = e.recording /\ new.on_hook = s.on_hook
      BY <3>1, VariantFields
    <3> HIDE DEF new
    <3>4. Meets(s, e, new, {"UploadRecording", "PutStatus"}, 0, e.recording)
      BY <1>2, <2>1, <3>3 DEF Meets, RecorderMeets, SoundMeets, RestMeets, Finishes, Answers, Waits, Hushed, Uploads,
           RecorderWork, Sounds, Replies
    <3>5. QED
      BY <3>2, <3>4 DEF Does, new
  <2>4. QED
    BY <2>2, <2>3
<1>3. CASE e.ev = "RecordingFailed" /\ s.on_hook
  <2>1. new = Plain("Idle") /\ fxs = <<Command("StopAudio"), PutStatus("Idle")>>
    BY <1>3 DEF WhileFinishing, To, StopAudio
  <2>2. Lists(fxs, {"StopAudio", "PutStatus"}, 1, 0, 0)
    BY <2>1, Lists2, CommandFits, PutFits DEF Commands, Single, BoothStatus, Sounds
  <2>3. Meets(s, e, new, {"StopAudio", "PutStatus"}, 0, 0)
    BY <1>3, <2>1, VariantFields DEF Meets, RecorderMeets, SoundMeets, RestMeets, Finishes, Answers, Waits, Hushed, Uploads,
           RecorderWork, Sounds, Replies
  <2>4. QED
    BY <2>2, <2>3 DEF Does
<1>4. CASE e.ev = "RecordingFailed" /\ ~s.on_hook
  <2>1. WhileFinishing(s, e) = ToDialTone
    BY <1>4 DEF WhileFinishing
  <2>2. s.tag # "Recording" /\ s.tag # "Dialing" /\ e.ev \in Replies
    BY <1>4 DEF Finishes, Replies
  <2>3. QED
    BY <2>1, <2>2, ToDialToneDoes
<1>5. CASE e.ev \notin {"HookOff", "RecordingFinished", "RecordingFailed"}
  <2>1. new = s /\ fxs = <<>>
    BY <1>5 DEF WhileFinishing, To
  <2>2. QED
    BY <2>1, <1>5, StaysDoes DEF Finishes, Waits, Uploads, Replies
<1>6. QED
  BY <1>1, <1>2, <1>3, <1>4, <1>5

LEMMA WhileUploadingDoes ==
    ASSUME NEW s, WellFormed(s), s.tag = "Uploading", NEW e \in Event, e.ev # "HookOn",
           e.ev # "UploadFinished"
    PROVE  /\ Does(s, e, WhileUploading(s, e).state, WhileUploading(s, e).effects)
           /\ e.ev \in Outcome => ~Uploads(WhileUploading(s, e).state)
<1> DEFINE new == WhileUploading(s, e).state
           fxs == WhileUploading(s, e).effects
<1>0. s.tag \notin {"Recording", "Dialing"} \cup Answers
  BY DEF Answers
<1>1. CASE e.ev = "HookOff"
  <2>1. new = [s EXCEPT !.on_hook = FALSE] /\ fxs = <<>>
    BY <1>1 DEF WhileUploading, To
  <2>2. QED
    BY <2>1, <1>1, LiftedDoes DEF Outcome
<1>2. CASE e.ev \in Outcome
  <2>1. \/ s.on_hook /\ WhileUploading(s, e) = ToIdle
        \/ WhileUploading(s, e) = ToDialTone
        \/ WhileUploading(s, e) = ToBusyTone
    BY <1>2 DEF WhileUploading, Outcome
  <2>2. ~Uploads(new)
    BY <2>1, VariantFields DEF Uploads, ToIdle, ToDialTone, ToBusyTone, To
  <2>3. QED
    BY <2>1, <2>2, <1>0, ToIdleDoes, ToDialToneDoes, ToBusyToneDoes
<1>3. CASE e.ev \notin {"HookOff"} \cup Outcome
  <2>1. new = s /\ fxs = <<>>
    BY <1>3 DEF WhileUploading, To, Outcome
  <2>2. QED
    BY <2>1, <1>3, <1>0, StaysDoes DEF Waits
<1>4. QED
  BY <1>1, <1>2, <1>3

LEMMA WhileUploadingTimedOutDoes ==
    ASSUME NEW s, WellFormed(s), s.tag = "UploadingTimedOut", NEW e \in Event, e.ev # "HookOn",
           e.ev # "UploadFinished"
    PROVE  /\ Does(s, e, WhileUploadingTimedOut(s, e).state, WhileUploadingTimedOut(s, e).effects)
           /\ e.ev \in Outcome => ~Uploads(WhileUploadingTimedOut(s, e).state)
<1> DEFINE new == WhileUploadingTimedOut(s, e).state
           fxs == WhileUploadingTimedOut(s, e).effects
<1>0. s.tag \notin {"Recording", "Dialing"} \cup Answers /\ ~s.on_hook
  BY FieldTypes DEF Answers, CarriesHook
<1>1. CASE e.ev = "PlaybackEnded"
  <2>1. new = [s EXCEPT !.beep_pending = FALSE] /\ fxs = <<>>
    BY <1>1 DEF WhileUploadingTimedOut, To
  <2>2. /\ new.tag = "UploadingTimedOut" /\ new.recording = s.recording /\ ~new.on_hook
        /\ ~new.beep_pending
    BY <2>1, <1>0 DEF WellFormed, State
  <2> HIDE DEF new
  <2>3. Meets(s, e, new, {}, 0, 0)
    BY <1>1, <2>2 DEF Meets, RecorderMeets, SoundMeets, RestMeets, Finishes, Answers, Waits, Hushed, Uploads,
           RecorderWork, Sounds, Replies
  <2>4. QED
    BY <1>1, <2>1, <2>3, Lists0 DEF Does, Outcome, new
<1>2. CASE e.ev \in {"UploadComplete", "UploadDeferred"} /\ s.beep_pending
  <2>1. new = Plain("RecordingEndedBeep") /\ fxs = <<>>
    BY <1>2 DEF WhileUploadingTimedOut, To
  <2>2. new.tag = "RecordingEndedBeep" /\ ~new.on_hook
    BY <2>1, VariantFields
  <2>3. Meets(s, e, new, {}, 0, 0)
    BY <1>2, <2>2 DEF Meets, RecorderMeets, SoundMeets, RestMeets, Finishes, Answers, Waits, Hushed, Uploads,
           RecorderWork, Sounds, Replies
  <2>4. Does(s, e, new, fxs) /\ ~Uploads(new)
    BY <2>1, <2>2, <2>3, Lists0 DEF Does, Uploads
  <2>5. QED
    BY <2>4
<1>3. CASE \/ e.ev \in {"UploadComplete", "UploadDeferred"} /\ ~s.beep_pending
           \/ e.ev = "UploadFailed"
  <2>1. \/ WhileUploadingTimedOut(s, e) = ToDialTone
        \/ WhileUploadingTimedOut(s, e) = ToBusyTone
    BY <1>3 DEF WhileUploadingTimedOut
  <2>2. ~Uploads(new)
    BY <2>1, VariantFields DEF Uploads, ToDialTone, ToBusyTone, To
  <2>3. QED
    BY <2>1, <2>2, <1>0, ToDialToneDoes, ToBusyToneDoes
<1>4. CASE e.ev \notin {"PlaybackEnded"} \cup Outcome
  <2>1. new = s /\ fxs = <<>>
    BY <1>4 DEF WhileUploadingTimedOut, To, Outcome
  <2>2. QED
    BY <2>1, <1>4, <1>0, StaysDoes
<1>5. QED
  BY <1>1, <1>2, <1>3, <1>4 DEF Outcome
LEMMA HangUpDoes ==
    ASSUME NEW s, WellFormed(s), NEW e, e.ev = "HookOn"
    PROVE  Does(s, e, HangUp(s).state, HangUp(s).effects)
<1> DEFINE new == HangUp(s).state
           fxs == HangUp(s).effects
<1> USE DEF RecorderMeets, SoundMeets, RestMeets, Finishes, Answers, Waits, Hushed, Uploads, RecorderWork,
            Sounds, Replies
<1>0. /\ {"StopAudio", "CancelPulseTimeout", "CancelRecordingTimeout", "StopRecording"} \subseteq Commands
      /\ "Idle" \in BoothStatus /\ "Uploading" \in BoothStatus
      /\ \A k \in {"CancelPulseTimeout", "CancelRecordingTimeout", "StopRecording"} : k \notin Single
      /\ StopAudio = Command("StopAudio") /\ CancelPulseTimeout = Command("CancelPulseTimeout")
      /\ CancelRecordingTimeout = Command("CancelRecordingTimeout") /\ StopRecording = Command("StopRecording")
  BY DEF Commands, BoothStatus, Single, StopAudio, CancelPulseTimeout, CancelRecordingTimeout, StopRecording
<1>1. CASE s.tag = "Recording"
  <2>1. /\ new = Finishing("FinishingRecording", s.question, TRUE)
        /\ fxs = <<Command("StopAudio"), Command("CancelRecordingTimeout"), Command("StopRecording"),
                   Command("CancelPulseTimeout"), PutStatus("Uploading")>>
    BY <1>0, <1>1 DEF HangUp, To
  <2>2. Lists(fxs, {"StopAudio", "CancelRecordingTimeout", "StopRecording", "CancelPulseTimeout", "PutStatus"}, 1, 0, 0)
    BY <1>0, <2>1, Lists5, CommandFits, PutFits
  <2>3. new.tag = "FinishingRecording"
    BY <2>1 DEF Finishing, Variant
  <2>4. Meets(s, e, new, {"StopAudio", "CancelRecordingTimeout", "StopRecording", "CancelPulseTimeout", "PutStatus"}, 0, 0)
    BY <1>1, <2>3 DEF Meets
  <2>5. QED
    BY <2>2, <2>4 DEF Does
<1>2. CASE Finishes(s)
  <2>1. new = [s EXCEPT !.on_hook = TRUE]
    BY <1>2 DEF HangUp, To
  <2>2. /\ new.tag = s.tag /\ new.recording = s.recording /\ new.on_hook
        /\ new.beep_pending = s.beep_pending
    BY <2>1 DEF WellFormed, State
  <2>3. CASE s.tag = "FinishingRecording"
    <3>1. fxs = <<Command("StopAudio"), Command("CancelPulseTimeout")>>
      BY <1>0, <2>3 DEF HangUp, To
    <3>2. Lists(fxs, {"StopAudio", "CancelPulseTimeout"}, 1, 0, 0)
      BY <1>0, <3>1, Lists2, CommandFits
    <3> HIDE DEF new
    <3>3. Meets(s, e, new, {"StopAudio", "CancelPulseTimeout"}, 0, 0)
      BY <2>2, <2>3 DEF Meets
    <3>4. QED
      BY <3>2, <3>3 DEF Does, new
  <2>4. CASE s.tag = "FinishingTimedOutRecording"
    <3>1. fxs = <<Command("StopAudio"), Command("CancelRecordingTimeout"), Command("CancelPulseTimeout")>>
      BY <1>0, <2>4 DEF HangUp, To
    <3>2. Lists(fxs, {"StopAudio", "CancelRecordingTimeout", "CancelPulseTimeout"}, 1, 0, 0)
      BY <1>0, <3>1, Lists3, CommandFits
    <3> HIDE DEF new
    <3>3. Meets(s, e, new, {"StopAudio", "CancelRecordingTimeout", "CancelPulseTimeout"}, 0, 0)
      BY <2>2, <2>4 DEF Meets
    <3>4. QED
      BY <3>2, <3>3 DEF Does, new
  <2>5. QED
    BY <1>2, <2>3, <2>4
<1>3. CASE s.tag \notin Answers
  <2>1. /\ new = Plain("Idle")
        /\ fxs = <<Command("StopAudio"), Command("CancelPulseTimeout"), Command("CancelRecordingTimeout"),
                   PutStatus("Idle")>>
    BY <1>0, <1>3 DEF HangUp, To
  <2>2. Lists(fxs, {"StopAudio", "CancelPulseTimeout", "CancelRecordingTimeout", "PutStatus"}, 1, 0, 0)
    BY <1>0, <2>1, Lists4, CommandFits, PutFits
  <2>3. new.tag = "Idle" /\ ~new.on_hook
    BY <2>1, VariantFields
  <2>4. Meets(s, e, new, {"StopAudio", "CancelPulseTimeout", "CancelRecordingTimeout", "PutStatus"}, 0, 0)
    BY <1>3, <2>3 DEF Meets
  <2>5. QED
    BY <2>2, <2>4 DEF Does
<1>4. QED
  BY <1>1, <1>2, <1>3

\* The power button is handed on as it is.
LEMMA PowerDoes ==
    ASSUME NEW s, WellFormed(s), s.tag # "CallsPaused", NEW e, NEW k \in {"Reboot", "PowerOff"},
           e.ev \in {"PowerButtonPressed", "PowerButtonHeld"}
    PROVE  Does(s, e, s, <<Command(k)>>)
<1>1. Lists(<<Command(k)>>, {k}, 1, 0, 0)
  BY Lists1, CommandFits DEF Commands, Single, Sounds
<1>2. Meets(s, e, s, {k}, 0, 0)
  BY DEF Meets, RecorderMeets, SoundMeets, RestMeets, Finishes, Answers, Waits, Hushed, Uploads, RecorderWork,
         Sounds, Replies
<1>3. QED
  BY <1>1, <1>2 DEF Does

LEMMA InnerDoes ==
    ASSUME NEW s, WellFormed(s), s.tag # "CallsPaused", NEW e \in Event,
           e.ev \notin {"DigitDialed", "UploadFinished"}
    PROVE  /\ Does(s, e, handle_inner(s, e).state, handle_inner(s, e).effects)
           /\ e.ev \in Outcome /\ Uploads(s) => ~Uploads(handle_inner(s, e).state)
<1> DEFINE P(step) == /\ Does(s, e, step.state, step.effects)
                      /\ e.ev \in Outcome /\ Uploads(s) => ~Uploads(step.state)
<1>1. CASE e.ev = "HookOn"
  <2>1. handle_inner(s, e) = HangUp(s)
    BY <1>1 DEF handle_inner
  <2>2. QED
    BY <1>1, <2>1, HangUpDoes DEF Outcome
<1>2. CASE e.ev \in {"PowerButtonPressed", "PowerButtonHeld"}
  <2>1. PICK k \in {"Reboot", "PowerOff"} : handle_inner(s, e) = To(s, <<Command(k)>>)
    BY <1>2 DEF handle_inner
  <2>2. QED
    BY <1>2, <2>1, PowerDoes DEF To, Outcome
<1>3. CASE e.ev \notin {"HookOn", "PowerButtonPressed", "PowerButtonHeld"}
  <2>1. s.tag \in Tags
    BY FieldTypes
  <2>2. CASE s.tag = "Idle"
    <3>1. handle_inner(s, e) \in {ToDialTone, To(s, <<>>)}
      BY <1>3, <2>2 DEF handle_inner
    <3>2. Does(s, e, ToDialTone.state, ToDialTone.effects)
      BY <2>2, ToDialToneDoes DEF Answers
    <3>3. Does(s, e, s, <<>>)
      BY <2>2, StaysDoes DEF Waits, Answers, Uploads
    <3>4. QED
      BY <2>2, <3>1, <3>2, <3>3 DEF To, Uploads
  <2>3. CASE s.tag \in {"DialTone", "Dialing"}
    <3>1. handle_inner(s, e) = WhileDialing(s, e)
      BY <1>3, <2>3 DEF handle_inner
    <3>2. QED
      BY <1>3, <2>3, <3>1, WhileDialingDoes DEF Uploads
  <2>4. CASE s.tag \in {"RingingQuestion", "PlayingQuestion", "Beep", "RecordingEndedBeep",
                        "PlayingMessage", "PlayingInstructions", "CallUnavailable"}
    <3>1. handle_inner(s, e) = WhilePlaying(s, e)
      BY <1>3, <2>4 DEF handle_inner
    <3>2. QED
      BY <1>3, <2>4, <3>1, WhilePlayingDoes DEF Uploads
  <2>5. CASE s.tag = "Recording"
    <3>1. handle_inner(s, e) = WhileRecording(s, e)
      BY <1>3, <2>5 DEF handle_inner
    <3>2. QED
      BY <1>3, <2>5, <3>1, WhileRecordingDoes DEF Uploads
  <2>6. CASE Finishes(s)
    <3>1. handle_inner(s, e) = WhileFinishing(s, e)
      BY <1>3, <2>6 DEF handle_inner, Finishes
    <3>2. QED
      BY <1>3, <2>6, <3>1, WhileFinishingDoes DEF Uploads, Finishes
  <2>7. CASE s.tag = "Uploading"
    <3>1. handle_inner(s, e) = WhileUploading(s, e)
      BY <1>3, <2>7 DEF handle_inner
    <3>2. QED
      BY <1>3, <2>7, <3>1, WhileUploadingDoes
  <2>8. CASE s.tag = "UploadingTimedOut"
    <3>1. handle_inner(s, e) = WhileUploadingTimedOut(s, e)
      BY <1>3, <2>8 DEF handle_inner
    <3>2. QED
      BY <1>3, <2>8, <3>1, WhileUploadingTimedOutDoes
  <2>9. CASE s.tag = "Error"
    <3>1. handle_inner(s, e) = To(s, <<>>)
      BY <1>3, <2>9 DEF handle_inner
    <3>2. QED
      BY <2>9, <3>1, StaysDoes DEF Waits, Answers, Uploads, To
  <2>10. QED
    BY <2>1, <2>2, <2>3, <2>4, <2>5, <2>6, <2>7, <2>8, <2>9 DEF Tags, Finishes
<1>4. QED
  BY <1>1, <1>2, <1>3

\* What admission makes of an event when calls are admitted.
LEMMA AvailableDoes ==
    ASSUME NEW s, WellFormed(s), s.tag # "CallsPaused", NEW e \in Event, e.ev # "DigitDialed"
    PROVE  Does(s, e, handle_available(s, e, TRUE).state, handle_available(s, e, TRUE).effects)
<1> DEFINE step == handle_available(s, e, TRUE)
<1>1. CASE Stale(s, e)
  <2>2. e.ev = "UploadFinished" /\ ~(Uploads(s) /\ s.recording = e.recording)
    BY <1>1 DEF Stale, Uploads
  <2>1. step.state = s /\ step.effects = <<>>
    BY <1>1, <2>2 DEF handle_available, To
  <2>3. Does(s, e, s, <<>>)
    BY <2>2, StaysDoes DEF Replies
  <2>4. QED
    BY <2>1, <2>3
<1>2. CASE ~Stale(s, e) /\ e.ev # "UploadFinished"
  <2>1. step = handle_inner(s, e)
    BY <1>2 DEF handle_available, Stale
  <2>2. QED
    BY <1>2, <2>1, InnerDoes
<1>3. CASE ~Stale(s, e) /\ e.ev = "UploadFinished"
  <2> DEFINE o == Signal(e.outcome)
  <2>1. step = handle_inner(s, o)
    BY <1>3 DEF handle_available
  <2>2. o \in Event /\ o.ev \in Outcome /\ Uploads(s)
    BY <1>3, EventTypes DEF Signal, Event, Signals, Stale, Uploads
  <2>3. o.ev \notin {"DigitDialed", "UploadFinished", "PlaybackEnded", "RecordingTimedOut", "RecordingFinished",
                     "RecordingFailed"}
    BY <2>2 DEF Outcome
  <2>4. /\ Does(s, o, step.state, step.effects)
        /\ ~Uploads(step.state)
    BY <2>1, <2>2, <2>3, InnerDoes
  <2>5. PICK K, p, a, r : Lists(step.effects, K, p, a, r) /\ Meets(s, o, step.state, K, a, r)
    BY <2>4 DEF Does
  <2> HIDE DEF step, o
  <2>6. RecorderMeets(s, e, step.state, K)
    BY <1>3, <2>3, <2>5, <2>2 DEF Meets, RecorderMeets, Replies, Uploads, Answers, Finishes
  <2>7. SoundMeets(s, e, step.state, K, a)
    BY <1>3, <2>3, <2>5 DEF Meets, SoundMeets
  <2>8. RestMeets(s, e, step.state, K, r)
    BY <2>4, <2>5 DEF Meets, RestMeets
  <2>9. QED
    BY <2>5, <2>6, <2>7, <2>8 DEF Does, Meets, step
<1>4. QED
  BY <1>1, <1>2, <1>3

\* The ring is told first; that changes nothing else.
LEMMA LedFirstDoes ==
    ASSUME NEW s, NEW e, NEW step, WellFormed(step.state), Does(s, e, step.state, step.effects)
    PROVE  Does(s, e, LedFirst(s, step).state, LedFirst(s, step).effects)
<1> DEFINE l == SetStatusLed(status_led_for(step.state))
           f == step.effects
           g == <<l>> \o f
<1>1. CASE status_led_for(step.state) = status_led_for(s)
  BY <1>1 DEF LedFirst
<1>2. CASE status_led_for(step.state) # status_led_for(s)
  <2>1. LedFirst(s, step).state = step.state /\ LedFirst(s, step).effects = g
    BY <1>2 DEF LedFirst, To
  <2>2. PICK K, p, a, r : Lists(f, K, p, a, r) /\ Meets(s, e, step.state, K, a, r)
    BY DEF Does
  <2>3. status_led_for(step.state) \in Led
    BY FieldTypes DEF status_led_for, Led, Tags
  <2>4. l \in Effect /\ l.fx = "SetStatusLed"
    BY <2>3, EffectTypes
  <2>5. f \in Seq(Effect) /\ <<l>> \in Seq(Effect) /\ Len(<<l>>) = 1
    BY <2>2, <2>4 DEF Lists
  <2>6. PICK n \in Nat : Len(f) = n
    BY <2>5, LenProperties
  <2> HIDE DEF l, f
  <2>7. /\ g \in Seq(Effect) /\ Len(g) = n + 1 /\ g[1] = l
        /\ \A i \in 1..n : g[i + 1] = f[i]
    BY <2>5, <2>6, ConcatProperties
  <2> HIDE DEF g
  <2>9. \A i \in 1..(n + 1) : (i = 1 /\ g[i] = l) \/ (i - 1 \in 1..n /\ g[i] = f[i - 1])
    <3>1. TAKE i \in 1..(n + 1)
    <3>2. i = 1 \/ (i - 1 \in 1..n /\ (i - 1) + 1 = i)
      BY <2>6
    <3>3. CASE i = 1
      <4>1. g[1] = l
        BY <2>7
      <4>2. QED
        BY <3>3, <4>1
    <3>4. CASE i - 1 \in 1..n /\ (i - 1) + 1 = i
      <4>1. g[(i - 1) + 1] = f[i - 1]
        BY <3>4, <2>7
      <4>2. QED
        BY <3>4, <4>1
    <3>5. QED
      BY <3>2, <3>3, <3>4
  <2>10. \A i \in 1..(n + 1) :
           /\ g[i].fx \in Single => i = (IF p \in Int THEN p + 1 ELSE 0)
           /\ g[i].fx = "Play" => g[i].audio = a
           /\ g[i].fx = "UploadRecording" => g[i].recording = r
    <3>1. TAKE i \in 1..(n + 1)
    <3>2. CASE i = 1 /\ g[i] = l
      BY <3>2, <2>4 DEF Single, Sounds
    <3>3. CASE i - 1 \in 1..n /\ g[i] = f[i - 1]
      <4>1. /\ f[i - 1].fx \in Single => i - 1 = p
            /\ f[i - 1].fx = "Play" => f[i - 1].audio = a
            /\ f[i - 1].fx = "UploadRecording" => f[i - 1].recording = r
        BY <3>3, <2>2, <2>6 DEF Lists
      <4>2. QED
        BY <3>3, <4>1
    <3>4. QED
      BY <2>9, <3>2, <3>3
  <2>11. {g[i].fx : i \in 1..(n + 1)} = K \cup {"SetStatusLed"}
    <3>1. K = {f[i].fx : i \in 1..n}
      BY <2>2, <2>6 DEF Lists
    <3>2. \A i \in 1..(n + 1) : g[i].fx \in K \cup {"SetStatusLed"}
      BY <2>4, <2>9, <3>1
    <3>3. "SetStatusLed" \in {g[i].fx : i \in 1..(n + 1)}
      <4>1. 1 \in 1..(n + 1)
        BY <2>6
      <4>2. QED
        BY <4>1, <2>4, <2>7
    <3>4. \A k \in K : k \in {g[i].fx : i \in 1..(n + 1)}
      <4>1. TAKE k \in K
      <4>2. PICK i \in 1..n : k = f[i].fx
        BY <3>1, <4>1
      <4>3. i + 1 \in 1..(n + 1) /\ g[i + 1] = f[i]
        BY <2>6, <2>7
      <4>4. QED
        BY <4>2, <4>3
    <3>5. QED
      BY <3>2, <3>3, <3>4
  <2>12. Lists(g, K \cup {"SetStatusLed"}, IF p \in Int THEN p + 1 ELSE 0, a, r)
    BY <2>7, <2>10, <2>11 DEF Lists
  <2>13. Meets(s, e, step.state, K \cup {"SetStatusLed"}, a, r)
    <3>1. RecorderMeets(s, e, step.state, K \cup {"SetStatusLed"})
      BY <2>2 DEF Meets, RecorderMeets, Sounds, RecorderWork
    <3>2. SoundMeets(s, e, step.state, K \cup {"SetStatusLed"}, a)
      BY <2>2 DEF Meets, SoundMeets, Sounds, RecorderWork
    <3>3. RestMeets(s, e, step.state, K \cup {"SetStatusLed"}, r)
      BY <2>2 DEF Meets, RestMeets
    <3>4. QED
      BY <3>1, <3>2, <3>3 DEF Meets
  <2>14. QED
    BY <2>1, <2>12, <2>13 DEF Does
<1>3. QED
  BY <1>1, <1>2

\* A step of the core, calls being admitted.
LEMMA CoreDoes ==
    ASSUME NEW s, WellFormed(s), s.tag # "CallsPaused", NEW e \in Event, e.ev # "DigitDialed"
    PROVE  /\ Does(s, e, handle_with_call_availability(s, e, TRUE).state,
                   handle_with_call_availability(s, e, TRUE).effects)
           /\ WellFormed(handle_with_call_availability(s, e, TRUE).state)
<1> DEFINE step == handle_available(s, e, TRUE)
<1>1. handle_with_call_availability(s, e, TRUE) = LedFirst(s, step)
  BY DEF handle_with_call_availability
<1>2. WellFormed(LedFirst(s, step).state)
  BY <1>1, CoreStepSound DEF Sound
<1>3. LedFirst(s, step).state = step.state
  BY DEF LedFirst, To
<1>4. QED
  BY <1>1, <1>2, <1>3, AvailableDoes, LedFirstDoes

----------------------------------------------------------------------------
(* Types *)

Item(S) == [x: S, n: Nat]

\* The events that reach the core here, and what effect_task hands to the operator tasks.
Heard ==
    {e \in Event : e.ev \in {"HookOn", "HookOff", "RotaryPulse", "PlaybackEnded", "Tick", "RecordingTimedOut",
                             "QuestionReady", "MessageReady", "InstructionsReady", "QuestionFailed",
                             "MessageFailed", "InstructionsFailed", "UploadFinished"} \cup Replies}
OperatorReplies ==
    {e \in Event : e.ev \in {"QuestionReady", "MessageReady", "InstructionsReady", "QuestionFailed",
                             "MessageFailed", "InstructionsFailed", "UploadFinished"}}
ForOperator == {x \in Effect : x.fx \in Fetches \cup {"UploadRecording"}}
SoundNames == AudioRef \cup Spoken \cup {NoClip}
Task ==
    [at: {"Free", "Asking", "Storing", "Sending"}, fx: Effect, n: Nat, current: BOOLEAN,
     clip: Spoken \cup {NoClip}, event: Event \cup {NoEffect}]

TaskIsWell(t) ==
    /\ t \in Task
    /\ t.at = "Asking" => t.fx \in ForOperator
    /\ t.at = "Storing" => t.clip \in Spoken
    /\ t.at \in {"Storing", "Sending"} => t.event \in OperatorReplies

WorkerIsWell ==
    /\ worker.at \in {"Ready", "Finalizing", "Reporting", "Passing"}
    /\ worker.item.n \in Nat
    /\ worker.at = "Reporting" => worker.item.x \in Event /\ worker.item.x.ev \in Replies
    /\ worker.at = "Passing" => worker.item \in Item(SoundNames \cup {"Stop"})
    /\ worker.at = "Ready" => worker = Resting

\* The effects that effect_task has yet to take.
Q == effects \o loop

QueuesAreWell ==
    /\ effects \in Seq(Item(Effect)) /\ loop \in Seq(Item(Effect))
    /\ events \in Seq(Item(Heard)) /\ audio \in Seq(Item(SoundNames \cup {"Stop"}))
    /\ waiting \in Seq(Item(ForOperator))
    /\ Len(events) <= EventCap /\ Len(effects) <= EffectCap /\ Len(audio) <= AudioCap

DevicesAreWell ==
    /\ tasks \in [Slots -> Task] /\ \A s \in Slots : TaskIsWell(tasks[s])
    /\ remote \in Spoken \cup {NoClip}
    /\ player \in [at: {"Idle", "Starting", "Playing", "Ended"}, sound: SoundNames \cup {"Failed"}, n: Nat]
    /\ mic \in Nat /\ armed \in SUBSET Item({"Tick", "RecordingTimedOut"})
    /\ made \subseteq RecordingId /\ inputs \in 0..MaxInputs

CoreIsWell ==
    /\ WellFormed(core) /\ core.tag # "CallsPaused"
    /\ early \in BOOLEAN
    /\ last \in [step: Nat, play: Nat, fetch: Nat, record: Nat, timer: Nat]

Types == CoreIsWell /\ QueuesAreWell /\ WorkerIsWell /\ DevicesAreWell

----------------------------------------------------------------------------
(* Queues *)

LEMMA Popped ==
    ASSUME NEW S, NEW q \in Seq(S), q # <<>>
    PROVE  /\ Head(q) = q[1] /\ q[1] \in S /\ Len(q) \in Nat \ {0}
           /\ Tail(q) \in Seq(S) /\ Len(Tail(q)) = Len(q) - 1
           /\ \A i \in 1..Len(Tail(q)) : i + 1 \in 1..Len(q) /\ Tail(q)[i] = q[i + 1]
<1>1. Len(q) \in Nat \ {0} /\ Head(q) = q[1]
  BY EmptySeq
<1>2. /\ Head(q) \in S /\ Tail(q) \in Seq(S) /\ Len(Tail(q)) = Len(q) - 1
      /\ \A i \in 1..Len(Tail(q)) : Tail(q)[i] = q[i + 1]
  BY HeadTailProperties
<1>3. \A i \in 1..Len(Tail(q)) : i + 1 \in 1..Len(q)
  BY <1>1, <1>2
<1>4. QED
  BY <1>1, <1>2, <1>3

LEMMA Element ==
    ASSUME NEW S, NEW q \in Seq(S)
    PROVE  Len(q) \in Nat /\ \A i \in 1..Len(q) : q[i] \in S
  BY LenProperties, ElementOfSeq

QStay == Q' = Q
QPop == Q # <<>> /\ Q' = Tail(Q)
Adds(e, n) == events' = Append(events, Mark(e, n))

LEMMA QElements ==
    ASSUME QueuesAreWell
    PROVE  /\ Q \in Seq(Item(Effect)) /\ Len(Q) \in Nat
           /\ \A i \in 1..Len(Q) : Q[i] \in Item(Effect) /\ Q[i].x \in Effect /\ Q[i].n \in Nat
<1>1. Q \in Seq(Item(Effect))
  BY ConcatProperties DEF QueuesAreWell, Q
<1> HIDE DEF Q
<1>2. Len(Q) \in Nat /\ \A i \in 1..Len(Q) : Q[i] \in Item(Effect)
  BY <1>1, Element
<1>3. QED
  BY <1>1, <1>2 DEF Item

LEMMA QElementsLater ==
    ASSUME QueuesAreWell'
    PROVE  /\ Q' \in Seq(Item(Effect)) /\ Len(Q') \in Nat
           /\ \A i \in 1..Len(Q') : Q'[i] \in Item(Effect) /\ Q'[i].x \in Effect /\ Q'[i].n \in Nat
<1>1. Q' \in Seq(Item(Effect))
  BY ConcatProperties DEF QueuesAreWell, Q
<1> HIDE DEF Q
<1>2. Len(Q') \in Nat /\ \A i \in 1..Len(Q') : Q'[i] \in Item(Effect)
  BY <1>1, Element
<1>3. QED
  BY <1>1, <1>2 DEF Item

LEMMA PopFacts ==
    ASSUME QueuesAreWell, QPop
    PROVE  /\ Len(Q) \in Nat \ {0} /\ Len(Q') = Len(Q) - 1
           /\ Q[1] \in Item(Effect) /\ Q[1].x \in Effect /\ Q[1].n \in Nat /\ 1 \in 1..Len(Q)
           /\ \A i \in 1..Len(Q') : i + 1 \in 1..Len(Q) /\ Q'[i] = Q[i + 1]
           /\ \A i \in 1..Len(Q) : i # 1 => i - 1 \in 1..Len(Q') /\ Q'[i - 1] = Q[i]
<1>1. Q \in Seq(Item(Effect)) /\ Q # <<>> /\ Q' = Tail(Q)
  BY QElements DEF QPop
<1>2. /\ Len(Q) \in Nat \ {0} /\ Len(Q') = Len(Q) - 1 /\ Q[1] \in Item(Effect)
      /\ \A i \in 1..Len(Q') : i + 1 \in 1..Len(Q) /\ Q'[i] = Q[i + 1]
  BY <1>1, Popped
<1>3. ASSUME NEW i \in 1..Len(Q), i # 1 PROVE i - 1 \in 1..Len(Q') /\ Q'[i - 1] = Q[i]
  <2>1. i - 1 \in 1..Len(Q') /\ (i - 1) + 1 = i
    BY <1>2, <1>3
  <2>2. Q'[i - 1] = Q[(i - 1) + 1]
    BY <2>1, <1>2
  <2>3. QED
    BY <2>1, <2>2
<1>4. QED
  BY <1>2, <1>3 DEF Item

LEMMA EventElements ==
    ASSUME QueuesAreWell
    PROVE  /\ Len(events) \in Nat
           /\ \A i \in 1..Len(events) : /\ events[i] \in Item(Heard) /\ events[i].x \in Heard
                                        /\ events[i].x \in Event /\ events[i].n \in Nat
<1>1. Len(events) \in Nat /\ \A i \in 1..Len(events) : events[i] \in Item(Heard)
  BY Element DEF QueuesAreWell
<1>2. QED
  BY <1>1 DEF Item, Heard

LEMMA AddFacts ==
    ASSUME QueuesAreWell, NEW e \in Heard, NEW n \in Nat, Adds(e, n)
    PROVE  /\ Len(events) \in Nat /\ Len(events') = Len(events) + 1
           /\ events' \in Seq(Item(Heard))
           /\ \A i \in 1..Len(events) : events'[i] = events[i] /\ i \in 1..Len(events')
           /\ events'[Len(events) + 1].x = e /\ events'[Len(events) + 1].n = n
           /\ \A i \in 1..Len(events') : i \in 1..Len(events) \/ i = Len(events) + 1
<1>1. events \in Seq(Item(Heard)) /\ Mark(e, n) \in Item(Heard) /\ Mark(e, n).x = e /\ Mark(e, n).n = n
  BY DEF QueuesAreWell, Item, Mark
<1>2. /\ events' \in Seq(Item(Heard)) /\ Len(events') = Len(events) + 1
      /\ \A i \in 1..Len(events) : events'[i] = events[i]
      /\ events'[Len(events) + 1] = Mark(e, n)
  BY <1>1, AppendProperties DEF Adds
<1>3. Len(events) \in Nat
  BY <1>1, LenProperties
<1>4. QED
  BY <1>1, <1>2, <1>3
\* handle_event hands on what it can: nothing is lost, and the order is kept.
LEMMA SendIsWhole ==
    ASSUME NEW p \in Seq(Item(Effect)), effects \in Seq(Item(Effect)), Send(p)
    PROVE  /\ effects' \in Seq(Item(Effect)) /\ loop' \in Seq(Item(Effect)) /\ Len(effects') <= EffectCap
           /\ Q' = effects \o p
<1> DEFINE all == effects \o p
           room == IF Len(all) > EffectCap THEN EffectCap ELSE Len(all)
<1>1. all \in Seq(Item(Effect)) /\ Len(all) \in Nat
  BY ConcatProperties, LenProperties
<1>2. EffectCap \in Nat
  BY RuntimeAssumption
<1>3. effects' = SubSeq(all, 1, room) /\ loop' = SubSeq(all, room + 1, Len(all))
  BY DEF Send
<1> HIDE DEF all
<1>4. room \in 0..Len(all) /\ room <= EffectCap
  BY <1>1, <1>2
<1> HIDE DEF room
<1>5. SubSeq(all, 1, room) \o SubSeq(all, room + 1, Len(all)) = SubSeq(all, 1, Len(all))
  <2>1. 1 \in 1..(Len(all) + 1) /\ room \in (1 - 1)..Len(all) /\ Len(all) \in room..Len(all)
    BY <1>1, <1>4
  <2>2. QED
    BY <1>1, <2>1, ConcatAdjacentSubSeq
<1>6. SubSeq(all, 1, Len(all)) = all
  BY <1>1, SubSeqFull
<1>7. /\ SubSeq(all, 1, room) \in Seq(Item(Effect)) /\ Len(SubSeq(all, 1, room)) <= EffectCap
      /\ SubSeq(all, room + 1, Len(all)) \in Seq(Item(Effect))
  <2>1. \A i \in 1..Len(all) : all[i] \in Item(Effect)
    BY <1>1, ElementOfSeq
  <2>2. (\A i \in 1..room : all[i] \in Item(Effect)) /\ (\A i \in (room + 1)..Len(all) : all[i] \in Item(Effect))
    BY <2>1, <1>1, <1>4
  <2>3. SubSeq(all, 1, room) \in Seq(Item(Effect)) /\ SubSeq(all, room + 1, Len(all)) \in Seq(Item(Effect))
    BY <2>2, <1>1, <1>4, SubSeqProperties
  <2>4. Len(SubSeq(all, 1, room)) = IF 1 <= room THEN room - 1 + 1 ELSE 0
    BY <2>2, <1>4, SubSeqProperties
  <2>5. QED
    BY <2>3, <2>4, <1>4, <1>2
<1>8. QED
  BY <1>3, <1>5, <1>6, <1>7 DEF Q, all

LEMMA TailOfEffects ==
    ASSUME QueuesAreWell, effects # <<>>, effects' = Tail(effects), loop' = loop
    PROVE  /\ QPop /\ Head(effects) = Q[1] /\ Head(effects) \in Item(Effect)
           /\ effects' \in Seq(Item(Effect)) /\ loop' \in Seq(Item(Effect)) /\ Len(effects') <= EffectCap
<1>1. /\ effects \in Seq(Item(Effect)) /\ loop \in Seq(Item(Effect)) /\ EffectCap \in Nat
      /\ Len(effects) <= EffectCap
  BY RuntimeAssumption DEF QueuesAreWell
<1>2. /\ Head(effects) = effects[1] /\ effects[1] \in Item(Effect) /\ Len(effects) \in Nat \ {0}
      /\ Tail(effects) \in Seq(Item(Effect)) /\ Len(Tail(effects)) = Len(effects) - 1
      /\ \A i \in 1..Len(Tail(effects)) : i + 1 \in 1..Len(effects) /\ Tail(effects)[i] = effects[i + 1]
  BY <1>1, Popped
<1>3. Len(loop) \in Nat
  BY <1>1, LenProperties
<1>4. /\ Q \in Seq(Item(Effect)) /\ Len(Q) = Len(effects) + Len(loop)
      /\ \A i \in 1..(Len(effects) + Len(loop)) : Q[i] = IF i <= Len(effects) THEN effects[i] ELSE loop[i - Len(effects)]
  BY <1>1, ConcatProperties DEF Q
<1>5. /\ Q' \in Seq(Item(Effect)) /\ Len(Q') = Len(Tail(effects)) + Len(loop)
      /\ \A i \in 1..(Len(Tail(effects)) + Len(loop)) :
             Q'[i] = IF i <= Len(Tail(effects)) THEN Tail(effects)[i] ELSE loop[i - Len(Tail(effects))]
  BY <1>1, <1>2, ConcatProperties DEF Q
<1> HIDE DEF Q
<1>6. Q # <<>>
  BY <1>2, <1>3, <1>4, EmptySeq
<1>7. /\ Tail(Q) \in Seq(Item(Effect)) /\ Len(Tail(Q)) = Len(Q) - 1
      /\ \A i \in 1..Len(Tail(Q)) : i + 1 \in 1..Len(Q) /\ Tail(Q)[i] = Q[i + 1]
  BY <1>4, <1>6, Popped
<1>8. Len(Q') = Len(Tail(Q))
  BY <1>2, <1>3, <1>4, <1>5, <1>7
<1>9. ASSUME NEW i \in 1..Len(Q') PROVE Q'[i] = Tail(Q)[i]
  <2>1. Tail(Q)[i] = Q[i + 1] /\ i + 1 \in 1..Len(Q)
    BY <1>7, <1>8
  <2>2. CASE i <= Len(Tail(effects))
    <3>1. Q'[i] = Tail(effects)[i] /\ Tail(effects)[i] = effects[i + 1]
      BY <1>2, <1>3, <1>5, <2>2
    <3>2. Q[i + 1] = effects[i + 1]
      BY <1>2, <1>3, <1>4, <2>1, <2>2
    <3>3. QED
      BY <2>1, <3>1, <3>2
  <2>3. CASE ~(i <= Len(Tail(effects)))
    <3>1. Q'[i] = loop[i - Len(Tail(effects))]
      BY <1>5, <2>3
    <3>2. Q[i + 1] = loop[(i + 1) - Len(effects)]
      BY <1>2, <1>3, <1>4, <2>1, <2>3
    <3>3. i - Len(Tail(effects)) = (i + 1) - Len(effects)
      BY <1>2, <1>3, <1>5
    <3>4. QED
      BY <2>1, <3>1, <3>2, <3>3
  <2>4. QED
    BY <2>2, <2>3
<1>10. Q' = Tail(Q)
  BY <1>5, <1>7, <1>8, <1>9, SeqEqual
<1>11. Q[1] = effects[1]
  BY <1>2, <1>3, <1>4
<1>12. QED
  BY <1>1, <1>2, <1>6, <1>10, <1>11 DEF QPop

\* effect_task takes an effect that is not the operator's.
LEMMA TakesPops ==
    ASSUME QueuesAreWell, NEW kinds, kinds \cap (Fetches \cup {"UploadRecording"}) = {},
           Takes(kinds), loop' = loop
    PROVE  /\ QPop /\ Next1 = Q[1] /\ Q[1].x.fx \in kinds /\ waiting' = waiting /\ worker.at = "Ready"
           /\ Next1.x \in Effect /\ Next1.n \in Nat
           /\ effects' \in Seq(Item(Effect)) /\ loop' \in Seq(Item(Effect)) /\ Len(effects') <= EffectCap
<1>1. ~(waiting # <<>> /\ ~Full)
  <2> SUFFICES ASSUME waiting # <<>> /\ ~Full PROVE FALSE
    OBVIOUS
  <2>1. Next1 = Head(waiting)
    BY DEF Next1
  <2>2. Head(waiting) \in Item(ForOperator)
    BY Popped DEF QueuesAreWell
  <2>3. QED
    BY <2>1, <2>2 DEF Takes, Item, ForOperator
<1>2. Next1 = Head(effects) /\ effects # <<>> /\ effects' = Tail(effects) /\ waiting' = waiting
  BY <1>1 DEF Next1, Takes, MayTake, Took
<1>3. QED
  BY <1>2, TailOfEffects DEF Takes, MayTake, Item

\* effect_task takes an effect of the operator's, which may have waited.
LEMMA TakesOperator ==
    ASSUME QueuesAreWell, Takes(Fetches \cup {"UploadRecording"}), loop' = loop
    PROVE  /\ Next1 \in Item(ForOperator) /\ ~Full /\ worker.at = "Ready"
           /\ \/ waiting # <<>> /\ Next1 = waiting[1] /\ waiting' = Tail(waiting) /\ QStay
              \/ QPop /\ Next1 = Q[1] /\ waiting' = waiting
           /\ waiting' \in Seq(Item(ForOperator))
           /\ effects' \in Seq(Item(Effect)) /\ loop' \in Seq(Item(Effect)) /\ Len(effects') <= EffectCap
<1>1. CASE waiting # <<>> /\ ~Full
  <2>1. Next1 = Head(waiting) /\ waiting' = Tail(waiting) /\ effects' = effects
    BY <1>1 DEF Next1, Takes, Took
  <2>2. Head(waiting) = waiting[1] /\ waiting[1] \in Item(ForOperator) /\ Tail(waiting) \in Seq(Item(ForOperator))
    BY <1>1, Popped DEF QueuesAreWell
  <2>3. QED
    BY <1>1, <2>1, <2>2 DEF QStay, Q, QueuesAreWell, Takes, MayTake
<1>2. CASE ~(waiting # <<>> /\ ~Full)
  <2>1. Next1 = Head(effects) /\ effects # <<>> /\ effects' = Tail(effects) /\ waiting' = waiting
    BY <1>2 DEF Next1, Takes, MayTake, Took
  <2>2. /\ QPop /\ Head(effects) = Q[1] /\ Head(effects) \in Item(Effect)
        /\ effects' \in Seq(Item(Effect)) /\ loop' \in Seq(Item(Effect)) /\ Len(effects') <= EffectCap
    BY <2>1, TailOfEffects
  <2>3. Next1.x.fx \in Fetches \cup {"UploadRecording"} /\ worker.at = "Ready" /\ (Full => ~IsOperators(Head(effects).x))
    BY <1>2 DEF Takes, MayTake
  <2>4. ~Full
    BY <2>1, <2>3 DEF IsOperators
  <2>5. Next1 \in Item(ForOperator)
    BY <2>1, <2>2, <2>3 DEF Item, ForOperator
  <2>6. QED
    BY <2>1, <2>2, <2>3, <2>4, <2>5 DEF QueuesAreWell
<1>3. QED
  BY <1>1, <1>2

----------------------------------------------------------------------------
(* Every step keeps the types *)

LEMMA RestingIsWell == Resting.at = "Ready" /\ Resting.item.n = 0
  BY DEF Resting, Mark

LEMMA TypesInit == Init => Types
<1> SUFFICES ASSUME Init PROVE Types
  OBVIOUS
<1>1. CoreIsWell
  <2>1. \A t \in {"Idle", "DialTone"} : WellFormed(Plain(t)) /\ Plain(t).tag = t
    BY PlainWellFormed, VariantFields DEF Tags, CarriesQuestion
  <2>2. core \in {Plain("Idle"), Plain("DialTone")}
    BY DEF Init
  <2>3. last \in [step: Nat, play: Nat, fetch: Nat, record: Nat, timer: Nat]
    <3>1. PICK n \in {0, 1} : last = [Unasked EXCEPT !.step = n, !.play = n]
      BY DEF Init
    <3>2. last = [step |-> n, play |-> n, fetch |-> 0, record |-> 0, timer |-> 0]
      BY <3>1 DEF Unasked
    <3>3. QED
      BY <3>2
  <2>4. QED
    BY <2>1, <2>2, <2>3 DEF CoreIsWell, Init
<1>2. QueuesAreWell
  <2>1. Play("DialTone") \in Effect
    BY EffectTypes DEF AudioRef
  <2>2. effects \in Seq(Item(Effect)) /\ Len(effects) <= EffectCap
    <3>1. effects \in {<<>>, <<Mark(Play("DialTone"), 1)>>}
      BY DEF Init
    <3>2. Mark(Play("DialTone"), 1) \in Item(Effect) /\ EffectCap \in Nat \ {0}
      BY <2>1, RuntimeAssumption DEF Item, Mark
    <3>3. <<Mark(Play("DialTone"), 1)>> \in Seq(Item(Effect)) /\ Len(<<Mark(Play("DialTone"), 1)>>) = 1
      BY <3>2
    <3>4. CASE effects = <<>>
      <4>1. Len(effects) = 0 /\ effects \in Seq(Item(Effect))
        BY <3>4, EmptySeq
      <4>2. QED
        BY <3>2, <4>1
    <3>5. CASE effects = <<Mark(Play("DialTone"), 1)>>
      <4>1. Len(effects) = 1 /\ effects \in Seq(Item(Effect))
        BY <3>3, <3>5
      <4>2. QED
        BY <3>2, <4>1
    <3>6. QED
      BY <3>1, <3>4, <3>5
  <2>3. loop = <<>> /\ events = <<>> /\ audio = <<>> /\ waiting = <<>> /\ EventCap \in Nat /\ AudioCap \in Nat
    BY RuntimeAssumption DEF Init
  <2>4. QED
    BY <2>2, <2>3, EmptySeq DEF QueuesAreWell
<1>3. WorkerIsWell
  BY RestingIsWell DEF WorkerIsWell, Init
<1>4. DevicesAreWell
  <2>1. NoEffect \in Effect
    BY EffectTypes DEF NoEffect, Commands
  <2>2. Free \in Task /\ Free.at = "Free"
    BY <2>1 DEF Free, Task
  <2>3. tasks \in [Slots -> Task] /\ \A s \in Slots : TaskIsWell(tasks[s])
    BY <2>2 DEF Init, TaskIsWell
  <2>4. QED
    BY <2>3, RuntimeAssumption DEF DevicesAreWell, Init, Silent, SoundNames
<1>5. QED
  BY <1>1, <1>2, <1>3, <1>4 DEF Types

\* What is put into the audio queue, or waits for room in it.
LEMMA PassIsWell ==
    ASSUME QueuesAreWell, worker.at = "Ready", WorkerIsWell, NEW c \in SoundNames \cup {"Stop"}, NEW n \in Nat, Pass(c, n)
    PROVE  /\ audio' \in Seq(Item(SoundNames \cup {"Stop"})) /\ Len(audio') <= AudioCap
           /\ WorkerIsWell'
<1>1. audio \in Seq(Item(SoundNames \cup {"Stop"})) /\ Mark(c, n) \in Item(SoundNames \cup {"Stop"})
      /\ AudioCap \in Nat /\ Len(audio) <= AudioCap
  BY RuntimeAssumption DEF QueuesAreWell, Item, Mark
<1>2. Len(audio) \in Nat
  BY <1>1, LenProperties
<1>3. CASE Len(audio) < AudioCap
  <2>1. audio' = Append(audio, Mark(c, n)) /\ worker' = worker
    BY <1>3 DEF Pass
  <2>2. audio' \in Seq(Item(SoundNames \cup {"Stop"})) /\ Len(audio') = Len(audio) + 1
    BY <1>1, <2>1, AppendProperties
  <2>3. QED
    BY <1>1, <1>2, <1>3, <2>1, <2>2 DEF WorkerIsWell
<1>4. CASE ~(Len(audio) < AudioCap)
  <2>1. audio' = audio /\ worker' = [at |-> "Passing", item |-> Mark(c, n)]
    BY <1>4 DEF Pass
  <2>2. QED
    BY <1>1, <2>1 DEF WorkerIsWell, Mark, Item
<1>5. QED
  BY <1>3, <1>4

LEMMA EnqueueAdds ==
    ASSUME QueuesAreWell, NEW e \in Heard, NEW n \in Nat, Enqueue(e, n)
    PROVE  Adds(e, n) /\ events' \in Seq(Item(Heard)) /\ Len(events') <= EventCap
<1>1. Adds(e, n) /\ Len(events) < EventCap
  BY DEF Enqueue, EventRoom, Adds
<1>2. Len(events) \in Nat /\ Len(events') = Len(events) + 1 /\ events' \in Seq(Item(Heard)) /\ EventCap \in Nat
  BY <1>1, AddFacts, RuntimeAssumption
<1>3. QED
  BY <1>1, <1>2

LEMMA SignalsAreHeard ==
    /\ \A k \in {"HookOn", "HookOff", "RotaryPulse", "PlaybackEnded", "Tick", "RecordingTimedOut",
                 "RecordingFailed"} : Signal(k) \in Heard /\ Signal(k).ev = k
    /\ \A k \in {"QuestionFailed", "MessageReady", "MessageFailed", "InstructionsReady", "InstructionsFailed"} :
           Signal(k) \in OperatorReplies /\ Signal(k).ev = k
    /\ OperatorReplies \subseteq Heard
<1>1. \A k \in Signals : Signal(k) \in Event /\ Signal(k).ev = k
  BY DEF Signal, Event
<1>2. QED
  BY <1>1 DEF Heard, OperatorReplies, Signals, Replies
LEMMA HandleFacts ==
    ASSUME Types, Handle
    PROVE  /\ events # <<>> /\ events' = Tail(events) /\ loop = <<>>
           /\ Head(events) = events[1] /\ events[1].x \in Heard /\ events[1].n \in Nat
           /\ WellFormed(core') /\ core'.tag # "CallsPaused"
           /\ early' = (early \/ (core.tag = "Beep" /\ events[1].x.ev = "PlaybackEnded" /\ events[1].n # last.play))
           /\ \E fxs \in Seq(Effect) :
                 /\ Does(core, events[1].x, core', fxs)
                 /\ last' = IF fxs = <<>> THEN last ELSE Asked(last, fxs)
                 /\ Send([i \in DOMAIN fxs |-> Mark(fxs[i], IF fxs[i] = StopRecording THEN last.record ELSE last.step + 1)])
<1> DEFINE step == handle_with_call_availability(core, Head(events).x, TRUE)
<1>1. events # <<>> /\ events' = Tail(events) /\ loop = <<>> /\ core' = step.state
  BY DEF Handle
<1>2. Head(events) = events[1] /\ events[1] \in Item(Heard)
  BY <1>1, Popped DEF Types, QueuesAreWell
<1>3. events[1].x \in Heard /\ events[1].n \in Nat
  BY <1>2 DEF Item
<1>4. events[1].x \in Event /\ events[1].x.ev # "DigitDialed"
  BY <1>3 DEF Heard, Replies
<1>5. WellFormed(core) /\ core.tag # "CallsPaused"
  BY DEF Types, CoreIsWell
<1>6. Does(core, events[1].x, step.state, step.effects) /\ WellFormed(step.state)
  BY <1>2, <1>4, <1>5, CoreDoes
<1>7. step.effects \in Seq(Effect) /\ step.state.tag # "CallsPaused"
  BY <1>6 DEF Does, Lists, Meets, RestMeets
<1>8. /\ last' = IF step.effects = <<>> THEN last ELSE Asked(last, step.effects)
      /\ Send([i \in DOMAIN step.effects |-> Mark(step.effects[i], IF step.effects[i] = StopRecording THEN last.record ELSE last.step + 1)])
  BY DEF Handle
<1>9. early' = (early \/ (core.tag = "Beep" /\ events[1].x.ev = "PlaybackEnded" /\ events[1].n # last.play))
  BY <1>2 DEF Handle
<1> HIDE DEF step
<1>10. QED
  BY <1>1, <1>2, <1>3, <1>6, <1>7, <1>8, <1>9

\* What the queue of effects gains, and which marks the core keeps.
LEMMA HandlePushes ==
    ASSUME Types, NEW fxs \in Seq(Effect), loop = <<>>,
           Send([i \in DOMAIN fxs |-> Mark(fxs[i], IF fxs[i] = StopRecording THEN last.record ELSE last.step + 1)]),
           last' = IF fxs = <<>> THEN last ELSE Asked(last, fxs)
    PROVE  /\ Len(fxs) \in Nat /\ Len(Q) \in Nat /\ Len(Q') = Len(Q) + Len(fxs)
           /\ \A i \in 1..Len(Q) : Q'[i] = Q[i] /\ i \in 1..Len(Q')
           /\ \A i \in 1..Len(fxs) : /\ fxs[i] \in Effect
                                     /\ Len(Q) + i \in 1..Len(Q') /\ Q'[Len(Q) + i].x = fxs[i]
                                     /\ Q'[Len(Q) + i].n = IF fxs[i].fx = "StopRecording" THEN last.record ELSE last.step + 1
           /\ \A i \in 1..Len(Q') : i \in 1..Len(Q) \/ (i - Len(Q) \in 1..Len(fxs) /\ Len(Q) + (i - Len(Q)) = i)
           /\ effects' \in Seq(Item(Effect)) /\ loop' \in Seq(Item(Effect)) /\ Len(effects') <= EffectCap
           /\ last' \in [step: Nat, play: Nat, fetch: Nat, record: Nat, timer: Nat]
<1> DEFINE N(i) == IF fxs[i] = StopRecording THEN last.record ELSE last.step + 1
           p == [i \in DOMAIN fxs |-> Mark(fxs[i], N(i))]
<1>1. Len(fxs) \in Nat /\ DOMAIN fxs = 1..Len(fxs) /\ \A i \in 1..Len(fxs) : fxs[i] \in Effect
  BY LenProperties, ElementOfSeq
<1>2. last \in [step: Nat, play: Nat, fetch: Nat, record: Nat, timer: Nat] /\ last.step \in Nat /\ last.record \in Nat
  BY DEF Types, CoreIsWell
<1>3. \A i \in 1..Len(fxs) : Mark(fxs[i], N(i)) \in Item(Effect) /\ Mark(fxs[i], N(i)).x = fxs[i] /\ Mark(fxs[i], N(i)).n = N(i)
  BY <1>1, <1>2 DEF Item, Mark
<1>4. p \in [1..Len(fxs) -> Item(Effect)]
  BY <1>1, <1>3
<1>5. p \in Seq(Item(Effect)) /\ Len(p) = Len(fxs) /\ \A i \in 1..Len(fxs) : p[i] = Mark(fxs[i], N(i))
  BY <1>1, <1>4
<1>6. \A i \in 1..Len(fxs) : N(i) = IF fxs[i].fx = "StopRecording" THEN last.record ELSE last.step + 1
  <2>1. TAKE i \in 1..Len(fxs)
  <2>2. fxs[i] = StopRecording <=> fxs[i].fx = "StopRecording"
    BY <1>1 DEF Effect, StopRecording, Command, Commands
  <2>3. QED
    BY <2>2
<1>7. effects \in Seq(Item(Effect)) /\ Send(p)
  BY DEF Types, QueuesAreWell
<1> HIDE DEF p, N
<1>8. /\ Q' = effects \o p
      /\ effects' \in Seq(Item(Effect)) /\ loop' \in Seq(Item(Effect)) /\ Len(effects') <= EffectCap
  BY <1>5, <1>7, SendIsWhole
<1>9. Q = effects
  BY <1>7, ConcatEmptySeq DEF Q
<1>10. /\ Len(Q') = Len(Q) + Len(fxs) /\ Len(Q) \in Nat
       /\ \A i \in 1..(Len(Q) + Len(fxs)) : Q'[i] = IF i <= Len(Q) THEN Q[i] ELSE p[i - Len(Q)]
  <2>1. /\ Len(effects \o p) = Len(effects) + Len(p)
        /\ \A i \in 1..(Len(effects) + Len(p)) : (effects \o p)[i] = IF i <= Len(effects) THEN effects[i] ELSE p[i - Len(effects)]
    BY <1>5, <1>7, ConcatProperties
  <2>2. Len(effects) \in Nat
    BY <1>7, LenProperties
  <2> HIDE DEF Q
  <2>3. QED
    BY <2>1, <2>2, <1>5, <1>8, <1>9
<1> HIDE DEF Q
<1>11. ASSUME NEW i \in 1..Len(fxs)
       PROVE  /\ Len(Q) + i \in 1..Len(Q') /\ Q'[Len(Q) + i].x = fxs[i]
              /\ Q'[Len(Q) + i].n = IF fxs[i].fx = "StopRecording" THEN last.record ELSE last.step + 1
  <2>1. Len(Q) + i \in 1..Len(Q') /\ ~(Len(Q) + i <= Len(Q)) /\ (Len(Q) + i) - Len(Q) = i
    BY <1>1, <1>10
  <2>2. Q'[Len(Q) + i] = p[i]
    BY <1>10, <2>1
  <2>3. QED
    BY <1>3, <1>5, <1>6, <2>1, <2>2
<1>12. \A i \in 1..Len(Q) : Q'[i] = Q[i] /\ i \in 1..Len(Q')
  BY <1>1, <1>10
<1>13. \A i \in 1..Len(Q') : i \in 1..Len(Q) \/ (i - Len(Q) \in 1..Len(fxs) /\ Len(Q) + (i - Len(Q)) = i)
  BY <1>1, <1>10
<1>14. last' \in [step: Nat, play: Nat, fetch: Nat, record: Nat, timer: Nat]
  BY <1>2 DEF Asked
<1>15. QED
  BY <1>1, <1>8, <1>10, <1>11, <1>12, <1>13, <1>14
LEMMA NumbersOfPlaces == EventCap \in Nat \ {0} /\ EffectCap \in Nat \ {0} /\ AudioCap \in Nat \ {0}
  BY RuntimeAssumption

\* An event from one of the tasks.
LEMMA EventKeepsQueues ==
    ASSUME QueuesAreWell, NEW e \in Heard, NEW n \in Nat, Enqueue(e, n),
           UNCHANGED <<loop, effects, audio, waiting>>
    PROVE  QueuesAreWell' /\ QStay /\ Adds(e, n)
<1>1. Adds(e, n) /\ events' \in Seq(Item(Heard)) /\ Len(events') <= EventCap
  BY EnqueueAdds
<1>2. QED
  BY <1>1 DEF QueuesAreWell, QStay, Q

LEMMA MainLoopTypes == ASSUME Types, MainLoop PROVE Types'
<1> USE DEF Types
<1>1. CASE Handle
  <2>1. PICK fxs \in Seq(Effect) :
            /\ last' = IF fxs = <<>> THEN last ELSE Asked(last, fxs)
            /\ Send([i \in DOMAIN fxs |-> Mark(fxs[i], IF fxs[i] = StopRecording THEN last.record ELSE last.step + 1)])
    BY <1>1, HandleFacts
  <2>2. events # <<>> /\ events' = Tail(events) /\ loop = <<>> /\ WellFormed(core') /\ core'.tag # "CallsPaused"
        /\ early' \in BOOLEAN
    BY <1>1, HandleFacts DEF CoreIsWell
  <2>3. /\ effects' \in Seq(Item(Effect)) /\ loop' \in Seq(Item(Effect)) /\ Len(effects') <= EffectCap
        /\ last' \in [step: Nat, play: Nat, fetch: Nat, record: Nat, timer: Nat]
    BY <2>1, <2>2, HandlePushes
  <2>4. events' \in Seq(Item(Heard)) /\ Len(events') <= EventCap
    <3>1. /\ Tail(events) \in Seq(Item(Heard)) /\ Len(Tail(events)) = Len(events) - 1 /\ Len(events) \in Nat
          /\ Len(events) <= EventCap
      BY <2>2, Popped DEF QueuesAreWell
    <3>2. QED
      BY <2>2, <3>1, NumbersOfPlaces
  <2>5. CoreIsWell'
    BY <2>2, <2>3 DEF CoreIsWell
  <2>6. QueuesAreWell'
    BY <1>1, <2>3, <2>4 DEF QueuesAreWell, Handle
  <2>7. WorkerIsWell' /\ DevicesAreWell'
    BY <1>1 DEF WorkerIsWell, DevicesAreWell, Handle
  <2>8. QED
    BY <2>5, <2>6, <2>7
<1>2. CASE SendRest
  <2>1. /\ effects' \in Seq(Item(Effect)) /\ loop' \in Seq(Item(Effect)) /\ Len(effects') <= EffectCap
    BY <1>2, SendIsWhole DEF SendRest, QueuesAreWell
  <2>2. QED
    BY <1>2, <2>1 DEF SendRest, CoreIsWell, QueuesAreWell, WorkerIsWell, DevicesAreWell
<1>3. QED
  BY <1>1, <1>2 DEF MainLoop

LEMMA OutsideTypes == ASSUME Types, Input \/ Restart \/ TimerFires PROVE Types'
<1> USE DEF Types
<1>1. CASE Input
  <2>1. PICK k \in Inputs : Enqueue(Signal(k), 0)
    BY <1>1 DEF Input
  <2>2. Signal(k) \in Heard
    BY SignalsAreHeard, RuntimeAssumption
  <2>3. QueuesAreWell'
    BY <1>1, <2>1, <2>2, EventKeepsQueues DEF Input
  <2>4. inputs' \in 0..MaxInputs
    BY <1>1, RuntimeAssumption DEF Input, DevicesAreWell
  <2>5. QED
    BY <1>1, <2>3, <2>4 DEF Input, CoreIsWell, WorkerIsWell, DevicesAreWell
<1>2. CASE Restart
  <2>1. CoreIsWell'
    <3>1. WellFormed(Plain("Idle")) /\ Plain("Idle").tag = "Idle"
      BY PlainWellFormed, VariantFields DEF Tags, CarriesQuestion
    <3>2. QED
      BY <1>2, <3>1 DEF Restart, CoreIsWell, Unasked
  <2>2. QueuesAreWell'
    BY <1>2, EmptySeq, NumbersOfPlaces DEF Restart, QueuesAreWell
  <2>3. WorkerIsWell'
    BY <1>2, RestingIsWell DEF Restart, WorkerIsWell
  <2>4. DevicesAreWell'
    <3>1. NoEffect \in Effect
      BY EffectTypes DEF NoEffect, Commands
    <3>2. Free \in Task /\ Free.at = "Free"
      BY <3>1 DEF Free, Task
    <3>3. QED
      BY <1>2, <3>2 DEF Restart, DevicesAreWell, TaskIsWell, Silent, SoundNames
  <2>5. QED
    BY <2>1, <2>2, <2>3, <2>4
<1>3. CASE TimerFires
  <2>1. PICK t \in armed : Enqueue(Signal(t.x), t.n) /\ armed' = armed \ {t}
    BY <1>3 DEF TimerFires
  <2>2. t.x \in {"Tick", "RecordingTimedOut"} /\ t.n \in Nat
    BY DEF DevicesAreWell, Item
  <2>3. Signal(t.x) \in Heard
    BY <2>2, SignalsAreHeard
  <2>4. QueuesAreWell'
    BY <1>3, <2>1, <2>2, <2>3, EventKeepsQueues DEF TimerFires
  <2>5. QED
    BY <1>3, <2>1, <2>4 DEF TimerFires, CoreIsWell, WorkerIsWell, DevicesAreWell
<1>4. QED
  BY <1>1, <1>2, <1>3

LEMMA KindsApart ==
    \A k \in {"Play", "StopAudio", "StartRecording", "StopRecording", "ArmPulseTimeout", "CancelPulseTimeout",
              "ArmRecordingTimeout", "CancelRecordingTimeout", "PutStatus", "SetStatusLed", "Reboot", "PowerOff",
              "NoEffect"} : k \notin Fetches \cup {"UploadRecording"}
  BY DEF Fetches

LEMMA TakingTypes ==
    ASSUME Types,
           TakePlay \/ TakeStop \/ TakeStart \/ TakeStopRecording \/ TakeTimer \/ TakeOther
    PROVE  Types'
<1> USE DEF Types
<1>1. CASE TakePlay
  <2>1. Takes({"Play"}) /\ loop' = loop /\ events' = events
    BY <1>1 DEF TakePlay
  <2>2. /\ waiting' = waiting /\ worker.at = "Ready" /\ Next1.x.fx = "Play" /\ Next1.x \in Effect /\ Next1.n \in Nat
        /\ effects' \in Seq(Item(Effect)) /\ loop' \in Seq(Item(Effect)) /\ Len(effects') <= EffectCap
    BY <2>1, KindsApart, TakesPops
  <2>3. Next1.x.audio \in AudioRef
    BY <2>2 DEF Effect, Commands
  <2>4. PICK c \in SoundNames : Pass(c, Next1.n) /\ remote' \in Spoken \cup {NoClip}
    BY <1>1, <2>3 DEF TakePlay, DevicesAreWell, SoundNames
  <2>5. /\ audio' \in Seq(Item(SoundNames \cup {"Stop"})) /\ Len(audio') <= AudioCap
        /\ WorkerIsWell'
    BY <2>2, <2>4, PassIsWell
  <2>6. QED
    BY <1>1, <2>1, <2>2, <2>4, <2>5 DEF TakePlay, CoreIsWell, QueuesAreWell, DevicesAreWell
<1>2. CASE TakeStop
  <2>1. Takes({"StopAudio"}) /\ loop' = loop /\ events' = events
    BY <1>2 DEF TakeStop
  <2>2. /\ waiting' = waiting /\ worker.at = "Ready" /\ Next1.x \in Effect /\ Next1.n \in Nat
        /\ effects' \in Seq(Item(Effect)) /\ loop' \in Seq(Item(Effect)) /\ Len(effects') <= EffectCap
    BY <2>1, KindsApart, TakesPops
  <2>5. /\ audio' \in Seq(Item(SoundNames \cup {"Stop"})) /\ Len(audio') <= AudioCap
        /\ WorkerIsWell'
    BY <1>2, <2>2, PassIsWell DEF TakeStop
  <2>6. tasks' \in [Slots -> Task] /\ \A s \in Slots : TaskIsWell(tasks'[s])
    <3>1. \A s \in Slots : TaskIsWell([tasks[s] EXCEPT !.current = FALSE])
      BY DEF DevicesAreWell, TaskIsWell, Task
    <3>2. QED
      BY <1>2, <3>1 DEF TakeStop, TaskIsWell
  <2>7. QED
    BY <1>2, <2>1, <2>2, <2>5, <2>6 DEF TakeStop, CoreIsWell, QueuesAreWell, DevicesAreWell
<1>3. CASE TakeStart
  <2>1. Takes({"StartRecording"}) /\ loop' = loop /\ events' = events
    BY <1>3 DEF TakeStart
  <2>2. /\ waiting' = waiting /\ worker.at = "Ready" /\ Next1.x \in Effect /\ Next1.n \in Nat
        /\ effects' \in Seq(Item(Effect)) /\ loop' \in Seq(Item(Effect)) /\ Len(effects') <= EffectCap
    BY <2>1, KindsApart, TakesPops
  <2>3. Signal("RecordingFailed") \in Event /\ Signal("RecordingFailed").ev \in Replies
    BY SignalsAreHeard DEF Heard, Replies
  <2>4. WorkerIsWell' /\ mic' \in Nat
    BY <1>3, <2>2, <2>3 DEF TakeStart, WorkerIsWell, Reporting, Mark, DevicesAreWell
  <2>5. QED
    BY <1>3, <2>1, <2>2, <2>4 DEF TakeStart, CoreIsWell, QueuesAreWell, DevicesAreWell
<1>4. CASE TakeStopRecording
  <2>1. Takes({"StopRecording"}) /\ loop' = loop /\ events' = events
    BY <1>4 DEF TakeStopRecording
  <2>2. /\ waiting' = waiting /\ worker.at = "Ready" /\ Next1.x \in Effect /\ Next1.n \in Nat
        /\ effects' \in Seq(Item(Effect)) /\ loop' \in Seq(Item(Effect)) /\ Len(effects') <= EffectCap
    BY <2>1, KindsApart, TakesPops
  <2>3. Signal("RecordingFailed") \in Event /\ Signal("RecordingFailed").ev \in Replies
    BY SignalsAreHeard DEF Heard, Replies
  <2>4. WorkerIsWell' /\ mic' \in Nat
    BY <1>4, <2>2, <2>3 DEF TakeStopRecording, WorkerIsWell, Reporting, Mark, DevicesAreWell
  <2>5. QED
    BY <1>4, <2>1, <2>2, <2>4 DEF TakeStopRecording, CoreIsWell, QueuesAreWell, DevicesAreWell
<1>5. CASE TakeTimer
  <2>1. Takes({"ArmPulseTimeout", "CancelPulseTimeout", "ArmRecordingTimeout", "CancelRecordingTimeout"})
        /\ loop' = loop /\ events' = events
    BY <1>5 DEF TakeTimer
  <2>2. /\ waiting' = waiting /\ Next1.n \in Nat
        /\ effects' \in Seq(Item(Effect)) /\ loop' \in Seq(Item(Effect)) /\ Len(effects') <= EffectCap
    BY <2>1, KindsApart, TakesPops
  <2>3. Mark(TimerOf(Next1.x.fx), Next1.n) \in Item({"Tick", "RecordingTimedOut"})
    BY <2>2 DEF Mark, Item, TimerOf
  <2>4. armed' \in SUBSET Item({"Tick", "RecordingTimedOut"})
    BY <1>5, <2>3 DEF TakeTimer, DevicesAreWell
  <2>5. QED
    BY <1>5, <2>1, <2>2, <2>4 DEF TakeTimer, CoreIsWell, QueuesAreWell, DevicesAreWell, WorkerIsWell
<1>6. CASE TakeOther
  <2>1. Takes({"PutStatus", "SetStatusLed", "Reboot", "PowerOff", "NoEffect"}) /\ loop' = loop /\ events' = events
    BY <1>6 DEF TakeOther
  <2>2. /\ waiting' = waiting
        /\ effects' \in Seq(Item(Effect)) /\ loop' \in Seq(Item(Effect)) /\ Len(effects') <= EffectCap
    BY <2>1, KindsApart, TakesPops
  <2>3. QED
    BY <1>6, <2>1, <2>2 DEF TakeOther, CoreIsWell, QueuesAreWell, DevicesAreWell, WorkerIsWell
<1>7. QED
  BY <1>1, <1>2, <1>3, <1>4, <1>5, <1>6
LEMMA FreeIsWell == TaskIsWell(Free) /\ Free.at = "Free"
<1>1. NoEffect \in Effect
  BY EffectTypes DEF NoEffect, Commands
<1>2. QED
  BY <1>1 DEF Free, Task, TaskIsWell

\* What an operator task begins with.
Taken(item) == [Free EXCEPT !.at = "Asking", !.fx = item.x, !.n = item.n, !.current = TRUE]

LEMMA AskingIsWell ==
    ASSUME NEW item \in Item(ForOperator)
    PROVE  TaskIsWell(Taken(item)) /\ Taken(item).at = "Asking" /\ Taken(item).fx = item.x
<1>1. item.x \in ForOperator /\ item.x \in Effect /\ item.n \in Nat
  BY DEF Item, ForOperator
<1> DEFINE f == Free
<1>2. f \in Task
  BY FreeIsWell DEF TaskIsWell
<1> HIDE DEF f
<1>3. /\ TaskIsWell([f EXCEPT !.at = "Asking", !.fx = item.x, !.n = item.n, !.current = TRUE])
      /\ [f EXCEPT !.at = "Asking", !.fx = item.x, !.n = item.n, !.current = TRUE].at = "Asking"
      /\ [f EXCEPT !.at = "Asking", !.fx = item.x, !.n = item.n, !.current = TRUE].fx = item.x
  BY <1>1, <1>2 DEF TaskIsWell, Task
<1>4. QED
  BY <1>3 DEF Taken, f

LEMMA WorkerTypes == ASSUME Types, Defer \/ PassOn \/ Finalized \/ Report \/ TakeOperator PROVE Types'
<1> USE DEF Types
<1>1. CASE Defer
  <2>1. effects # <<>> /\ effects' = Tail(effects) /\ loop' = loop /\ waiting' = Append(waiting, Head(effects))
        /\ IsOperators(Head(effects).x)
    BY <1>1 DEF Defer
  <2>2. /\ Head(effects) \in Item(Effect)
        /\ effects' \in Seq(Item(Effect)) /\ loop' \in Seq(Item(Effect)) /\ Len(effects') <= EffectCap
    BY <2>1, TailOfEffects
  <2>3. Head(effects) \in Item(ForOperator)
    BY <2>1, <2>2 DEF Item, ForOperator, IsOperators
  <2>4. waiting' \in Seq(Item(ForOperator))
    BY <2>1, <2>3, AppendProperties DEF QueuesAreWell
  <2>5. QED
    BY <1>1, <2>2, <2>4 DEF Defer, CoreIsWell, QueuesAreWell, DevicesAreWell, WorkerIsWell
<1>2. CASE PassOn
  <2>1. worker.item \in Item(SoundNames \cup {"Stop"}) /\ audio' = Append(audio, worker.item) /\ Len(audio) < AudioCap
    BY <1>2 DEF PassOn, WorkerIsWell
  <2>2. /\ audio' \in Seq(Item(SoundNames \cup {"Stop"})) /\ Len(audio') = Len(audio) + 1 /\ Len(audio) \in Nat
    BY <2>1, AppendProperties, LenProperties DEF QueuesAreWell
  <2>3. Len(audio') <= AudioCap
    BY <2>1, <2>2, NumbersOfPlaces
  <2>4. WorkerIsWell'
    BY <1>2, RestingIsWell DEF PassOn, WorkerIsWell
  <2>5. QED
    BY <1>2, <2>2, <2>3, <2>4 DEF PassOn, CoreIsWell, QueuesAreWell, DevicesAreWell
<1>3. CASE Finalized
  <2>1. Signal("RecordingFailed") \in Event /\ Signal("RecordingFailed").ev \in Replies
    BY SignalsAreHeard DEF Heard, Replies
  <2>2. \A r \in RecordingId : [ev |-> "RecordingFinished", recording |-> r] \in Event
    BY DEF Event
  <2>3. WorkerIsWell' /\ made' \subseteq RecordingId
    BY <1>3, <2>1, <2>2 DEF Finalized, WorkerIsWell, Reporting, Mark, DevicesAreWell, Replies
  <2>4. QED
    BY <1>3, <2>3 DEF Finalized, CoreIsWell, QueuesAreWell, DevicesAreWell
<1>4. CASE Report
  <2>1. worker.item.x \in Heard /\ worker.item.n \in Nat
    BY <1>4 DEF Report, WorkerIsWell, Heard
  <2>2. QueuesAreWell'
    BY <1>4, <2>1, EventKeepsQueues DEF Report
  <2>3. WorkerIsWell'
    BY <1>4, RestingIsWell DEF Report, WorkerIsWell
  <2>4. QED
    BY <1>4, <2>2, <2>3 DEF Report, CoreIsWell, DevicesAreWell
<1>5. CASE TakeOperator
  <2>1. Takes(Fetches \cup {"UploadRecording"}) /\ loop' = loop /\ events' = events
    BY <1>5 DEF TakeOperator
  <2>2. /\ Next1 \in Item(ForOperator) /\ waiting' \in Seq(Item(ForOperator))
        /\ effects' \in Seq(Item(Effect)) /\ loop' \in Seq(Item(Effect)) /\ Len(effects') <= EffectCap
    BY <2>1, TakesOperator
  <2>3. PICK s \in Slots : tasks' = [tasks EXCEPT ![s] = Taken(Next1)]
    BY <1>5 DEF TakeOperator, Taken
  <2>7. tasks' \in [Slots -> Task] /\ \A t \in Slots : TaskIsWell(tasks'[t])
    <3>1. TaskIsWell(Taken(Next1))
      BY <2>2, AskingIsWell
    <3>2. QED
      BY <2>3, <3>1 DEF DevicesAreWell, TaskIsWell
  <2>8. QED
    BY <1>5, <2>1, <2>2, <2>7 DEF TakeOperator, CoreIsWell, QueuesAreWell, DevicesAreWell, WorkerIsWell
<1>6. QED
  BY <1>1, <1>2, <1>3, <1>4, <1>5

\* An operator task goes on.
LEMMA BecomeKeepsDevices ==
    ASSUME DevicesAreWell, NEW s \in Slots, NEW t, TaskIsWell(t), Become(s, t)
    PROVE  /\ tasks' \in [Slots -> Task] /\ \A u \in Slots : TaskIsWell(tasks'[u])
           /\ tasks'[s] = t /\ \A u \in Slots \ {s} : tasks'[u] = tasks[u]
  BY DEF Become, DevicesAreWell, TaskIsWell

LEMMA RepliesOfOperator ==
    /\ \A k \in Fetches : Failed(k) \in OperatorReplies
    /\ \A q \in QuestionId : Ready("FetchRandomQuestion", q) \in OperatorReplies
    /\ \A k \in Fetches \ {"FetchRandomQuestion"} : \A c : Ready(k, c) \in OperatorReplies
    /\ \A r \in RecordingId, o \in Outcome :
           [ev |-> "UploadFinished", recording |-> r, outcome |-> o] \in OperatorReplies
<1>1. \A q \in QuestionId : Ready("FetchRandomQuestion", q) \in OperatorReplies
  BY DEF Ready, OperatorReplies, Event
<1>2. \A r \in RecordingId, o \in Outcome :
           [ev |-> "UploadFinished", recording |-> r, outcome |-> o] \in OperatorReplies
  BY DEF OperatorReplies, Event
<1>3. \A k \in Fetches : Failed(k) \in OperatorReplies
  BY SignalsAreHeard DEF Failed, Fetches
<1>4. \A k \in Fetches \ {"FetchRandomQuestion"} : \A c : Ready(k, c) \in OperatorReplies
  BY SignalsAreHeard DEF Ready, Fetches
<1>5. QED
  BY <1>1, <1>2, <1>3, <1>4

LEMMA TaskSteps ==
    ASSUME Types, NEW s \in Slots, Answered(s) \/ Stores(s) \/ Uploaded(s) \/ Announces(s)
    PROVE  \E t : /\ TaskIsWell(t) /\ Become(s, t)
                  /\ remote' \in Spoken \cup {NoClip}
                  /\ \/ Answered(s) /\ events' = events
                     \/ Stores(s) /\ events' = events /\ t.at = "Sending" /\ t.event = tasks[s].event
                     \/ /\ Uploaded(s) /\ events' = events /\ t.at = "Sending" /\ t.event.ev = "UploadFinished"
                        /\ t.event.recording = tasks[s].fx.recording
                     \/ /\ Announces(s) /\ t = Free /\ tasks[s].at = "Sending" /\ tasks[s].event \in OperatorReplies
                        /\ Enqueue(tasks[s].event, tasks[s].n) /\ tasks[s].n \in Nat
<1> DEFINE old == tasks[s]
<1>1. TaskIsWell(old) /\ old \in Task
  BY DEF Types, DevicesAreWell, TaskIsWell
<1>2. CASE Answered(s)
  <2>1. /\ old.at = "Asking" /\ old.fx.fx \in Fetches /\ events' = events /\ remote' = remote
        /\ \/ Become(s, Free)
           \/ Become(s, [old EXCEPT !.at = "Sending", !.event = Failed(old.fx.fx)])
           \/ \E clip \in IF old.fx.fx = "FetchRandomQuestion" THEN QuestionId ELSE {"Message"} :
                   Become(s, [old EXCEPT !.at = "Storing", !.clip = clip, !.event = Ready(old.fx.fx, clip)])
    BY <1>2 DEF Answered
  <2>2. TaskIsWell([old EXCEPT !.at = "Sending", !.event = Failed(old.fx.fx)])
    <3>1. Failed(old.fx.fx) \in OperatorReplies
      BY <2>1, RepliesOfOperator
    <3> DEFINE f == Failed(old.fx.fx)
    <3> HIDE DEF f
    <3>2. TaskIsWell([old EXCEPT !.at = "Sending", !.event = f])
      BY <1>1, <3>1 DEF TaskIsWell, Task, OperatorReplies, f
    <3>3. QED
      BY <3>2 DEF f
  <2>3. ASSUME NEW clip \in IF old.fx.fx = "FetchRandomQuestion" THEN QuestionId ELSE {"Message"}
        PROVE  TaskIsWell([old EXCEPT !.at = "Storing", !.clip = clip, !.event = Ready(old.fx.fx, clip)])
    <3>1. Ready(old.fx.fx, clip) \in OperatorReplies
      BY <2>1, RepliesOfOperator
    <3>0. clip \in Spoken
      BY DEF Spoken
    <3> DEFINE f == Ready(old.fx.fx, clip)
    <3> HIDE DEF f
    <3>2. TaskIsWell([old EXCEPT !.at = "Storing", !.clip = clip, !.event = f])
      BY <1>1, <3>0, <3>1 DEF TaskIsWell, Task, OperatorReplies, f
    <3>3. QED
      BY <3>2 DEF f
  <2>4. remote' \in Spoken \cup {NoClip}
    BY <2>1 DEF Types, DevicesAreWell
  <2>5. QED
    BY <1>2, <2>1, <2>2, <2>3, <2>4, FreeIsWell
<1>3. CASE Stores(s)
  <2> DEFINE t == [old EXCEPT !.at = "Sending"]
  <2>1. old.at = "Storing" /\ remote' = old.clip /\ Become(s, t) /\ events' = events
    BY <1>3 DEF Stores
  <2>2. TaskIsWell(t) /\ t.at = "Sending" /\ t.event = old.event
    BY <1>1, <2>1 DEF TaskIsWell, Task
  <2>3. remote' \in Spoken \cup {NoClip}
    BY <1>1, <2>1 DEF TaskIsWell
  <2>4. QED
    BY <1>3, <2>1, <2>2, <2>3
<1>4. CASE Uploaded(s)
  <2>1. old.at = "Asking" /\ old.fx.fx = "UploadRecording" /\ events' = events /\ remote' = remote
    BY <1>4 DEF Uploaded
  <2>2. PICK o \in Outcome :
            Become(s, [old EXCEPT !.at = "Sending",
                         !.event = [ev |-> "UploadFinished", recording |-> old.fx.recording, outcome |-> o]])
    BY <1>4 DEF Uploaded
  <2> DEFINE e == [ev |-> "UploadFinished", recording |-> old.fx.recording, outcome |-> o]
             t == [old EXCEPT !.at = "Sending", !.event = e]
  <2>3. old.fx.recording \in RecordingId
    BY <1>1, <2>1 DEF TaskIsWell, ForOperator, Effect, Commands
  <2>4. e \in OperatorReplies /\ e.ev = "UploadFinished" /\ e.recording = old.fx.recording
    BY <2>3, RepliesOfOperator
  <2>5. Become(s, t)
    BY <2>2
  <2> HIDE DEF e
  <2>6. TaskIsWell(t) /\ t.at = "Sending" /\ t.event = e
    BY <1>1, <2>1, <2>4 DEF TaskIsWell, Task, OperatorReplies
  <2>7. remote' \in Spoken \cup {NoClip}
    BY <2>1 DEF Types, DevicesAreWell
  <2>8. QED
    BY <1>4, <2>1, <2>4, <2>5, <2>6, <2>7
<1>5. CASE Announces(s)
  <2>1. old.at = "Sending" /\ Enqueue(old.event, old.n) /\ Become(s, Free) /\ remote' = remote
    BY <1>5 DEF Announces
  <2>2. remote' \in Spoken \cup {NoClip}
    BY <2>1 DEF Types, DevicesAreWell
  <2>3. old.n \in Nat /\ old.event \in OperatorReplies
    BY <1>1, <2>1 DEF TaskIsWell, Task
  <2>4. QED
    BY <1>5, <2>1, <2>2, <2>3, FreeIsWell
<1>6. QED
  BY <1>2, <1>3, <1>4, <1>5

LEMMA TaskTypes ==
    ASSUME Types, NEW s \in Slots, Answered(s) \/ Stores(s) \/ Uploaded(s) \/ Announces(s)
    PROVE  Types'
<1>1. PICK t : /\ TaskIsWell(t) /\ Become(s, t)
               /\ remote' \in Spoken \cup {NoClip}
               /\ \/ events' = events
                  \/ tasks[s].event \in OperatorReplies /\ Enqueue(tasks[s].event, tasks[s].n) /\ tasks[s].n \in Nat
  <2> HIDE DEF Answered, Stores, Uploaded, Announces
  <2>1. QED
    BY TaskSteps
<1>2. tasks' \in [Slots -> Task] /\ \A u \in Slots : TaskIsWell(tasks'[u])
  BY <1>1, BecomeKeepsDevices DEF Types
<1>3. QueuesAreWell'
  <2>1. UNCHANGED <<loop, effects, audio, waiting>>
    BY <1>1 DEF Become
  <2>2. CASE events' = events
    BY <2>1, <2>2 DEF Types, QueuesAreWell
  <2>3. CASE tasks[s].event \in OperatorReplies /\ Enqueue(tasks[s].event, tasks[s].n) /\ tasks[s].n \in Nat
    BY <2>1, <2>3, SignalsAreHeard, EventKeepsQueues DEF Types
  <2>4. QED
    BY <1>1, <2>2, <2>3
<1>4. QED
  BY <1>1, <1>2, <1>3 DEF Types, Become, CoreIsWell, WorkerIsWell, DevicesAreWell

LEMMA AudioTypes == ASSUME Types, AudioTask PROVE Types'
<1> USE DEF Types
<1>1. CASE TakeCommand
  <2>1. audio # <<>> /\ audio' = Tail(audio) /\ events' = events
    BY <1>1 DEF TakeCommand, Played
  <2>2. /\ Head(audio) \in Item(SoundNames \cup {"Stop"})
        /\ Tail(audio) \in Seq(Item(SoundNames \cup {"Stop"})) /\ Len(Tail(audio)) = Len(audio) - 1 /\ Len(audio) \in Nat
    BY <2>1, Popped DEF QueuesAreWell
  <2>3. player' \in [at: {"Idle", "Starting", "Playing", "Ended"}, sound: SoundNames \cup {"Failed"}, n: Nat]
    BY <1>1, <2>2 DEF TakeCommand, Played, Silent, SoundNames, Item
  <2>4. audio' \in Seq(Item(SoundNames \cup {"Stop"})) /\ Len(audio') <= AudioCap
    BY <2>1, <2>2, NumbersOfPlaces DEF QueuesAreWell
  <2>5. QED
    BY <1>1, <2>3, <2>4 DEF TakeCommand, Played, CoreIsWell, QueuesAreWell, DevicesAreWell, WorkerIsWell
<1>2. CASE Starts
  <2>1. player' \in [at: {"Idle", "Starting", "Playing", "Ended"}, sound: SoundNames \cup {"Failed"}, n: Nat]
    BY <1>2 DEF Starts, Played, Silent, DevicesAreWell
  <2>2. QED
    BY <1>2, <2>1 DEF Starts, Played, CoreIsWell, QueuesAreWell, DevicesAreWell, WorkerIsWell
<1>3. CASE Ends
  <2>1. player' \in [at: {"Idle", "Starting", "Playing", "Ended"}, sound: SoundNames \cup {"Failed"}, n: Nat]
    BY <1>3 DEF Ends, Played, Silent, DevicesAreWell, SoundNames
  <2>2. QED
    BY <1>3, <2>1 DEF Ends, Played, CoreIsWell, QueuesAreWell, DevicesAreWell, WorkerIsWell
<1>4. CASE Tells
  <2>1. Enqueue(Signal("PlaybackEnded"), player.n) /\ Signal("PlaybackEnded") \in Heard /\ player.n \in Nat
    BY <1>4, SignalsAreHeard DEF Tells, DevicesAreWell
  <2>2. QueuesAreWell'
    BY <1>4, <2>1, EventKeepsQueues DEF Tells, Played
  <2>3. player' \in [at: {"Idle", "Starting", "Playing", "Ended"}, sound: SoundNames \cup {"Failed"}, n: Nat]
    BY <1>4 DEF Tells, Played, Silent, SoundNames
  <2>4. QED
    BY <1>4, <2>2, <2>3 DEF Tells, Played, CoreIsWell, DevicesAreWell, WorkerIsWell
<1>5. QED
  BY <1>1, <1>2, <1>3, <1>4 DEF AudioTask

LEMMA TypesStep == ASSUME Types, [Next]_vars PROVE Types'
<1>1. CASE EffectTask
  BY <1>1, TakingTypes, WorkerTypes DEF EffectTask
<1>2. CASE OperatorTasks
  BY <1>2, TaskTypes DEF OperatorTasks
<1>3. CASE UNCHANGED vars
  BY <1>3 DEF vars, Types, CoreIsWell, QueuesAreWell, DevicesAreWell, WorkerIsWell
<1>4. QED
  BY <1>1, <1>2, <1>3, MainLoopTypes, OutsideTypes, AudioTypes DEF Next

----------------------------------------------------------------------------
(* What the steps of effect_task take and leave *)

LEMMA TakePlayView ==
    ASSUME Types, TakePlay
    PROVE  /\ QPop /\ Q[1].x.fx = "Play" /\ worker.at = "Ready" /\ Q[1].x.audio \in AudioRef
           /\ \/ /\ Q[1].x.audio = RemoteAudio /\ Pass(remote, Q[1].n) /\ remote \in Spoken \cup {NoClip}
              \/ Q[1].x.audio # RemoteAudio /\ Pass(Q[1].x.audio, Q[1].n)
           /\ UNCHANGED <<core, last, early, events, waiting, tasks, player, mic, armed>>
<1>1. Takes({"Play"}) /\ loop' = loop
  BY DEF TakePlay
<1>2. QPop /\ Next1 = Q[1] /\ Q[1].x.fx = "Play" /\ worker.at = "Ready" /\ waiting' = waiting /\ Next1.x \in Effect
  BY <1>1, KindsApart, TakesPops DEF Types
<1>3. Q[1].x.audio \in AudioRef
  BY <1>2 DEF Effect, Commands
<1>4. QED
  BY <1>2, <1>3 DEF TakePlay, Types, DevicesAreWell

LEMMA TakeStopView ==
    ASSUME Types, TakeStop
    PROVE  /\ QPop /\ Q[1].x.fx = "StopAudio" /\ worker.at = "Ready" /\ Pass("Stop", Q[1].n)
           /\ tasks' = [s \in Slots |-> [tasks[s] EXCEPT !.current = FALSE]]
           /\ UNCHANGED <<core, last, early, events, waiting, player, mic, armed>>
<1>1. Takes({"StopAudio"}) /\ loop' = loop
  BY DEF TakeStop
<1>2. QPop /\ Next1 = Q[1] /\ Q[1].x.fx = "StopAudio" /\ worker.at = "Ready" /\ waiting' = waiting
  BY <1>1, KindsApart, TakesPops DEF Types
<1>3. QED
  BY <1>2 DEF TakeStop

LEMMA TakeStartView ==
    ASSUME Types, TakeStart
    PROVE  /\ QPop /\ Q[1].x.fx = "StartRecording" /\ worker.at = "Ready"
           /\ \/ mic = 0 /\ mic' = Q[1].n /\ worker' = worker
              \/ worker' = Reporting(Signal("RecordingFailed"), Q[1].n) /\ mic' = mic
           /\ UNCHANGED <<core, last, early, events, waiting, tasks, remote, audio, player, armed>>
<1>1. Takes({"StartRecording"}) /\ loop' = loop
  BY DEF TakeStart
<1>2. QPop /\ Next1 = Q[1] /\ Q[1].x.fx = "StartRecording" /\ worker.at = "Ready" /\ waiting' = waiting
  BY <1>1, KindsApart, TakesPops DEF Types
<1>3. QED
  BY <1>2 DEF TakeStart

LEMMA TakeStopRecordingView ==
    ASSUME Types, TakeStopRecording
    PROVE  /\ QPop /\ Q[1].x.fx = "StopRecording" /\ worker.at = "Ready" /\ mic' = 0
           /\ worker' = IF mic = 0 THEN Reporting(Signal("RecordingFailed"), Q[1].n)
                        ELSE [at |-> "Finalizing", item |-> Mark(NoEffect, mic)]
           /\ UNCHANGED <<core, last, early, events, waiting, tasks, remote, audio, player, armed>>
<1>1. Takes({"StopRecording"}) /\ loop' = loop
  BY DEF TakeStopRecording
<1>2. QPop /\ Next1 = Q[1] /\ Q[1].x.fx = "StopRecording" /\ worker.at = "Ready" /\ waiting' = waiting
  BY <1>1, KindsApart, TakesPops DEF Types
<1>3. QED
  BY <1>2 DEF TakeStopRecording

TimerKinds == {"ArmPulseTimeout", "CancelPulseTimeout", "ArmRecordingTimeout", "CancelRecordingTimeout"}

LEMMA TakeTimerView ==
    ASSUME Types, TakeTimer
    PROVE  /\ QPop /\ Q[1].x.fx \in TimerKinds /\ worker.at = "Ready"
           /\ armed' = {t \in armed : t.x # TimerOf(Q[1].x.fx)}
                          \cup (IF Q[1].x.fx \in {"ArmPulseTimeout", "ArmRecordingTimeout"}
                                THEN {Mark(TimerOf(Q[1].x.fx), Q[1].n)} ELSE {})
           /\ UNCHANGED <<core, last, early, events, worker, waiting, tasks, remote, audio, player, mic>>
<1>1. Takes(TimerKinds) /\ loop' = loop
  BY DEF TakeTimer, TimerKinds
<1>2. TimerKinds \cap (Fetches \cup {"UploadRecording"}) = {}
  BY KindsApart DEF TimerKinds
<1>3. QPop /\ Next1 = Q[1] /\ Q[1].x.fx \in TimerKinds /\ worker.at = "Ready" /\ waiting' = waiting
  BY <1>1, <1>2, TakesPops DEF Types
<1>4. QED
  BY <1>3 DEF TakeTimer

LEMMA TakeOtherView ==
    ASSUME Types, TakeOther
    PROVE  /\ QPop /\ Q[1].x.fx \in {"PutStatus", "SetStatusLed", "Reboot", "PowerOff", "NoEffect"}
           /\ UNCHANGED <<core, last, early, events, worker, waiting, tasks, remote, audio, player, mic, armed>>
<1>1. Takes({"PutStatus", "SetStatusLed", "Reboot", "PowerOff", "NoEffect"}) /\ loop' = loop
  BY DEF TakeOther
<1>2. {"PutStatus", "SetStatusLed", "Reboot", "PowerOff", "NoEffect"} \cap (Fetches \cup {"UploadRecording"}) = {}
  BY KindsApart
<1>3. QPop /\ Next1 = Q[1] /\ waiting' = waiting
      /\ Q[1].x.fx \in {"PutStatus", "SetStatusLed", "Reboot", "PowerOff", "NoEffect"}
  BY <1>1, <1>2, TakesPops DEF Types
<1>4. QED
  BY <1>3 DEF TakeOther

LEMMA TakeOperatorView ==
    ASSUME Types, TakeOperator
    PROVE  /\ \/ waiting # <<>> /\ waiting' = Tail(waiting) /\ QStay /\ Next1 = waiting[1]
              \/ QPop /\ Q[1].x.fx \in Fetches \cup {"UploadRecording"} /\ Next1 = Q[1] /\ waiting' = waiting
           /\ \E s \in Slots : tasks[s].at = "Free" /\ tasks' = [tasks EXCEPT ![s] = Taken(Next1)]
           /\ Next1 \in Item(ForOperator)
           /\ UNCHANGED <<core, last, early, events, worker, remote, audio, player, mic, armed>>
<1>1. Takes(Fetches \cup {"UploadRecording"}) /\ loop' = loop
  BY DEF TakeOperator
<1>2. /\ Next1 \in Item(ForOperator) /\ ~Full
      /\ \/ waiting # <<>> /\ Next1 = waiting[1] /\ waiting' = Tail(waiting) /\ QStay
         \/ QPop /\ Next1 = Q[1] /\ waiting' = waiting
  BY <1>1, TakesOperator DEF Types
<1>3. PICK s \in Slots : /\ s = CHOOSE t \in Slots : tasks[t].at = "Free"
                         /\ tasks' = [tasks EXCEPT ![s] = Taken(Next1)]
  BY DEF TakeOperator, Taken
<1>4. \E t \in Slots : tasks[t].at = "Free"
  BY <1>2 DEF Full
<1>5. tasks[s].at = "Free"
  BY <1>3, <1>4
<1>6. Next1.x.fx \in Fetches \cup {"UploadRecording"}
  BY <1>2 DEF Item, ForOperator
<1>7. UNCHANGED <<core, last, early, events, worker, remote, audio, player, mic, armed>>
  BY DEF TakeOperator
<1> HIDE DEF Next1, Q
<1>8. QED
  BY <1>2, <1>3, <1>5, <1>6, <1>7

LEMMA DeferView ==
    ASSUME Types, Defer
    PROVE  /\ QPop /\ Q[1].x.fx \in Fetches \cup {"UploadRecording"} /\ waiting' = Append(waiting, Q[1])
           /\ Q[1] \in Item(ForOperator)
           /\ UNCHANGED <<core, last, early, events, worker, tasks, remote, audio, player, mic, armed>>
<1>1. effects # <<>> /\ effects' = Tail(effects) /\ loop' = loop /\ waiting' = Append(waiting, Head(effects))
        /\ IsOperators(Head(effects).x)
  BY DEF Defer
<1>2. QPop /\ Head(effects) = Q[1] /\ Head(effects) \in Item(Effect)
  BY <1>1, TailOfEffects DEF Types
<1>3. QED
  BY <1>1, <1>2 DEF Defer, IsOperators, Item, ForOperator

\* A command joins the audio queue, or waits for room in it.
LEMMA PassFacts ==
    ASSUME Types, worker.at = "Ready", NEW c \in SoundNames \cup {"Stop"}, NEW n \in Nat, Pass(c, n)
    PROVE  \/ /\ worker' = worker /\ Len(audio) \in Nat /\ Len(audio') = Len(audio) + 1
              /\ \A i \in 1..Len(audio) : audio'[i] = audio[i]
              /\ audio'[Len(audio) + 1].x = c /\ audio'[Len(audio) + 1].n = n
              /\ \A i \in 1..Len(audio') : i \in 1..Len(audio) \/ i = Len(audio) + 1
           \/ worker'.at = "Passing" /\ worker'.item.x = c /\ worker'.item.n = n /\ audio' = audio
<1>1. audio \in Seq(Item(SoundNames \cup {"Stop"})) /\ Mark(c, n) \in Item(SoundNames \cup {"Stop"})
      /\ Mark(c, n).x = c /\ Mark(c, n).n = n /\ Len(audio) \in Nat
  BY LenProperties DEF Types, QueuesAreWell, Item, Mark
<1>2. CASE audio' = Append(audio, Mark(c, n)) /\ worker' = worker
  <2>1. /\ Len(audio') = Len(audio) + 1 /\ \A i \in 1..Len(audio) : audio'[i] = audio[i]
        /\ audio'[Len(audio) + 1] = Mark(c, n)
    BY <1>1, <1>2, AppendProperties
  <2>2. QED
    BY <1>1, <1>2, <2>1
<1>3. CASE audio' = audio /\ worker' = [at |-> "Passing", item |-> Mark(c, n)]
  BY <1>1, <1>3
<1>4. QED
  BY <1>2, <1>3 DEF Pass

LEMMA PassOnFacts ==
    ASSUME Types, PassOn
    PROVE  /\ worker.at = "Passing" /\ worker' = Resting /\ Len(audio) \in Nat /\ Len(audio') = Len(audio) + 1
           /\ \A i \in 1..Len(audio) : audio'[i] = audio[i]
           /\ audio'[Len(audio) + 1] = worker.item
           /\ \A i \in 1..Len(audio') : i \in 1..Len(audio) \/ i = Len(audio) + 1
           /\ QStay
           /\ UNCHANGED <<core, last, early, events, waiting, tasks, remote, player, mic, armed>>
<1>1. worker.item \in Item(SoundNames \cup {"Stop"}) /\ audio' = Append(audio, worker.item)
      /\ audio \in Seq(Item(SoundNames \cup {"Stop"})) /\ Len(audio) \in Nat
  BY LenProperties DEF PassOn, Types, WorkerIsWell, QueuesAreWell
<1>2. /\ Len(audio') = Len(audio) + 1 /\ \A i \in 1..Len(audio) : audio'[i] = audio[i]
      /\ audio'[Len(audio) + 1] = worker.item
  BY <1>1, AppendProperties
<1>3. QED
  BY <1>1, <1>2 DEF PassOn, QStay, Q

LEMMA AudioElements ==
    ASSUME Types
    PROVE  /\ Len(audio) \in Nat
           /\ \A i \in 1..Len(audio) : audio[i].x \in SoundNames \cup {"Stop"} /\ audio[i].n \in Nat
<1>1. Len(audio) \in Nat /\ \A i \in 1..Len(audio) : audio[i] \in Item(SoundNames \cup {"Stop"})
  BY Element DEF Types, QueuesAreWell
<1>2. QED
  BY <1>1 DEF Item

\* audio_task takes the next command.
LEMMA TakeCommandFacts ==
    ASSUME Types, TakeCommand
    PROVE  /\ audio # <<>> /\ Len(audio) \in Nat \ {0} /\ Len(audio') = Len(audio) - 1
           /\ \A i \in 1..Len(audio') : i + 1 \in 1..Len(audio) /\ audio'[i] = audio[i + 1]
           /\ 1 \in 1..Len(audio) /\ player.at \in {"Idle", "Playing"}
           /\ \/ audio[1].x = "Stop" /\ player' = Silent
              \/ audio[1].x # "Stop" /\ player' = [at |-> "Starting", sound |-> audio[1].x, n |-> audio[1].n]
           /\ QStay
           /\ UNCHANGED <<core, last, early, events, worker, waiting, tasks, remote, mic, armed>>
<1>1. audio # <<>> /\ audio' = Tail(audio) /\ audio \in Seq(Item(SoundNames \cup {"Stop"}))
  BY DEF TakeCommand, Played, Types, QueuesAreWell
<1>2. /\ Head(audio) = audio[1] /\ Len(audio) \in Nat \ {0} /\ Len(Tail(audio)) = Len(audio) - 1
      /\ \A i \in 1..Len(Tail(audio)) : i + 1 \in 1..Len(audio) /\ Tail(audio)[i] = audio[i + 1]
  BY <1>1, Popped
<1>3. QED
  BY <1>1, <1>2 DEF TakeCommand, Played, QStay, Q

----------------------------------------------------------------------------
(* A step of the tasks, as the recorder, its timer and the sound see it *)

Stopping == worker.at \in {"Finalizing", "Reporting"}
Reports == Replies \cup {"RecordingTimedOut"}

\* What the inner queue stands for is unchanged, or its head is taken.
Calm == UNCHANGED <<core, last, early>>

\* Of no concern to recorder, timers and sound.
Elsewhere ==
    /\ Calm /\ UNCHANGED <<worker, audio, player, mic, armed>>
    /\ QStay \/ (QPop /\ Q[1].x.fx \notin Sounds \cup RecorderWork \cup TimerKinds)
    /\ \/ events' = events
       \/ \E e \in Heard, n \in Nat : Adds(e, n) /\ e.ev \notin Reports \cup {"PlaybackEnded", "Tick"}

SoundOf(x) == IF x.fx = "Play" THEN x.audio ELSE "Stop"

\* A sound is passed on; what was fetched is put in for a remote one.
Passes ==
    /\ Calm /\ UNCHANGED <<events, player, mic, armed>>
    /\ QPop /\ Q[1].x.fx \in Sounds /\ worker.at = "Ready"
    /\ \E c \in SoundNames \cup {"Stop"} :
           /\ Pass(c, Q[1].n)
           /\ c = SoundOf(Q[1].x) \/ (SoundOf(Q[1].x) = RemoteAudio /\ c \in Spoken \cup {NoClip})

LEMMA ElsewhereKinds ==
    \A k \in {"PutStatus", "SetStatusLed", "Reboot", "PowerOff", "NoEffect", "UploadRecording"} \cup Fetches :
        k \notin Sounds \cup RecorderWork \cup TimerKinds
  BY DEF Fetches, Sounds, RecorderWork, TimerKinds

LEMMA PassesView == ASSUME Types, TakePlay \/ TakeStop PROVE Passes
<1>1. CASE TakePlay
  <2>1. /\ QPop /\ Q[1].x.fx = "Play" /\ worker.at = "Ready" /\ Q[1].x.audio \in AudioRef
        /\ \/ Q[1].x.audio = RemoteAudio /\ Pass(remote, Q[1].n) /\ remote \in Spoken \cup {NoClip}
           \/ Pass(Q[1].x.audio, Q[1].n)
        /\ UNCHANGED <<core, last, early, events, waiting, tasks, player, mic, armed>>
    BY <1>1, TakePlayView
  <2>2. \E c \in SoundNames \cup {"Stop"} :
            /\ Pass(c, Q[1].n)
            /\ c = SoundOf(Q[1].x) \/ (SoundOf(Q[1].x) = RemoteAudio /\ c \in Spoken \cup {NoClip})
    BY <2>1 DEF SoundNames, SoundOf
  <2>3. QED
    BY <2>1, <2>2 DEF Passes, Calm, Sounds
<1>2. CASE TakeStop
  <2>1. /\ QPop /\ Q[1].x.fx = "StopAudio" /\ worker.at = "Ready" /\ Pass("Stop", Q[1].n)
        /\ UNCHANGED <<core, last, early, events, waiting, player, mic, armed>>
    BY <1>2, TakeStopView
  <2>2. SoundOf(Q[1].x) = "Stop"
    BY <2>1 DEF SoundOf
  <2>3. QED
    BY <2>1, <2>2 DEF Passes, Calm, Sounds
<1>3. QED
  BY <1>1, <1>2

LEMMA ElsewhereView ==
    ASSUME Types, [Next]_vars
    PROVE  \/ Handle \/ Restart \/ Elsewhere \/ Passes \/ PassOn \/ TakeStart \/ TakeStopRecording
           \/ Finalized \/ Report \/ TakeTimer \/ TimerFires \/ TakeCommand \/ Starts \/ Ends \/ Tells
<1>1. CASE SendRest
  <2>1. Q' = Q
    <3>1. loop \in Seq(Item(Effect)) /\ effects \in Seq(Item(Effect)) /\ Send(loop)
      BY <1>1 DEF SendRest, Types, QueuesAreWell
    <3>2. QED
      BY <3>1, SendIsWhole DEF Q
  <2>2. QED
    BY <1>1, <2>1 DEF SendRest, Elsewhere, Calm, QStay
<1>2. CASE Input
  <2>1. PICK k \in Inputs : Enqueue(Signal(k), 0)
    BY <1>2 DEF Input
  <2>2. k \in {"HookOn", "HookOff", "RotaryPulse"} /\ Signal(k) \in Heard /\ Signal(k).ev = k
    BY RuntimeAssumption, SignalsAreHeard
  <2>3. Adds(Signal(k), 0) /\ Signal(k).ev \notin Reports \cup {"PlaybackEnded", "Tick"}
    BY <2>1, <2>2 DEF Adds, Enqueue, Reports, Replies
  <2>4. QED
    BY <1>2, <2>2, <2>3 DEF Input, Elsewhere, Calm, QStay, Q
<1>3. CASE Defer
  BY <1>3, DeferView, ElsewhereKinds DEF Elsewhere, Calm
<1>4. CASE TakeOther
  BY <1>4, TakeOtherView, ElsewhereKinds DEF Elsewhere, Calm
<1>5. CASE TakeOperator
  BY <1>5, TakeOperatorView, ElsewhereKinds DEF Elsewhere, Calm
<1>6. CASE OperatorTasks
  <2>1. PICK s \in Slots : Answered(s) \/ Stores(s) \/ Uploaded(s) \/ Announces(s)
    BY <1>6 DEF OperatorTasks
  <2>2. PICK t : /\ Become(s, t)
                 /\ \/ events' = events
                    \/ tasks[s].event \in OperatorReplies /\ Enqueue(tasks[s].event, tasks[s].n) /\ tasks[s].n \in Nat
    <3> HIDE DEF Answered, Stores, Uploaded, Announces
    <3>1. QED
      BY <2>1, TaskSteps
  <2>3. \/ events' = events
        \/ \E e \in Heard, n \in Nat : Adds(e, n) /\ e.ev \notin Reports \cup {"PlaybackEnded", "Tick"}
    BY <2>2, SignalsAreHeard DEF OperatorReplies, Enqueue, Adds, Reports, Replies
  <2>4. QED
    BY <2>2, <2>3 DEF Become, Elsewhere, Calm, QStay, Q
<1>7. CASE UNCHANGED vars
  BY <1>7 DEF vars, Elsewhere, Calm, QStay, Q
<1>8. QED
  BY <1>1, <1>2, <1>3, <1>4, <1>5, <1>6, <1>7, PassesView DEF Next, MainLoop, EffectTask, AudioTask

\* All but a step of the core takes from the inner queue at most.
Aside == Calm /\ (QStay \/ QPop)

LEMMA TakeTimerPops == ASSUME Types, TakeTimer PROVE QPop /\ Q[1].x.fx \in TimerKinds
  BY TakeTimerView

LEMMA AsideView == ASSUME Types, [Next]_vars, ~Handle, ~Restart PROVE Aside
<1>1. CASE Elsewhere
  BY <1>1 DEF Elsewhere, Aside
<1>2. CASE Passes
  BY <1>2 DEF Passes, Aside
<1>3. CASE PassOn \/ Finalized \/ Report \/ TimerFires
  BY <1>3 DEF PassOn, Finalized, Report, TimerFires, Aside, Calm, QStay, Q
<1>4. CASE TakeStart
  BY <1>4, TakeStartView DEF Aside, Calm
<1>5. CASE TakeStopRecording
  BY <1>5, TakeStopRecordingView DEF Aside, Calm
<1>6. CASE TakeTimer
  <2>1. QPop
    BY <1>6, TakeTimerPops
  <2>2. QED
    BY <1>6, <2>1 DEF TakeTimer, Aside, Calm
<1>7. CASE TakeCommand \/ Starts \/ Ends \/ Tells
  BY <1>7 DEF TakeCommand, Starts, Ends, Tells, Played, Aside, Calm, QStay, Q
<1>8. QED
  BY <1>1, <1>2, <1>3, <1>4, <1>5, <1>6, <1>7, ElsewhereView

LEMMA StayIsNoPop == ASSUME QueuesAreWell, QStay PROVE ~QPop
<1>1. QPop => Len(Q') = Len(Q) - 1 /\ Len(Q) \in Nat
  BY PopFacts
<1>2. QED
  BY <1>1 DEF QStay

\* n is the mark of a sound that effect_task has passed on.
Passed(n) ==
    \/ \E i \in 1..Len(audio) : audio[i].n = n
    \/ worker.at = "Passing" /\ worker.item.n = n
    \/ player.at # "Idle" /\ player.n = n
    \/ \E i \in 1..Len(events) : events[i].x.ev = "PlaybackEnded" /\ events[i].n = n

\* What the timer tells is of one that ran.
LEMMA FiresFacts ==
    ASSUME Types, TimerFires
    PROVE  \E t \in armed : /\ t.x \in {"RecordingTimedOut", "Tick"} /\ Signal(t.x).ev = t.x /\ Signal(t.x) \in Heard
                            /\ t.n \in Nat /\ Adds(Signal(t.x), t.n) /\ armed' = armed \ {t}
<1>1. PICK t \in armed : Enqueue(Signal(t.x), t.n) /\ armed' = armed \ {t}
  BY DEF TimerFires
<1>2. t.x \in {"RecordingTimedOut", "Tick"} /\ t.n \in Nat
  BY DEF Types, DevicesAreWell, Item
<1>3. Signal(t.x).ev = t.x /\ Signal(t.x) \in Heard
  BY <1>2, SignalsAreHeard
<1>4. QED
  BY <1>1, <1>2, <1>3 DEF Enqueue, Adds

LEMMA ReportFacts ==
    ASSUME Types, Report
    PROVE  /\ worker.at = "Reporting" /\ worker.item.x \in Heard /\ worker.item.x.ev \in Replies
           /\ worker.item.n \in Nat /\ Adds(worker.item.x, worker.item.n) /\ worker'.at = "Ready"
  BY RestingIsWell DEF Report, Types, WorkerIsWell, Heard, Enqueue, Adds

LEMMA TellsFacts ==
    ASSUME Types, Tells
    PROVE  /\ player.at = "Ended" /\ Signal("PlaybackEnded") \in Heard /\ Signal("PlaybackEnded").ev = "PlaybackEnded"
           /\ player.n \in Nat /\ Adds(Signal("PlaybackEnded"), player.n) /\ player' = Silent
  BY SignalsAreHeard DEF Tells, Played, Types, DevicesAreWell, Enqueue, Adds

\* Where an event comes from.
LEMMA EventsLater ==
    ASSUME Types, [Next]_vars, ~Handle, ~Restart
    PROVE  \/ events' = events
           \/ \E e \in Heard, n \in Nat :
                  /\ Adds(e, n)
                  /\ \/ e.ev \notin Reports \cup {"PlaybackEnded", "Tick"}
                     \/ e.ev \in Replies /\ worker.at = "Reporting" /\ n = worker.item.n /\ QStay
                     \/ e.ev \in {"RecordingTimedOut", "Tick"} /\ (\E t \in armed : t.x = e.ev /\ t.n = n)
                     \/ e.ev = "PlaybackEnded" /\ Passed(n)
<1>1. CASE Elsewhere
  BY <1>1 DEF Elsewhere
<1>2. CASE Report
  <2>1. QStay
    BY <1>2 DEF Report, QStay, Q
  <2>2. QED
    BY <1>2, <2>1, ReportFacts
<1>3. CASE TimerFires
  BY <1>3, FiresFacts
<1>4. CASE Tells
  <2>1. Passed(player.n)
    BY <1>4, TellsFacts DEF Passed
  <2>2. QED
    BY <1>4, <2>1, TellsFacts
<1>5. CASE Passes
  BY <1>5 DEF Passes
<1>6. CASE PassOn \/ TakeStart \/ TakeStopRecording \/ Finalized \/ TakeTimer \/ TakeCommand \/ Starts \/ Ends
  BY <1>6 DEF PassOn, TakeStart, TakeStopRecording, Finalized, TakeTimer, TakeCommand, Starts, Ends
<1>7. QED
  BY <1>1, <1>2, <1>3, <1>4, <1>5, <1>6, ElsewhereView

\* No event is lost before the core takes it.
LEMMA EventsStay ==
    ASSUME Types, [Next]_vars, ~Handle, ~Restart
    PROVE  \A i \in 1..Len(events) : i \in 1..Len(events') /\ events'[i] = events[i]
<1>1. CASE \E e \in Heard, n \in Nat : Adds(e, n)
  BY <1>1, AddFacts DEF Types
<1>2. QED
  BY <1>1, EventsLater

LEMMA PassesKeepsPassed ==
    ASSUME Types, Passes, NEW n, Passed(n)'
    PROVE  /\ Passed(n) \/ n = Q[1].n
           /\ worker' = worker \/ worker'.at = "Passing"
<1>1. PICK c \in SoundNames \cup {"Stop"} : Pass(c, Q[1].n)
  BY DEF Passes
<1>2. worker.at = "Ready" /\ events' = events /\ player' = player /\ Q[1].n \in Nat
  BY PopFacts DEF Passes, Types
<1>3. \/ /\ worker' = worker /\ Len(audio) \in Nat
         /\ \A i \in 1..Len(audio) : audio'[i] = audio[i]
         /\ audio'[Len(audio) + 1].n = Q[1].n
         /\ \A i \in 1..Len(audio') : i \in 1..Len(audio) \/ i = Len(audio) + 1
      \/ worker'.at = "Passing" /\ worker'.item.n = Q[1].n /\ audio' = audio
  BY <1>1, <1>2, PassFacts
<1>4. QED
  BY <1>2, <1>3 DEF Passed

\* A mark is passed on with its sound, and by nothing else.
LEMMA PassedLater ==
    ASSUME Types, [Next]_vars, ~Restart, NEW n, Passed(n)'
    PROVE  Passed(n) \/ (QPop /\ Q[1].x.fx \in Sounds /\ Q[1].n = n)
<1>1. CASE Handle
  <2>1. events # <<>> /\ events' = Tail(events)
    BY <1>1, HandleFacts
  <2>2. \A i \in 1..Len(events') : i + 1 \in 1..Len(events) /\ events'[i] = events[i + 1]
    BY <2>1, Popped DEF Types, QueuesAreWell
  <2>3. QED
    BY <1>1, <2>2 DEF Handle, Passed
<1>2. CASE Elsewhere
  <2>1. CASE events' = events
    BY <1>2, <2>1 DEF Elsewhere, Passed
  <2>2. CASE \E e \in Heard, k \in Nat : Adds(e, k) /\ e.ev # "PlaybackEnded"
    <3>1. PICK e \in Heard, k \in Nat : Adds(e, k) /\ e.ev # "PlaybackEnded"
      BY <2>2
    <3>2. /\ \A i \in 1..Len(events) : events'[i] = events[i]
          /\ events'[Len(events) + 1].x = e
          /\ \A i \in 1..Len(events') : i \in 1..Len(events) \/ i = Len(events) + 1
      BY <3>1, AddFacts DEF Types
    <3>3. QED
      BY <1>2, <3>1, <3>2 DEF Elsewhere, Passed
  <2>3. QED
    BY <1>2, <2>1, <2>2 DEF Elsewhere
<1>3. CASE Passes
  BY <1>3, PassesKeepsPassed DEF Passes
<1>4. CASE PassOn
  <2>1. /\ worker.at = "Passing" /\ worker' = Resting /\ Len(audio) \in Nat
        /\ \A i \in 1..Len(audio) : audio'[i] = audio[i]
        /\ audio'[Len(audio) + 1] = worker.item
        /\ \A i \in 1..Len(audio') : i \in 1..Len(audio) \/ i = Len(audio) + 1
        /\ UNCHANGED <<events, player>>
    BY <1>4, PassOnFacts
  <2>2. QED
    BY <2>1, RestingIsWell DEF Passed
<1>5. CASE TakeStart \/ TakeStopRecording \/ Finalized
  <2>1. \A x, k : Reporting(x, k).at = "Reporting"
    BY DEF Reporting
  <2>2. worker'.at = "Passing" => worker' = worker
    <3>1. CASE TakeStart
      BY <2>1, <3>1, TakeStartView
    <3>2. CASE TakeStopRecording
      BY <2>1, <3>2, TakeStopRecordingView
    <3>3. CASE Finalized
      BY <2>1, <3>3 DEF Finalized
    <3>4. QED
      BY <1>5, <3>1, <3>2, <3>3
  <2>3. UNCHANGED <<events, audio, player>>
    BY <1>5 DEF TakeStart, TakeStopRecording, Finalized
  <2>4. QED
    BY <2>2, <2>3 DEF Passed
<1>6. CASE Report \/ TimerFires
  <2>1. PICK e \in Heard, k \in Nat : Adds(e, k) /\ e.ev # "PlaybackEnded"
    BY <1>6, ReportFacts, FiresFacts DEF Replies
  <2>2. /\ \A i \in 1..Len(events) : events'[i] = events[i]
        /\ events'[Len(events) + 1].x = e
        /\ \A i \in 1..Len(events') : i \in 1..Len(events) \/ i = Len(events) + 1
    BY <2>1, AddFacts DEF Types
  <2>3. UNCHANGED <<audio, player>> /\ (worker' = worker \/ worker'.at = "Ready")
    BY <1>6, ReportFacts DEF Report, TimerFires
  <2>4. QED
    BY <2>1, <2>2, <2>3 DEF Passed
<1>7. CASE TakeTimer
  BY <1>7, TakeTimerView DEF Passed
<1>8. CASE TakeCommand
  <2>1. /\ \A i \in 1..Len(audio') : i + 1 \in 1..Len(audio) /\ audio'[i] = audio[i + 1]
        /\ 1 \in 1..Len(audio)
        /\ \/ player' = Silent
           \/ player' = [at |-> "Starting", sound |-> audio[1].x, n |-> audio[1].n]
        /\ UNCHANGED <<events, worker>>
    BY <1>8, TakeCommandFacts
  <2>2. player'.at # "Idle" => player'.n = audio[1].n
    BY <2>1 DEF Silent
  <2>3. QED
    BY <2>1, <2>2 DEF Passed
<1>9. CASE Starts \/ Ends
  <2>1. player \in [at: {"Idle", "Starting", "Playing", "Ended"}, sound: SoundNames \cup {"Failed"}, n: Nat]
    BY DEF Types, DevicesAreWell
  <2>2. player'.at # "Idle" => player.at # "Idle" /\ player'.n = player.n
    BY <1>9, <2>1 DEF Starts, Ends, Played, Silent
  <2>3. UNCHANGED <<events, worker, audio>>
    BY <1>9 DEF Starts, Ends, Played
  <2>4. QED
    BY <2>2, <2>3 DEF Passed
<1>10. CASE Tells
  <2>1. /\ player.at = "Ended" /\ Signal("PlaybackEnded") \in Heard /\ player.n \in Nat
        /\ Adds(Signal("PlaybackEnded"), player.n) /\ player'.at = "Idle"
        /\ UNCHANGED <<worker, audio>>
    BY <1>10, TellsFacts DEF Tells, Played, Silent
  <2>2. /\ \A i \in 1..Len(events) : events'[i] = events[i]
        /\ events'[Len(events) + 1].n = player.n
        /\ \A i \in 1..Len(events') : i \in 1..Len(events) \/ i = Len(events) + 1
    BY <2>1, AddFacts DEF Types
  <2>3. QED
    BY <2>1, <2>2 DEF Passed
<1>11. QED
  BY <1>1, <1>2, <1>3, <1>4, <1>5, <1>6, <1>7, <1>8, <1>9, <1>10, ElsewhereView

\* The recorder, the timers and the worker that waits for the recorder.
LEMMA RecorderLater ==
    ASSUME Types, [Next]_vars, ~Handle, ~Restart
    PROVE  \/ /\ mic' = mic /\ (Stopping' => Stopping /\ worker'.item.n = worker.item.n)
              /\ QPop => Q[1].x.fx \notin {"StartRecording", "StopRecording"}
              /\ Stopping => Stopping' \/ (\E e \in Heard, n \in Nat : Adds(e, n) /\ e.ev \in Replies)
           \/ /\ QPop /\ Q[1].x.fx = "StartRecording" /\ events' = events /\ ~Stopping
              /\ \/ mic = 0 /\ mic' = Q[1].n /\ ~Stopping'
                 \/ mic' = mic /\ Stopping' /\ worker'.item.n = Q[1].n
           \/ /\ QPop /\ Q[1].x.fx = "StopRecording" /\ events' = events /\ mic' = 0 /\ Stopping'
              /\ worker'.item.n = Q[1].n \/ (mic # 0 /\ worker'.item.n = mic)
<1> DEFINE Kept == /\ mic' = mic /\ (Stopping' => Stopping /\ worker'.item.n = worker.item.n)
                   /\ QPop => Q[1].x.fx \notin {"StartRecording", "StopRecording"}
                   /\ Stopping => Stopping' \/ (\E e \in Heard, n \in Nat : Adds(e, n) /\ e.ev \in Replies)
<1>0. \A x, k : Reporting(x, k).at = "Reporting" /\ Reporting(x, k).item.n = k
  BY DEF Reporting, Mark
<1>a. QStay => ~QPop
  BY StayIsNoPop DEF Types
<1>1. CASE Elsewhere
  <2>1. Q[1].x.fx \notin Sounds \cup RecorderWork \cup TimerKinds => Q[1].x.fx \notin {"StartRecording", "StopRecording"}
    BY DEF RecorderWork
  <2>2. mic' = mic /\ worker' = worker /\ (QPop => Q[1].x.fx \notin {"StartRecording", "StopRecording"})
    BY <1>1, <1>a, <2>1 DEF Elsewhere
  <2>3. Kept
    BY <2>2 DEF Stopping
  <2>4. QED
    BY <2>3
<1>2. CASE Passes
  <2>1. worker' = worker \/ worker'.at = "Passing"
    <3>1. PICK c \in SoundNames \cup {"Stop"} : Pass(c, Q[1].n)
      BY <1>2 DEF Passes
    <3>2. QED
      BY <3>1 DEF Pass
  <2>2. mic' = mic /\ worker.at = "Ready" /\ Q[1].x.fx \in Sounds
    BY <1>2 DEF Passes
  <2>3. Kept
    BY <2>1, <2>2 DEF Stopping, Sounds
  <2>4. QED
    BY <2>3
<1>3. CASE PassOn
  <2>1. worker.at = "Passing" /\ worker'.at = "Ready" /\ mic' = mic /\ QStay
    BY <1>3, PassOnFacts, RestingIsWell
  <2>2. Kept
    BY <2>1, <1>a DEF Stopping
  <2>3. QED
    BY <2>2
<1>4. CASE TakeStart
  <2>1. /\ QPop /\ Q[1].x.fx = "StartRecording" /\ events' = events /\ worker.at = "Ready"
        /\ \/ mic = 0 /\ mic' = Q[1].n /\ worker' = worker
           \/ worker'.at = "Reporting" /\ worker'.item.n = Q[1].n /\ mic' = mic
    BY <1>4, <1>0, TakeStartView
  <2>2. QED
    BY <2>1 DEF Stopping
<1>5. CASE TakeStopRecording
  <2>1. /\ QPop /\ Q[1].x.fx = "StopRecording" /\ events' = events /\ mic' = 0
        /\ worker' = IF mic = 0 THEN Reporting(Signal("RecordingFailed"), Q[1].n)
                         ELSE [at |-> "Finalizing", item |-> Mark(NoEffect, mic)]
    BY <1>5, TakeStopRecordingView
  <2>2. worker'.at \in {"Finalizing", "Reporting"} /\ (worker'.item.n = Q[1].n \/ (mic # 0 /\ worker'.item.n = mic))
    BY <2>1, <1>0 DEF Mark
  <2>3. QED
    BY <2>1, <2>2 DEF Stopping
<1>6. CASE Finalized
  <2>0. PICK x : worker' = Reporting(x, worker.item.n)
    BY <1>6 DEF Finalized
  <2>1. worker.at = "Finalizing" /\ worker'.at = "Reporting" /\ worker'.item.n = worker.item.n
    BY <1>6, <1>0, <2>0 DEF Finalized
  <2>2. QStay /\ mic' = mic
    BY <1>6 DEF Finalized, QStay, Q
  <2>3. Kept
    BY <2>1, <2>2, <1>a DEF Stopping
  <2>4. QED
    BY <2>3
<1>7. CASE Report
  <2>1. QStay /\ mic' = mic
    BY <1>7 DEF Report, QStay, Q
  <2>2. worker'.at = "Ready" /\ (\E e \in Heard, n \in Nat : Adds(e, n) /\ e.ev \in Replies)
    BY <1>7, ReportFacts
  <2>3. Kept
    BY <2>1, <2>2, <1>a DEF Stopping
  <2>4. QED
    BY <2>3
<1>8. CASE TakeTimer
  <2>1. Q[1].x.fx \in TimerKinds /\ mic' = mic /\ worker' = worker
    BY <1>8, TakeTimerView
  <2>2. Kept
    BY <2>1 DEF Stopping, TimerKinds
  <2>3. QED
    BY <2>2
<1>9. CASE TimerFires \/ TakeCommand \/ Starts \/ Ends \/ Tells
  <2>1. QStay /\ mic' = mic /\ worker' = worker
    BY <1>9 DEF TimerFires, TakeCommand, Starts, Ends, Tells, Played, QStay, Q
  <2>2. Kept
    BY <2>1, <1>a DEF Stopping
  <2>3. QED
    BY <2>2
<1>10. QED
  BY <1>1, <1>2, <1>3, <1>4, <1>5, <1>6, <1>7, <1>8, <1>9, ElsewhereView

Arms == {"ArmPulseTimeout", "ArmRecordingTimeout"}

LEMMA ArmedLater ==
    ASSUME Types, [Next]_vars, ~Handle, ~Restart
    PROVE  /\ \A t \in armed' :
                  \/ t \in armed /\ (QPop /\ Q[1].x.fx \in TimerKinds => t.x # TimerOf(Q[1].x.fx))
                  \/ QPop /\ Q[1].x.fx \in Arms /\ t.x = TimerOf(Q[1].x.fx) /\ t.n = Q[1].n
           /\ \A t \in armed :
                  \/ t \in armed'
                  \/ QPop /\ Q[1].x.fx \in TimerKinds /\ t.x = TimerOf(Q[1].x.fx)
                  \/ \E e \in Heard, n \in Nat : Adds(e, n) /\ e.ev = t.x
           /\ QPop /\ Q[1].x.fx \in Arms => \E t \in armed' : t.x = TimerOf(Q[1].x.fx)
<1>a. QStay => ~QPop
  BY StayIsNoPop DEF Types
<1>b. Arms \subseteq TimerKinds
  BY DEF Arms, TimerKinds
<1>1. CASE TakeTimer
  <2>1. /\ QPop /\ Q[1].x.fx \in TimerKinds
        /\ armed' = {t \in armed : t.x # TimerOf(Q[1].x.fx)}
                       \cup (IF Q[1].x.fx \in Arms
                             THEN {Mark(TimerOf(Q[1].x.fx), Q[1].n)} ELSE {})
    BY <1>1, TakeTimerView DEF Arms
  <2>2. Mark(TimerOf(Q[1].x.fx), Q[1].n).x = TimerOf(Q[1].x.fx) /\ Mark(TimerOf(Q[1].x.fx), Q[1].n).n = Q[1].n
    BY DEF Mark
  <2>3. QED
    BY <2>1, <2>2
<1>2. CASE TimerFires
  <2>1. PICK t \in armed : (\E e \in Heard, n \in Nat : Adds(e, n) /\ e.ev = t.x) /\ armed' = armed \ {t}
    BY <1>2, FiresFacts
  <2>2. QStay
    BY <1>2 DEF TimerFires, QStay, Q
  <2>3. QED
    BY <2>1, <2>2, <1>a
<1>3. ASSUME ~TakeTimer, ~TimerFires
      PROVE  armed' = armed /\ (QPop => Q[1].x.fx \notin TimerKinds)
  <2>1. CASE Elsewhere
    BY <2>1, <1>a DEF Elsewhere
  <2>2. CASE Passes
    BY <2>2 DEF Passes, Sounds, TimerKinds
  <2>3. CASE TakeStart
    BY <2>3, TakeStartView DEF TimerKinds
  <2>4. CASE TakeStopRecording
    BY <2>4, TakeStopRecordingView DEF TimerKinds
  <2>5. CASE PassOn \/ Finalized \/ Report \/ TakeCommand \/ Starts \/ Ends \/ Tells
    <3>1. armed' = armed /\ QStay
      BY <2>5 DEF PassOn, Finalized, Report, TakeCommand, Starts, Ends, Tells, Played, QStay, Q
    <3>2. QED
      BY <3>1, <1>a
  <2>6. QED
    BY <1>3, <2>1, <2>2, <2>3, <2>4, <2>5, ElsewhereView
<1>4. QED
  BY <1>1, <1>2, <1>3, <1>b

----------------------------------------------------------------------------
(* A step of the core, as the queues see it *)

\* What the queue of effects gains: kinds K, with the step's mark.
Pushes(K, p, a, r) ==
    /\ Len(Q) \in Nat /\ Len(Q') \in Nat /\ Len(Q) <= Len(Q')
    /\ \A i \in 1..Len(Q) : i \in 1..Len(Q') /\ Q'[i] = Q[i]
    /\ \A i \in 1..Len(Q') :
           \/ i \in 1..Len(Q)
           \/ /\ i > Len(Q) /\ Q'[i].x.fx \in K
              /\ Q'[i].n = IF Q'[i].x.fx = "StopRecording" THEN last.record ELSE last.step + 1
              /\ Q'[i].x.fx \in Single => i = p
              /\ Q'[i].x.fx = "Play" => Q'[i].x.audio = a
              /\ Q'[i].x.fx = "UploadRecording" => Q'[i].x.recording = r
    /\ \A k \in K : \E i \in 1..Len(Q') : i > Len(Q) /\ Q'[i].x.fx = k

\* The marks that the core keeps.
Keeps(K) ==
    /\ last.step \in Nat /\ last'.step \in Nat /\ last'.step >= last.step
    /\ K # {} => last'.step = last.step + 1
    /\ "Play" \in K => last'.play = last.step + 1
    /\ "Play" \notin K => last'.play \in {0, last.play}
    /\ K \cap Sounds = {} => last'.play = last.play
    /\ "StartRecording" \in K => last'.record = last.step + 1
    /\ "StartRecording" \notin K => last'.record = last.record
    /\ "ArmRecordingTimeout" \in K => last'.timer = last.step + 1
    /\ K \cap RecorderWork = {} => last'.timer = last.timer

LEMMA KeepsMarks ==
    ASSUME Types, NEW fxs \in Seq(Effect), NEW K, K = {fxs[i].fx : i \in 1..Len(fxs)},
           last' = IF fxs = <<>> THEN last ELSE Asked(last, fxs)
    PROVE  Keeps(K)
<1>1. DOMAIN fxs = 1..Len(fxs) /\ Len(fxs) \in Nat
  BY LenProperties
<1>2. \A S : Has(fxs, S) <=> K \cap S # {}
  BY <1>1 DEF Has
<1>3. last.step \in Nat
  BY DEF Types, CoreIsWell
<1>4. CASE fxs = <<>>
  <2>1. K = {}
    BY <1>1, <1>4
  <2>2. QED
    BY <1>3, <1>4, <2>1 DEF Keeps
<1>5. CASE fxs # <<>>
  <2>1. last' = Asked(last, fxs)
    BY <1>5
  <2>2. last'.step = last.step + 1
    BY <2>1 DEF Asked
  <2>3. /\ Has(fxs, {"Play"}) <=> "Play" \in K
        /\ Has(fxs, {"StopAudio"}) <=> "StopAudio" \in K
        /\ Has(fxs, {"StartRecording"}) <=> "StartRecording" \in K
        /\ Has(fxs, {"ArmRecordingTimeout"}) <=> "ArmRecordingTimeout" \in K
        /\ Has(fxs, {"CancelRecordingTimeout"}) <=> "CancelRecordingTimeout" \in K
    <3>1. \A k : Has(fxs, {k}) <=> k \in K
      BY <1>1 DEF Has
    <3>2. QED
      BY <3>1
  <2>4. ~Has(fxs, {})
    BY <1>2
  <2>5. "Play" \in K => last'.play = last.step + 1
    BY <2>1, <2>3 DEF Asked
  <2>p. "Play" \notin K => last'.play \in {0, last.play}
    BY <2>1, <2>3 DEF Asked
  <2>6. K \cap Sounds = {} => last'.play = last.play
    <3>1. K \cap Sounds = {} => ~Has(fxs, {"Play"}) /\ ~Has(fxs, {"StopAudio"})
      BY <2>3 DEF Sounds
    <3>2. QED
      BY <2>1, <3>1 DEF Asked
  <2>7. "StartRecording" \in K => last'.record = last.step + 1
    BY <2>1, <2>3 DEF Asked
  <2>8. "StartRecording" \notin K => last'.record = last.record
    BY <2>1, <2>3, <2>4 DEF Asked
  <2>9. "ArmRecordingTimeout" \in K => last'.timer = last.step + 1
    BY <2>1, <2>3 DEF Asked
  <2>10. K \cap RecorderWork = {} => last'.timer = last.timer
    <3>1. K \cap RecorderWork = {} => ~Has(fxs, {"ArmRecordingTimeout"}) /\ ~Has(fxs, {"CancelRecordingTimeout"})
      BY <2>3 DEF RecorderWork
    <3>2. QED
      BY <2>1, <3>1 DEF Asked
  <2>11. QED
    BY <1>3, <2>2, <2>5, <2>p, <2>6, <2>7, <2>8, <2>9, <2>10 DEF Keeps
<1>6. QED
  BY <1>4, <1>5

LEMMA HandleView ==
    ASSUME Types, Handle
    PROVE  \E K, p, a, r : Meets(core, events[1].x, core', K, a, r) /\ Pushes(K, p, a, r) /\ Keeps(K)
<1>1. loop = <<>>
  BY HandleFacts
<1>2. PICK fxs \in Seq(Effect) :
          /\ Does(core, events[1].x, core', fxs)
          /\ last' = IF fxs = <<>> THEN last ELSE Asked(last, fxs)
          /\ Send([i \in DOMAIN fxs |-> Mark(fxs[i], IF fxs[i] = StopRecording THEN last.record ELSE last.step + 1)])
  BY HandleFacts
<1>3. PICK K, p, a, r : Lists(fxs, K, p, a, r) /\ Meets(core, events[1].x, core', K, a, r)
  BY <1>2 DEF Does
<1>4. /\ Len(fxs) \in Nat /\ Len(Q) \in Nat /\ Len(Q') = Len(Q) + Len(fxs)
      /\ \A i \in 1..Len(Q) : Q'[i] = Q[i] /\ i \in 1..Len(Q')
      /\ \A i \in 1..Len(fxs) : /\ Len(Q) + i \in 1..Len(Q') /\ Q'[Len(Q) + i].x = fxs[i]
                                /\ Q'[Len(Q) + i].n = IF fxs[i].fx = "StopRecording" THEN last.record ELSE last.step + 1
      /\ \A i \in 1..Len(Q') : i \in 1..Len(Q) \/ (i - Len(Q) \in 1..Len(fxs) /\ Len(Q) + (i - Len(Q)) = i)
  BY <1>1, <1>2, HandlePushes
<1>5. /\ K = {fxs[i].fx : i \in 1..Len(fxs)}
      /\ \A i \in 1..Len(fxs) : /\ fxs[i].fx \in Single => i = p
                                /\ fxs[i].fx = "Play" => fxs[i].audio = a
                                /\ fxs[i].fx = "UploadRecording" => fxs[i].recording = r
  BY <1>3 DEF Lists
<1>6. Keeps(K)
  BY <1>2, <1>5, KeepsMarks
<1>7. Pushes(K, Len(Q) + p, a, r)
  <2> DEFINE New(i) == /\ i > Len(Q) /\ Q'[i].x.fx \in K
                       /\ Q'[i].n = IF Q'[i].x.fx = "StopRecording" THEN last.record ELSE last.step + 1
                       /\ Q'[i].x.fx \in Single => i = Len(Q) + p
                       /\ Q'[i].x.fx = "Play" => Q'[i].x.audio = a
                       /\ Q'[i].x.fx = "UploadRecording" => Q'[i].x.recording = r
  <2>1. \A j \in 1..Len(fxs) : New(Len(Q) + j)
    <3>1. TAKE j \in 1..Len(fxs)
    <3>2. Len(Q) + j > Len(Q)
      BY <1>4
    <3>3. Q'[Len(Q) + j].x = fxs[j]
          /\ Q'[Len(Q) + j].n = IF fxs[j].fx = "StopRecording" THEN last.record ELSE last.step + 1
      BY <1>4
    <3>4. fxs[j].fx \in K
      BY <1>5
    <3>5. fxs[j].fx \in Single => Len(Q) + j = Len(Q) + p
      BY <1>5
    <3>6. QED
      BY <1>5, <3>2, <3>3, <3>4, <3>5
  <2>2. \A i \in 1..Len(Q') : i \in 1..Len(Q) \/ New(i)
    <3>1. TAKE i \in 1..Len(Q')
    <3>2. CASE i \notin 1..Len(Q)
      <4>1. i - Len(Q) \in 1..Len(fxs) /\ Len(Q) + (i - Len(Q)) = i
        BY <1>4, <3>2
      <4> DEFINE j == i - Len(Q)
      <4>2. New(Len(Q) + j)
        BY <2>1, <4>1
      <4> HIDE DEF New
      <4>3. QED
        BY <4>1, <4>2
    <3>3. QED
      BY <3>2
  <2>3. \A k \in K : \E i \in 1..Len(Q') : i > Len(Q) /\ Q'[i].x.fx = k
    <3>1. TAKE k \in K
    <3>2. PICK j \in 1..Len(fxs) : fxs[j].fx = k
      BY <1>5
    <3>3. Len(Q) + j \in 1..Len(Q') /\ Len(Q) + j > Len(Q) /\ Q'[Len(Q) + j].x.fx = k
      BY <1>4, <3>2
    <3>4. QED
      BY <3>3
  <2>4. Len(Q') \in Nat /\ Len(Q) <= Len(Q')
    BY <1>4
  <2>5. QED
    BY <1>4, <2>2, <2>3, <2>4 DEF Pushes
<1>8. QED
  BY <1>3, <1>6, <1>7

\* What the core leaves alone, and the events that are left.
LEMMA HandleLeaves ==
    ASSUME Types, Handle
    PROVE  /\ UNCHANGED <<worker, waiting, tasks, remote, audio, player, mic, armed>>
           /\ Len(events) \in Nat \ {0} /\ 1 \in 1..Len(events)
           /\ \A i \in 1..Len(events') : i + 1 \in 1..Len(events) /\ events'[i] = events[i + 1]
           /\ \A i \in 1..Len(events) : i = 1 \/ (i - 1 \in 1..Len(events') /\ events'[i - 1] = events[i])
<1>1. events # <<>> /\ events' = Tail(events)
  BY HandleFacts
<1>2. /\ Len(events) \in Nat \ {0} /\ Len(events') = Len(events) - 1
      /\ \A i \in 1..Len(events') : i + 1 \in 1..Len(events) /\ events'[i] = events[i + 1]
  BY <1>1, Popped DEF Types, QueuesAreWell
<1>3. ASSUME NEW i \in 1..Len(events), i # 1
      PROVE  i - 1 \in 1..Len(events') /\ events'[i - 1] = events[i]
  <2>1. i - 1 \in 1..Len(events') /\ (i - 1) + 1 = i
    BY <1>2, <1>3
  <2>2. QED
    BY <1>2, <2>1
<1>4. QED
  BY <1>2, <1>3 DEF Handle

\* Nothing is under way.
Blank ==
    /\ core = Plain("Idle") /\ early = FALSE /\ Q = <<>> /\ Len(Q) = 0
    /\ events = <<>> /\ Len(events) = 0 /\ audio = <<>> /\ Len(audio) = 0 /\ waiting = <<>> /\ Len(waiting) = 0
    /\ worker = Resting /\ player = Silent /\ mic = 0 /\ armed = {}
    /\ last.step \in Nat /\ last.play = 0 /\ last.record = 0

LEMMA RestartIsBlank == ASSUME Restart PROVE Blank'
<1>1. effects' = <<>> /\ loop' = <<>> /\ <<>> \o <<>> = <<>>
  BY DEF Restart
<1>2. QED
  BY <1>1 DEF Restart, Blank, Q, Unasked

\* The booth starts with nothing under way but the dial tone of a lifted handset.
Started ==
    \/ Blank
    \/ /\ core = Plain("DialTone") /\ early = FALSE /\ Q = <<Mark(Play("DialTone"), 1)>> /\ Len(Q) = 1
       /\ events = <<>> /\ Len(events) = 0 /\ audio = <<>> /\ Len(audio) = 0 /\ waiting = <<>> /\ Len(waiting) = 0
       /\ worker = Resting /\ player = Silent /\ mic = 0 /\ armed = {}
       /\ last.step = 1 /\ last.play = 1 /\ last.record = 0

LEMMA InitIsStarted == ASSUME Init PROVE Started
<1>1. CASE core = Plain("Idle") /\ last = [Unasked EXCEPT !.step = 0, !.play = 0] /\ effects = <<>>
  <2>1. Q = <<>> /\ Len(Q) = 0
    BY <1>1 DEF Init, Q
  <2>2. last.step = 0 /\ last.play = 0 /\ last.record = 0
    BY <1>1 DEF Unasked
  <2>3. QED
    BY <1>1, <2>1, <2>2 DEF Init, Started, Blank
<1>2. CASE core = Plain("DialTone") /\ last = [Unasked EXCEPT !.step = 1, !.play = 1]
           /\ effects = <<Mark(Play("DialTone"), 1)>>
  <2>1. Q = <<Mark(Play("DialTone"), 1)>> /\ Len(Q) = 1
    BY <1>2 DEF Init, Q
  <2>2. last.step = 1 /\ last.play = 1 /\ last.record = 0
    BY <1>2 DEF Unasked
  <2>3. QED
    BY <1>2, <2>1, <2>2 DEF Init, Started
<1>3. QED
  BY <1>1, <1>2 DEF Init

----------------------------------------------------------------------------
(* Marks *)

\* No mark is ahead of the core.
Marks ==
    /\ last.play \in Nat /\ last.play <= last.step
    /\ \A i \in 1..Len(Q) : Q[i].x.fx \in Sounds => Q[i].n <= last.step
    /\ \A n \in Nat : Passed(n) => n <= last.step

LEMMA BlankPassed == ASSUME Blank, NEW n PROVE ~Passed(n)
  BY RestingIsWell DEF Blank, Silent, Passed

\* A step of the tasks passes no mark on that was not in the queue.
LEMMA MarksAside == ASSUME Types, Marks, [Next]_vars, ~Handle, ~Restart PROVE Marks'
<1>1. Aside
  BY AsideView
<1>2. last' = last /\ last.step \in Nat
  BY <1>1 DEF Aside, Calm, Types, CoreIsWell
<1>3. \A i \in 1..Len(Q') : Q'[i].x.fx \in Sounds => Q'[i].n <= last.step
  <2>1. CASE QStay
    BY <2>1 DEF QStay, Marks
  <2>2. CASE QPop
    <3>1. \A i \in 1..Len(Q') : i + 1 \in 1..Len(Q) /\ Q'[i] = Q[i + 1]
      BY <2>2, PopFacts DEF Types
    <3>2. QED
      BY <3>1 DEF Marks
  <2>3. QED
    BY <1>1, <2>1, <2>2 DEF Aside
<1>4. ASSUME NEW n \in Nat, Passed(n)' PROVE n <= last.step
  <2>1. CASE Passed(n)
    BY <2>1 DEF Marks
  <2>2. CASE QPop /\ Q[1].x.fx \in Sounds /\ Q[1].n = n
    <3>1. 1 \in 1..Len(Q)
      BY <2>2, PopFacts DEF Types
    <3>2. QED
      BY <2>2, <3>1 DEF Marks
  <2>3. QED
    BY <1>4, <2>1, <2>2, PassedLater
<1>5. QED
  BY <1>2, <1>3, <1>4 DEF Marks

LEMMA MarksHandle == ASSUME Types, Marks, Handle PROVE Marks'
<1>1. PICK K, p, a, r : Meets(core, events[1].x, core', K, a, r) /\ Pushes(K, p, a, r) /\ Keeps(K)
  BY HandleView
<1>2. last.step \in Nat /\ last'.step \in Nat /\ last'.step >= last.step /\ last'.play \in Nat
  <2>1. last' \in [step: Nat, play: Nat, fetch: Nat, record: Nat, timer: Nat]
    BY TypesStep DEF Types, CoreIsWell, Next, MainLoop
  <2>2. QED
    BY <1>1, <2>1 DEF Keeps
<1>3. last'.play <= last'.step
  <2>1. "Play" \in K => last'.play = last.step + 1 /\ last'.step = last.step + 1
    BY <1>1 DEF Keeps
  <2>2. "Play" \notin K => last'.play \in {0, last.play}
    BY <1>1 DEF Keeps
  <2>3. QED
    BY <1>2, <2>1, <2>2 DEF Marks
<1>4. ASSUME NEW i \in 1..Len(Q'), Q'[i].x.fx \in Sounds PROVE Q'[i].n <= last'.step
  <2>1. CASE i \in 1..Len(Q)
    <3>1. Q'[i] = Q[i]
      BY <1>1, <2>1 DEF Pushes
    <3>2. Q[i].n \in Nat
      BY <2>1, QElements DEF Types
    <3>3. QED
      BY <1>2, <1>4, <2>1, <3>1, <3>2 DEF Marks
  <2>2. CASE Q'[i].x.fx \in K /\ Q'[i].n = IF Q'[i].x.fx = "StopRecording" THEN last.record ELSE last.step + 1
    <3>1. K # {} /\ Q'[i].n = last.step + 1
      BY <1>4, <2>2 DEF Sounds
    <3>2. last'.step = last.step + 1
      BY <1>1, <3>1 DEF Keeps
    <3>3. QED
      BY <1>2, <3>1, <3>2
  <2>3. QED
    BY <1>1, <2>1, <2>2 DEF Pushes
<1>5. ASSUME NEW n \in Nat, Passed(n)' PROVE n <= last'.step
  <2>1. Passed(n)
    <3>1. /\ UNCHANGED <<worker, audio, player>>
          /\ \A i \in 1..Len(events') : i + 1 \in 1..Len(events) /\ events'[i] = events[i + 1]
      BY HandleLeaves
    <3>2. QED
      BY <1>5, <3>1 DEF Passed
  <2>2. QED
    BY <1>2, <2>1 DEF Marks
<1>6. QED
  BY <1>2, <1>3, <1>4, <1>5 DEF Marks

LEMMA MarksInit == ASSUME Started PROVE Marks
<1>1. CASE Blank
  <2>1. \A n : ~Passed(n)
    BY <1>1, BlankPassed
  <2>2. Len(Q) = 0 /\ last.play = 0 /\ last.step \in Nat
    BY <1>1 DEF Blank
  <2>3. QED
    BY <2>1, <2>2 DEF Marks
<1>2. CASE ~Blank
  <2>1. \A n : ~Passed(n)
    BY <1>2, RestingIsWell DEF Started, Silent, Passed
  <2>2. Q[1].n = 1
    BY <1>2 DEF Started, Mark
  <2>3. QED
    BY <1>2, <2>1, <2>2 DEF Started, Marks
<1>3. QED
  BY <1>1, <1>2

LEMMA MarksStep == ASSUME Types, Marks, [Next]_vars PROVE Marks'
<1>1. CASE Restart
  <2>1. Blank'
    BY <1>1, RestartIsBlank
  <2>2. \A n : ~Passed(n)'
    BY <2>1, RestingIsWell DEF Blank, Silent, Passed
  <2>3. QED
    BY <2>1, <2>2 DEF Blank, Marks
<1>2. QED
  BY <1>1, MarksAside, MarksHandle

----------------------------------------------------------------------------
(* Timers are called off *)

\* Every timer armed is called off by an effect that is still to be taken.
CalledOff(arm, cancel, timer) ==
    /\ \A i \in 1..Len(Q) : Q[i].x.fx = arm => \E j \in 1..Len(Q) : i < j /\ Q[j].x.fx = cancel
    /\ (\E t \in armed : t.x = timer) => \E j \in 1..Len(Q) : Q[j].x.fx = cancel

TimersAreCalledOff ==
    /\ core.tag # "Recording" => CalledOff("ArmRecordingTimeout", "CancelRecordingTimeout", "RecordingTimedOut")
    /\ core.tag # "Dialing" => CalledOff("ArmPulseTimeout", "CancelPulseTimeout", "Tick")

LEMMA CalledOffAside ==
    ASSUME Types, [Next]_vars, ~Handle, ~Restart,
           NEW arm \in Arms, NEW cancel \in TimerKinds \ Arms, NEW timer,
           TimerOf(arm) = timer, TimerOf(cancel) = timer, CalledOff(arm, cancel, timer)
    PROVE  CalledOff(arm, cancel, timer)'
<1>1. Aside
  BY AsideView
<1>2. CASE QStay
  <2>1. ~QPop
    BY <1>2, StayIsNoPop DEF Types
  <2>2. \A t \in armed' : t \in armed
    BY <2>1, ArmedLater
  <2>3. QED
    BY <1>2, <2>2 DEF QStay, CalledOff
<1>3. CASE QPop
  <2>1. /\ Len(Q) \in Nat \ {0} /\ 1 \in 1..Len(Q) /\ Len(Q') \in Nat
        /\ \A i \in 1..Len(Q') : i + 1 \in 1..Len(Q) /\ Q'[i] = Q[i + 1]
        /\ \A i \in 1..Len(Q) : i # 1 => i - 1 \in 1..Len(Q') /\ Q'[i - 1] = Q[i]
    BY <1>3, PopFacts DEF Types
  <2>2. ASSUME NEW i \in 1..Len(Q'), Q'[i].x.fx = arm
        PROVE  \E j \in 1..Len(Q') : i < j /\ Q'[j].x.fx = cancel
    <3>1. i + 1 \in 1..Len(Q) /\ Q[i + 1].x.fx = arm
      BY <2>1, <2>2
    <3>2. PICK j \in 1..Len(Q) : i + 1 < j /\ Q[j].x.fx = cancel
      BY <3>1 DEF CalledOff
    <3>3. j # 1 /\ j - 1 \in 1..Len(Q') /\ Q'[j - 1].x.fx = cancel /\ i < j - 1
      BY <2>1, <3>2
    <3>4. QED
      BY <3>3
  <2>3. ASSUME NEW t \in armed', t.x = timer
        PROVE  \E j \in 1..Len(Q') : Q'[j].x.fx = cancel
    <3>1. PICK j \in 1..Len(Q) : j # 1 /\ Q[j].x.fx = cancel
      <4>1. CASE t \in armed /\ (Q[1].x.fx \in TimerKinds => t.x # TimerOf(Q[1].x.fx))
        <5>1. PICK j \in 1..Len(Q) : Q[j].x.fx = cancel
          BY <2>3, <4>1 DEF CalledOff
        <5>2. j # 1
          BY <2>3, <4>1, <5>1
        <5>3. QED
          BY <5>1, <5>2
      <4>2. CASE Q[1].x.fx \in Arms /\ t.x = TimerOf(Q[1].x.fx)
        <5>1. Q[1].x.fx = arm
          BY <2>3, <4>2 DEF Arms, TimerOf
        <5>2. PICK j \in 1..Len(Q) : 1 < j /\ Q[j].x.fx = cancel
          BY <2>1, <5>1 DEF CalledOff
        <5>3. QED
          BY <5>2
      <4>3. QED
        BY <1>3, <4>1, <4>2, ArmedLater
    <3>2. QED
      BY <2>1, <3>1
  <2>4. QED
    BY <2>2, <2>3 DEF CalledOff
<1>4. QED
  BY <1>1, <1>2, <1>3 DEF Aside

LEMMA CalledOffHandle ==
    ASSUME NEW K, NEW p, NEW a, NEW r, Pushes(K, p, a, r), armed' = armed,
           NEW arm, NEW cancel, NEW timer, arm \notin K, CalledOff(arm, cancel, timer) \/ cancel \in K
    PROVE  CalledOff(arm, cancel, timer)'
<1>1. /\ Len(Q) \in Nat /\ Len(Q') \in Nat
      /\ \A i \in 1..Len(Q) : i \in 1..Len(Q') /\ Q'[i] = Q[i]
      /\ \A i \in 1..Len(Q') : i \in 1..Len(Q) \/ Q'[i].x.fx \in K
  BY DEF Pushes
<1>2. \A i \in 1..Len(Q') : Q'[i].x.fx = arm => i \in 1..Len(Q) /\ Q[i].x.fx = arm
  BY <1>1
<1>3. CASE cancel \in K
  <2>1. PICK j \in 1..Len(Q') : j > Len(Q) /\ Q'[j].x.fx = cancel
    BY <1>3 DEF Pushes
  <2>2. \A i \in 1..Len(Q') : Q'[i].x.fx = arm => i < j
    BY <1>1, <1>2, <2>1
  <2>3. QED
    BY <2>1, <2>2 DEF CalledOff
<1>4. CASE CalledOff(arm, cancel, timer)
  <2>1. \A i \in 1..Len(Q') : Q'[i].x.fx = arm => \E j \in 1..Len(Q') : i < j /\ Q'[j].x.fx = cancel
    <3>1. TAKE i \in 1..Len(Q')
    <3>2. HAVE Q'[i].x.fx = arm
    <3>3. PICK j \in 1..Len(Q) : i < j /\ Q[j].x.fx = cancel
      BY <1>2, <1>4, <3>2 DEF CalledOff
    <3>4. j \in 1..Len(Q') /\ Q'[j].x.fx = cancel
      BY <1>1, <3>3
    <3>5. QED
      BY <3>3, <3>4
  <2>2. (\E t \in armed' : t.x = timer) => \E j \in 1..Len(Q') : Q'[j].x.fx = cancel
    <3>1. HAVE \E t \in armed' : t.x = timer
    <3>2. PICK j \in 1..Len(Q) : Q[j].x.fx = cancel
      BY <1>4, <3>1 DEF CalledOff
    <3>3. j \in 1..Len(Q') /\ Q'[j].x.fx = cancel
      BY <1>1, <3>2
    <3>4. QED
      BY <3>3
  <2>3. QED
    BY <2>1, <2>2 DEF CalledOff
<1>5. QED
  BY <1>3, <1>4

LEMMA TimersStep == ASSUME Types, TimersAreCalledOff, [Next]_vars PROVE TimersAreCalledOff'
<1>1. CASE Restart
  <2>1. Len(Q)' = 0 /\ armed' = {}
    BY <1>1, RestartIsBlank DEF Blank
  <2>2. QED
    BY <2>1 DEF TimersAreCalledOff, CalledOff
<1>2. CASE Handle
  <2>1. PICK K, p, a, r : Meets(core, events[1].x, core', K, a, r) /\ Pushes(K, p, a, r)
    BY <1>2, HandleView
  <2>2. armed' = armed
    BY <1>2, HandleLeaves
  <2>3. core'.tag # "Recording" => CalledOff("ArmRecordingTimeout", "CancelRecordingTimeout", "RecordingTimedOut")'
    <3>1. HAVE core'.tag # "Recording"
    <3>2. "ArmRecordingTimeout" \notin K /\ (core.tag # "Recording" \/ "CancelRecordingTimeout" \in K)
      BY <2>1, <3>1 DEF Meets, RecorderMeets
    <3>3. QED
      BY <2>1, <2>2, <3>2, CalledOffHandle DEF TimersAreCalledOff
  <2>4. core'.tag # "Dialing" => CalledOff("ArmPulseTimeout", "CancelPulseTimeout", "Tick")'
    <3>1. HAVE core'.tag # "Dialing"
    <3>2. "ArmPulseTimeout" \notin K /\ (core.tag # "Dialing" \/ "CancelPulseTimeout" \in K)
      BY <2>1, <3>1 DEF Meets, RestMeets
    <3>3. QED
      BY <2>1, <2>2, <3>2, CalledOffHandle DEF TimersAreCalledOff
  <2>5. QED
    BY <2>3, <2>4 DEF TimersAreCalledOff
<1>3. CASE ~Restart /\ ~Handle
  <2>1. core' = core
    BY <1>3, AsideView DEF Aside, Calm
  <2>2. /\ "ArmRecordingTimeout" \in Arms /\ "CancelRecordingTimeout" \in TimerKinds \ Arms
        /\ TimerOf("ArmRecordingTimeout") = "RecordingTimedOut" /\ TimerOf("CancelRecordingTimeout") = "RecordingTimedOut"
        /\ "ArmPulseTimeout" \in Arms /\ "CancelPulseTimeout" \in TimerKinds \ Arms
        /\ TimerOf("ArmPulseTimeout") = "Tick" /\ TimerOf("CancelPulseTimeout") = "Tick"
    BY DEF Arms, TimerKinds, TimerOf
  <2>3. core.tag # "Recording" => CalledOff("ArmRecordingTimeout", "CancelRecordingTimeout", "RecordingTimedOut")'
    BY <1>3, <2>2, CalledOffAside DEF TimersAreCalledOff
  <2>4. core.tag # "Dialing" => CalledOff("ArmPulseTimeout", "CancelPulseTimeout", "Tick")'
    BY <1>3, <2>2, CalledOffAside DEF TimersAreCalledOff
  <2>5. QED
    BY <2>1, <2>3, <2>4 DEF TimersAreCalledOff
<1>4. QED
  BY <1>1, <1>2, <1>3

LEMMA StartedQueue ==
    ASSUME Started
    PROVE  /\ \A i \in 1..Len(Q) : Q[i].x = Play("DialTone") /\ Q[i].x.fx = "Play"
           /\ armed = {} /\ mic = 0 /\ Len(events) = 0 /\ worker.at = "Ready"
           /\ core.tag \in {"Idle", "DialTone"} /\ ~core.on_hook /\ ~core.beep_pending
<1>1. \A i \in 1..Len(Q) : Q[i].x = Play("DialTone")
  BY DEF Started, Blank, Mark
<1>2. Play("DialTone").fx = "Play"
  BY DEF Play
<1>3. core \in {Plain("Idle"), Plain("DialTone")} /\ worker = Resting
  BY DEF Started, Blank
<1>4. QED
  BY <1>1, <1>2, <1>3, VariantFields, RestingIsWell DEF Started, Blank

LEMMA TimersInit == ASSUME Started PROVE TimersAreCalledOff
  BY StartedQueue DEF TimersAreCalledOff, CalledOff

----------------------------------------------------------------------------
(* The recorder *)

\* Whatever is asked of the recorder is taken before the beep that follows it.
WorkIsFirst ==
    \A i \in 1..Len(Q) :
        Q[i].x.fx \in RecorderWork => \E j \in 1..Len(Q) : i < j /\ Q[j].x.fx \in Sounds /\ Q[j].n = last.play

BeepIsOnce ==
    \A i, j \in 1..Len(Q) :
        /\ Q[i].x.fx \in Sounds /\ Q[i].n = last.play
        /\ Q[j].x.fx \in Sounds /\ Q[j].n = last.play
        => i = j

BeepIsPassed ==
    Passed(last.play) =>
        /\ \A i \in 1..Len(Q) : ~(Q[i].x.fx \in Sounds /\ Q[i].n = last.play)
        /\ ~Stopping

ReportsAreFirst ==
    \A i, j \in 1..Len(events) :
        events[i].x.ev \in Reports /\ events[j].x.ev = "PlaybackEnded" /\ events[j].n = last.play => i < j

BeepIsLast == ~early /\ core.tag = "Beep" => WorkIsFirst /\ BeepIsOnce /\ BeepIsPassed /\ ReportsAreFirst

\* Places in the queue of effects before and after a step of the tasks.
LEMMA Shift ==
    ASSUME Types, Aside
    PROVE  \E d \in {0, 1} :
              /\ Len(Q) \in Nat /\ Len(Q') \in Nat
              /\ d = 1 => QPop /\ 1 \in 1..Len(Q) /\ Q[1].x \in Effect /\ Q[1].n \in Nat
              /\ d = 0 => ~QPop /\ QStay
              /\ \A i \in 1..Len(Q') : i + d \in 1..Len(Q) /\ Q'[i] = Q[i + d]
              /\ \A i \in 1..Len(Q) : i > d => i - d \in 1..Len(Q') /\ Q'[i - d] = Q[i]
<1>1. CASE QStay
  <2>1. Len(Q) \in Nat /\ Q' = Q /\ ~QPop
    BY <1>1, QElements, StayIsNoPop DEF Types, QStay
  <2>2. QED
    BY <1>1, <2>1
<1>2. CASE QPop
  BY <1>2, PopFacts DEF Types
<1>3. QED
  BY <1>1, <1>2 DEF Aside

LEMMA SoundPops ==
    ASSUME Types, [Next]_vars, ~Handle, ~Restart, QPop, Q[1].x.fx \in Sounds
    PROVE  Passes
<1>a. QStay => ~QPop
  BY StayIsNoPop DEF Types
<1>1. CASE Elsewhere
  BY <1>1, <1>a DEF Elsewhere
<1>2. CASE PassOn \/ Finalized \/ Report \/ TimerFires \/ TakeCommand \/ Starts \/ Ends \/ Tells
  BY <1>2, <1>a DEF PassOn, Finalized, Report, TimerFires, TakeCommand, Starts, Ends, Tells, Played, QStay, Q
<1>3. CASE TakeStart
  BY <1>3, TakeStartView DEF Sounds
<1>4. CASE TakeStopRecording
  BY <1>4, TakeStopRecordingView DEF Sounds
<1>5. CASE TakeTimer
  BY <1>5, TakeTimerView DEF Sounds, TimerKinds
<1>6. QED
  BY <1>1, <1>2, <1>3, <1>4, <1>5, ElsewhereView

\* While the beep is awaited, the tasks finish the work before it first.
LEMMA BeepAside ==
    ASSUME Types, TimersAreCalledOff, [Next]_vars, ~Handle, ~Restart, core.tag = "Beep",
           WorkIsFirst, BeepIsOnce, BeepIsPassed, ReportsAreFirst
    PROVE  (WorkIsFirst /\ BeepIsOnce /\ BeepIsPassed /\ ReportsAreFirst)'
<1>0. Aside /\ last' = last /\ last.play \in Nat
  BY AsideView DEF Aside, Calm, Types, CoreIsWell
<1>1. PICK d \in {0, 1} :
          /\ Len(Q) \in Nat /\ Len(Q') \in Nat
          /\ d = 1 => QPop /\ 1 \in 1..Len(Q)
          /\ d = 0 => ~QPop
          /\ \A i \in 1..Len(Q') : i + d \in 1..Len(Q) /\ Q'[i] = Q[i + d]
          /\ \A i \in 1..Len(Q) : i > d => i - d \in 1..Len(Q') /\ Q'[i - d] = Q[i]
  BY <1>0, Shift
<1>2. WorkIsFirst'
  <2>1. SUFFICES ASSUME NEW i \in 1..Len(Q'), Q'[i].x.fx \in RecorderWork
                 PROVE  \E j \in 1..Len(Q') : i < j /\ Q'[j].x.fx \in Sounds /\ Q'[j].n = last.play
    BY <1>0 DEF WorkIsFirst
  <2>2. i + d \in 1..Len(Q) /\ Q[i + d].x.fx \in RecorderWork
    BY <1>1, <2>1
  <2>3. PICK j \in 1..Len(Q) : i + d < j /\ Q[j].x.fx \in Sounds /\ Q[j].n = last.play
    BY <2>2 DEF WorkIsFirst
  <2>4. j - d \in 1..Len(Q') /\ Q'[j - d] = Q[j] /\ i < j - d
    BY <1>1, <2>3
  <2>5. QED
    BY <2>3, <2>4
<1>3. BeepIsOnce'
  <2>1. SUFFICES ASSUME NEW i \in 1..Len(Q'), NEW j \in 1..Len(Q'),
                        Q'[i].x.fx \in Sounds /\ Q'[i].n = last.play,
                        Q'[j].x.fx \in Sounds /\ Q'[j].n = last.play
                 PROVE  i = j
    BY <1>0 DEF BeepIsOnce
  <2>2. i + d \in 1..Len(Q) /\ j + d \in 1..Len(Q) /\ Q'[i] = Q[i + d] /\ Q'[j] = Q[j + d]
    BY <1>1
  <2>3. i + d = j + d
    BY <2>1, <2>2 DEF BeepIsOnce
  <2>4. QED
    BY <2>3
<1>4. BeepIsPassed'
  <2>1. SUFFICES ASSUME Passed(last.play)'
                 PROVE  /\ \A i \in 1..Len(Q') : ~(Q'[i].x.fx \in Sounds /\ Q'[i].n = last.play)
                        /\ ~Stopping'
    BY <1>0 DEF BeepIsPassed
  <2>0. \E n \in {last.play} : Passed(n)'
    BY <2>1, <1>0 DEF Passed
  <2>2. Passed(last.play) \/ (QPop /\ Q[1].x.fx \in Sounds /\ Q[1].n = last.play)
    BY <2>0, PassedLater
  <2>3. CASE Passed(last.play)
    <3>1. /\ \A i \in 1..Len(Q) : ~(Q[i].x.fx \in Sounds /\ Q[i].n = last.play)
          /\ ~Stopping
      BY <2>3 DEF BeepIsPassed
    <3>2. \A i \in 1..Len(Q) : Q[i].x.fx \notin RecorderWork
      BY <3>1 DEF WorkIsFirst
    <3>3. ~(QPop /\ Q[1].x.fx \in {"StartRecording", "StopRecording"})
      BY <1>1, <3>2 DEF RecorderWork
    <3>4. ~Stopping'
      BY <3>1, <3>3, RecorderLater
    <3>5. QED
      BY <1>1, <3>1, <3>4
  <2>4. CASE QPop /\ Q[1].x.fx \in Sounds /\ Q[1].n = last.play
    <3>1. d = 1 /\ 1 \in 1..Len(Q)
      BY <1>1, <2>4
    <3>2. \A i \in 1..Len(Q') : ~(Q'[i].x.fx \in Sounds /\ Q'[i].n = last.play)
      <4>1. TAKE i \in 1..Len(Q')
      <4>2. i + 1 \in 1..Len(Q) /\ Q'[i] = Q[i + 1] /\ i + 1 # 1
        BY <1>1, <3>1
      <4>3. QED
        BY <2>4, <3>1, <4>2 DEF BeepIsOnce
    <3>3. worker.at = "Ready"
      BY <2>4, SoundPops DEF Passes
    <3>4. ~Stopping'
      BY <2>4, <3>3, RecorderLater DEF Stopping, Sounds
    <3>5. QED
      BY <3>2, <3>4
  <2>5. QED
    BY <2>2, <2>3, <2>4
<1>5. ReportsAreFirst'
  <2>1. CASE events' = events
    BY <2>1, <1>0 DEF ReportsAreFirst
  <2>2. CASE events' # events
    <3>1. PICK e \in Heard, n \in Nat :
              /\ Adds(e, n)
              /\ \/ e.ev \notin Reports \cup {"PlaybackEnded", "Tick"}
                 \/ e.ev \in Replies /\ worker.at = "Reporting"
                 \/ e.ev \in {"RecordingTimedOut", "Tick"} /\ (\E t \in armed : t.x = e.ev)
                 \/ e.ev = "PlaybackEnded"
      BY <2>2, EventsLater
    <3>2. /\ Len(events) \in Nat /\ Len(events') = Len(events) + 1
          /\ \A i \in 1..Len(events) : events'[i] = events[i]
          /\ events'[Len(events) + 1].x = e
          /\ \A i \in 1..Len(events') : i \in 1..Len(events) \/ i = Len(events) + 1
      BY <3>1, AddFacts DEF Types
    <3>3. e.ev \in Reports => ~Passed(last.play) /\ e.ev # "PlaybackEnded"
      <4>1. HAVE e.ev \in Reports
      <4>2. CASE worker.at = "Reporting"
        BY <4>1, <4>2 DEF Stopping, BeepIsPassed, Reports, Replies
      <4>3. CASE e.ev = "RecordingTimedOut" /\ (\E t \in armed : t.x = e.ev)
        <5>1. PICK j \in 1..Len(Q) : Q[j].x.fx = "CancelRecordingTimeout"
          BY <4>3 DEF TimersAreCalledOff, CalledOff
        <5>2. \E k \in 1..Len(Q) : Q[k].x.fx \in Sounds /\ Q[k].n = last.play
          BY <5>1 DEF WorkIsFirst, RecorderWork
        <5>3. QED
          BY <4>3, <5>2 DEF BeepIsPassed
      <4>4. QED
        BY <3>1, <4>1, <4>2, <4>3 DEF Reports, Replies
    <3>4. SUFFICES ASSUME NEW i \in 1..Len(events'), NEW j \in 1..Len(events'),
                          events'[i].x.ev \in Reports, events'[j].x.ev = "PlaybackEnded", events'[j].n = last.play
                   PROVE  i < j
      BY <1>0 DEF ReportsAreFirst
    <3>5. CASE i = Len(events) + 1
      <4>1. e.ev \in Reports
        BY <3>2, <3>4, <3>5
      <4>2. j \in 1..Len(events) /\ events[j].x.ev = "PlaybackEnded" /\ events[j].n = last.play
        BY <3>2, <3>3, <3>4, <4>1
      <4>3. Passed(last.play)
        BY <4>2 DEF Passed
      <4>4. QED
        BY <3>3, <4>1, <4>3
    <3>6. CASE i \in 1..Len(events) /\ j = Len(events) + 1
      BY <3>2, <3>6
    <3>7. CASE i \in 1..Len(events) /\ j \in 1..Len(events)
      BY <3>2, <3>4, <3>7 DEF ReportsAreFirst
    <3>8. QED
      BY <3>2, <3>5, <3>6, <3>7
  <2>3. QED
    BY <2>1, <2>2
<1>6. QED
  BY <1>2, <1>3, <1>4, <1>5

Starting == \E i \in 1..Len(Q) : Q[i].x.fx = "StartRecording"

\* A reply of the recorder is under way.
Replied == Stopping \/ \E i \in 1..Len(events) : events[i].x.ev \in Replies

MicIsOff == mic = 0 /\ ~Starting

\* Everything about the recorder is about the answer that the core waits for.
AnswerIsOwn ==
    /\ last.record > 0 /\ mic \in {0, last.record}
    /\ \A i \in 1..Len(Q) : Q[i].x.fx \in {"StartRecording", "StopRecording"} => Q[i].n = last.record
    /\ Stopping => worker.item.n = last.record
    /\ \A i \in 1..Len(events) : events[i].x.ev \in Replies => events[i].n = last.record

\* The recorder is started once, before it is stopped and before it replies.
StartIsFirst ==
    /\ \A i, j \in 1..Len(Q) : Q[i].x.fx = "StartRecording" /\ Q[j].x.fx = "StartRecording" => i = j
    /\ \A i, j \in 1..Len(Q) : Q[i].x.fx = "StartRecording" /\ Q[j].x.fx = "StopRecording" => i < j
    /\ Replied => mic = 0 /\ ~Starting
    /\ Starting => mic = 0

TimerIsOwn ==
    /\ \A i \in 1..Len(Q) : Q[i].x.fx = "ArmRecordingTimeout" => Q[i].n = last.timer
    /\ \A t \in armed : t.x = "RecordingTimedOut" => t.n = last.timer
    /\ \A i \in 1..Len(events) : events[i].x.ev = "RecordingTimedOut" => events[i].n = last.timer

RecorderInv ==
    ~early =>
        /\ core.tag = "Beep" => WorkIsFirst /\ BeepIsOnce /\ BeepIsPassed /\ ReportsAreFirst
        /\ core.tag \notin Answers => MicIsOff
        /\ core.tag \in Answers => AnswerIsOwn /\ StartIsFirst
        /\ core.tag = "Recording" => TimerIsOwn

\* What the recorder does and tells stays its answer's.
LEMMA AnswerAside ==
    ASSUME Types, [Next]_vars, ~Handle, ~Restart, AnswerIsOwn, StartIsFirst
    PROVE  AnswerIsOwn' /\ StartIsFirst'
<1>0. Aside /\ last' = last /\ last.record \in Nat
  BY AsideView DEF Aside, Calm, Types, CoreIsWell
<1>1. PICK d \in {0, 1} :
          /\ Len(Q) \in Nat /\ Len(Q') \in Nat
          /\ d = 1 => QPop /\ 1 \in 1..Len(Q)
          /\ d = 0 => ~QPop
          /\ \A i \in 1..Len(Q') : i + d \in 1..Len(Q) /\ Q'[i] = Q[i + d]
          /\ \A i \in 1..Len(Q) : i > d => i - d \in 1..Len(Q') /\ Q'[i - d] = Q[i]
  BY <1>0, Shift
<1>2. /\ \A i \in 1..Len(Q') : Q'[i].x.fx \in {"StartRecording", "StopRecording"} => Q'[i].n = last.record
      /\ \A i, j \in 1..Len(Q') : Q'[i].x.fx = "StartRecording" /\ Q'[j].x.fx = "StartRecording" => i = j
      /\ \A i, j \in 1..Len(Q') : Q'[i].x.fx = "StartRecording" /\ Q'[j].x.fx = "StopRecording" => i < j
  <2>1. \A i \in 1..Len(Q') : Q'[i].x.fx \in {"StartRecording", "StopRecording"} => Q'[i].n = last.record
    <3>1. \A i \in 1..Len(Q) : Q[i].x.fx \in {"StartRecording", "StopRecording"} => Q[i].n = last.record
      BY DEF AnswerIsOwn
    <3>2. \A i \in 1..Len(Q') : \E j \in 1..Len(Q) : Q'[i] = Q[j]
      BY <1>1
    <3>3. QED
      BY <3>1, <3>2
  <2>2. ASSUME NEW i \in 1..Len(Q'), NEW j \in 1..Len(Q'), Q'[i].x.fx = "StartRecording"
        PROVE  /\ Q'[j].x.fx = "StartRecording" => i = j
               /\ Q'[j].x.fx = "StopRecording" => i < j
    <3>1. i + d \in 1..Len(Q) /\ j + d \in 1..Len(Q) /\ Q'[i] = Q[i + d] /\ Q'[j] = Q[j + d]
      BY <1>1
    <3>2. /\ Q[j + d].x.fx = "StartRecording" => i + d = j + d
          /\ Q[j + d].x.fx = "StopRecording" => i + d < j + d
      BY <2>2, <3>1 DEF StartIsFirst
    <3>3. QED
      BY <3>1, <3>2
  <2>3. QED
    BY <2>1, <2>2
<1>3. Starting' => Starting
  BY <1>1 DEF Starting
<1>4. /\ mic' \in {0, last.record}
      /\ Stopping' => worker'.item.n = last.record
      /\ mic' = mic \/ mic' = 0 \/ (QPop /\ Q[1].x.fx = "StartRecording")
  <2>1. QPop => 1 \in 1..Len(Q)
    BY <1>1
  <2>2. QPop /\ Q[1].x.fx \in {"StartRecording", "StopRecording"} => Q[1].n = last.record
    BY <2>1 DEF AnswerIsOwn
  <2>3. QED
    BY <2>2, RecorderLater DEF AnswerIsOwn
<1>5. \A i \in 1..Len(events') : events'[i].x.ev \in Replies => events'[i].n = last.record
  <2>1. CASE events' = events
    BY <2>1 DEF AnswerIsOwn
  <2>2. CASE events' # events
    <3>1. PICK e \in Heard, n \in Nat :
              Adds(e, n) /\ (e.ev \in Replies => worker.at = "Reporting" /\ n = worker.item.n)
      BY <2>2, EventsLater DEF Reports, Replies
    <3>2. /\ \A i \in 1..Len(events) : events'[i] = events[i]
          /\ events'[Len(events) + 1].x = e /\ events'[Len(events) + 1].n = n
          /\ \A i \in 1..Len(events') : i \in 1..Len(events) \/ i = Len(events) + 1
      BY <3>1, AddFacts DEF Types
    <3>3. e.ev \in Replies => n = last.record
      BY <3>1 DEF AnswerIsOwn, Stopping
    <3>4. QED
      BY <3>2, <3>3 DEF AnswerIsOwn
  <2>3. QED
    BY <2>1, <2>2
<1>6. ASSUME QPop, Q[1].x.fx = "StartRecording" PROVE mic = 0 /\ ~Starting' /\ ~Replied
  <2>1. d = 1 /\ Starting
    BY <1>1, <1>6 DEF Starting
  <2>2. mic = 0 /\ ~Replied
    BY <2>1 DEF StartIsFirst
  <2>3. \A i \in 1..Len(Q') : i + 1 \in 1..Len(Q) /\ Q'[i] = Q[i + 1] /\ i + 1 # 1
    BY <1>1, <2>1
  <2>4. 1 \in 1..Len(Q)
    BY <1>1, <1>6
  <2>5. \A i \in 1..Len(Q) : Q[i].x.fx = "StartRecording" => i = 1
    BY <1>6, <2>4 DEF StartIsFirst
  <2>6. ~Starting'
    BY <2>3, <2>5 DEF Starting
  <2>7. QED
    BY <2>2, <2>6
<1>7. ASSUME QPop, Q[1].x.fx = "StopRecording" PROVE ~Starting'
  <2>1. d = 1 /\ 1 \in 1..Len(Q)
    BY <1>1, <1>7
  <2>2. \A i \in 1..Len(Q') : i + 1 \in 1..Len(Q) /\ Q'[i] = Q[i + 1] /\ ~(i + 1 < 1)
    BY <1>1, <2>1
  <2>3. \A i \in 1..Len(Q) : Q[i].x.fx = "StartRecording" => i < 1
    BY <1>7, <2>1 DEF StartIsFirst
  <2>4. QED
    BY <2>2, <2>3 DEF Starting
<1>8. Starting' => mic' = 0
  BY <1>3, <1>4, <1>6 DEF StartIsFirst
<1>9. Replied' => mic' = 0 /\ ~Starting'
  <2>1. CASE Replied
    <3>1. mic = 0 /\ ~Starting
      BY <2>1 DEF StartIsFirst
    <3>2. QED
      BY <1>3, <1>4, <1>6, <2>1, <3>1
  <2>2. CASE ~Replied /\ Replied'
    <3>1. Stopping'
      <4>1. CASE events' = events
        BY <2>2, <4>1 DEF Replied
      <4>2. CASE events' # events
        <5>1. PICK e \in Heard, n \in Nat : Adds(e, n) /\ (e.ev \in Replies => worker.at = "Reporting")
          BY <4>2, EventsLater DEF Reports, Replies
        <5>2. e.ev \notin Replies
          BY <2>2, <5>1 DEF Replied, Stopping
        <5>3. /\ \A i \in 1..Len(events) : events'[i] = events[i]
              /\ events'[Len(events) + 1].x = e
              /\ \A i \in 1..Len(events') : i \in 1..Len(events) \/ i = Len(events) + 1
          BY <5>1, AddFacts DEF Types
        <5>4. QED
          BY <2>2, <5>2, <5>3 DEF Replied
      <4>3. QED
        BY <4>1, <4>2
    <3>2. ~Stopping
      BY <2>2 DEF Replied
    <3>3. \/ QPop /\ Q[1].x.fx = "StartRecording" /\ mic' = mic
          \/ QPop /\ Q[1].x.fx = "StopRecording" /\ mic' = 0
      BY <3>1, <3>2, RecorderLater
    <3>4. QED
      BY <1>6, <1>7, <3>3
  <2>3. QED
    BY <2>1, <2>2
<1>10. AnswerIsOwn'
  BY <1>0, <1>2, <1>4, <1>5 DEF AnswerIsOwn
<1>11. StartIsFirst'
  BY <1>2, <1>8, <1>9 DEF StartIsFirst
<1>12. QED
  BY <1>10, <1>11

LEMMA MicAside ==
    ASSUME Types, [Next]_vars, ~Handle, ~Restart, MicIsOff
    PROVE  MicIsOff'
<1>1. Aside
  BY AsideView
<1>2. PICK d \in {0, 1} :
          /\ d = 1 => QPop /\ 1 \in 1..Len(Q)
          /\ d = 0 => ~QPop
          /\ \A i \in 1..Len(Q') : i + d \in 1..Len(Q) /\ Q'[i] = Q[i + d]
  BY <1>1, Shift
<1>3. ~Starting' /\ ~(QPop /\ Q[1].x.fx = "StartRecording")
  BY <1>2 DEF MicIsOff, Starting
<1>4. mic' = 0
  BY <1>3, RecorderLater DEF MicIsOff
<1>5. QED
  BY <1>3, <1>4 DEF MicIsOff

LEMMA TimerAside ==
    ASSUME Types, [Next]_vars, ~Handle, ~Restart, TimerIsOwn
    PROVE  TimerIsOwn'
<1>0. Aside /\ last' = last
  BY AsideView DEF Aside, Calm
<1>1. PICK d \in {0, 1} :
          /\ d = 1 => QPop /\ 1 \in 1..Len(Q)
          /\ d = 0 => ~QPop
          /\ \A i \in 1..Len(Q') : i + d \in 1..Len(Q) /\ Q'[i] = Q[i + d]
  BY <1>0, Shift
<1>2. \A i \in 1..Len(Q') : Q'[i].x.fx = "ArmRecordingTimeout" => Q'[i].n = last.timer
  BY <1>1 DEF TimerIsOwn
<1>3. \A t \in armed' : t.x = "RecordingTimedOut" => t.n = last.timer
  <2>1. SUFFICES ASSUME NEW t \in armed', t.x = "RecordingTimedOut" PROVE t.n = last.timer
    OBVIOUS
  <2>2. t \in armed \/ (QPop /\ Q[1].x.fx \in Arms /\ t.x = TimerOf(Q[1].x.fx) /\ t.n = Q[1].n)
    BY ArmedLater
  <2>3. CASE QPop /\ Q[1].x.fx \in Arms /\ t.x = TimerOf(Q[1].x.fx) /\ t.n = Q[1].n
    <3>1. Q[1].x.fx = "ArmRecordingTimeout" /\ 1 \in 1..Len(Q)
      BY <1>1, <2>1, <2>3 DEF Arms, TimerOf
    <3>2. QED
      BY <2>3, <3>1 DEF TimerIsOwn
  <2>4. QED
    BY <2>1, <2>2, <2>3 DEF TimerIsOwn
<1>4. \A i \in 1..Len(events') : events'[i].x.ev = "RecordingTimedOut" => events'[i].n = last.timer
  <2>1. CASE events' = events
    BY <2>1 DEF TimerIsOwn
  <2>2. CASE events' # events
    <3>1. PICK e \in Heard, n \in Nat :
              Adds(e, n) /\ (e.ev = "RecordingTimedOut" => \E t \in armed : t.x = e.ev /\ t.n = n)
      BY <2>2, EventsLater DEF Reports, Replies
    <3>2. /\ \A i \in 1..Len(events) : events'[i] = events[i]
          /\ events'[Len(events) + 1].x = e /\ events'[Len(events) + 1].n = n
          /\ \A i \in 1..Len(events') : i \in 1..Len(events) \/ i = Len(events) + 1
      BY <3>1, AddFacts DEF Types
    <3>3. e.ev = "RecordingTimedOut" => n = last.timer
      BY <3>1 DEF TimerIsOwn
    <3>4. QED
      BY <3>2, <3>3 DEF TimerIsOwn
  <2>3. QED
    BY <2>1, <2>2
<1>5. QED
  BY <1>0, <1>2, <1>3, <1>4 DEF TimerIsOwn

\* When the beep has ended, the recorder and its timer are at rest.
LEMMA BeepIsOver ==
    ASSUME Types, TimersAreCalledOff, RecorderInv, ~early, core.tag = "Beep",
           1 \in 1..Len(events), events[1].x.ev = "PlaybackEnded", events[1].n = last.play
    PROVE  /\ \A i \in 1..Len(Q) : Q[i].x.fx \notin RecorderWork
           /\ ~Stopping /\ mic = 0 /\ \A t \in armed : t.x # "RecordingTimedOut"
           /\ \A i \in 1..Len(events) : events[i].x.ev \notin Reports
<1>1. WorkIsFirst /\ BeepIsPassed /\ ReportsAreFirst /\ MicIsOff
  BY DEF RecorderInv, Answers
<1>2. Passed(last.play)
  BY DEF Passed
<1>3. \A i \in 1..Len(Q) : Q[i].x.fx \notin RecorderWork
  BY <1>1, <1>2 DEF WorkIsFirst, BeepIsPassed
<1>4. \A t \in armed : t.x # "RecordingTimedOut"
  BY <1>3 DEF TimersAreCalledOff, CalledOff, RecorderWork
<1>5. \A i \in 1..Len(events) : events[i].x.ev \notin Reports
  BY <1>1 DEF ReportsAreFirst
<1>6. QED
  BY <1>1, <1>2, <1>3, <1>4, <1>5 DEF BeepIsPassed, MicIsOff

LEMMA BeepHandle ==
    ASSUME Types, Marks, RecorderInv, Handle, ~early', core'.tag = "Beep"
    PROVE  (WorkIsFirst /\ BeepIsOnce /\ BeepIsPassed /\ ReportsAreFirst)'
<1>1. PICK K, p, a, r : Meets(core, events[1].x, core', K, a, r) /\ Pushes(K, p, a, r) /\ Keeps(K)
  BY HandleView
<1>2. /\ UNCHANGED <<worker, audio, player>> /\ Len(events) \in Nat
      /\ \A i \in 1..Len(events') : i + 1 \in 1..Len(events) /\ events'[i] = events[i + 1]
  BY HandleLeaves
<1>3. ~early
  BY HandleFacts
<1>4. /\ K \cap RecorderWork = {}
      /\ \/ core.tag = "Beep" /\ K \cap Sounds = {} /\ events[1].x.ev # "PlaybackEnded"
         \/ "Play" \in K
  BY <1>1 DEF Meets, SoundMeets
<1>5. /\ Len(Q) \in Nat /\ Len(Q') \in Nat
      /\ \A i \in 1..Len(Q) : i \in 1..Len(Q') /\ Q'[i] = Q[i]
      /\ \A i \in 1..Len(Q') : i \in 1..Len(Q) \/ (i > Len(Q) /\ Q'[i].x.fx \in K)
      /\ \A k \in K : \E i \in 1..Len(Q') : i > Len(Q) /\ Q'[i].x.fx = k
  BY <1>1 DEF Pushes
<1>6. \A i \in 1..Len(Q') : Q'[i].x.fx \in RecorderWork => i \in 1..Len(Q) /\ Q[i].x.fx \in RecorderWork
  BY <1>4, <1>5
<1>7. CASE core.tag = "Beep" /\ K \cap Sounds = {}
  <2>1. last'.play = last.play
    BY <1>1, <1>7 DEF Keeps
  <2>2. WorkIsFirst /\ BeepIsOnce /\ BeepIsPassed /\ ReportsAreFirst
    BY <1>3, <1>7 DEF RecorderInv
  <2>3. \A i \in 1..Len(Q') : Q'[i].x.fx \in Sounds => i \in 1..Len(Q) /\ Q[i] = Q'[i]
    BY <1>5, <1>7
  <2>4. WorkIsFirst'
    <3>1. SUFFICES ASSUME NEW i \in 1..Len(Q'), Q'[i].x.fx \in RecorderWork
                   PROVE  \E j \in 1..Len(Q') : i < j /\ Q'[j].x.fx \in Sounds /\ Q'[j].n = last.play
      BY <2>1 DEF WorkIsFirst
    <3>2. PICK j \in 1..Len(Q) : i < j /\ Q[j].x.fx \in Sounds /\ Q[j].n = last.play
      BY <1>6, <2>2, <3>1 DEF WorkIsFirst
    <3>3. QED
      BY <1>5, <3>2
  <2>5. BeepIsOnce'
    BY <2>1, <2>2, <2>3 DEF BeepIsOnce
  <2>6. Passed(last.play)' => Passed(last.play)
    BY <1>2, <2>1 DEF Passed
  <2>7. BeepIsPassed'
    BY <1>2, <2>1, <2>2, <2>3, <2>6 DEF BeepIsPassed, Stopping
  <2>8. ReportsAreFirst'
    <3>1. SUFFICES ASSUME NEW i \in 1..Len(events'), NEW j \in 1..Len(events'), events'[i].x.ev \in Reports,
                          events'[j].x.ev = "PlaybackEnded", events'[j].n = last.play
                   PROVE  i < j
      BY <2>1 DEF ReportsAreFirst
    <3>2. /\ i + 1 \in 1..Len(events) /\ events'[i] = events[i + 1]
          /\ j + 1 \in 1..Len(events) /\ events'[j] = events[j + 1]
      BY <1>2
    <3>3. i + 1 < j + 1
      BY <2>2, <3>1, <3>2 DEF ReportsAreFirst
    <3>4. QED
      BY <3>3
  <2>9. QED
    BY <2>4, <2>5, <2>7, <2>8
<1>8. CASE "Play" \in K
  <2>1. last'.play = last.step + 1 /\ last.step \in Nat
    BY <1>1, <1>8 DEF Keeps
  <2>2. \A i \in 1..Len(Q) : Q[i].x.fx \in Sounds => Q[i].n # last'.play
    BY <2>1, QElements DEF Marks, Types
  <2>3. \A i \in 1..Len(Q') : i > Len(Q) /\ Q'[i].x.fx \in Sounds => i = p /\ Q'[i].n = last'.play
    <3>1. TAKE i \in 1..Len(Q')
    <3>2. CASE i > Len(Q) /\ Q'[i].x.fx \in Sounds
      <4>1. i \notin 1..Len(Q) /\ Q'[i].x.fx \in Single /\ Q'[i].x.fx # "StopRecording"
        BY <1>5, <3>2 DEF Single, Sounds
      <4>2. QED
        BY <1>1, <2>1, <4>1 DEF Pushes
    <3>3. QED
      BY <3>2
  <2>4. PICK j \in 1..Len(Q') : j > Len(Q) /\ Q'[j].x.fx \in Sounds
    BY <1>5, <1>8 DEF Sounds
  <2>5. WorkIsFirst'
    <3>1. \A i \in 1..Len(Q') : Q'[i].x.fx \in RecorderWork => i < j
      BY <1>5, <1>6, <2>4
    <3>2. QED
      BY <2>3, <2>4, <3>1 DEF WorkIsFirst
  <2>6. \A i \in 1..Len(Q') : Q'[i].x.fx \in Sounds /\ Q'[i].n = last'.play => i = p
    <3>1. TAKE i \in 1..Len(Q')
    <3>2. CASE i \in 1..Len(Q)
      BY <1>5, <2>2, <3>2
    <3>3. CASE i > Len(Q)
      BY <2>3, <3>3
    <3>4. QED
      BY <1>5, <3>2, <3>3
  <2>7. BeepIsOnce'
    BY <2>6 DEF BeepIsOnce
  <2>8. ~Passed(last.play)'
    <3>1. ~Passed(last.step + 1)
      BY <2>1 DEF Marks
    <3>2. QED
      BY <1>2, <2>1, <3>1 DEF Passed
  <2>9. BeepIsPassed'
    BY <2>8 DEF BeepIsPassed
  <2>10. ReportsAreFirst'
    BY <2>8 DEF ReportsAreFirst, Passed
  <2>11. QED
    BY <2>5, <2>7, <2>9, <2>10
<1>9. QED
  BY <1>4, <1>7, <1>8

\* An answer begins when the beep has ended, and goes on until the recorder has replied.
LEMMA AnswerHandle ==
    ASSUME Types, TimersAreCalledOff, RecorderInv, Handle, ~early'
    PROVE  /\ core'.tag \notin Answers => MicIsOff'
           /\ core'.tag \in Answers => AnswerIsOwn' /\ StartIsFirst'
           /\ core'.tag = "Recording" => TimerIsOwn'
<1>1. PICK K, p, a, r : Meets(core, events[1].x, core', K, a, r) /\ Pushes(K, p, a, r) /\ Keeps(K)
  BY HandleView
<1>2. /\ UNCHANGED <<worker, mic, armed>> /\ Len(events) \in Nat /\ 1 \in 1..Len(events)
      /\ \A i \in 1..Len(events') : i + 1 \in 1..Len(events) /\ events'[i] = events[i + 1]
  BY HandleLeaves
<1>3. ~early /\ ~(core.tag = "Beep" /\ events[1].x.ev = "PlaybackEnded" /\ events[1].n # last.play)
  BY HandleFacts
<1>4. /\ Len(Q) \in Nat /\ Len(Q') \in Nat /\ Len(Q) <= Len(Q')
      /\ \A i \in 1..Len(Q) : i \in 1..Len(Q') /\ Q'[i] = Q[i]
      /\ \A i \in 1..Len(Q') :
            \/ i \in 1..Len(Q)
            \/ /\ i > Len(Q) /\ Q'[i].x.fx \in K
               /\ Q'[i].n = IF Q'[i].x.fx = "StopRecording" THEN last.record ELSE last.step + 1
               /\ Q'[i].x.fx \in Single => i = p
  BY <1>1 DEF Pushes
<1>5. /\ last.step \in Nat
      /\ "StartRecording" \in K => last'.record = last.step + 1
      /\ "StartRecording" \notin K => last'.record = last.record
      /\ "ArmRecordingTimeout" \in K => last'.timer = last.step + 1
      /\ K \cap RecorderWork = {} => last'.timer = last.timer
  BY <1>1 DEF Keeps
<1>6. RecorderMeets(core, events[1].x, core', K)
  BY <1>1 DEF Meets
<1>7. "StartRecording" \notin K => (Starting' => Starting)
  BY <1>4 DEF Starting
<1>8. Replied' => Replied
  BY <1>2 DEF Replied, Stopping
<1>9. ASSUME core'.tag \notin Answers PROVE MicIsOff'
  <2>1. "StartRecording" \notin K
    BY <1>6, <1>9 DEF RecorderMeets, Answers
  <2>2. MicIsOff
    <3>1. CASE core.tag \in Answers
      <4>1. events[1].x.ev \in Replies
        BY <1>6, <1>9, <3>1 DEF RecorderMeets
      <4>2. Replied
        BY <1>2, <4>1 DEF Replied
      <4>3. QED
        BY <1>3, <3>1, <4>2 DEF RecorderInv, StartIsFirst, MicIsOff
    <3>2. CASE core.tag \notin Answers
      BY <1>3, <3>2 DEF RecorderInv
    <3>3. QED
      BY <3>1, <3>2
  <2>3. QED
    BY <1>2, <1>7, <2>1, <2>2 DEF MicIsOff
<1>10. ASSUME core'.tag \in Answers, core.tag \in Answers
       PROVE  AnswerIsOwn' /\ StartIsFirst' /\ (core'.tag = "Recording" => TimerIsOwn')
  <2>1. "StartRecording" \notin K /\ last'.record = last.record
    BY <1>5, <1>6, <1>10 DEF RecorderMeets, Answers
  <2>2. AnswerIsOwn /\ StartIsFirst /\ (core.tag = "Recording" => TimerIsOwn)
    BY <1>3, <1>10 DEF RecorderInv
  <2>3. AnswerIsOwn'
    <3>1. \A i \in 1..Len(Q') : Q'[i].x.fx \in {"StartRecording", "StopRecording"} => Q'[i].n = last.record
      BY <1>4, <2>1, <2>2 DEF AnswerIsOwn
    <3>2. \A i \in 1..Len(events') : events'[i].x.ev \in Replies => events'[i].n = last.record
      <4>1. \A i \in 1..Len(events) : events[i].x.ev \in Replies => events[i].n = last.record
        BY <2>2 DEF AnswerIsOwn
      <4>2. \A i \in 1..Len(events') : \E j \in 1..Len(events) : events'[i] = events[j]
        BY <1>2
      <4>3. QED
        BY <4>1, <4>2
    <3>3. QED
      BY <1>2, <2>1, <2>2, <3>1, <3>2 DEF AnswerIsOwn, Stopping
  <2>4. StartIsFirst'
    <3>1. \A i \in 1..Len(Q') : Q'[i].x.fx = "StartRecording" => i \in 1..Len(Q) /\ Q[i].x.fx = "StartRecording"
      BY <1>4, <2>1
    <3>2. \A i, j \in 1..Len(Q') : Q'[i].x.fx = "StartRecording" /\ Q'[j].x.fx = "StartRecording" => i = j
      BY <2>2, <3>1 DEF StartIsFirst
    <3>3. ASSUME NEW i \in 1..Len(Q'), NEW j \in 1..Len(Q'),
                 Q'[i].x.fx = "StartRecording", Q'[j].x.fx = "StopRecording"
          PROVE  i < j
      <4>1. i \in 1..Len(Q) /\ Q[i].x.fx = "StartRecording"
        BY <3>1, <3>3
      <4>2. CASE j \in 1..Len(Q)
        BY <1>4, <2>2, <3>3, <4>1, <4>2 DEF StartIsFirst
      <4>3. CASE j > Len(Q)
        BY <1>4, <4>1, <4>3
      <4>4. QED
        BY <1>4, <4>2, <4>3
    <3>4. (Starting' => mic' = 0) /\ (Replied' => mic' = 0 /\ ~Starting')
      BY <1>2, <1>7, <1>8, <2>1, <2>2 DEF StartIsFirst
    <3>5. QED
      BY <3>2, <3>3, <3>4 DEF StartIsFirst
  <2>5. ASSUME core'.tag = "Recording" PROVE TimerIsOwn'
    <3>1. core.tag = "Recording" /\ K \cap RecorderWork = {}
      BY <1>6, <1>10, <2>5 DEF RecorderMeets, Answers
    <3>2. TimerIsOwn /\ last'.timer = last.timer
      BY <1>5, <2>2, <3>1
    <3>3. \A i \in 1..Len(Q') : Q'[i].x.fx = "ArmRecordingTimeout" => Q'[i].n = last.timer
      BY <1>4, <3>1, <3>2 DEF TimerIsOwn, RecorderWork
    <3>4. QED
      BY <1>2, <3>2, <3>3 DEF TimerIsOwn
  <2>6. QED
    BY <2>3, <2>4, <2>5
<1>11. ASSUME core'.tag \in Answers, core.tag \notin Answers
       PROVE  AnswerIsOwn' /\ StartIsFirst' /\ TimerIsOwn'
  <2>1. /\ core.tag = "Beep" /\ events[1].x.ev = "PlaybackEnded" /\ events[1].n = last.play
        /\ {"StartRecording", "ArmRecordingTimeout"} \subseteq K /\ "StopRecording" \notin K
    BY <1>3, <1>6, <1>11 DEF RecorderMeets, Answers, Finishes
  <2>2. /\ \A i \in 1..Len(Q) : Q[i].x.fx \notin RecorderWork
        /\ ~Stopping /\ mic = 0 /\ \A t \in armed : t.x # "RecordingTimedOut"
        /\ \A i \in 1..Len(events) : events[i].x.ev \notin Reports
    BY <1>2, <1>3, <2>1, BeepIsOver
  <2>3. last'.record = last.step + 1 /\ last'.timer = last.step + 1 /\ last.step + 1 > 0
    BY <1>5, <2>1
  <2>4. \A i \in 1..Len(Q') : Q'[i].x.fx \in RecorderWork =>
            i > Len(Q) /\ Q'[i].x.fx # "StopRecording" /\ Q'[i].n = last.step + 1
                /\ (Q'[i].x.fx \in Single => i = p)
    BY <1>4, <2>1, <2>2
  <2>5. ~Stopping' /\ ~Replied' /\ mic' = 0 /\ \A t \in armed' : t.x # "RecordingTimedOut"
    BY <1>2, <1>8, <2>2 DEF Replied, Stopping, Reports
  <2>6. \A i \in 1..Len(events') : events'[i].x.ev \notin Reports
    BY <1>2, <2>2
  <2>7. AnswerIsOwn'
    BY <2>3, <2>4, <2>5, <2>6 DEF AnswerIsOwn, RecorderWork, Reports
  <2>8. StartIsFirst'
    BY <2>4, <2>5 DEF StartIsFirst, RecorderWork, Single
  <2>9. TimerIsOwn'
    BY <2>3, <2>4, <2>5, <2>6 DEF TimerIsOwn, RecorderWork, Reports
  <2>10. QED
    BY <2>7, <2>8, <2>9
<1>12. QED
  BY <1>9, <1>10, <1>11 DEF Answers

LEMMA RecorderInit == ASSUME Started PROVE RecorderInv
<1>1. /\ \A i \in 1..Len(Q) : Q[i].x.fx = "Play"
      /\ mic = 0 /\ core.tag \in {"Idle", "DialTone"}
  BY StartedQueue
<1>2. MicIsOff
  BY <1>1 DEF MicIsOff, Starting
<1>3. QED
  BY <1>1, <1>2 DEF RecorderInv, Answers

LEMMA RecorderStep ==
    ASSUME Types, Marks, TimersAreCalledOff, RecorderInv, [Next]_vars
    PROVE  RecorderInv'
<1>1. CASE Restart
  <2>1. mic' = 0 /\ Len(Q)' = 0 /\ core' = Plain("Idle")
    BY <1>1, RestartIsBlank DEF Blank
  <2>2. core'.tag = "Idle" /\ MicIsOff'
    BY <2>1, VariantFields DEF MicIsOff, Starting
  <2>3. QED
    BY <2>2 DEF RecorderInv, Answers
<1>2. CASE Handle
  BY <1>2, BeepHandle, AnswerHandle DEF RecorderInv
<1>3. CASE ~Restart /\ ~Handle
  <2>1. core' = core /\ early' = early
    BY <1>3, AsideView DEF Aside, Calm
  <2>2. QED
    BY <1>3, <2>1, BeepAside, AnswerAside, MicAside, TimerAside DEF RecorderInv
<1>4. QED
  BY <1>1, <1>2, <1>3

HeardInv == Types /\ Marks /\ TimersAreCalledOff /\ RecorderInv

LEMMA HeardInvHolds == Spec => []HeardInv
<1>1. Init => HeardInv
  BY InitIsStarted, TypesInit, MarksInit, TimersInit, RecorderInit DEF HeardInv
<1>2. HeardInv /\ [Next]_vars => HeardInv'
  BY TypesStep, MarksStep, TimersStep, RecorderStep DEF HeardInv
<1>3. QED
  BY <1>1, <1>2, PTL DEF Spec

\* What the recorder and its timer report is about the recording that the core is
\* waiting for, whatever the depths of the queues (Effect::StopRecording,
\* Effect::CancelRecordingTimeout).
THEOREM TheRecorderIsHeardInTime == Spec => []RecorderIsHeardInTime
<1>1. HeardInv => RecorderIsHeardInTime
  <2>1. SUFFICES ASSUME HeardInv, events # <<>>, ~early
                 PROVE  /\ Head(events).x.ev = "RecordingTimedOut" /\ core.tag = "Recording" => Head(events).n = last.timer
                        /\ Head(events).x.ev \in {"RecordingFinished", "RecordingFailed"} /\ core.tag \in Answers
                               => Head(events).n = last.record
    BY DEF RecorderIsHeardInTime, Answers
  <2>2. Head(events) = events[1] /\ 1 \in 1..Len(events)
    BY <2>1, Popped DEF HeardInv, Types, QueuesAreWell
  <2>3. QED
    BY <2>1, <2>2 DEF HeardInv, RecorderInv, TimerIsOwn, AnswerIsOwn, Replies
<1>2. QED
  BY <1>1, HeardInvHolds, PTL

----------------------------------------------------------------------------
(* What the core waits for is under way *)

StopIsAsked == \E i \in 1..Len(Q) : Q[i].x.fx = "StopRecording"

RecorderRuns ==
    ~early /\ core.tag = "Recording" => (Starting \/ mic # 0 \/ Replied) /\ ~StopIsAsked

FinishIsAnswered == Finishes(core) => StopIsAsked \/ Replied

\* The timer is to be armed, runs, or has told.
TimerRuns ==
    core.tag = "Recording" =>
        \/ \E i \in 1..Len(Q) :
               /\ Q[i].x.fx = "ArmRecordingTimeout"
               /\ \A j \in 1..Len(Q) : Q[j].x.fx = "CancelRecordingTimeout" => j < i
        \/ /\ \A j \in 1..Len(Q) : Q[j].x.fx # "CancelRecordingTimeout"
           /\ \/ \E t \in armed : t.x = "RecordingTimedOut"
              \/ \E i \in 1..Len(events) : events[i].x.ev = "RecordingTimedOut"

RunsInv == RecorderRuns /\ FinishIsAnswered /\ TimerRuns

LEMMA RepliedStays ==
    ASSUME Types, [Next]_vars, ~Handle, ~Restart, Replied
    PROVE  Replied'
<1>1. CASE \E i \in 1..Len(events) : events[i].x.ev \in Replies
  BY <1>1, EventsStay DEF Replied
<1>2. CASE Stopping
  <2>1. Stopping' \/ (\E e \in Heard, n \in Nat : Adds(e, n) /\ e.ev \in Replies)
    BY <1>2, RecorderLater
  <2>2. CASE \E e \in Heard, n \in Nat : Adds(e, n) /\ e.ev \in Replies
    <3>1. PICK e \in Heard, n \in Nat : Adds(e, n) /\ e.ev \in Replies
      BY <2>2
    <3>2. Len(events) \in Nat /\ Len(events') = Len(events) + 1 /\ events'[Len(events) + 1].x = e
      BY <3>1, AddFacts DEF Types
    <3>3. Len(events) + 1 \in 1..Len(events')
      BY <3>2
    <3>4. QED
      BY <3>1, <3>2, <3>3 DEF Replied
  <2>3. QED
    BY <2>1, <2>2 DEF Replied
<1>3. QED
  BY <1>1, <1>2 DEF Replied

LEMMA RecorderRunsAside ==
    ASSUME Types, HeardInv, [Next]_vars, ~Handle, ~Restart, RecorderRuns
    PROVE  RecorderRuns'
<1>0. Aside /\ core' = core /\ early' = early
  BY AsideView DEF Aside, Calm
<1>1. PICK d \in {0, 1} :
          /\ d = 1 => QPop /\ 1 \in 1..Len(Q)
          /\ d = 0 => ~QPop
          /\ \A i \in 1..Len(Q') : i + d \in 1..Len(Q) /\ Q'[i] = Q[i + d]
          /\ \A i \in 1..Len(Q) : i > d => i - d \in 1..Len(Q') /\ Q'[i - d] = Q[i]
  BY <1>0, Shift
<1>2. SUFFICES ASSUME ~early, core.tag = "Recording"
               PROVE  (Starting' \/ mic' # 0 \/ Replied') /\ ~StopIsAsked'
  BY <1>0 DEF RecorderRuns
<1>3. (Starting \/ mic # 0 \/ Replied) /\ ~StopIsAsked
  BY <1>2 DEF RecorderRuns
<1>4. ~StopIsAsked' /\ ~(QPop /\ Q[1].x.fx = "StopRecording")
  BY <1>1, <1>3 DEF StopIsAsked
<1>5. CASE Replied
  BY <1>4, <1>5, RepliedStays
<1>6. CASE QPop /\ Q[1].x.fx = "StartRecording"
  <2>1. Q[1].n = last.record /\ last.record > 0
    BY <1>1, <1>2, <1>6 DEF HeardInv, RecorderInv, AnswerIsOwn, Answers
  <2>2. (mic' = Q[1].n) \/ Stopping'
    BY <1>6, RecorderLater
  <2>3. QED
    BY <1>4, <2>1, <2>2 DEF Replied
<1>7. CASE ~(QPop /\ Q[1].x.fx = "StartRecording")
  <2>1. mic' = mic
    BY <1>4, <1>7, RecorderLater
  <2>2. Starting => Starting'
    <3>1. HAVE Starting
    <3>2. PICK i \in 1..Len(Q) : Q[i].x.fx = "StartRecording"
      BY <3>1 DEF Starting
    <3>3. i > d
      BY <1>1, <1>7, <3>2
    <3>4. QED
      BY <1>1, <3>2, <3>3 DEF Starting
  <2>3. QED
    BY <1>3, <1>4, <1>5, <2>1, <2>2
<1>8. QED
  BY <1>6, <1>7

LEMMA FinishAside ==
    ASSUME Types, [Next]_vars, ~Handle, ~Restart, FinishIsAnswered
    PROVE  FinishIsAnswered'
<1>0. Aside /\ core' = core
  BY AsideView DEF Aside, Calm
<1>1. PICK d \in {0, 1} :
          /\ d = 1 => QPop /\ 1 \in 1..Len(Q)
          /\ \A i \in 1..Len(Q) : i > d => i - d \in 1..Len(Q') /\ Q'[i - d] = Q[i]
  BY <1>0, Shift
<1>2. SUFFICES ASSUME StopIsAsked PROVE StopIsAsked' \/ Replied'
  BY <1>0, RepliedStays DEF FinishIsAnswered
<1>3. PICK i \in 1..Len(Q) : Q[i].x.fx = "StopRecording"
  BY <1>2 DEF StopIsAsked
<1>4. CASE i > d
  BY <1>1, <1>3, <1>4 DEF StopIsAsked
<1>5. CASE ~(i > d)
  <2>1. QPop /\ Q[1].x.fx = "StopRecording"
    BY <1>1, <1>3, <1>5
  <2>2. Stopping'
    BY <2>1, RecorderLater
  <2>3. QED
    BY <2>2 DEF Replied
<1>6. QED
  BY <1>4, <1>5

LEMMA TimerRunsAside ==
    ASSUME Types, [Next]_vars, ~Handle, ~Restart, TimerRuns
    PROVE  TimerRuns'
<1>0. Aside /\ core' = core
  BY AsideView DEF Aside, Calm
<1>1. PICK d \in {0, 1} :
          /\ Len(Q) \in Nat /\ Len(Q') \in Nat
          /\ d = 1 => QPop /\ 1 \in 1..Len(Q)
          /\ d = 0 => ~QPop
          /\ \A i \in 1..Len(Q') : i + d \in 1..Len(Q) /\ Q'[i] = Q[i + d]
          /\ \A i \in 1..Len(Q) : i > d => i - d \in 1..Len(Q') /\ Q'[i - d] = Q[i]
  BY <1>0, Shift
<1> DEFINE Called == \E j \in 1..Len(Q) : Q[j].x.fx = "CancelRecordingTimeout"
           Told == \E i \in 1..Len(events) : events[i].x.ev = "RecordingTimedOut"
           Runs == \E t \in armed : t.x = "RecordingTimedOut"
<1>2. SUFFICES ASSUME core.tag = "Recording"
               PROVE  \/ \E i \in 1..Len(Q') :
                             /\ Q'[i].x.fx = "ArmRecordingTimeout"
                             /\ \A j \in 1..Len(Q') : Q'[j].x.fx = "CancelRecordingTimeout" => j < i
                      \/ /\ \A j \in 1..Len(Q') : Q'[j].x.fx # "CancelRecordingTimeout"
                         /\ Runs' \/ Told'
  BY <1>0 DEF TimerRuns
<1>3. CASE ~Called /\ (Runs \/ Told)
  <2>1. \A j \in 1..Len(Q') : Q'[j].x.fx # "CancelRecordingTimeout"
    BY <1>1, <1>3
  <2>2. Told => Told'
    BY EventsStay
  <2>3. Runs => Runs' \/ Told'
    <3>1. HAVE Runs
    <3>2. PICK t \in armed : t.x = "RecordingTimedOut"
      BY <3>1
    <3>3. \/ t \in armed'
          \/ QPop /\ Q[1].x.fx \in TimerKinds /\ t.x = TimerOf(Q[1].x.fx)
          \/ \E e \in Heard, n \in Nat : Adds(e, n) /\ e.ev = t.x
      BY <3>2, ArmedLater
    <3>4. CASE QPop /\ Q[1].x.fx \in TimerKinds /\ t.x = TimerOf(Q[1].x.fx)
      <4>1. Q[1].x.fx \in Arms
        BY <1>1, <1>3, <3>2, <3>4 DEF TimerKinds, TimerOf, Arms
      <4>2. QED
        BY <3>2, <3>4, <4>1, ArmedLater
    <3>5. CASE \E e \in Heard, n \in Nat : Adds(e, n) /\ e.ev = t.x
      <4>1. PICK e \in Heard, n \in Nat : Adds(e, n) /\ e.ev = t.x
        BY <3>5
      <4>2. Len(events) \in Nat /\ Len(events') = Len(events) + 1 /\ events'[Len(events) + 1].x = e
        BY <4>1, AddFacts DEF Types
      <4>3. Len(events) + 1 \in 1..Len(events')
        BY <4>2
      <4>4. QED
        BY <3>2, <4>1, <4>2, <4>3
    <3>6. QED
      BY <3>2, <3>3, <3>4, <3>5
  <2>4. QED
    BY <1>3, <2>1, <2>2, <2>3
<1>4. ASSUME NEW i \in 1..Len(Q), Q[i].x.fx = "ArmRecordingTimeout",
             \A j \in 1..Len(Q) : Q[j].x.fx = "CancelRecordingTimeout" => j < i
      PROVE  \/ \E k \in 1..Len(Q') :
                    /\ Q'[k].x.fx = "ArmRecordingTimeout"
                    /\ \A j \in 1..Len(Q') : Q'[j].x.fx = "CancelRecordingTimeout" => j < k
             \/ /\ \A j \in 1..Len(Q') : Q'[j].x.fx # "CancelRecordingTimeout"
                /\ Runs' \/ Told'
  <2>1. \A j \in 1..Len(Q') : Q'[j].x.fx = "CancelRecordingTimeout" => j + d < i
    BY <1>1, <1>4
  <2>2. CASE i > d
    <3>1. i - d \in 1..Len(Q') /\ Q'[i - d].x.fx = "ArmRecordingTimeout"
      BY <1>1, <1>4, <2>2
    <3>2. \A j \in 1..Len(Q') : Q'[j].x.fx = "CancelRecordingTimeout" => j < i - d
      BY <1>1, <2>1
    <3>3. QED
      BY <3>1, <3>2
  <2>3. CASE ~(i > d)
    <3>1. i = 1 /\ d = 1 /\ QPop /\ Q[1].x.fx = "ArmRecordingTimeout"
      BY <1>1, <1>4, <2>3
    <3>2. \A j \in 1..Len(Q') : Q'[j].x.fx # "CancelRecordingTimeout"
      <4>1. \A j \in 1..Len(Q') : ~(j + d < i)
        BY <1>1, <3>1
      <4>2. QED
        BY <2>1, <4>1
    <3>3. Runs'
      BY <3>1, ArmedLater DEF Arms, TimerOf
    <3>4. QED
      BY <3>2, <3>3
  <2>4. QED
    BY <2>2, <2>3
<1>5. QED
  BY <1>2, <1>3, <1>4 DEF TimerRuns

LEMMA RunsHandle ==
    ASSUME Types, HeardInv, Handle, RunsInv
    PROVE  RunsInv'
<1>1. PICK K, p, a, r : Meets(core, events[1].x, core', K, a, r) /\ Pushes(K, p, a, r)
  BY HandleView
<1>2. /\ UNCHANGED <<worker, mic, armed>> /\ 1 \in 1..Len(events)
      /\ \A i \in 1..Len(events) : i = 1 \/ (i - 1 \in 1..Len(events') /\ events'[i - 1] = events[i])
  BY HandleLeaves
<1>3. ~early' => ~early /\ ~(core.tag = "Beep" /\ events[1].x.ev = "PlaybackEnded" /\ events[1].n # last.play)
  BY HandleFacts
<1>4. /\ Len(Q) \in Nat /\ Len(Q') \in Nat
      /\ \A i \in 1..Len(Q) : i \in 1..Len(Q') /\ Q'[i] = Q[i]
      /\ \A i \in 1..Len(Q') : i \in 1..Len(Q) \/ (i > Len(Q) /\ Q'[i].x.fx \in K)
      /\ \A k \in K : \E i \in 1..Len(Q') : i > Len(Q) /\ Q'[i].x.fx = k
  BY <1>1 DEF Pushes
<1>5. RecorderMeets(core, events[1].x, core', K)
  BY <1>1 DEF Meets
<1>6. events[1].x.ev \notin Replies => (Replied => Replied')
  <2>1. HAVE events[1].x.ev \notin Replies
  <2>2. HAVE Replied
  <2>3. CASE Stopping
    BY <1>2, <2>3 DEF Stopping, Replied
  <2>4. CASE \E i \in 1..Len(events) : events[i].x.ev \in Replies
    <3>1. PICK i \in 1..Len(events) : events[i].x.ev \in Replies
      BY <2>4
    <3>2. i - 1 \in 1..Len(events') /\ events'[i - 1].x.ev \in Replies
      BY <1>2, <2>1, <3>1
    <3>3. QED
      BY <3>2 DEF Replied
  <2>5. QED
    BY <2>2, <2>3, <2>4 DEF Replied
<1>7. (Starting => Starting') /\ (StopIsAsked => StopIsAsked')
  BY <1>4 DEF Starting, StopIsAsked
<1>8. RecorderRuns'
  <2>1. SUFFICES ASSUME ~early', core'.tag = "Recording"
                 PROVE  (Starting' \/ mic' # 0 \/ Replied') /\ ~StopIsAsked'
    BY DEF RecorderRuns
  <2>2. CASE core.tag = "Recording"
    <3>1. K \cap RecorderWork = {} /\ events[1].x.ev \notin Replies
      BY <1>5, <2>1, <2>2 DEF RecorderMeets
    <3>2. (Starting \/ mic # 0 \/ Replied) /\ ~StopIsAsked
      BY <1>3, <2>1, <2>2 DEF RunsInv, RecorderRuns
    <3>3. ~StopIsAsked'
      BY <1>4, <3>1, <3>2 DEF StopIsAsked, RecorderWork
    <3>4. QED
      BY <1>2, <1>6, <1>7, <3>1, <3>2, <3>3
  <2>3. CASE core.tag # "Recording"
    <3>1. /\ core.tag = "Beep" /\ events[1].x.ev = "PlaybackEnded" /\ "StartRecording" \in K
          /\ "StopRecording" \notin K
      BY <1>5, <2>1, <2>3 DEF RecorderMeets
    <3>2. \A i \in 1..Len(Q) : Q[i].x.fx \notin RecorderWork
      BY <1>2, <1>3, <2>1, <3>1, BeepIsOver DEF HeardInv
    <3>3. ~StopIsAsked'
      BY <1>4, <3>1, <3>2 DEF StopIsAsked, RecorderWork
    <3>4. Starting'
      BY <1>4, <3>1 DEF Starting
    <3>5. QED
      BY <3>3, <3>4
  <2>4. QED
    BY <2>2, <2>3
<1>9. FinishIsAnswered'
  <2>1. SUFFICES ASSUME Finishes(core)' PROVE StopIsAsked' \/ Replied'
    BY DEF FinishIsAnswered
  <2>2. \/ "StopRecording" \in K
        \/ Finishes(core) /\ events[1].x.ev \notin Replies
    BY <1>5, <2>1 DEF RecorderMeets, Finishes
  <2>3. CASE "StopRecording" \in K
    BY <1>4, <2>3 DEF StopIsAsked
  <2>4. CASE Finishes(core) /\ events[1].x.ev \notin Replies
    BY <1>6, <1>7, <2>4 DEF RunsInv, FinishIsAnswered
  <2>5. QED
    BY <2>2, <2>3, <2>4
<1>10. TimerRuns'
  <2>1. SUFFICES ASSUME core'.tag = "Recording" PROVE TimerRuns'
    BY DEF TimerRuns
  <2>2. CASE core.tag = "Recording"
    <3>1. K \cap RecorderWork = {} /\ events[1].x.ev # "RecordingTimedOut"
      BY <1>5, <2>1, <2>2 DEF RecorderMeets
    <3>2. \A i \in 1..Len(Q') : Q'[i].x.fx \in RecorderWork => i \in 1..Len(Q) /\ Q[i] = Q'[i]
      BY <1>4, <3>1
    <3>3. CASE \E i \in 1..Len(Q) :
                  /\ Q[i].x.fx = "ArmRecordingTimeout"
                  /\ \A j \in 1..Len(Q) : Q[j].x.fx = "CancelRecordingTimeout" => j < i
      <4>1. PICK i \in 1..Len(Q) :
                  /\ Q[i].x.fx = "ArmRecordingTimeout"
                  /\ \A j \in 1..Len(Q) : Q[j].x.fx = "CancelRecordingTimeout" => j < i
        BY <3>3
      <4>2. i \in 1..Len(Q') /\ Q'[i].x.fx = "ArmRecordingTimeout"
        BY <1>4, <4>1
      <4>3. \A j \in 1..Len(Q') : Q'[j].x.fx = "CancelRecordingTimeout" => j < i
        BY <3>2, <4>1 DEF RecorderWork
      <4>4. QED
        BY <4>2, <4>3 DEF TimerRuns
    <3>4. CASE /\ \A j \in 1..Len(Q) : Q[j].x.fx # "CancelRecordingTimeout"
               /\ \/ \E t \in armed : t.x = "RecordingTimedOut"
                  \/ \E i \in 1..Len(events) : events[i].x.ev = "RecordingTimedOut"
      <4>1. \A j \in 1..Len(Q') : Q'[j].x.fx # "CancelRecordingTimeout"
        BY <3>2, <3>4 DEF RecorderWork
      <4>2. (\E i \in 1..Len(events) : events[i].x.ev = "RecordingTimedOut")
                => \E i \in 1..Len(events') : events'[i].x.ev = "RecordingTimedOut"
        <5>1. HAVE \E i \in 1..Len(events) : events[i].x.ev = "RecordingTimedOut"
        <5>2. PICK i \in 1..Len(events) : events[i].x.ev = "RecordingTimedOut"
          BY <5>1
        <5>3. i - 1 \in 1..Len(events') /\ events'[i - 1] = events[i]
          BY <1>2, <3>1, <5>2
        <5>4. QED
          BY <5>2, <5>3
      <4>3. QED
        BY <1>2, <3>4, <4>1, <4>2 DEF TimerRuns
    <3>5. QED
      BY <2>2, <3>3, <3>4 DEF RunsInv, TimerRuns
  <2>3. CASE core.tag # "Recording"
    <3>1. "ArmRecordingTimeout" \in K /\ "CancelRecordingTimeout" \notin K
      BY <1>5, <2>1, <2>3 DEF RecorderMeets
    <3>2. PICK i \in 1..Len(Q') : i > Len(Q) /\ Q'[i].x.fx = "ArmRecordingTimeout"
      BY <1>4, <3>1
    <3>3. \A j \in 1..Len(Q') : Q'[j].x.fx = "CancelRecordingTimeout" => j < i
      BY <1>4, <3>1, <3>2
    <3>4. QED
      BY <3>2, <3>3 DEF TimerRuns
  <2>4. QED
    BY <2>2, <2>3
<1>11. QED
  BY <1>8, <1>9, <1>10 DEF RunsInv

LEMMA RunsInit == ASSUME Started PROVE RunsInv
<1>1. core.tag \in {"Idle", "DialTone"}
  BY StartedQueue
<1>2. QED
  BY <1>1 DEF RunsInv, RecorderRuns, FinishIsAnswered, TimerRuns, Finishes

LEMMA RunsStep == ASSUME HeardInv, RunsInv, [Next]_vars PROVE RunsInv'
<1>1. CASE Restart
  <2>1. core' = Plain("Idle")
    BY <1>1, RestartIsBlank DEF Blank
  <2>2. core'.tag = "Idle"
    BY <2>1, VariantFields
  <2>3. QED
    BY <2>2 DEF RunsInv, RecorderRuns, FinishIsAnswered, TimerRuns, Finishes
<1>2. CASE Handle
  BY <1>2, RunsHandle DEF HeardInv
<1>3. CASE ~Restart /\ ~Handle
  BY <1>3, RecorderRunsAside, FinishAside, TimerRunsAside DEF RunsInv, HeardInv
<1>4. QED
  BY <1>1, <1>2, <1>3

----------------------------------------------------------------------------
(* The upload that the core waits for *)

IsUploadOf(x, r) == x.fx = "UploadRecording" /\ x.recording = r
UploadTold(e, r) == e.ev = "UploadFinished" /\ e.recording = r
Sends(t, r) ==
    \/ t.at = "Asking" /\ IsUploadOf(t.fx, r)
    \/ t.at = "Sending" /\ UploadTold(t.event, r)

\* The upload of r is asked for, waits for a slot, runs, or is over and told.
UploadIsOn(r) ==
    \/ \E i \in 1..Len(Q) : IsUploadOf(Q[i].x, r)
    \/ \E i \in 1..Len(waiting) : IsUploadOf(waiting[i].x, r)
    \/ \E s \in Slots : Sends(tasks[s], r)
    \/ \E i \in 1..Len(events) : UploadTold(events[i].x, r)

UploadRuns == Uploads(core) => UploadIsOn(core.recording)

\* No step that operator tasks have no part in.
NoTask ==
    /\ waiting' = waiting
    /\ \A s \in Slots : tasks'[s] = tasks[s] \/ tasks'[s] = [tasks[s] EXCEPT !.current = FALSE]
    /\ QPop => Q[1].x.fx # "UploadRecording"

LEMMA TaskView ==
    ASSUME Types, [Next]_vars, ~Handle, ~Restart
    PROVE  NoTask \/ Defer \/ TakeOperator \/ OperatorTasks
<1>a. QStay => ~QPop
  BY StayIsNoPop DEF Types
<1>1. CASE SendRest
  <2>1. Q' = Q
    <3>1. loop \in Seq(Item(Effect)) /\ effects \in Seq(Item(Effect)) /\ Send(loop)
      BY <1>1 DEF SendRest, Types, QueuesAreWell
    <3>2. QED
      BY <3>1, SendIsWhole DEF Q
  <2>2. QED
    BY <1>1, <2>1, <1>a DEF SendRest, NoTask, QStay
<1>2. CASE Input \/ Finalized \/ Report \/ TimerFires
  <2>1. QStay /\ waiting' = waiting /\ tasks' = tasks
    BY <1>2 DEF Input, Finalized, Report, TimerFires, QStay, Q
  <2>2. QED
    BY <2>1, <1>a DEF NoTask
<1>3. CASE PassOn \/ TakeCommand \/ Starts \/ Ends \/ Tells \/ UNCHANGED vars
  <2>1. QStay /\ waiting' = waiting /\ tasks' = tasks
    BY <1>3 DEF PassOn, TakeCommand, Starts, Ends, Tells, Played, vars, QStay, Q
  <2>2. QED
    BY <2>1, <1>a DEF NoTask
<1>4. CASE TakePlay
  BY <1>4, TakePlayView DEF NoTask
<1>5. CASE TakeStop
  BY <1>5, TakeStopView DEF NoTask
<1>6. CASE TakeStart
  BY <1>6, TakeStartView DEF NoTask
<1>7. CASE TakeStopRecording
  BY <1>7, TakeStopRecordingView DEF NoTask
<1>8. CASE TakeTimer
  BY <1>8, TakeTimerView DEF NoTask, TimerKinds
<1>9. CASE TakeOther
  BY <1>9, TakeOtherView DEF NoTask
<1>10. QED
  BY <1>1, <1>2, <1>3, <1>4, <1>5, <1>6, <1>7, <1>8, <1>9 DEF Next, MainLoop, EffectTask, AudioTask

\* An upload under way stays so until the core hears of its end.
LEMMA UploadAside ==
    ASSUME Types, [Next]_vars, ~Handle, ~Restart, NEW r, UploadIsOn(r)
    PROVE  UploadIsOn(r)'
<1>1. Aside
  BY AsideView
<1>2. PICK d \in {0, 1} :
          /\ d = 1 => QPop /\ 1 \in 1..Len(Q)
          /\ \A i \in 1..Len(Q) : i > d => i - d \in 1..Len(Q') /\ Q'[i - d] = Q[i]
  BY <1>1, Shift
<1>3. waiting \in Seq(Item(ForOperator)) /\ tasks \in [Slots -> Task]
  BY DEF Types, QueuesAreWell, DevicesAreWell
<1>4. CASE \E i \in 1..Len(events) : UploadTold(events[i].x, r)
  BY <1>4, EventsStay DEF UploadIsOn
<1>5. CASE NoTask
  <2>1. CASE \E i \in 1..Len(Q) : IsUploadOf(Q[i].x, r)
    <3>1. PICK i \in 1..Len(Q) : IsUploadOf(Q[i].x, r)
      BY <2>1
    <3>2. i > d
      BY <1>2, <1>5, <3>1 DEF NoTask, IsUploadOf
    <3>3. QED
      BY <1>2, <3>1, <3>2 DEF UploadIsOn
  <2>2. CASE \E i \in 1..Len(waiting) : IsUploadOf(waiting[i].x, r)
    BY <1>5, <2>2 DEF NoTask, UploadIsOn
  <2>3. CASE \E s \in Slots : Sends(tasks[s], r)
    <3>1. PICK s \in Slots : Sends(tasks[s], r)
      BY <2>3
    <3>2. tasks[s] \in Task
      BY <1>3
    <3>3. tasks'[s].at = tasks[s].at /\ tasks'[s].fx = tasks[s].fx /\ tasks'[s].event = tasks[s].event
      BY <1>5, <3>2 DEF NoTask, Task
    <3>4. Sends(tasks'[s], r)
      BY <3>1, <3>3 DEF Sends
    <3>5. QED
      BY <3>4 DEF UploadIsOn
  <2>4. QED
    BY <1>4, <2>1, <2>2, <2>3 DEF UploadIsOn
<1>6. CASE Defer
  <2>1. /\ QPop /\ waiting' = Append(waiting, Q[1]) /\ Q[1] \in Item(ForOperator) /\ tasks' = tasks
    BY <1>6, DeferView
  <2>2. /\ Len(waiting) \in Nat /\ Len(waiting') = Len(waiting) + 1
        /\ \A i \in 1..Len(waiting) : waiting'[i] = waiting[i]
        /\ waiting'[Len(waiting) + 1] = Q[1]
    BY <1>3, <2>1, AppendProperties, LenProperties
  <2>3. CASE \E i \in 1..Len(Q) : IsUploadOf(Q[i].x, r)
    <3>1. PICK i \in 1..Len(Q) : IsUploadOf(Q[i].x, r)
      BY <2>3
    <3>2. CASE i > d
      BY <1>2, <3>1, <3>2 DEF UploadIsOn
    <3>3. CASE ~(i > d)
      <4>1. i = 1 /\ Len(waiting) + 1 \in 1..Len(waiting')
        BY <2>2, <3>3
      <4>2. QED
        BY <2>2, <3>1, <4>1 DEF UploadIsOn
    <3>4. QED
      BY <3>2, <3>3
  <2>4. CASE \E i \in 1..Len(waiting) : IsUploadOf(waiting[i].x, r)
    <3>1. PICK i \in 1..Len(waiting) : IsUploadOf(waiting[i].x, r)
      BY <2>4
    <3>2. i \in 1..Len(waiting') /\ waiting'[i] = waiting[i]
      BY <2>2
    <3>3. QED
      BY <3>1, <3>2 DEF UploadIsOn
  <2>5. CASE \E s \in Slots : Sends(tasks[s], r)
    BY <2>1, <2>5 DEF UploadIsOn
  <2>6. QED
    BY <1>4, <2>3, <2>4, <2>5 DEF UploadIsOn
<1>7. CASE TakeOperator
  <2>1. /\ \/ waiting # <<>> /\ waiting' = Tail(waiting) /\ QStay /\ Next1 = waiting[1]
           \/ QPop /\ Next1 = Q[1] /\ waiting' = waiting
        /\ Next1 \in Item(ForOperator)
    BY <1>7, TakeOperatorView
  <2>2. PICK u \in Slots : tasks[u].at = "Free" /\ tasks' = [tasks EXCEPT ![u] = Taken(Next1)]
    BY <1>7, TakeOperatorView
  <2>3. tasks'[u] = Taken(Next1) /\ \A s \in Slots : s # u => tasks'[s] = tasks[s]
    BY <1>3, <2>2
  <2>4. Taken(Next1).at = "Asking" /\ Taken(Next1).fx = Next1.x
    BY <2>1, AskingIsWell
  <2>5. IsUploadOf(Next1.x, r) => Sends(tasks'[u], r)
    BY <2>3, <2>4 DEF Sends
  <2>6. CASE \E s \in Slots : Sends(tasks[s], r)
    <3>1. PICK s \in Slots : Sends(tasks[s], r)
      BY <2>6
    <3>2. s # u
      BY <2>2, <3>1 DEF Sends
    <3>3. QED
      BY <2>3, <3>1, <3>2 DEF UploadIsOn
  <2>7. CASE \E i \in 1..Len(Q) : IsUploadOf(Q[i].x, r)
    <3>1. PICK i \in 1..Len(Q) : IsUploadOf(Q[i].x, r)
      BY <2>7
    <3>2. CASE i > d
      BY <1>2, <3>1, <3>2 DEF UploadIsOn
    <3>3. CASE ~(i > d)
      <4>1. i = 1 /\ QPop
        BY <1>2, <3>3
      <4>2. ~QStay
        BY <4>1, StayIsNoPop DEF Types
      <4>3. Next1 = Q[1]
        BY <2>1, <4>2
      <4>4. QED
        BY <2>5, <3>1, <4>1, <4>3 DEF UploadIsOn
    <3>4. QED
      BY <3>2, <3>3
  <2>8. CASE \E i \in 1..Len(waiting) : IsUploadOf(waiting[i].x, r)
    <3>1. PICK i \in 1..Len(waiting) : IsUploadOf(waiting[i].x, r)
      BY <2>8
    <3>2. CASE waiting' = waiting
      BY <3>1, <3>2 DEF UploadIsOn
    <3>3. CASE waiting # <<>> /\ waiting' = Tail(waiting) /\ Next1 = waiting[1]
      <4>1. /\ Len(waiting) \in Nat /\ Len(waiting') = Len(waiting) - 1
            /\ \A j \in 1..Len(waiting') : waiting'[j] = waiting[j + 1]
        BY <1>3, <3>3, Popped
      <4>2. CASE i = 1
        BY <2>5, <3>1, <3>3, <4>2 DEF UploadIsOn
      <4>3. CASE i # 1
        <5>1. i - 1 \in 1..Len(waiting') /\ (i - 1) + 1 = i
          BY <4>1, <4>3
        <5>2. waiting'[i - 1] = waiting[i]
          BY <4>1, <5>1
        <5>3. QED
          BY <3>1, <5>1, <5>2 DEF UploadIsOn
      <4>4. QED
        BY <4>2, <4>3
    <3>4. QED
      BY <2>1, <3>2, <3>3
  <2>9. QED
    BY <1>4, <2>6, <2>7, <2>8 DEF UploadIsOn
<1>8. CASE OperatorTasks
  <2>1. PICK s \in Slots : Answered(s) \/ Stores(s) \/ Uploaded(s) \/ Announces(s)
    BY <1>8 DEF OperatorTasks
  <2>2. PICK t : /\ TaskIsWell(t) /\ Become(s, t)
                 /\ \/ Answered(s) /\ events' = events
                    \/ Stores(s) /\ events' = events
                    \/ /\ Uploaded(s) /\ events' = events /\ t.at = "Sending" /\ t.event.ev = "UploadFinished"
                       /\ t.event.recording = tasks[s].fx.recording
                    \/ /\ Announces(s) /\ tasks[s].at = "Sending" /\ tasks[s].event \in OperatorReplies
                       /\ Enqueue(tasks[s].event, tasks[s].n) /\ tasks[s].n \in Nat
    <3> HIDE DEF Answered, Stores, Uploaded, Announces
    <3>1. QED
      BY <2>1, TaskSteps
  <2>3. tasks'[s] = t /\ \A u \in Slots \ {s} : tasks'[u] = tasks[u]
    BY <2>2, BecomeKeepsDevices DEF Types
  <2>4. waiting' = waiting /\ Q' = Q
    BY <2>2 DEF Become, Q
  <2>5. Sends(tasks[s], r) => Sends(tasks'[s], r) \/ (\E i \in 1..Len(events') : UploadTold(events'[i].x, r))
    <3>1. HAVE Sends(tasks[s], r)
    <3>2. CASE Answered(s)
      BY <3>1, <3>2 DEF Answered, Sends, IsUploadOf, Fetches
    <3>3. CASE Stores(s)
      BY <3>1, <3>3 DEF Stores, Sends
    <3>4. CASE Uploaded(s) /\ t.at = "Sending" /\ t.event.ev = "UploadFinished" /\ t.event.recording = tasks[s].fx.recording
      <4>1. tasks[s].at = "Asking"
        BY <3>4 DEF Uploaded
      <4>2. tasks[s].fx.recording = r
        BY <3>1, <4>1 DEF Sends, IsUploadOf
      <4>3. QED
        BY <2>3, <3>4, <4>2 DEF Sends, UploadTold
    <3>5. CASE /\ tasks[s].at = "Sending" /\ tasks[s].event \in OperatorReplies
               /\ Enqueue(tasks[s].event, tasks[s].n) /\ tasks[s].n \in Nat
      <4>1. UploadTold(tasks[s].event, r)
        BY <3>1, <3>5 DEF Sends
      <4>2. Adds(tasks[s].event, tasks[s].n) /\ tasks[s].event \in Heard
        BY <3>5, SignalsAreHeard DEF Enqueue, Adds
      <4>3. Len(events) \in Nat /\ Len(events') = Len(events) + 1 /\ events'[Len(events) + 1].x = tasks[s].event
        BY <3>5, <4>2, AddFacts DEF Types
      <4>4. Len(events) + 1 \in 1..Len(events')
        BY <4>3
      <4>5. QED
        BY <4>1, <4>3, <4>4
    <3>6. QED
      BY <2>2, <3>2, <3>3, <3>4, <3>5
  <2>6. (\E u \in Slots : Sends(tasks[u], r)) => UploadIsOn(r)'
    BY <2>3, <2>5 DEF UploadIsOn
  <2>7. QED
    BY <1>4, <2>4, <2>6 DEF UploadIsOn
<1>9. QED
  BY <1>5, <1>6, <1>7, <1>8, TaskView

LEMMA UploadHandle ==
    ASSUME Types, Handle, UploadRuns
    PROVE  UploadRuns'
<1>1. PICK K, p, a, r : Meets(core, events[1].x, core', K, a, r) /\ Pushes(K, p, a, r)
  BY HandleView
<1>2. /\ UNCHANGED <<waiting, tasks>> /\ 1 \in 1..Len(events)
      /\ \A i \in 1..Len(events) : i = 1 \/ (i - 1 \in 1..Len(events') /\ events'[i - 1] = events[i])
  BY HandleLeaves
<1>3. SUFFICES ASSUME Uploads(core') PROVE UploadIsOn(core.recording)'
  BY DEF UploadRuns, Uploads
<1>4. \/ "UploadRecording" \in K /\ r = core'.recording
      \/ Uploads(core) /\ core.recording = core'.recording /\ ~UploadTold(events[1].x, core.recording)
  BY <1>1, <1>3 DEF Meets, RestMeets, UploadTold
<1>5. CASE "UploadRecording" \in K /\ r = core'.recording
  <2>1. PICK i \in 1..Len(Q') : i > Len(Q) /\ Q'[i].x.fx = "UploadRecording"
    BY <1>1, <1>5 DEF Pushes
  <2>2. i \notin 1..Len(Q)
    BY <1>1, <2>1 DEF Pushes
  <2>3. Q'[i].x.recording = r
    BY <1>1, <2>1, <2>2 DEF Pushes
  <2>4. QED
    BY <1>5, <2>1, <2>3 DEF UploadIsOn, IsUploadOf
<1>6. CASE Uploads(core) /\ core.recording = core'.recording /\ ~UploadTold(events[1].x, core.recording)
  <2>1. UploadIsOn(core.recording)
    BY <1>6 DEF UploadRuns
  <2>2. \A i \in 1..Len(Q) : i \in 1..Len(Q') /\ Q'[i] = Q[i]
    BY <1>1 DEF Pushes
  <2>3. CASE \E i \in 1..Len(events) : UploadTold(events[i].x, core.recording)
    <3>1. PICK i \in 1..Len(events) : UploadTold(events[i].x, core.recording)
      BY <2>3
    <3>2. i - 1 \in 1..Len(events') /\ events'[i - 1] = events[i]
      BY <1>2, <1>6, <3>1
    <3>3. QED
      BY <1>6, <3>1, <3>2 DEF UploadIsOn
  <2>4. QED
    BY <1>2, <1>6, <2>1, <2>2, <2>3 DEF UploadIsOn
<1>7. QED
  BY <1>4, <1>5, <1>6

LEMMA UploadInit == ASSUME Started PROVE UploadRuns
  BY StartedQueue DEF UploadRuns, Uploads

LEMMA UploadStep == ASSUME Types, UploadRuns, [Next]_vars PROVE UploadRuns'
<1>1. CASE Restart
  <2>1. core' = Plain("Idle")
    BY <1>1, RestartIsBlank DEF Blank
  <2>2. core'.tag = "Idle"
    BY <2>1, VariantFields
  <2>3. QED
    BY <2>2 DEF UploadRuns, Uploads
<1>2. CASE ~Restart /\ ~Handle
  <2>1. core' = core
    BY <1>2, AsideView DEF Aside, Calm
  <2>2. Uploads(core) => UploadIsOn(core.recording)'
    <3>1. HAVE Uploads(core)
    <3>2. PICK r : r = core.recording
      OBVIOUS
    <3>3. UploadIsOn(r)
      BY <3>1, <3>2 DEF UploadRuns
    <3>4. UploadIsOn(r)'
      BY <1>2, <3>3, UploadAside
    <3>5. QED
      BY <2>1, <3>2, <3>4 DEF UploadIsOn
  <2>3. QED
    BY <2>1, <2>2 DEF UploadRuns
<1>3. QED
  BY <1>1, <1>2, UploadHandle

----------------------------------------------------------------------------
(* What will sound when the queues have run empty *)

SoundIsAsked == \E i \in 1..Len(Q) : Q[i].x.fx \in Sounds
LastAsked(A) ==
    \E i \in 1..Len(Q) : /\ Q[i].x.fx \in Sounds /\ SoundOf(Q[i].x) \in A
                         /\ \A j \in 1..Len(Q) : Q[j].x.fx \in Sounds => j <= i
LastPassed(A) ==
    IF worker.at = "Passing" THEN worker.item.x \in A
    ELSE IF audio # <<>> THEN audio[Len(audio)].x \in A
    ELSE player.sound \in A

\* The last sound asked for is in A.
WillSound(A) == IF SoundIsAsked THEN LastAsked(A) ELSE LastPassed(A)

\* A sound is on its way, or plays, or could not be played.
SoundIsOn ==
    \/ SoundIsAsked \/ worker.at = "Passing" \/ audio # <<>>
    \/ player.at # "Idle" \/ player.sound = "Failed"

Nothing == {NoClip, "Failed", "Stop"}
Clips == ((AudioRef \ Tones) \cup Spoken) \cup {NoClip, "Failed"}

\* A set of sounds that has whatever may come of them.
Closed(A) == {NoClip, "Failed"} \subseteq A /\ (RemoteAudio \in A => Spoken \subseteq A)

LEMMA SetsOfSounds ==
    /\ Closed(Nothing) /\ Closed(Clips) /\ "Stop" \in Nothing /\ "Stop" \notin Clips /\ Clips \cap Tones = {}
    /\ AudioRef \ Tones \subseteq Clips /\ "Stop" \notin SoundNames
<1>1. \A q \in QuestionId : q \notin AudioRef \cup {"None", "Message", "Stop", "Failed"}
  BY RuntimeAssumption
<1>2. Spoken \cap (AudioRef \cup {"None", "Stop", "Failed"}) = {}
  BY <1>1 DEF Spoken, AudioRef, RemoteAudio
<1>3. Closed(Nothing)
  BY DEF Closed, Nothing, RemoteAudio, NoClip
<1>4. Closed(Clips)
  BY DEF Closed, Clips
<1>5. "Stop" \notin Clips /\ Clips \cap Tones = {}
  BY <1>2 DEF Clips, Tones, AudioRef, RemoteAudio, NoClip
<1>6. "Stop" \notin SoundNames
  BY <1>2 DEF SoundNames, AudioRef, RemoteAudio, NoClip
<1>7. QED
  BY <1>3, <1>4, <1>5, <1>6 DEF Nothing, Clips

\* The sound asked for last stays the last until it is passed on.
LEMMA AskedAside ==
    ASSUME Types, Aside, NEW A
    PROVE  /\ SoundIsAsked' => SoundIsAsked /\ (LastAsked(A) => LastAsked(A)')
           /\ SoundIsAsked /\ ~SoundIsAsked' =>
                  QPop /\ Q[1].x.fx \in Sounds /\ (LastAsked(A) => SoundOf(Q[1].x) \in A)
<1>1. PICK d \in {0, 1} :
          /\ Len(Q) \in Nat /\ Len(Q') \in Nat
          /\ d = 1 => QPop /\ 1 \in 1..Len(Q)
          /\ \A i \in 1..Len(Q') : i + d \in 1..Len(Q) /\ Q'[i] = Q[i + d]
          /\ \A i \in 1..Len(Q) : i > d => i - d \in 1..Len(Q') /\ Q'[i - d] = Q[i]
  BY Shift
<1>2. SoundIsAsked' => SoundIsAsked
  BY <1>1 DEF SoundIsAsked
<1>3. ASSUME SoundIsAsked', LastAsked(A) PROVE LastAsked(A)'
  <2>1. PICK i \in 1..Len(Q) :
            /\ Q[i].x.fx \in Sounds /\ SoundOf(Q[i].x) \in A
            /\ \A j \in 1..Len(Q) : Q[j].x.fx \in Sounds => j <= i
    BY <1>3 DEF LastAsked
  <2>2. PICK k \in 1..Len(Q') : Q'[k].x.fx \in Sounds
    BY <1>3 DEF SoundIsAsked
  <2>3. k + d <= i
    BY <1>1, <2>1, <2>2
  <2>4. i > d
    BY <1>1, <2>2, <2>3
  <2>5. i - d \in 1..Len(Q') /\ Q'[i - d] = Q[i]
    BY <1>1, <2>4
  <2>6. \A j \in 1..Len(Q') : Q'[j].x.fx \in Sounds => j <= i - d
    <3>1. TAKE j \in 1..Len(Q')
    <3>2. HAVE Q'[j].x.fx \in Sounds
    <3>3. j + d \in 1..Len(Q) /\ Q[j + d].x.fx \in Sounds
      BY <1>1, <3>2
    <3>4. j + d <= i
      BY <2>1, <3>3
    <3>5. QED
      BY <3>4
  <2>7. QED
    BY <2>1, <2>5, <2>6 DEF LastAsked, SoundOf
<1>4. ASSUME SoundIsAsked, ~SoundIsAsked'
      PROVE  QPop /\ Q[1].x.fx \in Sounds /\ (LastAsked(A) => SoundOf(Q[1].x) \in A)
  <2>1. \A i \in 1..Len(Q) : Q[i].x.fx \in Sounds => ~(i > d)
    BY <1>1, <1>4 DEF SoundIsAsked
  <2>2. \A i \in 1..Len(Q) : Q[i].x.fx \in Sounds => d = 1 /\ i = 1
    BY <1>1, <2>1
  <2>3. d = 1 /\ 1 \in 1..Len(Q) /\ Q[1].x.fx \in Sounds
    BY <1>4, <2>2 DEF SoundIsAsked
  <2>4. LastAsked(A) => SoundOf(Q[1].x) \in A
    BY <2>2 DEF LastAsked
  <2>5. QED
    BY <1>1, <2>3, <2>4
<1>5. QED
  BY <1>2, <1>3, <1>4

LEMMA EmptyIsShortest == Len(audio') # 0 => audio' # <<>>
  BY EmptySeq

\* The clip that is passed on for a sound asked for.
LEMMA PassesIn ==
    ASSUME Types, [Next]_vars, ~Handle, ~Restart, QPop, Q[1].x.fx \in Sounds
    PROVE  /\ \A A : Closed(A) /\ SoundOf(Q[1].x) \in A => LastPassed(A)'
           /\ worker'.at = "Passing" \/ audio' # <<>>
<1>1. PICK c \in SoundNames \cup {"Stop"} :
          /\ Pass(c, Q[1].n)
          /\ c = SoundOf(Q[1].x) \/ (SoundOf(Q[1].x) = RemoteAudio /\ c \in Spoken \cup {NoClip})
  BY SoundPops DEF Passes
<1>2. worker.at = "Ready" /\ Q[1].n \in Nat
  BY SoundPops, PopFacts DEF Passes, Types
<1>3. \/ /\ worker' = worker /\ Len(audio') = Len(audio) + 1 /\ Len(audio) \in Nat
         /\ audio'[Len(audio) + 1].x = c
      \/ worker'.at = "Passing" /\ worker'.item.x = c
  BY <1>1, <1>2, PassFacts
<1>4. Len(audio') = Len(audio) + 1 /\ Len(audio) \in Nat => audio' # <<>>
  BY EmptyIsShortest
<1>5. \A A : Closed(A) /\ SoundOf(Q[1].x) \in A => c \in A
  BY <1>1 DEF Closed
<1>6. \A A : c \in A => LastPassed(A)'
  BY <1>2, <1>3, <1>4 DEF LastPassed
<1>7. QED
  BY <1>3, <1>4, <1>5, <1>6

\* A step that takes no sound from the queue, as the sounds already taken see it.
LEMMA AudioView ==
    ASSUME Types, [Next]_vars, ~Handle, ~Restart, ~(QPop /\ Q[1].x.fx \in Sounds)
    PROVE  \/ /\ audio' = audio /\ player' = player
              /\ worker' = worker \/ (worker.at # "Passing" /\ worker'.at # "Passing")
           \/ PassOn
           \/ TakeCommand /\ worker' = worker
           \/ /\ audio' = audio /\ worker' = worker
              /\ \/ Starts \/ Ends \/ Tells
<1>1. CASE Elsewhere
  BY <1>1 DEF Elsewhere
<1>2. CASE Passes
  BY <1>2 DEF Passes
<1>3. CASE TakeStart
  BY <1>3, TakeStartView DEF Reporting
<1>4. CASE TakeStopRecording
  BY <1>4, TakeStopRecordingView DEF Reporting
<1>5. CASE Finalized
  <2>1. worker.at = "Finalizing" /\ audio' = audio /\ player' = player
        /\ \E x, n : worker' = Reporting(x, n)
    BY <1>5 DEF Finalized
  <2>2. worker'.at = "Reporting"
    BY <2>1 DEF Reporting
  <2>3. QED
    BY <2>1, <2>2
<1>6. CASE Report
  BY <1>6 DEF Report, Resting
<1>7. CASE TakeTimer
  BY <1>7, TakeTimerView
<1>8. CASE TimerFires
  BY <1>8 DEF TimerFires
<1>9. CASE TakeCommand \/ Starts \/ Ends \/ Tells
  BY <1>9 DEF TakeCommand, Starts, Ends, Tells, Played
<1>10. QED
  BY <1>1, <1>2, <1>3, <1>4, <1>5, <1>6, <1>7, <1>8, <1>9, ElsewhereView

LEMMA EmptyAudio == (audio = <<>> => Len(audio) = 0) /\ (audio' = <<>> => Len(audio') = 0)
  BY EmptySeq

\* What becomes of the player's sound.
LEMMA PlayerLater ==
    ASSUME Types, Starts \/ Ends \/ Tells
    PROVE  /\ player'.sound \in {player.sound, NoClip, "Failed"}
           /\ player'.at # "Idle" \/ player'.sound = "Failed" \/ Tells
                \/ player.sound \in Tones
<1>1. player \in [at: {"Idle", "Starting", "Playing", "Ended"}, sound: SoundNames \cup {"Failed"}, n: Nat]
  BY DEF Types, DevicesAreWell
<1>2. CASE Starts
  BY <1>1, <1>2 DEF Starts, Played, Silent
<1>3. CASE Ends
  BY <1>1, <1>3 DEF Ends, Played, Silent
<1>4. CASE Tells
  BY <1>1, <1>4 DEF Tells, Played, Silent
<1>5. QED
  BY <1>2, <1>3, <1>4

\* The last sound that was passed on stays the last.
LEMMA PassedAside ==
    ASSUME Types, [Next]_vars, ~Handle, ~Restart, ~(QPop /\ Q[1].x.fx \in Sounds),
           NEW A, Closed(A), LastPassed(A)
    PROVE  LastPassed(A)'
<1>1. CASE audio' = audio /\ player' = player /\ (worker' = worker \/ (worker.at # "Passing" /\ worker'.at # "Passing"))
  BY <1>1 DEF LastPassed
<1>2. CASE PassOn
  <2>1. /\ worker.at = "Passing" /\ worker' = Resting /\ Len(audio) \in Nat /\ Len(audio') = Len(audio) + 1
        /\ audio'[Len(audio) + 1] = worker.item
    BY <1>2, PassOnFacts
  <2>2. audio' # <<>> /\ worker'.at # "Passing"
    BY <2>1, EmptyAudio, RestingIsWell
  <2>3. worker.item.x \in A
    BY <2>1 DEF LastPassed
  <2>4. QED
    BY <2>1, <2>2, <2>3 DEF LastPassed
<1>3. CASE TakeCommand /\ worker' = worker
  <2>1. /\ audio # <<>> /\ Len(audio) \in Nat \ {0} /\ Len(audio') = Len(audio) - 1
        /\ \A i \in 1..Len(audio') : i + 1 \in 1..Len(audio) /\ audio'[i] = audio[i + 1]
        /\ \/ audio[1].x = "Stop" /\ player' = Silent
           \/ audio[1].x # "Stop" /\ player' = [at |-> "Starting", sound |-> audio[1].x, n |-> audio[1].n]
    BY <1>3, TakeCommandFacts
  <2>2. CASE worker.at = "Passing"
    BY <1>3, <2>2 DEF LastPassed
  <2>3. CASE worker.at # "Passing"
    <3>1. audio[Len(audio)].x \in A
      BY <2>1, <2>3 DEF LastPassed
    <3>2. CASE audio' # <<>>
      <4>1. Len(audio') # 0
        <5>1. audio' \in Seq(Item(SoundNames \cup {"Stop"}))
          BY TypesStep DEF Types, QueuesAreWell
        <5>2. QED
          BY <3>2, <5>1, EmptySeq
      <4>2. Len(audio') \in 1..Len(audio') /\ Len(audio') + 1 = Len(audio)
        BY <2>1, <4>1
      <4>3. audio'[Len(audio')] = audio[Len(audio)]
        BY <2>1, <4>2
      <4>4. QED
        BY <1>3, <2>3, <3>1, <3>2, <4>3 DEF LastPassed
    <3>3. CASE audio' = <<>>
      <4>1. Len(audio) = 1
        BY <2>1, <3>3, EmptyAudio
      <4>2. player'.sound \in A
        BY <2>1, <3>1, <4>1 DEF Silent, Closed
      <4>3. QED
        BY <1>3, <2>3, <3>3, <4>2 DEF LastPassed
    <3>4. QED
      BY <3>2, <3>3
  <2>4. QED
    BY <2>2, <2>3
<1>4. CASE audio' = audio /\ worker' = worker /\ (Starts \/ Ends \/ Tells)
  <2>1. player'.sound \in {player.sound, NoClip, "Failed"}
    BY <1>4, PlayerLater
  <2>2. QED
    BY <1>4, <2>1 DEF LastPassed, Closed
<1>5. QED
  BY <1>1, <1>2, <1>3, <1>4, AudioView

\* What is to sound is settled by the core alone.
LEMMA WillSoundAside ==
    ASSUME Types, [Next]_vars, ~Handle, ~Restart, NEW A, Closed(A), WillSound(A)
    PROVE  WillSound(A)'
<1>1. Aside
  BY AsideView
<1>2. CASE SoundIsAsked'
  BY <1>1, <1>2, AskedAside DEF WillSound
<1>3. CASE SoundIsAsked /\ ~SoundIsAsked'
  <2>1. QPop /\ Q[1].x.fx \in Sounds /\ SoundOf(Q[1].x) \in A
    BY <1>1, <1>3, AskedAside DEF WillSound
  <2>2. QED
    BY <1>3, <2>1, PassesIn DEF WillSound
<1>4. CASE ~SoundIsAsked /\ ~SoundIsAsked'
  <2>1. ~(QPop /\ Q[1].x.fx \in Sounds)
    BY <1>4, PopFacts DEF SoundIsAsked, Types
  <2>2. LastPassed(A)
    BY <1>4 DEF WillSound
  <2>3. QED
    BY <1>4, <2>1, <2>2, PassedAside DEF WillSound
<1>5. QED
  BY <1>2, <1>3, <1>4

\* The clip that is to sound is under way until its end is told, or it cannot be played.
LEMMA SoundIsOnAside ==
    ASSUME Types, [Next]_vars, ~Handle, ~Restart, WillSound(Clips), SoundIsOn
    PROVE  SoundIsOn' \/ \E i \in 1..Len(events') : events'[i].x.ev = "PlaybackEnded"
<1>1. Aside
  BY AsideView
<1>2. CASE SoundIsAsked'
  BY <1>2 DEF SoundIsOn
<1>3. CASE QPop /\ Q[1].x.fx \in Sounds
  BY <1>3, PassesIn DEF SoundIsOn
<1>4. CASE ~SoundIsAsked' /\ ~(QPop /\ Q[1].x.fx \in Sounds)
  <2>1. ~SoundIsAsked /\ LastPassed(Clips)
    BY <1>1, <1>4, AskedAside DEF WillSound
  <2>2. CASE audio' = audio /\ player' = player /\ (worker' = worker \/ (worker.at # "Passing" /\ worker'.at # "Passing"))
    BY <2>1, <2>2 DEF SoundIsOn
  <2>3. CASE PassOn
    <3>1. Len(audio) \in Nat /\ Len(audio') = Len(audio) + 1
      BY <2>3, PassOnFacts
    <3>2. audio' # <<>>
      BY <3>1, EmptyAudio
    <3>3. QED
      BY <3>2 DEF SoundIsOn
  <2>4. CASE TakeCommand /\ worker' = worker
    <3>1. /\ audio # <<>> /\ Len(audio) \in Nat \ {0} /\ Len(audio') = Len(audio) - 1
          /\ \/ audio[1].x = "Stop" /\ player' = Silent
             \/ audio[1].x # "Stop" /\ player' = [at |-> "Starting", sound |-> audio[1].x, n |-> audio[1].n]
      BY <2>4, TakeCommandFacts
    <3>2. CASE worker.at = "Passing" \/ audio' # <<>>
      BY <2>4, <3>2 DEF SoundIsOn
    <3>3. CASE worker.at # "Passing" /\ audio' = <<>>
      <4>1. Len(audio) = 1
        BY <3>1, <3>3, EmptyAudio
      <4>2. audio[1].x \in Clips
        BY <2>1, <3>1, <3>3, <4>1 DEF LastPassed
      <4>3. player'.at = "Starting"
        BY <3>1, <4>2, SetsOfSounds
      <4>4. QED
        BY <4>3 DEF SoundIsOn
    <3>4. QED
      BY <3>2, <3>3
  <2>5. CASE audio' = audio /\ worker' = worker /\ (Starts \/ Ends \/ Tells)
    <3>1. CASE worker.at = "Passing" \/ audio # <<>>
      BY <2>5, <3>1 DEF SoundIsOn
    <3>2. CASE Tells
      <4>1. Adds(Signal("PlaybackEnded"), player.n) /\ player.n \in Nat
            /\ Signal("PlaybackEnded") \in Heard /\ Signal("PlaybackEnded").ev = "PlaybackEnded"
        BY <3>2, TellsFacts
      <4>2. /\ Len(events) \in Nat /\ Len(events') = Len(events) + 1
            /\ events'[Len(events) + 1].x = Signal("PlaybackEnded")
        BY <4>1, AddFacts DEF Types
      <4>3. Len(events) + 1 \in 1..Len(events')
        BY <4>2
      <4>4. QED
        BY <4>1, <4>2, <4>3
    <3>3. CASE worker.at # "Passing" /\ audio = <<>> /\ ~Tells
      <4>1. player.sound \notin Tones
        BY <2>1, <3>3, SetsOfSounds DEF LastPassed
      <4>2. player'.at # "Idle" \/ player'.sound = "Failed"
        BY <2>5, <3>3, <4>1, PlayerLater
      <4>3. QED
        BY <4>2 DEF SoundIsOn
    <3>4. QED
      BY <3>1, <3>2, <3>3
  <2>6. QED
    BY <1>4, <2>2, <2>3, <2>4, <2>5, AudioView
<1>5. QED
  BY <1>2, <1>3, <1>4

----------------------------------------------------------------------------
(* Silence and clips *)

\* An idle booth, and one whose handset is down, falls silent.
IdleIsHushed == Hushed(core) => WillSound(Nothing)

\* The clip whose end is awaited will sound, or has ended.
ClipIsPlayed ==
    Waits(core) =>
        \/ \E i \in 1..Len(events) : events[i].x.ev = "PlaybackEnded"
        \/ WillSound(Clips) /\ SoundIsOn

SoundInv == IdleIsHushed /\ ClipIsPlayed

\* A step asks for one sound at most, and it is one that can be asked for.
LEMMA OneSound ==
    ASSUME Types', NEW K, NEW p, NEW a, NEW r, Pushes(K, p, a, r), "Play" \in K
    PROVE  a \in AudioRef /\ "StopAudio" \notin K
<1>1. /\ \A i \in 1..Len(Q') : i > Len(Q) /\ Q'[i].x.fx \in Single => i = p \/ i \in 1..Len(Q)
      /\ \A i \in 1..Len(Q') : i > Len(Q) /\ Q'[i].x.fx = "Play" => i \in 1..Len(Q) \/ Q'[i].x.audio = a
      /\ \A k \in K : \E i \in 1..Len(Q') : i > Len(Q) /\ Q'[i].x.fx = k
      /\ Len(Q) \in Nat /\ Len(Q') \in Nat
  BY DEF Pushes
<1>2. PICK i \in 1..Len(Q') : i > Len(Q) /\ Q'[i].x.fx = "Play"
  BY <1>1
<1>3. i \notin 1..Len(Q)
  BY <1>1, <1>2
<1>4. i = p /\ Q'[i].x.audio = a
  BY <1>1, <1>2, <1>3 DEF Single, Sounds
<1>5. Q'[i].x \in Effect
  BY QElementsLater DEF Types
<1>6. a \in AudioRef
  BY <1>2, <1>4, <1>5 DEF Effect, Commands
<1>7. "StopAudio" \notin K
  <2>1. SUFFICES ASSUME "StopAudio" \in K PROVE FALSE
    OBVIOUS
  <2>2. PICK j \in 1..Len(Q') : j > Len(Q) /\ Q'[j].x.fx = "StopAudio"
    BY <1>1, <2>1
  <2>3. j = p
    BY <1>1, <2>2 DEF Single, Sounds
  <2>4. QED
    BY <1>2, <1>4, <2>2, <2>3
<1>8. QED
  BY <1>6, <1>7

\* A step that asks for a sound asks for one: it is the last.
LEMMA SoundIsPushed ==
    ASSUME NEW K, NEW p, NEW a, NEW r, Pushes(K, p, a, r), K \cap Sounds # {}, NEW A,
           "Play" \in K => a \in A, "StopAudio" \in K => "Stop" \in A
    PROVE  WillSound(A)' /\ SoundIsOn'
<1>1. /\ Len(Q) \in Nat /\ Len(Q') \in Nat
      /\ \A i \in 1..Len(Q') :
             \/ i \in 1..Len(Q)
             \/ /\ i > Len(Q) /\ Q'[i].x.fx \in K
                /\ Q'[i].x.fx \in Single => i = p
                /\ Q'[i].x.fx = "Play" => Q'[i].x.audio = a
      /\ \A k \in K : \E i \in 1..Len(Q') : i > Len(Q) /\ Q'[i].x.fx = k
  BY DEF Pushes
<1>2. PICK i \in 1..Len(Q') : i > Len(Q) /\ Q'[i].x.fx \in Sounds
  BY <1>1
<1>3. i = p /\ Q'[i].x.fx \in K /\ (Q'[i].x.fx = "Play" => Q'[i].x.audio = a)
  BY <1>1, <1>2 DEF Single
<1>4. \A j \in 1..Len(Q') : Q'[j].x.fx \in Sounds => j <= i
  <2>1. TAKE j \in 1..Len(Q')
  <2>2. HAVE Q'[j].x.fx \in Sounds
  <2>3. CASE j \in 1..Len(Q)
    BY <1>1, <1>2, <2>3
  <2>4. CASE j \notin 1..Len(Q)
    BY <1>1, <1>3, <2>2, <2>4 DEF Single
  <2>5. QED
    BY <2>3, <2>4
<1>5. SoundOf(Q'[i].x) \in A
  BY <1>2, <1>3 DEF SoundOf, Sounds
<1>6. SoundIsAsked'
  BY <1>2 DEF SoundIsAsked
<1>7. LastAsked(A)'
  BY <1>2, <1>4, <1>5 DEF LastAsked, SoundOf
<1>8. QED
  BY <1>6, <1>7 DEF WillSound, SoundIsOn

\* A step that asks for none leaves what is to sound.
LEMMA SoundIsLeft ==
    ASSUME NEW K, NEW p, NEW a, NEW r, Pushes(K, p, a, r), K \cap Sounds = {},
           UNCHANGED <<worker, audio, player>>
    PROVE  (\A A : WillSound(A) => WillSound(A)') /\ (SoundIsOn => SoundIsOn')
<1>1. /\ Len(Q) \in Nat /\ Len(Q') \in Nat
      /\ \A i \in 1..Len(Q) : i \in 1..Len(Q') /\ Q'[i] = Q[i]
      /\ \A i \in 1..Len(Q') : Q'[i].x.fx \in Sounds => i \in 1..Len(Q)
  BY DEF Pushes
<1>2. SoundIsAsked' <=> SoundIsAsked
  BY <1>1 DEF SoundIsAsked
<1>3. ASSUME NEW A, LastAsked(A) PROVE LastAsked(A)'
  <2>1. PICK i \in 1..Len(Q) :
            /\ Q[i].x.fx \in Sounds /\ SoundOf(Q[i].x) \in A
            /\ \A j \in 1..Len(Q) : Q[j].x.fx \in Sounds => j <= i
    BY <1>3 DEF LastAsked
  <2>2. i \in 1..Len(Q') /\ Q'[i] = Q[i]
    BY <1>1
  <2>3. \A j \in 1..Len(Q') : Q'[j].x.fx \in Sounds => j <= i
    BY <1>1, <2>1
  <2>4. QED
    BY <2>1, <2>2, <2>3 DEF LastAsked, SoundOf
<1>4. ASSUME NEW A, WillSound(A) PROVE WillSound(A)'
  <2>1. LastPassed(A) => LastPassed(A)'
    BY DEF LastPassed
  <2>2. QED
    BY <1>2, <1>3, <1>4, <2>1 DEF WillSound
<1>5. SoundIsOn => SoundIsOn'
  BY <1>2 DEF SoundIsOn
<1>6. QED
  BY <1>4, <1>5

LEMMA SoundHandle == ASSUME Types, Handle, SoundInv PROVE SoundInv'
<1>1. PICK K, p, a, r : Meets(core, events[1].x, core', K, a, r) /\ Pushes(K, p, a, r)
  BY HandleView
<1>2. /\ UNCHANGED <<worker, audio, player>> /\ 1 \in 1..Len(events)
      /\ \A i \in 1..Len(events) : i = 1 \/ (i - 1 \in 1..Len(events') /\ events'[i - 1] = events[i])
  BY HandleLeaves
<1>3. SoundMeets(core, events[1].x, core', K, a)
  BY <1>1 DEF Meets
<1>4. "Play" \in K => a \in AudioRef /\ "StopAudio" \notin K
  <2>1. Types'
    BY TypesStep DEF Next, MainLoop
  <2>2. QED
    BY <1>1, <2>1, OneSound
<1>5. IdleIsHushed'
  <2>1. SUFFICES ASSUME Hushed(core') PROVE WillSound(Nothing)'
    BY DEF IdleIsHushed, Hushed
  <2>2. "Play" \notin K /\ ("StopAudio" \in K \/ Hushed(core))
    BY <1>3, <2>1 DEF SoundMeets
  <2>3. CASE K \cap Sounds # {}
    BY <1>1, <2>2, <2>3, SoundIsPushed, SetsOfSounds
  <2>4. CASE K \cap Sounds = {}
    <3>1. WillSound(Nothing)
      BY <2>2, <2>4 DEF SoundInv, IdleIsHushed, Sounds
    <3>2. QED
      BY <1>1, <1>2, <2>4, <3>1, SoundIsLeft
  <2>5. QED
    BY <2>3, <2>4
<1>6. ClipIsPlayed'
  <2>1. SUFFICES ASSUME Waits(core')
                 PROVE  \/ \E i \in 1..Len(events') : events'[i].x.ev = "PlaybackEnded"
                        \/ WillSound(Clips)' /\ SoundIsOn'
    BY DEF ClipIsPlayed, Waits
  <2>2. CASE "Play" \in K /\ a \notin Tones
    <3>1. a \in Clips
      BY <1>4, <2>2, SetsOfSounds
    <3>2. "StopAudio" \notin K
      BY <1>4, <2>2
    <3>3. QED
      BY <1>1, <2>2, <3>1, <3>2, SoundIsPushed DEF Sounds
  <2>3. CASE Waits(core) /\ events[1].x.ev # "PlaybackEnded" /\ K \cap Sounds = {}
    <3>1. CASE \E i \in 1..Len(events) : events[i].x.ev = "PlaybackEnded"
      <4>1. PICK i \in 1..Len(events) : events[i].x.ev = "PlaybackEnded"
        BY <3>1
      <4>2. i - 1 \in 1..Len(events') /\ events'[i - 1] = events[i]
        BY <1>2, <2>3, <4>1
      <4>3. QED
        BY <4>1, <4>2
    <3>2. CASE WillSound(Clips) /\ SoundIsOn
      BY <1>1, <1>2, <2>3, <3>2, SoundIsLeft
    <3>3. QED
      BY <2>3, <3>1, <3>2 DEF SoundInv, ClipIsPlayed
  <2>4. QED
    BY <1>3, <2>1, <2>2, <2>3 DEF SoundMeets
<1>7. QED
  BY <1>5, <1>6 DEF SoundInv

\* A booth in which nothing is under way is silent.
LEMMA BlankIsSilent == ASSUME Blank PROVE SoundInv
<1>1. core.tag = "Idle" /\ ~core.on_hook /\ ~core.beep_pending
  BY VariantFields DEF Blank
<1>2. ~SoundIsAsked /\ worker.at = "Ready" /\ audio = <<>> /\ player.sound = NoClip
  BY RestingIsWell DEF Blank, SoundIsAsked, Silent
<1>3. WillSound(Nothing)
  BY <1>2 DEF WillSound, LastPassed, Nothing
<1>4. QED
  BY <1>1, <1>3 DEF SoundInv, IdleIsHushed, ClipIsPlayed, Waits

LEMMA SoundInit == ASSUME Started PROVE SoundInv
<1>1. CASE Blank
  BY <1>1, BlankIsSilent
<1>2. CASE core = Plain("DialTone")
  <2>1. core.tag = "DialTone" /\ ~core.on_hook
    BY <1>2, VariantFields
  <2>2. QED
    BY <2>1 DEF SoundInv, IdleIsHushed, ClipIsPlayed, Waits, Hushed
<1>3. QED
  BY <1>1, <1>2 DEF Started

LEMMA SoundStep == ASSUME Types, SoundInv, [Next]_vars PROVE SoundInv'
<1>1. CASE Restart
  <2>1. core' = Plain("Idle") /\ Len(Q)' = 0 /\ worker' = Resting /\ audio' = <<>> /\ player' = Silent
    BY <1>1, RestartIsBlank DEF Blank
  <2>2. core'.tag = "Idle" /\ ~core'.on_hook /\ ~core'.beep_pending
    BY <2>1, VariantFields
  <2>3. ~SoundIsAsked' /\ worker'.at = "Ready" /\ player'.sound = NoClip
    BY <2>1, RestingIsWell DEF SoundIsAsked, Silent
  <2>4. WillSound(Nothing)'
    BY <2>1, <2>3 DEF WillSound, LastPassed, Nothing
  <2>5. QED
    BY <2>2, <2>4 DEF SoundInv, IdleIsHushed, ClipIsPlayed, Waits
<1>2. CASE Handle
  BY <1>2, SoundHandle
<1>3. CASE ~Restart /\ ~Handle
  <2>1. core' = core
    BY <1>3, AsideView DEF Aside, Calm
  <2>2. WillSound(Nothing) => WillSound(Nothing)'
    BY <1>3, WillSoundAside, SetsOfSounds
  <2>3. IdleIsHushed'
    BY <2>1, <2>2 DEF SoundInv, IdleIsHushed
  <2>4. ClipIsPlayed'
    <3>1. SUFFICES ASSUME Waits(core)
                   PROVE  \/ \E i \in 1..Len(events') : events'[i].x.ev = "PlaybackEnded"
                          \/ WillSound(Clips)' /\ SoundIsOn'
      BY <2>1 DEF ClipIsPlayed
    <3>2. CASE \E i \in 1..Len(events) : events[i].x.ev = "PlaybackEnded"
      BY <1>3, <3>2, EventsStay
    <3>3. CASE WillSound(Clips) /\ SoundIsOn
      BY <1>3, <3>3, WillSoundAside, SoundIsOnAside, SetsOfSounds
    <3>4. QED
      BY <3>1, <3>2, <3>3 DEF SoundInv, ClipIsPlayed
  <2>5. QED
    BY <2>3, <2>4 DEF SoundInv
<1>4. QED
  BY <1>1, <1>2, <1>3

----------------------------------------------------------------------------
(* The queues have run empty *)

SettledInv == HeardInv /\ RunsInv /\ UploadRuns /\ SoundInv

LEMMA SettledInvHolds == Spec => []SettledInv
<1>1. Init => RunsInv /\ UploadRuns /\ SoundInv
  BY InitIsStarted, RunsInit, UploadInit, SoundInit
<1>2. HeardInv /\ RunsInv /\ UploadRuns /\ SoundInv /\ [Next]_vars => (RunsInv /\ UploadRuns /\ SoundInv)'
  BY RunsStep, UploadStep, SoundStep DEF HeardInv
<1>3. QED
  BY <1>1, <1>2, HeardInvHolds, PTL DEF Spec, SettledInv

LEMMA TypesAreOK == ASSUME Types PROVE TypeOK
<1>1. WellFormed(core) /\ remote \in Spoken \cup {NoClip} /\ made \subseteq RecordingId /\ inputs \in 0..MaxInputs
  BY DEF Types, CoreIsWell, DevicesAreWell
<1>2. /\ Len(events) <= EventCap /\ Len(effects) <= EffectCap /\ Len(audio) <= AudioCap
      /\ worker.at \in {"Ready", "Finalizing", "Reporting", "Passing"}
  BY DEF Types, QueuesAreWell, WorkerIsWell
<1>3. \A i \in DOMAIN events : events[i].x \in Event
  BY EventElements, LenProperties DEF Types, QueuesAreWell
<1>4. \A i \in DOMAIN effects : effects[i].x \in Effect
  <2>1. DOMAIN effects = 1..Len(effects) /\ \A i \in 1..Len(effects) : effects[i] \in Item(Effect)
    BY Element, LenProperties DEF Types, QueuesAreWell
  <2>2. QED
    BY <2>1 DEF Item
<1>5. \A s \in Slots : tasks[s].at \in {"Free", "Asking", "Storing", "Sending"}
  BY DEF Types, DevicesAreWell, Task
<1>6. player.at \in {"Idle", "Starting", "Playing", "Ended"}
  BY DEF Types, DevicesAreWell
<1>7. \A t \in armed : t.x \in {"Tick", "RecordingTimedOut"}
  BY DEF Types, DevicesAreWell, Item
<1>8. QED
  BY <1>1, <1>2, <1>3, <1>4, <1>5, <1>6, <1>7 DEF TypeOK

LEMMA DrainedFacts ==
    ASSUME Types, Drained
    PROVE  /\ Len(Q) = 0 /\ Len(events) = 0 /\ Len(waiting) = 0 /\ audio = <<>>
           /\ worker.at = "Ready" /\ \A s \in Slots : tasks[s].at = "Free"
           /\ player.at \in {"Idle", "Playing"}
           /\ ~SoundIsAsked /\ ~Starting /\ ~StopIsAsked /\ ~Replied
<1>1. Q = <<>> /\ events = <<>> /\ waiting = <<>>
  BY ConcatProperties DEF Drained, Q
<1>2. Len(Q) = 0 /\ Len(events) = 0 /\ Len(waiting) = 0
  BY <1>1, EmptySeq
<1>3. worker.at = "Ready"
  BY RestingIsWell DEF Drained
<1>4. ~SoundIsAsked /\ ~Starting /\ ~StopIsAsked /\ ~Replied
  BY <1>2, <1>3 DEF SoundIsAsked, Starting, StopIsAsked, Replied, Stopping
<1>5. QED
  BY <1>2, <1>3, <1>4 DEF Drained

LEMMA SettledIsQuiet == ASSUME SettledInv PROVE IdleIsQuiet
<1>1. SUFFICES ASSUME Drained, core.tag = "Idle"
               PROVE  player.sound \in {NoClip, "Failed"} /\ armed = {} /\ (~early => mic = 0)
  BY DEF IdleIsQuiet
<1>2. Types
  BY DEF SettledInv, HeardInv
<1>3. Len(Q) = 0 /\ worker.at = "Ready" /\ audio = <<>> /\ ~SoundIsAsked
  BY <1>1, <1>2, DrainedFacts
<1>4. player.sound \in Nothing
  BY <1>1, <1>3 DEF SettledInv, SoundInv, IdleIsHushed, Hushed, WillSound, LastPassed
<1>5. player.sound \in SoundNames \cup {"Failed"}
  BY <1>2 DEF Types, DevicesAreWell
<1>6. player.sound \in {NoClip, "Failed"}
  BY <1>4, <1>5, SetsOfSounds DEF Nothing
<1>7. armed = {}
  <2>1. \A t \in armed : t.x # "RecordingTimedOut" /\ t.x # "Tick"
    BY <1>1, <1>3 DEF SettledInv, HeardInv, TimersAreCalledOff, CalledOff
  <2>2. \A t \in armed : t.x \in {"Tick", "RecordingTimedOut"}
    BY <1>2 DEF Types, DevicesAreWell, Item
  <2>3. QED
    BY <2>1, <2>2
<1>8. ~early => mic = 0
  BY <1>1 DEF SettledInv, HeardInv, RecorderInv, Answers, MicIsOff
<1>9. QED
  BY <1>6, <1>7, <1>8

LEMMA SettledIsUnderWay == ASSUME SettledInv PROVE WaitIsUnderWay
<1>1. SUFFICES ASSUME Drained
               PROVE  /\ WaitsForClip => player.at = "Playing" \/ player.sound = "Failed"
                      /\ ~early => (core.tag = "Recording" <=> mic # 0)
                      /\ core.tag = "Recording" <=> \E t \in armed : t.x = "RecordingTimedOut"
                      /\ ~Finishes(core) /\ ~Uploads(core)
  BY DEF WaitIsUnderWay, Finishes, Uploads
<1>2. Types
  BY DEF SettledInv, HeardInv
<1>3. /\ Len(Q) = 0 /\ Len(events) = 0 /\ Len(waiting) = 0 /\ audio = <<>>
      /\ worker.at = "Ready" /\ \A s \in Slots : tasks[s].at = "Free"
      /\ player.at \in {"Idle", "Playing"}
      /\ ~SoundIsAsked /\ ~Starting /\ ~StopIsAsked /\ ~Replied
  BY <1>1, <1>2, DrainedFacts
<1>4. WaitsForClip => player.at = "Playing" \/ player.sound = "Failed"
  <2>1. WaitsForClip <=> Waits(core)
    BY DEF WaitsForClip, Waits
  <2>2. Waits(core) => SoundIsOn
    BY <1>3 DEF SettledInv, SoundInv, ClipIsPlayed
  <2>3. QED
    BY <1>3, <2>1, <2>2 DEF SoundIsOn
<1>5. ~Finishes(core)
  BY <1>3 DEF SettledInv, RunsInv, FinishIsAnswered
<1>6. ~early => (core.tag = "Recording" <=> mic # 0)
  <2>1. ~early /\ core.tag = "Recording" => mic # 0
    BY <1>3 DEF SettledInv, RunsInv, RecorderRuns
  <2>2. ~early /\ core.tag # "Recording" => mic = 0
    BY <1>5 DEF SettledInv, HeardInv, RecorderInv, Answers, MicIsOff, Finishes
  <2>3. QED
    BY <2>1, <2>2
<1>7. core.tag = "Recording" <=> \E t \in armed : t.x = "RecordingTimedOut"
  <2>1. core.tag = "Recording" => \E t \in armed : t.x = "RecordingTimedOut"
    BY <1>3 DEF SettledInv, RunsInv, TimerRuns
  <2>2. core.tag # "Recording" => ~\E t \in armed : t.x = "RecordingTimedOut"
    BY <1>3 DEF SettledInv, HeardInv, TimersAreCalledOff, CalledOff
  <2>3. QED
    BY <2>1, <2>2
<1>8. ~Uploads(core)
  <2>1. \A r : ~UploadIsOn(r)
    BY <1>3 DEF UploadIsOn, Sends
  <2>2. QED
    BY <2>1 DEF SettledInv, UploadRuns
<1>9. QED
  BY <1>4, <1>5, <1>6, <1>7, <1>8

\* When the queues have run empty, nothing is left over from an earlier call and
\* nothing of this one is lost, whatever the depths of the queues and the number of
\* operator tasks (effect_task, audio_task).
THEOREM TheQueuesSettle == Spec => []QueuesSettle
<1>1. SettledInv => QueuesSettle
  BY TypesAreOK, SettledIsQuiet, SettledIsUnderWay DEF QueuesSettle, SettledInv, HeardInv
<1>2. QED
  BY <1>1, SettledInvHolds, PTL
=============================================================================
