---------------------------- MODULE BoothCallProofs ----------------------------
(***************************************************************************)
(* The booth of BoothCall, for any questions and recordings.               *)
(*                                                                         *)
(* Part one, the effects of the core: an answer is started after the beep  *)
(* of its question, stopped once, and handed over once.                    *)
(*                                                                         *)
(* Part two, the booth: its type invariant, the handset, the microphone    *)
(* and the answers.                                                        *)
(*                                                                         *)
(* Part three, what others see of it: the sound, the timers, the status it *)
(* advertises and the uploads it waits for agree with the state of its     *)
(* core.                                                                   *)
(*                                                                         *)
(* Part four, its calls: what the session tracker of CallSessions tells    *)
(* the operator of a call is true of it.                                   *)
(*                                                                         *)
(* The states of the core are those of BoothCoreProofs.                    *)
(***************************************************************************)
EXTENDS CallSessions, BoothCoreProofs, SequenceTheorems, WellFoundedInduction

(***************************************************************************)
(*                         The effects of the core                         *)
(***************************************************************************)

\* The effects that drive an answer from the microphone to the uploader.
AnswerWork == {"StartRecording", "StopRecording", "UploadRecording"}
Calm == {x \in Effect : x.fx \notin AnswerWork}

Answering(s) == s.tag = "Recording" \/ Finishes(s)

\* x asks of the recorder and the uploader what y asks of them.
SameWork(x, y) ==
    /\ x \in Seq(Effect)
    /\ \A k \in AnswerWork : Has(x, k) <=> Has(y, k)
    /\ HandedBy(x) = HandedBy(y)

Asks(effects, kinds) ==
    /\ effects \in Seq(Effect)
    /\ \A k \in AnswerWork : Has(effects, k) <=> k \in kinds

\* The ways an answer may go on in a step from s to new on event e.
NoAnswer(s, new, x) ==
    ~Answering(s) /\ ~Answering(new) /\ Asks(x, {}) /\ HandedBy(x) = {}
KeepsAnswer(s, new, e, x) ==
    /\ Answering(s) /\ new.tag = s.tag /\ new.question = s.question
    /\ e.ev \notin {"RecordingFinished", "RecordingFailed"}
    /\ Asks(x, {}) /\ HandedBy(x) = {}
StartsAnswer(s, new, e, x) ==
    /\ s.tag = "Beep" /\ e.ev = "PlaybackEnded"
    /\ new.tag = "Recording" /\ new.question = s.question
    /\ Asks(x, {"StartRecording"}) /\ HandedBy(x) = {}
StopsAnswer(s, new, e, x) ==
    /\ s.tag = "Recording" /\ Finishes(new) /\ new.question = s.question
    /\ e.ev \in {"HookOn", "RecordingTimedOut"}
    /\ Asks(x, {"StopRecording"}) /\ HandedBy(x) = {}
HandsAnswerOver(s, new, e, x) ==
    /\ Answering(s) /\ ~Answering(new) /\ e.ev = "RecordingFinished"
    /\ Asks(x, {"UploadRecording"}) /\ HandedBy(x) = {<<e.recording, s.question>>}
LosesAnswer(s, new, e, x) ==
    /\ Answering(s) /\ ~Answering(new) /\ e.ev = "RecordingFailed"
    /\ Asks(x, {}) /\ HandedBy(x) = {}

Follows(s, e, step) ==
    \/ NoAnswer(s, step.state, step.effects)
    \/ KeepsAnswer(s, step.state, e, step.effects)
    \/ StartsAnswer(s, step.state, e, step.effects)
    \/ StopsAnswer(s, step.state, e, step.effects)
    \/ HandsAnswerOver(s, step.state, e, step.effects)
    \/ LosesAnswer(s, step.state, e, step.effects)

----------------------------------------------------------------------------
(* Effect lists *)

\* A list of other effects asks nothing of the recorder or the uploader.
LEMMA CalmAsks ==
    ASSUME NEW x \in Seq(Calm)
    PROVE  Asks(x, {}) /\ HandedBy(x) = {}
<1>1. \A i \in DOMAIN x : x[i] \in Calm
  OBVIOUS
<1>2. \A k \in AnswerWork : ~Has(x, k)
  BY <1>1 DEF Has, Calm
<1>3. HandedBy(x) = {}
  BY <1>1 DEF HandedBy, Calm, AnswerWork
<1>4. Calm \subseteq Effect
  BY DEF Calm
<1>5. x \in Seq(Effect)
  BY <1>4
<1>6. QED
  BY <1>2, <1>3, <1>5 DEF Asks

LEMMA CalmEffects ==
    /\ StopAudio \in Calm /\ CancelPulseTimeout \in Calm /\ CancelRecordingTimeout \in Calm
    /\ Command("ArmPulseTimeout") \in Calm /\ Command("ArmRecordingTimeout") \in Calm
    /\ Command("FetchRandomQuestion") \in Calm /\ Command("FetchRandomMessage") \in Calm
    /\ Command("FetchInstructions") \in Calm /\ Command("Reboot") \in Calm
    /\ Command("PowerOff") \in Calm /\ NoEffect \in Calm /\ <<>> \in Seq(Calm)
    /\ \A a \in AudioRef : Play(a) \in Calm
    /\ \A b \in BoothStatus : PutStatus(b) \in Calm
    /\ \A l \in Led : SetStatusLed(l) \in Calm
  BY DEF Calm, Effect, Commands, AnswerWork, StopAudio, CancelPulseTimeout,
         CancelRecordingTimeout, NoEffect, Command, Play, PutStatus, SetStatusLed

\* Every piece of answer work in y is also in z.
Within(y, z) ==
    \A i \in DOMAIN y : y[i].fx \in AnswerWork => \E j \in DOMAIN z : z[j] = y[i]

LEMMA WithinWork ==
    ASSUME NEW y, NEW z, Within(y, z)
    PROVE  /\ \A k \in AnswerWork : Has(y, k) => Has(z, k)
           /\ HandedBy(y) \subseteq HandedBy(z)
<1>1. \A k \in AnswerWork : Has(y, k) => Has(z, k)
  BY DEF Has, Within
<1>2. ASSUME NEW h \in HandedBy(y) PROVE h \in HandedBy(z)
  <2>1. PICK i \in DOMAIN y : y[i].fx = "UploadRecording" /\ h = <<y[i].recording, y[i].question>>
    BY <1>2 DEF HandedBy
  <2>2. PICK j \in DOMAIN z : z[j] = y[i]
    BY <2>1 DEF Within, AnswerWork
  <2>3. QED
    BY <2>1, <2>2 DEF HandedBy
<1>3. QED
  BY <1>1, <1>2

LEMMA SameWithin ==
    ASSUME NEW y \in Seq(Effect), NEW z, Within(y, z), Within(z, y)
    PROVE  SameWork(y, z)
<1>1. \A k \in AnswerWork : Has(y, k) <=> Has(z, k)
  BY WithinWork
<1>2. HandedBy(y) = HandedBy(z)
  <2>1. HandedBy(y) \subseteq HandedBy(z)
    BY WithinWork
  <2>2. HandedBy(z) \subseteq HandedBy(y)
    BY WithinWork
  <2>3. QED
    BY <2>1, <2>2
<1>3. QED
  BY <1>1, <1>2 DEF SameWork

\* What goes before and after a list leaves what it asks.
LEMMA Surrounded ==
    ASSUME NEW x \in Seq(Effect), NEW a \in Seq(Calm), NEW b \in Seq(Calm)
    PROVE  SameWork(a \o x, x) /\ SameWork(x \o b, x)
<1>1. a \in Seq(Effect) /\ b \in Seq(Effect)
  BY DEF Calm
<1>2. /\ \A i \in DOMAIN a : a[i].fx \notin AnswerWork
      /\ \A i \in DOMAIN b : b[i].fx \notin AnswerWork
  BY DEF Calm
<1>3. ASSUME NEW y \in Seq(Effect), NEW z \in Seq(Effect)
      PROVE  /\ \A i \in DOMAIN (y \o z) :
                  \/ i \in DOMAIN y /\ (y \o z)[i] = y[i]
                  \/ i - Len(y) \in DOMAIN z /\ (y \o z)[i] = z[i - Len(y)]
             /\ \A i \in DOMAIN y : i \in DOMAIN (y \o z) /\ (y \o z)[i] = y[i]
             /\ \A i \in DOMAIN z : /\ i + Len(y) \in DOMAIN (y \o z)
                                    /\ (y \o z)[i + Len(y)] = z[i]
  OBVIOUS
<1>4. SameWork(a \o x, x)
  <2>1. Within(a \o x, x)
    <3>1. \A i \in DOMAIN (a \o x) : (a \o x)[i].fx \in AnswerWork
             => i - Len(a) \in DOMAIN x /\ (a \o x)[i] = x[i - Len(a)]
      BY <1>1, <1>2, <1>3
    <3>2. QED
      BY <3>1 DEF Within
  <2>2. Within(x, a \o x)
    <3>1. \A i \in DOMAIN x : i + Len(a) \in DOMAIN (a \o x) /\ (a \o x)[i + Len(a)] = x[i]
      BY <1>1, <1>3
    <3>2. QED
      BY <3>1 DEF Within
  <2>3. a \o x \in Seq(Effect)
    BY <1>1
  <2>4. QED
    BY <2>1, <2>2, <2>3, SameWithin
<1>5. SameWork(x \o b, x)
  <2>1. Within(x \o b, x)
    <3>1. \A i \in DOMAIN (x \o b) : (x \o b)[i].fx \in AnswerWork
             => i \in DOMAIN x /\ (x \o b)[i] = x[i]
      BY <1>1, <1>2, <1>3
    <3>2. QED
      BY <3>1 DEF Within
  <2>2. Within(x, x \o b)
    <3>1. \A i \in DOMAIN x : i \in DOMAIN (x \o b) /\ (x \o b)[i] = x[i]
      BY <1>1, <1>3
    <3>2. QED
      BY <3>1 DEF Within
  <2>3. x \o b \in Seq(Effect)
    BY <1>1
  <2>4. QED
    BY <2>1, <2>2, <2>3, SameWithin
<1>6. QED
  BY <1>4, <1>5

LEMMA MutedWork ==
    ASSUME NEW x \in Seq(Effect)
    PROVE  SameWork(Muted(x), x)
<1> DEFINE y == Muted(x)
<1>1. DOMAIN y = DOMAIN x /\ DOMAIN x = 1..Len(x) /\ Len(x) \in Nat
  BY DEF Muted
<1>2. \A i \in DOMAIN x :
         /\ y[i] \in Effect
         /\ y[i].fx \in AnswerWork \/ x[i].fx \in AnswerWork => y[i] = x[i]
  <2> SUFFICES ASSUME NEW i \in DOMAIN x
               PROVE  /\ y[i] \in Effect
                      /\ y[i].fx \in AnswerWork \/ x[i].fx \in AnswerWork => y[i] = x[i]
    OBVIOUS
  <2>1. x[i] \in Effect
    OBVIOUS
  <2>2. y[i] = IF x[i].fx \in {"PutStatus", "Play"} THEN NoEffect ELSE x[i]
    BY DEF Muted
  <2>3. NoEffect \in Effect /\ NoEffect.fx \notin AnswerWork
    BY CalmEffects DEF Calm
  <2>4. QED
    BY <2>1, <2>2, <2>3 DEF AnswerWork
<1>3. y \in Seq(Effect)
  BY <1>1, <1>2, IsASeq DEF Muted
<1> HIDE DEF y
<1>4. Within(y, x) /\ Within(x, y)
  BY <1>1, <1>2 DEF Within
<1>5. QED
  BY <1>3, <1>4, SameWithin DEF y
----------------------------------------------------------------------------
(* handle_inner, part by part *)

\* No answer under way before or after, and nothing asked of its machinery.
LEMMA Elsewhere ==
    ASSUME NEW s, ~Answering(s), NEW new, ~Answering(new), NEW e, NEW x \in Seq(Calm)
    PROVE  Follows(s, e, To(new, x))
  BY CalmAsks DEF Follows, NoAnswer, To

\* An answer under way that the event does not concern.
LEMMA Onward ==
    ASSUME NEW s, Answering(s), NEW new, new.tag = s.tag, new.question = s.question,
           NEW e, e.ev \notin {"RecordingFinished", "RecordingFailed"}, NEW x \in Seq(Calm)
    PROVE  Follows(s, e, To(new, x))
  BY CalmAsks DEF Follows, KeepsAnswer, To

LEMMA PlainElsewhere ==
    ASSUME NEW t, t \notin {"Recording", "FinishingRecording", "FinishingTimedOutRecording"}
    PROVE  ~Answering(Plain(t))
  BY DEF Answering, Finishes, Plain, Variant

\* A list with one piece of answer work in it.
LEMMA OnePiece ==
    ASSUME NEW x \in Seq(Effect), NEW i \in DOMAIN x, x[i].fx \in AnswerWork,
           \A j \in DOMAIN x : j # i => x[j] \in Calm
    PROVE  /\ Asks(x, {x[i].fx})
           /\ HandedBy(x) = IF x[i].fx = "UploadRecording"
                            THEN {<<x[i].recording, x[i].question>>} ELSE {}
<1>1. \A j \in DOMAIN x : j # i => x[j].fx \notin AnswerWork
  BY DEF Calm
<1>2. Asks(x, {x[i].fx})
  BY <1>1 DEF Asks, Has
<1>3. \A j \in DOMAIN x : x[j].fx = "UploadRecording" => j = i
  BY <1>1 DEF AnswerWork
<1>4. CASE x[i].fx = "UploadRecording"
  BY <1>2, <1>3, <1>4 DEF HandedBy
<1>5. CASE x[i].fx # "UploadRecording"
  BY <1>2, <1>3, <1>5 DEF HandedBy
<1>6. QED
  BY <1>4, <1>5

LEMMA StopPiece ==
    /\ StopRecording \in Effect /\ StopRecording.fx = "StopRecording"
    /\ Command("StartRecording") \in Effect /\ Command("StartRecording").fx = "StartRecording"
    /\ Calm \subseteq Effect
  BY DEF StopRecording, Command, Effect, Commands, Calm

LEMMA HangUpFollows ==
    ASSUME NEW s, WellFormed(s), NEW e, e.ev = "HookOn"
    PROVE  Follows(s, e, HangUp(s))
<1>1. CASE s.tag = "Recording"
  <2> DEFINE new == Finishing("FinishingRecording", s.question, TRUE)
             x == <<StopAudio, CancelRecordingTimeout, StopRecording, CancelPulseTimeout,
                    PutStatus("Uploading")>>
  <2>1. HangUp(s) = To(new, x)
    BY <1>1 DEF HangUp
  <2>2. /\ StopAudio \in Calm /\ CancelRecordingTimeout \in Calm /\ CancelPulseTimeout \in Calm
        /\ PutStatus("Uploading") \in Calm
    BY CalmEffects DEF BoothStatus
  <2>3. x \in Seq(Effect) /\ DOMAIN x = 1..5 /\ x[3] = StopRecording
    BY <2>2, StopPiece
  <2>4. \A j \in 1..5 : j # 3 => x[j] \in Calm
    BY <2>2
  <2>5. new.question = s.question /\ Finishes(new)
    BY DEF Finishes, Finishing, Variant
  <2> HIDE DEF new, x
  <2>6. Asks(x, {"StopRecording"}) /\ HandedBy(x) = {}
    <3>1. 3 \in DOMAIN x /\ x[3].fx = "StopRecording"
      BY <2>3, StopPiece
    <3>2. \A j \in DOMAIN x : j # 3 => x[j] \in Calm
      BY <2>3, <2>4
    <3>3. x[3].fx \in AnswerWork
      BY <3>1 DEF AnswerWork
    <3>4. QED
      BY <2>3, <3>1, <3>2, <3>3, OnePiece
  <2>7. QED
    BY <1>1, <2>1, <2>5, <2>6 DEF Follows, StopsAnswer, To
<1>2. CASE Finishes(s)
  <2> DEFINE new == [s EXCEPT !.on_hook = TRUE]
  <2>1. \E x \in Seq(Calm) : HangUp(s) = To(new, x)
    <3>1. /\ <<StopAudio, CancelPulseTimeout>> \in Seq(Calm)
          /\ <<StopAudio, CancelRecordingTimeout, CancelPulseTimeout>> \in Seq(Calm)
      BY CalmEffects
    <3>2. CASE s.tag = "FinishingRecording"
      <4>1. HangUp(s) = To(new, <<StopAudio, CancelPulseTimeout>>)
        BY <3>2 DEF HangUp
      <4>2. QED
        BY <3>1, <4>1
    <3>3. CASE s.tag = "FinishingTimedOutRecording"
      <4>1. HangUp(s) = To(new, <<StopAudio, CancelRecordingTimeout, CancelPulseTimeout>>)
        BY <3>3 DEF HangUp
      <4>2. QED
        BY <3>1, <4>1
    <3>4. QED
      BY <1>2, <3>2, <3>3 DEF Finishes
  <2>2. new.tag = s.tag /\ new.question = s.question
    BY DEF WellFormed, State
  <2>3. QED
    BY <1>2, <2>1, <2>2, Onward DEF Answering
<1>3. CASE ~Answering(s)
  <2> DEFINE x == <<StopAudio, CancelPulseTimeout, CancelRecordingTimeout, PutStatus("Idle")>>
  <2>1. HangUp(s) = To(Plain("Idle"), x)
    BY <1>3 DEF HangUp, Answering, Finishes
  <2>2. x \in Seq(Calm)
    BY CalmEffects DEF BoothStatus
  <2>3. QED
    BY <1>3, <2>1, <2>2, PlainElsewhere, Elsewhere
<1>4. QED
  BY <1>1, <1>2, <1>3 DEF Answering

\* The step that comes back to a tone or a prompt.
LEMMA Prompts ==
    /\ \E x \in Seq(Calm) : ToDialTone = To(Plain("DialTone"), x)
    /\ \E x \in Seq(Calm) : ToIdle = To(Plain("Idle"), x)
    /\ \E x \in Seq(Calm) : ToBusyTone = To(Plain("Error"), x)
    /\ ~Answering(Plain("DialTone")) /\ ~Answering(Plain("Idle")) /\ ~Answering(Plain("Error"))
<1>1. /\ <<Play("DialTone"), PutStatus("DialTone")>> \in Seq(Calm)
      /\ <<PutStatus("Idle")>> \in Seq(Calm)
      /\ <<Play("LineBusy")>> \in Seq(Calm)
  BY CalmEffects DEF BoothStatus, AudioRef
<1>2. QED
  BY <1>1, PlainElsewhere DEF ToDialTone, ToIdle, ToBusyTone

LEMMA DecodeFollows ==
    ASSUME NEW d \in Nat, NEW s, ~Answering(s), NEW e
    PROVE  Follows(s, e, decode_digit(d))
<1>1. /\ <<Command("FetchInstructions"), CancelPulseTimeout>> \in Seq(Calm)
      /\ <<Command("FetchRandomQuestion"), CancelPulseTimeout>> \in Seq(Calm)
      /\ <<Command("FetchRandomMessage"), CancelPulseTimeout>> \in Seq(Calm)
      /\ <<Play("CallUnavailable"), CancelPulseTimeout, PutStatus("CallUnavailable")>> \in Seq(Calm)
  BY CalmEffects DEF BoothStatus, AudioRef
<1>2. CASE d \in 0..2
  <2>1. \/ decode_digit(d) = To(Plain("DialTone"), <<Command("FetchInstructions"), CancelPulseTimeout>>)
        \/ decode_digit(d) = To(Plain("DialTone"), <<Command("FetchRandomQuestion"), CancelPulseTimeout>>)
        \/ decode_digit(d) = To(Plain("DialTone"), <<Command("FetchRandomMessage"), CancelPulseTimeout>>)
    BY <1>2 DEF decode_digit
  <2>2. QED
    BY <1>1, <2>1, PlainElsewhere, Elsewhere
<1>3. CASE d \in 3..9
  <2>1. decode_digit(d) = To(Plain("CallUnavailable"),
             <<Play("CallUnavailable"), CancelPulseTimeout, PutStatus("CallUnavailable")>>)
    BY <1>3 DEF decode_digit
  <2>2. QED
    BY <1>1, <2>1, PlainElsewhere, Elsewhere
<1>4. CASE d > 9
  <2>1. decode_digit(d) = ToBusyTone
    BY <1>4 DEF decode_digit
  <2>2. QED
    BY <2>1, Prompts, Elsewhere
<1>5. QED
  BY <1>2, <1>3, <1>4

LEMMA WhileDialingFollows ==
    ASSUME NEW s, WellFormed(s), s.tag \in {"DialTone", "Dialing"}, NEW e \in Event
    PROVE  Follows(s, e, WhileDialing(s, e))
<1>1. ~Answering(s)
  BY DEF Answering, Finishes
<1>2. CASE e.ev = "DigitDialed"
  <2>1. WhileDialing(s, e) = decode_digit(e.digit) /\ e.digit \in Nat
    BY <1>2, EventTypes DEF WhileDialing
  <2>2. QED
    BY <1>1, <2>1, DecodeFollows
<1>3. CASE e.ev = "Tick" /\ s.tag = "Dialing"
  <2>1. WhileDialing(s, e) = decode_digit(IF s.pulses = 10 THEN 0 ELSE s.pulses)
    BY <1>3 DEF WhileDialing
  <2>2. (IF s.pulses = 10 THEN 0 ELSE s.pulses) \in Nat
    BY <1>3, FieldTypes DEF MAX_PULSES_PER_DIGIT
  <2>3. QED
    BY <1>1, <2>1, <2>2, DecodeFollows
<1>4. CASE e.ev = "RotaryPulse" /\ s.tag = "DialTone"
  <2>1. WhileDialing(s, e) = To(Dialing(1), <<StopAudio, Command("ArmPulseTimeout")>>)
    BY <1>4 DEF WhileDialing
  <2>2. <<StopAudio, Command("ArmPulseTimeout")>> \in Seq(Calm) /\ ~Answering(Dialing(1))
    BY CalmEffects DEF Answering, Finishes, Dialing, Variant
  <2>3. QED
    BY <1>1, <2>1, <2>2, Elsewhere
<1>5. CASE e.ev = "RotaryPulse" /\ s.tag = "Dialing"
  <2>1. \/ WhileDialing(s, e) = To(Plain("DialTone"), <<Play("DialTone"), CancelPulseTimeout>>)
        \/ WhileDialing(s, e) = To(Dialing(s.pulses + 1), <<Command("ArmPulseTimeout")>>)
    BY <1>5 DEF WhileDialing, CountPulse
  <2>2. /\ <<Play("DialTone"), CancelPulseTimeout>> \in Seq(Calm)
        /\ <<Command("ArmPulseTimeout")>> \in Seq(Calm)
    BY CalmEffects DEF AudioRef
  <2>3. ~Answering(Dialing(s.pulses + 1))
    BY DEF Answering, Finishes, Dialing, Variant
  <2>4. QED
    BY <1>1, <2>1, <2>2, <2>3, Prompts, Elsewhere
<1>6. CASE e.ev = "QuestionReady" /\ s.tag = "DialTone"
  <2>1. WhileDialing(s, e) = To(Asking("RingingQuestion", e.question),
                                <<Play("Ringback"), PutStatus("PlayingQuestion")>>)
    BY <1>6 DEF WhileDialing
  <2>2. /\ <<Play("Ringback"), PutStatus("PlayingQuestion")>> \in Seq(Calm)
        /\ ~Answering(Asking("RingingQuestion", e.question))
    BY CalmEffects DEF AudioRef, BoothStatus, Answering, Finishes, Asking, Variant
  <2>3. QED
    BY <1>1, <2>1, <2>2, Elsewhere
<1>7. CASE e.ev \in {"MessageReady", "InstructionsReady"} /\ s.tag = "DialTone"
  <2>1. \/ WhileDialing(s, e) = To(Plain("PlayingMessage"),
                                   <<Play(RemoteAudio), PutStatus("PlayingMessage")>>)
        \/ WhileDialing(s, e) = To(Plain("PlayingInstructions"),
                                   <<Play(RemoteAudio), PutStatus("PlayingInstructions")>>)
    BY <1>7 DEF WhileDialing
  <2>2. /\ <<Play(RemoteAudio), PutStatus("PlayingMessage")>> \in Seq(Calm)
        /\ <<Play(RemoteAudio), PutStatus("PlayingInstructions")>> \in Seq(Calm)
    BY CalmEffects DEF AudioRef, BoothStatus
  <2>3. QED
    BY <1>1, <2>1, <2>2, PlainElsewhere, Elsewhere
<1>8. CASE e.ev \in {"QuestionFailed", "MessageFailed", "InstructionsFailed"} /\ s.tag = "DialTone"
  <2>1. WhileDialing(s, e) = ToBusyTone
    BY <1>8 DEF WhileDialing
  <2>2. QED
    BY <1>1, <2>1, Prompts, Elsewhere
<1>9. CASE \/ e.ev \notin {"DigitDialed", "RotaryPulse", "Tick", "QuestionReady", "MessageReady",
                           "InstructionsReady", "QuestionFailed", "MessageFailed",
                           "InstructionsFailed"}
           \/ s.tag = "Dialing" /\ e.ev \notin {"DigitDialed", "RotaryPulse", "Tick"}
           \/ s.tag = "DialTone" /\ e.ev = "Tick"
  <2>1. WhileDialing(s, e) = To(s, <<>>)
    BY <1>9 DEF WhileDialing
  <2>2. QED
    BY <1>1, <2>1, CalmEffects, Elsewhere
<1>10. QED
  BY <1>2, <1>3, <1>4, <1>5, <1>6, <1>7, <1>8, <1>9

LEMMA WhilePlayingFollows ==
    ASSUME NEW s, WellFormed(s), NEW e,
           s.tag \in {"RingingQuestion", "PlayingQuestion", "Beep", "RecordingEndedBeep",
                      "PlayingMessage", "PlayingInstructions", "CallUnavailable"}
    PROVE  Follows(s, e, WhilePlaying(s, e))
<1>1. ~Answering(s)
  BY DEF Answering, Finishes
<1>2. CASE e.ev # "PlaybackEnded"
  <2>1. WhilePlaying(s, e) = To(s, <<>>)
    BY <1>2 DEF WhilePlaying
  <2>2. QED
    BY <1>1, <2>1, CalmEffects, Elsewhere
<1>3. CASE e.ev = "PlaybackEnded" /\ s.tag \in {"RingingQuestion", "PlayingQuestion"}
  <2>1. \/ WhilePlaying(s, e) = To(Asking("PlayingQuestion", s.question),
                                   <<Play(RemoteAudio), PutStatus("PlayingQuestion")>>)
        \/ WhilePlaying(s, e) = To(Asking("Beep", s.question),
                                   <<Play("Beep"), PutStatus("PlayingQuestion")>>)
    BY <1>3 DEF WhilePlaying
  <2>2. /\ <<Play(RemoteAudio), PutStatus("PlayingQuestion")>> \in Seq(Calm)
        /\ <<Play("Beep"), PutStatus("PlayingQuestion")>> \in Seq(Calm)
        /\ ~Answering(Asking("PlayingQuestion", s.question))
        /\ ~Answering(Asking("Beep", s.question))
    BY CalmEffects DEF AudioRef, BoothStatus, Answering, Finishes, Asking, Variant
  <2>3. QED
    BY <1>1, <2>1, <2>2, Elsewhere
<1>4. CASE e.ev = "PlaybackEnded" /\ s.tag = "Beep"
  <2> DEFINE new == Asking("Recording", s.question)
             x == <<Command("StartRecording"), Command("ArmRecordingTimeout"),
                    PutStatus("Recording")>>
  <2>1. WhilePlaying(s, e) = To(new, x)
    BY <1>4 DEF WhilePlaying
  <2>2. Command("ArmRecordingTimeout") \in Calm /\ PutStatus("Recording") \in Calm
    BY CalmEffects DEF BoothStatus
  <2>3. x \in Seq(Effect) /\ DOMAIN x = 1..3 /\ x[1] = Command("StartRecording")
    BY <2>2, StopPiece
  <2>4. \A j \in 1..3 : j # 1 => x[j] \in Calm
    BY <2>2
  <2>5. new.tag = "Recording" /\ new.question = s.question
    BY DEF Asking, Variant
  <2> HIDE DEF new, x
  <2>6. Asks(x, {"StartRecording"}) /\ HandedBy(x) = {}
    <3>1. 1 \in DOMAIN x /\ x[1].fx = "StartRecording"
      BY <2>3, StopPiece
    <3>2. \A j \in DOMAIN x : j # 1 => x[j] \in Calm
      BY <2>3, <2>4
    <3>3. x[1].fx \in AnswerWork
      BY <3>1 DEF AnswerWork
    <3>4. QED
      BY <2>3, <3>1, <3>2, <3>3, OnePiece
  <2>7. QED
    BY <1>1, <1>4, <2>1, <2>5, <2>6 DEF Follows, StartsAnswer, To
<1>5. CASE e.ev = "PlaybackEnded" /\ s.tag \notin {"RingingQuestion", "PlayingQuestion", "Beep"}
  <2>1. WhilePlaying(s, e) = ToDialTone
    BY <1>5 DEF WhilePlaying
  <2>2. QED
    BY <1>1, <2>1, Prompts, Elsewhere
<1>6. QED
  BY <1>2, <1>3, <1>4, <1>5

LEMMA UploadPiece ==
    ASSUME NEW r \in RecordingId, NEW q \in QuestionId
    PROVE  /\ UploadRecording(r, q) \in Effect /\ UploadRecording(r, q).fx = "UploadRecording"
           /\ UploadRecording(r, q).recording = r /\ UploadRecording(r, q).question = q
  BY DEF UploadRecording, Effect

LEMMA UploadingElsewhere ==
    ASSUME NEW q, NEW r, NEW b
    PROVE  ~Answering(Uploading(q, r, b)) /\ ~Answering(UploadingTimedOut(q, r, b))
  BY DEF Answering, Finishes, Uploading, UploadingTimedOut, Variant

\* EndBeep hands the answer over, after whatever comes before.
LEMMA EndBeepFollows ==
    ASSUME NEW s, Answering(s), s.question \in QuestionId, NEW before \in Seq(Calm),
           NEW e, e.ev = "RecordingFinished", e.recording \in RecordingId
    PROVE  Follows(s, e, EndBeep(s, e.recording, before))
<1> DEFINE new == UploadingTimedOut(s.question, e.recording, TRUE)
           upload == UploadRecording(e.recording, s.question)
           x == <<Play("Beep"), upload, PutStatus("Uploading")>>
<1>1. EndBeep(s, e.recording, before) = To(new, before \o x)
  BY DEF EndBeep
<1>2. /\ upload \in Effect /\ upload.fx = "UploadRecording"
      /\ upload.recording = e.recording /\ upload.question = s.question
  BY UploadPiece
<1>3. Play("Beep") \in Calm /\ PutStatus("Uploading") \in Calm
  BY CalmEffects DEF AudioRef, BoothStatus
<1>4. ~Answering(new)
  BY UploadingElsewhere
<1> HIDE DEF upload, new
<1>5. x \in Seq(Effect) /\ DOMAIN x = 1..3 /\ x[2] = upload
  BY <1>2, <1>3, StopPiece
<1>6. \A j \in 1..3 : j # 2 => x[j] \in Calm
  BY <1>3
<1> HIDE DEF x
<1>7. Asks(x, {"UploadRecording"}) /\ HandedBy(x) = {<<e.recording, s.question>>}
  <2>1. 2 \in DOMAIN x /\ x[2].fx = "UploadRecording"
    BY <1>2, <1>5
  <2>2. \A j \in DOMAIN x : j # 2 => x[j] \in Calm
    BY <1>5, <1>6
  <2>3. x[2].fx \in AnswerWork
    BY <2>1 DEF AnswerWork
  <2>4. Asks(x, {"UploadRecording"}) /\ HandedBy(x) = {<<x[2].recording, x[2].question>>}
    BY <1>5, <2>1, <2>2, <2>3, OnePiece
  <2>5. QED
    BY <1>2, <1>5, <2>4
<1>8. SameWork(before \o x, x)
  BY <1>5, Surrounded
<1>9. Asks(before \o x, {"UploadRecording"}) /\ HandedBy(before \o x) = {<<e.recording, s.question>>}
  BY <1>7, <1>8 DEF SameWork, Asks
<1>10. HandsAnswerOver(s, new, e, before \o x)
  BY <1>4, <1>9 DEF HandsAnswerOver
<1>11. QED
  BY <1>1, <1>10 DEF Follows, To

LEMMA WhileRecordingFollows ==
    ASSUME NEW s, WellFormed(s), s.tag = "Recording", NEW e \in Event
    PROVE  Follows(s, e, WhileRecording(s, e))
<1>1. Answering(s) /\ s.question \in QuestionId
  BY FieldTypes DEF Answering, CarriesQuestion
<1>2. CASE e.ev = "RecordingTimedOut"
  <2> DEFINE new == Finishing("FinishingTimedOutRecording", s.question, FALSE)
             x == <<CancelRecordingTimeout, StopRecording, PutStatus("Uploading")>>
  <2>1. WhileRecording(s, e) = To(new, x)
    BY <1>2 DEF WhileRecording
  <2>2. CancelRecordingTimeout \in Calm /\ PutStatus("Uploading") \in Calm
    BY CalmEffects DEF BoothStatus
  <2>3. x \in Seq(Effect) /\ DOMAIN x = 1..3 /\ x[2] = StopRecording
    BY <2>2, StopPiece
  <2>4. \A j \in 1..3 : j # 2 => x[j] \in Calm
    BY <2>2
  <2>5. new.question = s.question /\ Finishes(new)
    BY DEF Finishes, Finishing, Variant
  <2> HIDE DEF new, x
  <2>6. Asks(x, {"StopRecording"}) /\ HandedBy(x) = {}
    <3>1. 2 \in DOMAIN x /\ x[2].fx = "StopRecording"
      BY <2>3, StopPiece
    <3>2. \A j \in DOMAIN x : j # 2 => x[j] \in Calm
      BY <2>3, <2>4
    <3>3. x[2].fx \in AnswerWork
      BY <3>1 DEF AnswerWork
    <3>4. QED
      BY <2>3, <3>1, <3>2, <3>3, OnePiece
  <2>7. QED
    BY <1>2, <2>1, <2>5, <2>6 DEF Follows, StopsAnswer, To
<1>3. CASE e.ev = "RecordingFinished"
  <2>1. WhileRecording(s, e) = EndBeep(s, e.recording, <<CancelRecordingTimeout>>)
    BY <1>3 DEF WhileRecording
  <2>2. <<CancelRecordingTimeout>> \in Seq(Calm) /\ e.recording \in RecordingId
    BY <1>3, CalmEffects, EventTypes
  <2>3. QED
    BY <1>1, <1>3, <2>1, <2>2, EndBeepFollows
<1>4. CASE e.ev = "RecordingFailed"
  <2> DEFINE x == <<Play("LineBusy"), CancelRecordingTimeout, PutStatus("Idle")>>
  <2>1. WhileRecording(s, e) = To(Plain("Error"), x)
    BY <1>4 DEF WhileRecording
  <2>2. x \in Seq(Calm)
    BY CalmEffects DEF AudioRef, BoothStatus
  <2> HIDE DEF x
  <2>3. QED
    BY <1>1, <1>4, <2>1, <2>2, CalmAsks, Prompts DEF Follows, LosesAnswer, To
<1>5. CASE e.ev \notin {"RecordingTimedOut", "RecordingFinished", "RecordingFailed"}
  <2>1. WhileRecording(s, e) = To(s, <<>>)
    BY <1>5 DEF WhileRecording
  <2>2. QED
    BY <1>1, <1>5, <2>1, CalmEffects, Onward
<1>6. QED
  BY <1>2, <1>3, <1>4, <1>5

LEMMA WhileFinishingFollows ==
    ASSUME NEW s, WellFormed(s), Finishes(s), NEW e \in Event
    PROVE  Follows(s, e, WhileFinishing(s, e))
<1>1. Answering(s) /\ s.question \in QuestionId
  BY FieldTypes DEF Answering, Finishes, CarriesQuestion
<1>2. CASE e.ev = "HookOff"
  <2> DEFINE new == [s EXCEPT !.on_hook = FALSE]
  <2>1. WhileFinishing(s, e) = To(new, <<>>)
    BY <1>2 DEF WhileFinishing
  <2>2. new.tag = s.tag /\ new.question = s.question
    BY DEF WellFormed, State
  <2>3. QED
    BY <1>1, <1>2, <2>1, <2>2, CalmEffects, Onward
<1>3. CASE e.ev = "RecordingFinished"
  <2>1. e.recording \in RecordingId
    BY <1>3, EventTypes
  <2>2. CASE s.tag = "FinishingTimedOutRecording" /\ ~s.on_hook
    <3>1. WhileFinishing(s, e) = EndBeep(s, e.recording, <<>>)
      BY <1>3, <2>2 DEF WhileFinishing
    <3>2. QED
      BY <1>1, <1>3, <2>1, <3>1, CalmEffects, EndBeepFollows
  <2>3. CASE ~(s.tag = "FinishingTimedOutRecording" /\ ~s.on_hook)
    <3> DEFINE new == Uploading(s.question, e.recording, s.on_hook)
               x == <<UploadRecording(e.recording, s.question), PutStatus("Uploading")>>
    <3>1. WhileFinishing(s, e) = To(new, x)
      BY <1>3, <2>3 DEF WhileFinishing
    <3>2. PutStatus("Uploading") \in Calm
      BY CalmEffects DEF BoothStatus
    <3>3. /\ x \in Seq(Effect) /\ DOMAIN x = 1..2
          /\ x[1] = UploadRecording(e.recording, s.question) /\ x[2] = PutStatus("Uploading")
      BY <1>1, <2>1, <3>2, UploadPiece, StopPiece
    <3>4. ~Answering(new)
      BY UploadingElsewhere
    <3> HIDE DEF new, x
    <3>5. Asks(x, {"UploadRecording"}) /\ HandedBy(x) = {<<e.recording, s.question>>}
      <4>1. 1 \in DOMAIN x /\ x[1].fx = "UploadRecording"
        BY <1>1, <2>1, <3>3, UploadPiece
      <4>2. \A j \in DOMAIN x : j # 1 => x[j] \in Calm
        BY <3>2, <3>3
      <4>3. x[1].fx \in AnswerWork
        BY <4>1 DEF AnswerWork
      <4>4. Asks(x, {"UploadRecording"}) /\ HandedBy(x) = {<<x[1].recording, x[1].question>>}
        BY <3>3, <4>1, <4>2, <4>3, OnePiece
      <4>5. QED
        BY <1>1, <2>1, <3>3, <4>4, UploadPiece
    <3>6. QED
      BY <1>1, <1>3, <3>1, <3>4, <3>5 DEF Follows, HandsAnswerOver, To
  <2>4. QED
    BY <2>2, <2>3
<1>4. CASE e.ev = "RecordingFailed"
  <2>1. <<StopAudio, PutStatus("Idle")>> \in Seq(Calm)
    BY CalmEffects DEF BoothStatus
  <2>2. WhileFinishing(s, e) = IF s.on_hook THEN To(Plain("Idle"), <<StopAudio, PutStatus("Idle")>>)
                               ELSE ToDialTone
    BY <1>4 DEF WhileFinishing
  <2>3. \E x \in Seq(Calm), t \in {"Idle", "DialTone"} : WhileFinishing(s, e) = To(Plain(t), x)
    BY <2>1, <2>2, Prompts
  <2>4. QED
    BY <1>1, <1>4, <2>3, CalmAsks, Prompts DEF Follows, LosesAnswer, To
<1>5. CASE e.ev \notin {"HookOff", "RecordingFinished", "RecordingFailed"}
  <2>1. WhileFinishing(s, e) = To(s, <<>>)
    BY <1>5 DEF WhileFinishing
  <2>2. QED
    BY <1>1, <1>5, <2>1, CalmEffects, Onward
<1>6. QED
  BY <1>2, <1>3, <1>4, <1>5

LEMMA WhileUploadingFollows ==
    ASSUME NEW s, WellFormed(s), s.tag = "Uploading", NEW e
    PROVE  Follows(s, e, WhileUploading(s, e))
<1>1. ~Answering(s)
  BY DEF Answering, Finishes
<1>2. CASE e.ev = "HookOff"
  <2>1. WhileUploading(s, e) = To([s EXCEPT !.on_hook = FALSE], <<>>)
    BY <1>2 DEF WhileUploading
  <2>2. [s EXCEPT !.on_hook = FALSE].tag = s.tag
    BY DEF WellFormed, State
  <2>3. QED
    BY <1>1, <2>1, <2>2, CalmEffects, Elsewhere DEF Answering, Finishes
<1>3. CASE e.ev \in {"UploadComplete", "UploadDeferred", "UploadFailed"}
  <2>1. WhileUploading(s, e) \in {ToIdle, ToDialTone, ToBusyTone}
    BY <1>3 DEF WhileUploading
  <2>2. QED
    BY <1>1, <2>1, Prompts, Elsewhere
<1>4. CASE e.ev \notin {"HookOff", "UploadComplete", "UploadDeferred", "UploadFailed"}
  <2>1. WhileUploading(s, e) = To(s, <<>>)
    BY <1>4 DEF WhileUploading
  <2>2. QED
    BY <1>1, <2>1, CalmEffects, Elsewhere
<1>5. QED
  BY <1>2, <1>3, <1>4

LEMMA WhileUploadingTimedOutFollows ==
    ASSUME NEW s, WellFormed(s), s.tag = "UploadingTimedOut", NEW e
    PROVE  Follows(s, e, WhileUploadingTimedOut(s, e))
<1>1. ~Answering(s)
  BY DEF Answering, Finishes
<1>2. CASE e.ev = "PlaybackEnded"
  <2>1. WhileUploadingTimedOut(s, e) = To([s EXCEPT !.beep_pending = FALSE], <<>>)
    BY <1>2 DEF WhileUploadingTimedOut
  <2>2. [s EXCEPT !.beep_pending = FALSE].tag = s.tag
    BY DEF WellFormed, State
  <2>3. QED
    BY <1>1, <2>1, <2>2, CalmEffects, Elsewhere DEF Answering, Finishes
<1>3. CASE e.ev \in {"UploadComplete", "UploadDeferred", "UploadFailed"}
  <2>1. WhileUploadingTimedOut(s, e) \in {To(Plain("RecordingEndedBeep"), <<>>), ToDialTone, ToBusyTone}
    BY <1>3 DEF WhileUploadingTimedOut
  <2>2. QED
    BY <1>1, <2>1, CalmEffects, PlainElsewhere, Prompts, Elsewhere
<1>4. CASE e.ev \notin {"PlaybackEnded", "UploadComplete", "UploadDeferred", "UploadFailed"}
  <2>1. WhileUploadingTimedOut(s, e) = To(s, <<>>)
    BY <1>4 DEF WhileUploadingTimedOut
  <2>2. QED
    BY <1>1, <2>1, CalmEffects, Elsewhere
<1>5. QED
  BY <1>2, <1>3, <1>4

LEMMA InnerFollows ==
    ASSUME NEW s, WellFormed(s), NEW e \in Event
    PROVE  Follows(s, e, handle_inner(s, e))
<1> DEFINE step == handle_inner(s, e)
<1>1. CASE e.ev = "HookOn"
  <2>1. step = HangUp(s)
    BY <1>1 DEF handle_inner
  <2>2. QED
    BY <1>1, <2>1, HangUpFollows
<1>2. CASE e.ev \in {"PowerButtonPressed", "PowerButtonHeld"}
  <2>1. /\ <<Command("Reboot")>> \in Seq(Calm)
        /\ <<Command("PowerOff")>> \in Seq(Calm)
    BY CalmEffects
  <2>2. step \in {To(s, <<Command("Reboot")>>), To(s, <<Command("PowerOff")>>)}
    BY <1>2 DEF handle_inner
  <2>3. QED
    BY <1>2, <2>1, <2>2, Elsewhere, Onward
<1>3. CASE e.ev \notin {"HookOn", "PowerButtonPressed", "PowerButtonHeld"}
  <2>0. s.tag \in Tags
    BY FieldTypes
  <2>1. CASE s.tag = "Idle"
    <3>1. step = (IF e.ev = "HookOff" THEN ToDialTone ELSE To(s, <<>>))
      BY <1>3, <2>1 DEF handle_inner
    <3>2. ~Answering(s)
      BY <2>1 DEF Answering, Finishes
    <3>3. QED
      BY <3>1, <3>2, CalmEffects, Prompts, Elsewhere
  <2>2. CASE s.tag \in {"DialTone", "Dialing"}
    <3>1. step = WhileDialing(s, e)
      BY <1>3, <2>2 DEF handle_inner
    <3>2. QED
      BY <2>2, <3>1, WhileDialingFollows
  <2>3. CASE s.tag \in {"RingingQuestion", "PlayingQuestion", "Beep", "RecordingEndedBeep",
                        "PlayingMessage", "PlayingInstructions", "CallUnavailable"}
    <3>1. step = WhilePlaying(s, e)
      BY <1>3, <2>3 DEF handle_inner
    <3>2. QED
      BY <2>3, <3>1, WhilePlayingFollows
  <2>4. CASE s.tag = "Recording"
    <3>1. step = WhileRecording(s, e)
      BY <1>3, <2>4 DEF handle_inner
    <3>2. QED
      BY <2>4, <3>1, WhileRecordingFollows
  <2>5. CASE Finishes(s)
    <3>1. step = WhileFinishing(s, e)
      BY <1>3, <2>5 DEF handle_inner, Finishes
    <3>2. QED
      BY <2>5, <3>1, WhileFinishingFollows
  <2>6. CASE s.tag = "Uploading"
    <3>1. step = WhileUploading(s, e)
      BY <1>3, <2>6 DEF handle_inner
    <3>2. QED
      BY <2>6, <3>1, WhileUploadingFollows
  <2>7. CASE s.tag = "UploadingTimedOut"
    <3>1. step = WhileUploadingTimedOut(s, e)
      BY <1>3, <2>7 DEF handle_inner
    <3>2. QED
      BY <2>7, <3>1, WhileUploadingTimedOutFollows
  <2>8. CASE s.tag \in {"Error", "CallsPaused"}
    <3>1. step = To(s, <<>>)
      BY <1>3, <2>8 DEF handle_inner
    <3>2. ~Answering(s)
      BY <2>8 DEF Answering, Finishes
    <3>3. QED
      BY <3>1, <3>2, CalmEffects, Elsewhere
  <2>9. QED
    BY <2>0, <2>1, <2>2, <2>3, <2>4, <2>5, <2>6, <2>7, <2>8 DEF Tags, Finishes
<1>4. QED
  BY <1>1, <1>2, <1>3

----------------------------------------------------------------------------
(* Call admission and the ring *)

\* Only the variant and the question of the states matter, and of a state
\* without an answer under way not even those.
LikeBefore(t, s) == t.tag = s.tag /\ t.question = s.question
LikeAfter(t, s) == LikeBefore(t, s) \/ (~Answering(t) /\ ~Answering(s))

\* A step that asks the same of the recorder and the uploader.
LEMMA Alike ==
    ASSUME NEW s, NEW e, NEW y, Follows(s, e, y),
           NEW t, LikeBefore(t, s), NEW new, LikeAfter(new, y.state),
           NEW x, SameWork(x, y.effects)
    PROVE  Follows(t, e, To(new, x))
<1> DEFINE z == To(new, x)
<1>1. z.state = new /\ z.effects = x
  BY DEF To
<1>2. \A kinds : Asks(y.effects, kinds) => Asks(x, kinds)
  BY DEF SameWork, Asks
<1>3. HandedBy(x) = HandedBy(y.effects)
  BY DEF SameWork
<1>4. /\ Answering(t) <=> Answering(s)
      /\ Finishes(t) <=> Finishes(s)
      /\ Answering(new) <=> Answering(y.state)
      /\ Answering(new) => LikeBefore(new, y.state)
  BY DEF LikeBefore, LikeAfter, Answering, Finishes
<1> HIDE DEF z
<1>5. CASE NoAnswer(s, y.state, y.effects)
  BY <1>1, <1>2, <1>3, <1>4, <1>5 DEF Follows, NoAnswer, z
<1>6. CASE KeepsAnswer(s, y.state, e, y.effects)
  <2>1. Answering(y.state)
    BY <1>6 DEF KeepsAnswer, Answering, Finishes
  <2>2. KeepsAnswer(t, new, e, x)
    BY <1>2, <1>3, <1>4, <1>6, <2>1 DEF KeepsAnswer, LikeBefore
  <2>3. QED
    BY <1>1, <2>2 DEF Follows, z
<1>7. CASE StartsAnswer(s, y.state, e, y.effects)
  <2>1. Answering(y.state)
    BY <1>7 DEF StartsAnswer, Answering
  <2>2. StartsAnswer(t, new, e, x)
    BY <1>2, <1>3, <1>4, <1>7, <2>1 DEF StartsAnswer, LikeBefore
  <2>3. QED
    BY <1>1, <2>2 DEF Follows, z
<1>8. CASE StopsAnswer(s, y.state, e, y.effects)
  <2>1. Answering(y.state)
    BY <1>8 DEF StopsAnswer, Answering
  <2>2. StopsAnswer(t, new, e, x)
    BY <1>2, <1>3, <1>4, <1>8, <2>1 DEF StopsAnswer, LikeBefore, Finishes
  <2>3. QED
    BY <1>1, <2>2 DEF Follows, z
<1>9. CASE HandsAnswerOver(s, y.state, e, y.effects)
  <2>1. HandsAnswerOver(t, new, e, x)
    BY <1>2, <1>3, <1>4, <1>9 DEF HandsAnswerOver, LikeBefore
  <2>2. QED
    BY <1>1, <2>1 DEF Follows, z
<1>10. CASE LosesAnswer(s, y.state, e, y.effects)
  BY <1>1, <1>2, <1>3, <1>4, <1>10 DEF Follows, LosesAnswer, z
<1>11. QED
  BY <1>5, <1>6, <1>7, <1>8, <1>9, <1>10 DEF Follows

LEMMA FollowsTyped ==
    ASSUME NEW s, NEW e, NEW y, Follows(s, e, y)
    PROVE  y.effects \in Seq(Effect)
  BY DEF Follows, NoAnswer, KeepsAnswer, StartsAnswer, StopsAnswer, HandsAnswerOver, LosesAnswer,
         Asks

LEMMA ResumeFollows ==
    ASSUME NEW s, WellFormed(s), s.tag = "CallsPaused", NEW e \in Event
    PROVE  Follows(s, e, Resume(s, e))
<1>1. ~Answering(s)
  BY DEF Answering, Finishes
<1>2. CASE HookAfter(s, e) \/ e.ev \notin {"RotaryPulse", "DigitDialed"}
  <2>1. Resume(s, e) \in {ToIdle, ToDialTone}
    BY <1>2 DEF Resume
  <2>2. QED
    BY <1>1, <2>1, Prompts, Elsewhere
<1>3. CASE ~HookAfter(s, e) /\ e.ev \in {"RotaryPulse", "DigitDialed"}
  <2> DEFINE d == handle_inner(Plain("DialTone"), e)
  <2>1. ToDialTone.state = Plain("DialTone") /\ ToDialTone.effects \in Seq(Calm)
    BY Prompts DEF To
  <2>2. Resume(s, e) = To(d.state, ToDialTone.effects \o d.effects)
    BY <1>3 DEF Resume, Then
  <2>3. WellFormed(Plain("DialTone"))
    BY PlainWellFormed DEF Tags, CarriesQuestion
  <2>4. Follows(Plain("DialTone"), e, d)
    BY <2>1, <2>3, InnerFollows
  <2>5. Follows(Plain("DialTone"), e, To(d.state, ToDialTone.effects \o d.effects))
    <3>1. SameWork(ToDialTone.effects \o d.effects, d.effects)
      BY <2>1, <2>4, FollowsTyped, Surrounded
    <3>2. QED
      BY <2>4, <3>1, Alike DEF LikeBefore, LikeAfter
  <2> DEFINE step == To(d.state, ToDialTone.effects \o d.effects)
  <2> HIDE DEF step
  <2>6. d = WhileDialing(Plain("DialTone"), e) /\ Plain("DialTone").tag = "DialTone"
    BY <1>3, <2>1 DEF handle_inner, Plain, Variant
  <2>7. e.ev # "PlaybackEnded"
    BY <1>3
  <2>8. NoAnswer(s, step.state, step.effects)
    BY <1>1, <2>5, <2>7, Prompts DEF Follows, step, NoAnswer, KeepsAnswer, StartsAnswer, StopsAnswer,
       HandsAnswerOver, LosesAnswer, Answering
  <2>9. QED
    BY <2>2, <2>8 DEF Follows, step
<1>4. QED
  BY <1>2, <1>3

LEMMA PausedFollows ==
    ASSUME NEW s, WellFormed(s), NEW e \in Event
    PROVE  Follows(s, e, Paused(s, e))
<1> DEFINE paused == CallsPaused(HookAfter(s, e))
<1>1. ~Answering(paused) /\ Silence \in Seq(Calm)
  BY CalmEffects DEF Answering, Finishes, CallsPaused, Variant, Silence
<1>2. CASE ~Protected(s)
  <2>1. \/ Paused(s, e) = To(paused, <<>>)
        \/ Paused(s, e) = To(paused, Silence)
    BY <1>2 DEF Paused
  <2>2. ~Answering(s)
    BY <1>2 DEF Protected, Answering, Finishes
  <2> HIDE DEF paused
  <2>3. QED
    BY <1>1, <2>1, <2>2, CalmEffects, Elsewhere
<1>3. CASE Protected(s)
  <2> DEFINE inner == handle_inner(WithoutBeep(s), e)
             beepCut == WithoutBeep(s) # s \/ WithoutBeep(inner.state) # inner.state
             effects == (IF beepCut THEN <<StopAudio>> ELSE <<>>) \o Muted(inner.effects)
  <2>1. Paused(s, e) = IF Protected(inner.state) THEN To(WithoutBeep(inner.state), effects)
                       ELSE To(paused, effects \o Silence)
    BY <1>3 DEF Paused, Quietly
  <2>2. Follows(WithoutBeep(s), e, inner)
    BY BeepSet, InnerFollows
  <2>3. inner.effects \in Seq(Effect)
    BY <2>2, FollowsTyped
  <2>4. (IF beepCut THEN <<StopAudio>> ELSE <<>>) \in Seq(Calm)
    BY CalmEffects
  <2>5. SameWork(Muted(inner.effects), inner.effects)
    BY <2>3, MutedWork
  <2> HIDE DEF inner, beepCut
  <2>6. SameWork(effects, Muted(inner.effects))
    BY <2>4, <2>5, Surrounded DEF SameWork
  <2>7. SameWork(effects, inner.effects)
    BY <2>5, <2>6 DEF SameWork
  <2> HIDE DEF effects
  <2>8. SameWork(effects \o Silence, effects)
    BY <1>1, <2>7, Surrounded DEF SameWork
  <2>9. SameWork(effects \o Silence, inner.effects)
    BY <2>7, <2>8 DEF SameWork
  <2>10. LikeBefore(s, WithoutBeep(s)) /\ LikeBefore(WithoutBeep(inner.state), inner.state)
    <3>1. WellFormed(s) /\ WellFormed(inner.state)
      <4>1. WithoutBeep(s).tag # "CallsPaused" /\ WellFormed(WithoutBeep(s))
        BY <1>3, BeepSet DEF Protected
      <4>2. QED
        BY <4>1, InnerSound DEF Sound, inner
    <3>2. \A t : WellFormed(t) => LikeBefore(t, WithoutBeep(t)) /\ LikeBefore(WithoutBeep(t), t)
      BY DEF LikeBefore, WithoutBeep, WellFormed, State
    <3>3. QED
      BY <3>1, <3>2
  <2>11. CASE Protected(inner.state)
    <3>1. Paused(s, e) = To(WithoutBeep(inner.state), effects)
      BY <2>1, <2>11 DEF effects, inner, beepCut
    <3>2. QED
      BY <2>2, <2>7, <2>10, <3>1, Alike DEF LikeAfter
  <2>12. CASE ~Protected(inner.state)
    <3>1. Paused(s, e) = To(paused, effects \o Silence)
      BY <2>1, <2>12 DEF effects, inner, beepCut
    <3>2. LikeAfter(paused, inner.state)
      BY <1>1, <2>12 DEF LikeAfter, Protected, Answering, Finishes
    <3> HIDE DEF paused
    <3>3. QED
      BY <2>2, <2>9, <2>10, <3>1, <3>2, Alike
  <2>13. QED
    BY <2>11, <2>12
<1>4. QED
  BY <1>2, <1>3

LEMMA LedTyped ==
    ASSUME NEW s, WellFormed(s)
    PROVE  status_led_for(s) \in Led
<1>1. s.tag \in Tags /\ s.beep_pending \in BOOLEAN
  BY FieldTypes
<1>2. QED
  BY <1>1 DEF status_led_for, Led, Tags

\* The answer protocol of the whole core: whatever the state, the event and the
\* admission decision, an answer is started once, after the beep; stopped once,
\* by the handset or the time limit; and handed over once, when the recorder has
\* finished it, with the question it answers; nothing else touches it.
THEOREM CoreStepFollows ==
    ASSUME NEW s, WellFormed(s), NEW e \in Event, NEW accepting_calls \in BOOLEAN
    PROVE  Follows(s, e, handle_with_call_availability(s, e, accepting_calls))
<1> DEFINE whole == handle_with_call_availability(s, e, accepting_calls)
           step == handle_available(s, e, accepting_calls)
           event == IF e.ev = "UploadFinished" THEN Signal(e.outcome) ELSE e
           led == status_led_for(step.state)
<1>1. event \in Event
  <2>1. CASE e.ev = "UploadFinished"
    <3>1. e.outcome \in Outcome
      BY <2>1, EventTypes
    <3>2. QED
      BY <2>1, <3>1 DEF Signal, Event, Signals
  <2>2. QED
    BY <2>1
<1>2. Follows(s, e, step)
  <2>1. CASE Stale(s, e)
    <3>1. step = To(s, <<>>) /\ e.ev = "UploadFinished"
      BY <2>1 DEF handle_available, Stale
    <3>2. QED
      BY <3>1, CalmEffects, Elsewhere, Onward
  <2>2. CASE e.ev \in {"PowerButtonPressed", "PowerButtonHeld"}
    <3>1. step = handle_inner(s, e)
      BY <2>2 DEF handle_available, Stale
    <3>2. QED
      BY <3>1, InnerFollows
  <2>3. CASE ~Stale(s, e) /\ e.ev \notin {"PowerButtonPressed", "PowerButtonHeld"}
    <3>1. step = (IF ~accepting_calls THEN Paused(s, event)
                  ELSE IF s.tag = "CallsPaused" THEN Resume(s, event)
                  ELSE handle_inner(s, event))
      BY <2>3 DEF handle_available
    <3> HIDE DEF step
    <3>2. Follows(s, event, step)
      <4> HIDE DEF event
      <4>1. QED
        BY <1>1, <3>1, PausedFollows, ResumeFollows, InnerFollows
    <3>3. CASE e.ev # "UploadFinished"
      BY <3>2, <3>3
    <3>4. CASE e.ev = "UploadFinished"
      <4>1. s.tag \in {"Uploading", "UploadingTimedOut"}
        BY <2>3, <3>4 DEF Stale
      <4>2. ~Answering(s)
        BY <4>1 DEF Answering, Finishes
      <4>3. event.ev # "PlaybackEnded"
        BY <3>4, EventTypes DEF Signal, Outcome
      <4> HIDE DEF event
      <4>4. NoAnswer(s, step.state, step.effects)
        BY <3>2, <4>2, <4>3 DEF Follows, KeepsAnswer, StartsAnswer, StopsAnswer, HandsAnswerOver,
           LosesAnswer, Answering
      <4>5. QED
        BY <4>4 DEF Follows
    <3>5. QED
      BY <3>3, <3>4
  <2>4. QED
    BY <2>1, <2>2, <2>3
<1>3. whole = IF led = status_led_for(s) THEN step
              ELSE To(step.state, <<SetStatusLed(led)>> \o step.effects)
  BY DEF handle_with_call_availability, LedFirst
<1>4. led \in Led
  <2>1. whole.state = step.state
    BY <1>3 DEF To
  <2>2. WellFormed(whole.state)
    BY CoreStepSound DEF Sound
  <2> HIDE DEF whole, step
  <2>3. QED
    BY <2>1, <2>2, LedTyped
<1> HIDE DEF whole, step, led
<1>5. SameWork(<<SetStatusLed(led)>> \o step.effects, step.effects)
  <2>1. <<SetStatusLed(led)>> \in Seq(Calm)
    BY <1>4, CalmEffects
  <2>2. step.effects \in Seq(Effect)
    BY <1>2, FollowsTyped
  <2>3. QED
    BY <2>1, <2>2, Surrounded
<1>6. Follows(s, e, To(step.state, <<SetStatusLed(led)>> \o step.effects))
  BY <1>2, <1>5, Alike DEF LikeBefore, LikeAfter
<1>7. QED
  BY <1>2, <1>3, <1>6 DEF whole

(***************************************************************************)
(*                                The booth                                *)
(***************************************************************************)

\* The recorder is where the core believes it is: on while it records, stopping
\* or already failed while it finishes, and off, with at most the replies of one
\* failed answer owed, everywhere else.
RecorderTracked(s, d) ==
    /\ d.failures \in 0..2
    /\ d.mic = "On" => s.tag = "Recording" /\ d.failures = 0 /\ d.asked = s.question
    /\ d.mic = "Stopping" => Finishes(s) /\ d.failures = 0 /\ d.asked = s.question
    /\ s.tag = "Recording" => d.mic = "On" \/ d.failures = 1
    /\ Finishes(s) => d.mic = "Stopping" \/ d.failures \in 1..2

\* The inductive invariant.
Inv ==
    /\ TypeOK
    /\ HookIsKnown
    /\ RecorderTracked(core, device)
    /\ EveryAnswerHandedOver

----------------------------------------------------------------------------
(* Carrying out effects *)

LEMMA Greatest ==
    ASSUME NEW n \in Nat, NEW T \in SUBSET (1..n), T # {}
    PROVE  \E i \in T : \A j \in T : j <= i
<1> DEFINE D == {n - i : i \in T}
<1>1. D \subseteq Nat /\ D # {}
  <2>1. \A i \in T : n - i \in Nat
    OBVIOUS
  <2>2. QED
    BY <2>1
<1> DEFINE R == OpToRel(<, Nat)
<1>2. \E x \in D : \A y \in D : <<y, x>> \notin R
  <2>1. IsWellFoundedOn(R, Nat)
    BY NatLessThanWellFounded
  <2> HIDE DEF R, D
  <2>2. QED
    BY <1>1, <2>1, WFMin
<1>3. PICK x \in D : \A y \in D : <<y, x>> \notin R
  BY <1>2
<1>4. \A y \in D : ~ (y < x)
  <2>1. \A a, b \in Nat : a < b => <<a, b>> \in R
    BY DEF OpToRel
  <2> HIDE DEF R, D
  <2>2. QED
    BY <1>1, <1>3, <2>1
<1>5. PICK i \in T : x = n - i
  BY <1>3
<1>6. \A j \in T : j <= i
  <2> SUFFICES ASSUME NEW j \in T PROVE j <= i
    OBVIOUS
  <2>1. n - j \in D
    OBVIOUS
  <2>2. ~ (n - j < n - i)
    BY <1>4, <1>5, <2>1
  <2>3. QED
    BY <2>2
<1>7. QED
  BY <1>6

LEMMA LastOfType ==
    ASSUME NEW x \in Seq(Effect), NEW kinds
    PROVE  \/ LastOf(x, kinds) = NoEffect
           \/ LastOf(x, kinds) \in Effect /\ LastOf(x, kinds).fx \in kinds
<1> DEFINE places == {i \in DOMAIN x : x[i].fx \in kinds}
<1>1. CASE places = {}
  BY <1>1 DEF LastOf
<1>2. CASE places # {}
  <2> DEFINE last == CHOOSE i \in places : \A j \in places : j <= i
  <2>1. DOMAIN x = 1..Len(x) /\ Len(x) \in Nat
    OBVIOUS
  <2>2. places \in SUBSET (1..Len(x))
    BY <2>1
  <2>3. \E i \in places : \A j \in places : j <= i
    <3> HIDE DEF places
    <3>1. QED
      BY <1>2, <2>1, <2>2, Greatest
  <2>4. last \in places
    BY <2>3
  <2>5. LastOf(x, kinds) = x[last]
    BY <1>2 DEF LastOf
  <2>6. x[last] \in Effect /\ x[last].fx \in kinds
    BY <2>4
  <2>7. QED
    BY <2>5, <2>6
<1>3. QED
  BY <1>1, <1>2

LEMMA AudioAfterType ==
    ASSUME NEW x \in Seq(Effect), NEW a \in Clips \cup Tones \cup {"Silent", "Failed"}
    PROVE  AudioAfter(x, a) \in Clips \cup Tones \cup {"Silent", "Failed"}
<1> DEFINE last == LastOf(x, {"Play", "StopAudio"})
<1>1. last.fx = "Play" => last.audio \in Clips \cup Tones
  <2>1. last = NoEffect \/ last \in Effect
    BY LastOfType
  <2> HIDE DEF last
  <2>2. last.fx = "Play" => last.audio \in AudioRef
    BY <2>1 DEF NoEffect, Command, Effect, Commands
  <2>3. QED
    BY <2>2 DEF AudioRef, Clips, Tones
<1> HIDE DEF last
<1>2. AudioAfter(x, a) = CASE last.fx = "Play" -> last.audio
                           [] last.fx = "StopAudio" -> "Silent"
                           [] OTHER -> a
  BY DEF AudioAfter, last
<1>3. QED
  BY <1>1, <1>2

LEMMA StatusType ==
    ASSUME NEW x \in Seq(Effect)
    PROVE  \/ LastOf(x, {"PutStatus"}) = NoEffect
           \/ LastOf(x, {"PutStatus"}).status \in BoothStatus
  BY LastOfType DEF Effect, Commands

\* The recorder after a step, and nothing of it but what the step asked for.
LEMMA MicAfterStep ==
    ASSUME NEW x \in Seq(Effect), NEW q \in QuestionId \cup {None}, NEW d \in Device,
           NEW m \in DeviceAfter(x, q, d)
    PROVE  /\ m.audio \in Clips \cup Tones \cup {"Silent", "Failed"}
           /\ m.armed \subseteq Timers
           /\ Has(x, "StartRecording")
                => \/ m.mic = "On" /\ m.asked = q /\ m.failures = d.failures
                   \/ m.mic = d.mic /\ m.asked = d.asked /\ m.failures = d.failures + 1
           /\ ~Has(x, "StartRecording") /\ Has(x, "StopRecording")
                => \/ /\ d.mic = "On" /\ m.mic = "Stopping"
                      /\ m.asked = d.asked /\ m.failures = d.failures
                   \/ /\ d.mic # "On" /\ m.mic = d.mic
                      /\ m.asked = d.asked /\ m.failures = d.failures + 1
           /\ ~Has(x, "StartRecording") /\ ~Has(x, "StopRecording")
                => m.mic = d.mic /\ m.asked = d.asked /\ m.failures = d.failures
           /\ m = [audio |-> m.audio, mic |-> m.mic, asked |-> m.asked,
                   failures |-> m.failures, armed |-> m.armed]
<1>1. PICK n \in MicAfter(x, q, d) :
         m = [n EXCEPT !.audio = AudioAfter(x, d.audio), !.armed = ArmedAfter(x, d.armed)]
  BY DEF DeviceAfter
<1>2. /\ d = [audio |-> d.audio, mic |-> d.mic, asked |-> d.asked,
              failures |-> d.failures, armed |-> d.armed]
      /\ d.audio \in Clips \cup Tones \cup {"Silent", "Failed"}
  BY DEF Device
<1>3. \E mic, asked, failures :
         n = [audio |-> d.audio, mic |-> mic, asked |-> asked,
              failures |-> failures, armed |-> d.armed]
  BY <1>2 DEF MicAfter
<1>4. /\ m = [audio |-> AudioAfter(x, d.audio), mic |-> n.mic, asked |-> n.asked,
              failures |-> n.failures, armed |-> ArmedAfter(x, d.armed)]
  BY <1>1, <1>3
<1>5. AudioAfter(x, d.audio) \in Clips \cup Tones \cup {"Silent", "Failed"}
  BY <1>2, AudioAfterType
<1>6. ArmedAfter(x, d.armed) \subseteq Timers
  BY DEF ArmedAfter
<1>7. Has(x, "StartRecording")
         => \/ n.mic = "On" /\ n.asked = q /\ n.failures = d.failures
            \/ n.mic = d.mic /\ n.asked = d.asked /\ n.failures = d.failures + 1
  BY <1>2 DEF MicAfter
<1>8. ~Has(x, "StartRecording") /\ Has(x, "StopRecording")
         => \/ d.mic = "On" /\ n.mic = "Stopping" /\ n.asked = d.asked /\ n.failures = d.failures
            \/ d.mic # "On" /\ n.mic = d.mic /\ n.asked = d.asked /\ n.failures = d.failures + 1
  BY <1>2 DEF MicAfter
<1>9. ~Has(x, "StartRecording") /\ ~Has(x, "StopRecording") => n = d
  BY DEF MicAfter
<1>10. QED
  BY <1>4, <1>5, <1>6, <1>7, <1>8, <1>9

----------------------------------------------------------------------------
(* The recorder and the answers *)

\* The steps that neither finish nor fail an answer.
LEMMA TrackedOnward ==
    ASSUME NEW s, NEW d \in Device, RecorderTracked(s, d),
           NEW e, e.ev \notin {"RecordingFinished", "RecordingFailed"},
           e.ev = "PlaybackEnded" => d.failures = 0,
           NEW new, new.question \in QuestionId \cup {None}, NEW x,
           Follows(s, e, To(new, x)), NEW m \in DeviceAfter(x, new.question, d)
    PROVE  RecorderTracked(new, m) /\ HandedBy(x) = {}
<1>0. d.mic \in {"Off", "On", "Stopping"}
  BY DEF Device
<1>1. CASE NoAnswer(s, new, x)
  <2>1. x \in Seq(Effect) /\ ~Has(x, "StartRecording") /\ ~Has(x, "StopRecording")
    BY <1>1 DEF NoAnswer, Asks, AnswerWork
  <2>2. m.mic = d.mic /\ m.failures = d.failures
    BY <2>1, MicAfterStep
  <2>3. /\ s.tag # "Recording" /\ ~Finishes(s)
        /\ new.tag # "Recording" /\ ~Finishes(new) /\ HandedBy(x) = {}
    BY <1>1 DEF NoAnswer, Answering
  <2>4. m.mic = "Off" /\ m.failures \in 0..2
    BY <1>0, <2>2, <2>3 DEF RecorderTracked
  <2>5. QED
    BY <2>3, <2>4 DEF RecorderTracked
<1>2. CASE KeepsAnswer(s, new, e, x)
  <2>1. x \in Seq(Effect) /\ ~Has(x, "StartRecording") /\ ~Has(x, "StopRecording")
    BY <1>2 DEF KeepsAnswer, Asks, AnswerWork
  <2>2. m.mic = d.mic /\ m.failures = d.failures /\ m.asked = d.asked
    BY <2>1, MicAfterStep, ZenonT(30)
  <2>3. /\ new.tag = s.tag /\ new.question = s.question /\ HandedBy(x) = {}
    BY <1>2 DEF KeepsAnswer
  <2>4. Finishes(new) <=> Finishes(s)
    BY <2>3 DEF Finishes
  <2>5. QED
    BY <2>2, <2>3, <2>4 DEF RecorderTracked
<1>3. CASE StartsAnswer(s, new, e, x)
  <2>1. x \in Seq(Effect) /\ Has(x, "StartRecording")
    BY <1>3 DEF StartsAnswer, Asks, AnswerWork
  <2>2. d.failures = 0 /\ d.mic = "Off"
    BY <1>0, <1>3 DEF StartsAnswer, RecorderTracked, Finishes
  <2>3. \/ m.mic = "On" /\ m.asked = new.question /\ m.failures = 0
        \/ m.mic = "Off" /\ m.failures = 1
    BY <2>1, <2>2, MicAfterStep
  <2>4. QED
    BY <1>3, <2>3 DEF StartsAnswer, RecorderTracked, Finishes
<1>4. CASE StopsAnswer(s, new, e, x)
  <2>1. x \in Seq(Effect) /\ ~Has(x, "StartRecording") /\ Has(x, "StopRecording")
    BY <1>4 DEF StopsAnswer, Asks, AnswerWork
  <2>2. \/ d.mic = "On" /\ d.failures = 0 /\ d.asked = s.question
        \/ d.mic = "Off" /\ d.failures = 1
    BY <1>0, <1>4 DEF StopsAnswer, RecorderTracked, Finishes
  <2>3. \/ m.mic = "Stopping" /\ m.failures = 0 /\ m.asked = s.question
        \/ m.mic = "Off" /\ m.failures = 2
    BY <2>1, <2>2, MicAfterStep
  <2>4. QED
    BY <1>4, <2>3 DEF StopsAnswer, RecorderTracked, Finishes
<1>5. QED
  BY <1>1, <1>2, <1>3, <1>4 DEF Follows, HandsAnswerOver, LosesAnswer, To

\* The recorder finished an answer.
LEMMA TrackedFinished ==
    ASSUME NEW s, Answering(s), NEW d \in Device, d.mic = "Off", d.failures = 0,
           NEW e, e.ev = "RecordingFinished",
           NEW new, new.question \in QuestionId \cup {None}, NEW x,
           Follows(s, e, To(new, x)), NEW m \in DeviceAfter(x, new.question, d)
    PROVE  RecorderTracked(new, m) /\ HandedBy(x) = {<<e.recording, s.question>>}
<1>1. HandsAnswerOver(s, new, e, x)
  BY DEF Follows, NoAnswer, KeepsAnswer, StartsAnswer, StopsAnswer, LosesAnswer, To
<1>2. x \in Seq(Effect) /\ ~Has(x, "StartRecording") /\ ~Has(x, "StopRecording")
  BY <1>1 DEF HandsAnswerOver, Asks, AnswerWork
<1>3. m.mic = "Off" /\ m.failures = 0
  BY <1>2, MicAfterStep
<1>4. QED
  BY <1>1, <1>3 DEF HandsAnswerOver, RecorderTracked, Answering

\* The recorder failed an answer, or an earlier one.
LEMMA TrackedFailed ==
    ASSUME NEW s, NEW d \in Device, d.mic = "Off", d.failures \in 0..2,
           NEW e, e.ev = "RecordingFailed",
           NEW new, new.question \in QuestionId \cup {None}, NEW x,
           Follows(s, e, To(new, x)), NEW m \in DeviceAfter(x, new.question, d)
    PROVE  RecorderTracked(new, m) /\ HandedBy(x) = {}
<1>1. NoAnswer(s, new, x) \/ LosesAnswer(s, new, e, x)
  BY DEF Follows, KeepsAnswer, StartsAnswer, StopsAnswer, HandsAnswerOver, To
<1>2. ~Answering(new) /\ Asks(x, {}) /\ HandedBy(x) = {}
  BY <1>1 DEF NoAnswer, LosesAnswer
<1>3. x \in Seq(Effect) /\ ~Has(x, "StartRecording") /\ ~Has(x, "StopRecording")
  BY <1>2 DEF Asks, AnswerWork
<1>4. m.mic = "Off" /\ m.failures = d.failures
  BY <1>3, MicAfterStep
<1>5. QED
  BY <1>2, <1>4 DEF RecorderTracked, Answering

----------------------------------------------------------------------------
(* The steps of the booth *)

LEMMA DeviceTyped ==
    ASSUME NEW x \in Seq(Effect), NEW q \in QuestionId \cup {None}, NEW d \in Device,
           NEW m \in DeviceAfter(x, q, d), m.failures \in 0..2
    PROVE  m \in Device
<1>1. m.mic \in {"Off", "On", "Stopping"} /\ m.asked \in QuestionId \cup {None}
  <2>1. d.mic \in {"Off", "On", "Stopping"} /\ d.asked \in QuestionId \cup {None}
    BY DEF Device
  <2>2. \/ m.mic = "On" /\ m.asked = q
        \/ m.mic = d.mic /\ m.asked = d.asked
        \/ m.mic = "Stopping" /\ m.asked = d.asked
    <3>1. CASE Has(x, "StartRecording")
      BY <3>1, MicAfterStep
    <3>2. CASE ~Has(x, "StartRecording") /\ Has(x, "StopRecording")
      BY <3>2, MicAfterStep
    <3>3. CASE ~Has(x, "StartRecording") /\ ~Has(x, "StopRecording")
      BY <3>3, MicAfterStep
    <3>4. QED
      BY <3>1, <3>2, <3>3
  <2>3. QED
    BY <2>1, <2>2
<1>2. QED
  BY <1>1, MicAfterStep DEF Device

\* What taking an event does, whatever the event: the core's step is sound and
\* follows the answer protocol, and its effects x are carried out.
LEMMA TakeStep ==
    ASSUME WellFormed(core), accepting \in BOOLEAN, advertised \in BoothStatus \cup {"Unknown"},
           NEW e \in Event, NEW d \in Device, Take(e, d)
    PROVE  /\ WellFormed(core') /\ core'.question \in QuestionId \cup {None}
           /\ OnHook(core') <=> HookAfter(core, e)
           /\ advertised' \in BoothStatus \cup {"Unknown"}
           /\ \E x \in Seq(Effect) :
                /\ Follows(core, e, To(core', x))
                /\ device' \in DeviceAfter(x, core'.question, d)
                /\ handed' = handed \cup HandedBy(x)
                /\ uploads' \subseteq uploads \cup {a[1] : a \in HandedBy(x)}
<1> DEFINE step == handle_with_call_availability(core, e, accepting)
<1>1. Sound(core, e, step.state)
  BY CoreStepSound
<1>2. Follows(core, e, step) /\ step.effects \in Seq(Effect)
  BY CoreStepFollows, FollowsTyped
<1>3. /\ core' = step.state
      /\ device' \in DeviceAfter(step.effects, step.state.question, d)
      /\ handed' = handed \cup HandedBy(step.effects)
      /\ uploads' = (IF e.ev = "UploadFinished" THEN uploads \ {e.recording} ELSE uploads)
                       \cup {a[1] : a \in HandedBy(step.effects)}
      /\ advertised' = IF LastOf(step.effects, {"PutStatus"}) = NoEffect THEN advertised
                       ELSE LastOf(step.effects, {"PutStatus"}).status
  BY DEF Take, CarryOut
<1> HIDE DEF step
<1>4. WellFormed(core') /\ (OnHook(core') <=> HookAfter(core, e))
  BY <1>1, <1>3 DEF Sound
<1>5. core'.question \in QuestionId \cup {None}
  BY <1>4 DEF WellFormed, State
<1>6. advertised' \in BoothStatus \cup {"Unknown"}
  BY <1>2, <1>3, StatusType
<1>7. Follows(core, e, To(core', step.effects))
  BY <1>2, <1>3 DEF Follows, To
<1>8. uploads' \subseteq uploads \cup {a[1] : a \in HandedBy(step.effects)}
  BY <1>3
<1>9. QED
  BY <1>2, <1>3, <1>4, <1>5, <1>6, <1>7, <1>8

\* An event that neither finishes nor fails an answer, with devices in the state
\* of the recorder.
LEMMA OnwardKeepsInv ==
    ASSUME Inv, NEW e \in Event, e.ev \notin {"RecordingFinished", "RecordingFailed"},
           e.ev = "PlaybackEnded" => device.failures = 0,
           NEW d \in Device, d.mic = device.mic, d.asked = device.asked,
           d.failures = device.failures, Take(e, d),
           accepting' \in BOOLEAN, known' \in BOOLEAN, hook' \in BOOLEAN,
           hook' <=> HookAfter(core, e), finished' = finished
    PROVE  Inv'
<1>1. /\ TypeOK /\ RecorderTracked(core, device) /\ finished = handed
  BY DEF Inv, EveryAnswerHandedOver
<1>2. PICK x \in Seq(Effect) :
         /\ Follows(core, e, To(core', x))
         /\ device' \in DeviceAfter(x, core'.question, d)
         /\ handed' = handed \cup HandedBy(x)
         /\ uploads' \subseteq uploads \cup {a[1] : a \in HandedBy(x)}
  BY <1>1, TakeStep DEF TypeOK
<1>3. /\ WellFormed(core') /\ core'.question \in QuestionId \cup {None}
      /\ (OnHook(core') <=> HookAfter(core, e)) /\ advertised' \in BoothStatus \cup {"Unknown"}
  BY <1>1, TakeStep DEF TypeOK
<1>4. RecorderTracked(core, d)
  BY <1>1 DEF RecorderTracked
<1>5. RecorderTracked(core', device') /\ HandedBy(x) = {}
  BY <1>2, <1>3, <1>4, TrackedOnward
<1>6. device' \in Device
  BY <1>2, <1>3, <1>5, DeviceTyped DEF RecorderTracked
<1>7. handed' = handed /\ uploads' \subseteq uploads
  BY <1>2, <1>5
<1>8. TypeOK'
  BY <1>1, <1>3, <1>6, <1>7 DEF TypeOK
<1>9. HookIsKnown'
  BY <1>3 DEF HookIsKnown, OnHook
<1>10. EveryAnswerHandedOver'
  BY <1>1, <1>7 DEF EveryAnswerHandedOver
<1>11. QED
  BY <1>5, <1>8, <1>9, <1>10 DEF Inv

\* The handset is where it was after any other event.
LEMMA HandsetStays ==
    ASSUME Inv, NEW e, e.ev \notin {"HookOn", "HookOff"}
    PROVE  hook <=> HookAfter(core, e)
  BY HandsetKept DEF Inv, HookIsKnown

LEMMA SignalsAreEvents == \A k \in Signals : Signal(k) \in Event /\ Signal(k).ev = k
  BY DEF Signal, Event

LEMMA HookKeepsInv ==
    ASSUME Inv, NEW on \in BOOLEAN, Hook(on)
    PROVE  Inv'
<1> DEFINE e == Signal(IF on THEN "HookOn" ELSE "HookOff")
<1>1. e \in Event /\ e.ev = IF on THEN "HookOn" ELSE "HookOff"
  BY SignalsAreEvents DEF Signals
<1>2. Take(e, device) /\ hook' = on /\ accepting' = accepting /\ known' = known
      /\ finished' = finished
  BY DEF Hook
<1> HIDE DEF e
<1>3. /\ accepting \in BOOLEAN /\ known \in BOOLEAN /\ device \in Device
  BY DEF Inv, TypeOK
<1>4. hook' <=> HookAfter(core, e)
  BY <1>1, <1>2 DEF HookAfter
<1>5. QED
  BY <1>1, <1>2, <1>3, <1>4, OnwardKeepsInv

\* A step that takes an event which leaves the handset and the recorder alone.
LEMMA EventKeepsInv ==
    ASSUME Inv, NEW e \in Event,
           e.ev \notin {"HookOn", "HookOff", "RecordingFinished", "RecordingFailed"},
           e.ev = "PlaybackEnded" => device.failures = 0,
           NEW d \in Device, d.mic = device.mic, d.asked = device.asked,
           d.failures = device.failures, Take(e, d),
           accepting' = accepting, known' \in BOOLEAN, hook' = hook, finished' = finished
    PROVE  Inv'
<1>1. accepting \in BOOLEAN /\ hook \in BOOLEAN
  BY DEF Inv, TypeOK
<1>2. hook' <=> HookAfter(core, e)
  BY HandsetStays
<1>3. QED
  BY <1>1, <1>2, OnwardKeepsInv

LEMMA TimerFiresKeepsInv ==
    ASSUME Inv, NEW t \in Timers, TimerFires(t)
    PROVE  Inv'
<1> DEFINE e == Signal(IF t = "Pulse" THEN "Tick" ELSE "RecordingTimedOut")
           d == [device EXCEPT !.armed = @ \ {t}]
<1>1. e \in Event /\ e.ev \in {"Tick", "RecordingTimedOut"}
  BY SignalsAreEvents DEF Signals
<1>2. device \in Device /\ known \in BOOLEAN
  BY DEF Inv, TypeOK
<1>3. d \in Device /\ d.mic = device.mic /\ d.asked = device.asked /\ d.failures = device.failures
  BY <1>2 DEF Device
<1>4. Take(e, d) /\ accepting' = accepting /\ known' = known /\ hook' = hook /\ finished' = finished
  BY DEF TimerFires
<1> HIDE DEF e, d
<1>5. QED
  BY <1>1, <1>2, <1>3, <1>4, EventKeepsInv

LEMMA PlaybackEndsKeepsInv ==
    ASSUME Inv, PlaybackEnds
    PROVE  Inv'
<1> DEFINE e == Signal("PlaybackEnded")
           d == [device EXCEPT !.audio = "Silent"]
<1>1. e \in Event /\ e.ev = "PlaybackEnded"
  BY SignalsAreEvents DEF Signals
<1>2. device \in Device /\ known \in BOOLEAN
  BY DEF Inv, TypeOK
<1>3. d \in Device /\ d.mic = device.mic /\ d.asked = device.asked /\ d.failures = device.failures
  BY <1>2 DEF Device
<1>4. Take(e, d) /\ accepting' = accepting /\ known' = known /\ hook' = hook /\ finished' = finished
      /\ device.failures = 0
  BY DEF PlaybackEnds
<1> HIDE DEF e, d
<1>5. QED
  BY <1>1, <1>2, <1>3, <1>4, EventKeepsInv

LEMMA PlaybackFailsKeepsInv ==
    ASSUME Inv, PlaybackFails
    PROVE  Inv'
<1>1. device' \in Device /\ RecorderTracked(core', device')
  BY DEF Inv, TypeOK, PlaybackFails, Device, RecorderTracked
<1>2. QED
  BY <1>1 DEF Inv, TypeOK, PlaybackFails, HookIsKnown, EveryAnswerHandedOver

LEMMA RecorderFinishesKeepsInv ==
    ASSUME Inv, NEW r \in RecordingId, RecorderFinishes(r)
    PROVE  Inv'
<1> DEFINE e == [ev |-> "RecordingFinished", recording |-> r]
           d == [device EXCEPT !.mic = "Off"]
<1>1. e \in Event /\ e.ev = "RecordingFinished" /\ e.recording = r
  BY DEF Event
<1>2. TypeOK /\ RecorderTracked(core, device) /\ finished = handed
  BY DEF Inv, EveryAnswerHandedOver
<1>3. device.mic = "Stopping" /\ device \in Device
  BY <1>2 DEF RecorderFinishes, TypeOK
<1>4. Finishes(core) /\ device.failures = 0 /\ device.asked = core.question
  BY <1>2, <1>3 DEF RecorderTracked
<1>5. d \in Device /\ d.mic = "Off" /\ d.failures = 0
  BY <1>3, <1>4 DEF Device
<1>6. /\ Take(e, d) /\ finished' = finished \cup {<<r, device.asked>>}
      /\ accepting' = accepting /\ known' = known /\ hook' = hook
  BY DEF RecorderFinishes
<1>7. core.question \in QuestionId
  BY <1>2, <1>4, FieldTypes DEF TypeOK, Finishes, CarriesQuestion
<1> HIDE DEF e, d
<1>8. PICK x \in Seq(Effect) :
         /\ Follows(core, e, To(core', x))
         /\ device' \in DeviceAfter(x, core'.question, d)
         /\ handed' = handed \cup HandedBy(x)
         /\ uploads' \subseteq uploads \cup {a[1] : a \in HandedBy(x)}
  BY <1>1, <1>2, <1>5, <1>6, TakeStep DEF TypeOK
<1>9. /\ WellFormed(core') /\ core'.question \in QuestionId \cup {None}
      /\ (OnHook(core') <=> HookAfter(core, e)) /\ advertised' \in BoothStatus \cup {"Unknown"}
  BY <1>1, <1>2, <1>5, <1>6, TakeStep DEF TypeOK
<1>10. RecorderTracked(core', device') /\ HandedBy(x) = {<<r, core.question>>}
  BY <1>1, <1>4, <1>5, <1>8, <1>9, TrackedFinished DEF Answering
<1>11. device' \in Device
  BY <1>5, <1>8, <1>9, <1>10, DeviceTyped DEF RecorderTracked
<1>12. handed' = finished' /\ finished' \subseteq Answer /\ uploads' \subseteq RecordingId
  BY <1>2, <1>4, <1>6, <1>7, <1>8, <1>10 DEF Answer, TypeOK
<1>13. TypeOK'
  BY <1>2, <1>6, <1>9, <1>11, <1>12 DEF TypeOK
<1>14. HookIsKnown'
  BY <1>1, <1>2, <1>6, <1>9, HandsetStays DEF HookIsKnown, OnHook, TypeOK
<1>15. QED
  BY <1>10, <1>12, <1>13, <1>14 DEF Inv, EveryAnswerHandedOver

\* RecordingFailed, from a recorder that is off now.
LEMMA FailureKeepsInv ==
    ASSUME Inv, NEW d \in Device, d.mic = "Off", d.failures \in 0..2,
           Take(Signal("RecordingFailed"), d),
           accepting' = accepting, known' = known, hook' = hook, finished' = finished
    PROVE  Inv'
<1> DEFINE e == Signal("RecordingFailed")
<1>1. e \in Event /\ e.ev = "RecordingFailed"
  BY SignalsAreEvents DEF Signals
<1> HIDE DEF e
<1>2. TypeOK /\ finished = handed
  BY DEF Inv, EveryAnswerHandedOver
<1>3. PICK x \in Seq(Effect) :
         /\ Follows(core, e, To(core', x))
         /\ device' \in DeviceAfter(x, core'.question, d)
         /\ handed' = handed \cup HandedBy(x)
         /\ uploads' \subseteq uploads \cup {a[1] : a \in HandedBy(x)}
  BY <1>1, <1>2, TakeStep DEF TypeOK, e
<1>4. /\ WellFormed(core') /\ core'.question \in QuestionId \cup {None}
      /\ (OnHook(core') <=> HookAfter(core, e)) /\ advertised' \in BoothStatus \cup {"Unknown"}
  BY <1>1, <1>2, TakeStep DEF TypeOK, e
<1>5. RecorderTracked(core', device') /\ HandedBy(x) = {}
  BY <1>1, <1>3, <1>4, TrackedFailed
<1>6. device' \in Device
  BY <1>3, <1>4, <1>5, DeviceTyped DEF RecorderTracked
<1>7. handed' = handed /\ uploads' \subseteq uploads
  BY <1>3, <1>5
<1>8. TypeOK'
  BY <1>2, <1>4, <1>6, <1>7 DEF TypeOK
<1>9. HookIsKnown'
  BY <1>1, <1>2, <1>4, HandsetStays DEF HookIsKnown, OnHook, TypeOK
<1>10. QED
  BY <1>2, <1>5, <1>7, <1>8, <1>9 DEF Inv, EveryAnswerHandedOver

LEMMA RecorderFailsKeepsInv ==
    ASSUME Inv, RecorderCannotFinish \/ RecorderReportsFailure
    PROVE  Inv'
<1>1. device \in Device /\ RecorderTracked(core, device)
  BY DEF Inv, TypeOK
<1>2. CASE RecorderCannotFinish
  <2>1. device.failures = 0
    BY <1>1, <1>2 DEF RecorderCannotFinish, RecorderTracked
  <2>2. /\ [device EXCEPT !.mic = "Off"] \in Device
        /\ [device EXCEPT !.mic = "Off"].mic = "Off"
        /\ [device EXCEPT !.mic = "Off"].failures \in 0..2
    BY <1>1, <2>1 DEF Device
  <2>3. QED
    BY <1>2, <2>2, FailureKeepsInv DEF RecorderCannotFinish
<1>3. CASE RecorderReportsFailure
  <2> DEFINE d == [device EXCEPT !.failures = @ - 1]
  <2>1. device.failures \in 1..2 /\ device.mic = "Off"
    BY <1>1, <1>3 DEF RecorderReportsFailure, RecorderTracked, Device
  <2>2. d \in Device /\ d.mic = "Off" /\ d.failures \in 0..2
    BY <1>1, <2>1 DEF Device
  <2>3. Take(Signal("RecordingFailed"), d)
    BY <1>3 DEF RecorderReportsFailure
  <2> HIDE DEF d
  <2>4. QED
    BY <1>3, <2>2, <2>3, FailureKeepsInv DEF RecorderReportsFailure
<1>4. QED
  BY <1>2, <1>3

LEMMA UploadEndsKeepsInv ==
    ASSUME Inv, NEW r \in RecordingId, NEW outcome \in Outcome, UploadEnds(r, outcome)
    PROVE  Inv'
<1> DEFINE e == [ev |-> "UploadFinished", recording |-> r, outcome |-> outcome]
<1>1. e \in Event /\ e.ev = "UploadFinished"
  BY DEF Event
<1>2. Take(e, device) /\ accepting' = accepting /\ known' = known /\ hook' = hook
      /\ finished' = finished
  BY DEF UploadEnds
<1> HIDE DEF e
<1>3. device \in Device /\ known \in BOOLEAN
  BY DEF Inv, TypeOK
<1>4. QED
  BY <1>1, <1>2, <1>3, EventKeepsInv

LEMMA InitInv == Init => Inv
<1> SUFFICES ASSUME Init PROVE Inv
  OBVIOUS
<1>1. /\ hook \in BOOLEAN /\ accepting \in BOOLEAN /\ known = accepting
      /\ core = IF ~accepting THEN CallsPaused(hook)
                ELSE IF hook THEN Plain("Idle") ELSE Plain("DialTone")
      /\ device = [audio |-> IF accepting /\ ~hook THEN "DialTone" ELSE "Silent",
                   mic |-> "Off", asked |-> None, failures |-> 0, armed |-> {}]
      /\ advertised = IF accepting /\ ~hook THEN "DialTone" ELSE "Unknown"
      /\ uploads = {} /\ finished = {} /\ handed = {}
  BY DEF Init
<1>2. /\ WellFormed(CallsPaused(hook)) /\ (OnHook(CallsPaused(hook)) <=> hook)
      /\ WellFormed(Plain("Idle")) /\ OnHook(Plain("Idle"))
      /\ WellFormed(Plain("DialTone")) /\ ~OnHook(Plain("DialTone"))
  BY <1>1, PausedWellFormed, PlainWellFormed DEF Tags, CarriesQuestion
<1>3. WellFormed(core) /\ (OnHook(core) <=> hook)
  BY <1>1, <1>2
<1>4. device \in Device /\ device.mic = "Off" /\ device.failures = 0
  BY <1>1 DEF Device, Tones, Timers
<1>5. TypeOK
  BY <1>1, <1>3, <1>4 DEF TypeOK, BoothStatus
<1>6. ~Answering(core)
  BY <1>1, PlainElsewhere DEF Answering, Finishes, CallsPaused, Variant
<1>7. RecorderTracked(core, device)
  BY <1>4, <1>6 DEF RecorderTracked, Answering
<1>8. HookIsKnown
  BY <1>1, <1>3 DEF HookIsKnown, OnHook
<1>9. QED
  BY <1>1, <1>5, <1>7, <1>8 DEF Inv, EveryAnswerHandedOver

LEMMA NextInv == Inv /\ [Next]_vars => Inv'
<1> SUFFICES ASSUME Inv, [Next]_vars PROVE Inv'
  OBVIOUS
<1>0. device \in Device /\ known \in BOOLEAN /\ accepting \in BOOLEAN
  BY DEF Inv, TypeOK
<1>1. ASSUME NEW on \in BOOLEAN, Hook(on) PROVE Inv'
  BY <1>1, HookKeepsInv
<1>2. ASSUME NEW e \in Event, Input(e) PROVE Inv'
  BY <1>0, <1>2, EventKeepsInv DEF Input
<1>3. ASSUME NEW e \in Event, OperatorAnswers(e) PROVE Inv'
  BY <1>0, <1>3, EventKeepsInv DEF OperatorAnswers
<1>4. ASSUME NEW e \in Event, LateReply(e) PROVE Inv'
  BY <1>0, <1>4, EventKeepsInv DEF LateReply
<1>5. ASSUME NEW t \in Timers, TimerFires(t) PROVE Inv'
  BY <1>5, TimerFiresKeepsInv
<1>6. CASE PlaybackEnds
  BY <1>6, PlaybackEndsKeepsInv
<1>7. CASE PlaybackFails
  BY <1>7, PlaybackFailsKeepsInv
<1>8. CASE RecorderReplies
  BY <1>8, RecorderFinishesKeepsInv, RecorderFailsKeepsInv DEF RecorderReplies
<1>9. ASSUME NEW r \in RecordingId, NEW outcome \in Outcome, UploadEnds(r, outcome) PROVE Inv'
  BY <1>9, UploadEndsKeepsInv
<1>10. CASE AdmissionMoves
  BY <1>0, <1>10 DEF AdmissionMoves, Inv, TypeOK, HookIsKnown, EveryAnswerHandedOver
<1>11. CASE AdmissionNotified
  <2>1. Signal("Tick") \in Event /\ Signal("Tick").ev = "Tick"
    BY SignalsAreEvents DEF Signals
  <2>2. Take(Signal("Tick"), device) /\ accepting' = accepting /\ hook' = hook
        /\ finished' = finished /\ known' = accepting
    BY <1>11 DEF AdmissionNotified
  <2>3. QED
    BY <1>0, <2>1, <2>2, EventKeepsInv
<1>12. CASE UNCHANGED vars
  BY <1>12 DEF vars, Inv, TypeOK, HookIsKnown, EveryAnswerHandedOver
<1>13. QED
  BY <1>1, <1>2, <1>3, <1>4, <1>5, <1>6, <1>7, <1>8, <1>9, <1>10, <1>11, <1>12 DEF Next

THEOREM InvHolds == Spec => []Inv
<1>1. Init => Inv
  BY InitInv
<1>2. Inv /\ [Next]_vars => Inv'
  BY NextInv
<1>3. QED
  BY <1>1, <1>2, PTL DEF Spec

----------------------------------------------------------------------------
(* What follows *)

\* Every state the booth reaches is one the program can represent: a variant of
\* `State` with the fields it carries, and at most two replies of the recorder owed.
THEOREM TypeCorrect == Spec => []TypeOK
<1>1. Inv => TypeOK
  BY DEF Inv
<1>2. QED
  BY <1>1, InvHolds, PTL

\* What the core's state says of the handset is the last hook event, through
\* every pause and resumption of calls and every late reply (handle_available).
THEOREM HandsetKnown == Spec => []HookIsKnown
<1>1. Inv => HookIsKnown
  BY DEF Inv
<1>2. QED
  BY <1>1, InvHolds, PTL

\* The microphone is open only while the caller holds the handset and answers
\* the question the recorder was started for (StartRecording, StopRecording).
THEOREM MicrophoneSafe == Spec => []MicrophoneOnlyWhileAnswering
<1>1. Inv => MicrophoneOnlyWhileAnswering
  <2> SUFFICES ASSUME Inv, device.mic = "On"
               PROVE  core.tag = "Recording" /\ ~hook /\ core.question = device.asked
    BY DEF MicrophoneOnlyWhileAnswering
  <2>1. core.tag = "Recording" /\ core.question = device.asked
    BY DEF Inv, RecorderTracked
  <2>2. ~OnHook(core)
    BY <2>1, FieldTypes DEF Inv, TypeOK, OnHook, CarriesHook
  <2>3. QED
    BY <2>1, <2>2 DEF Inv, HookIsKnown
<1>2. QED
  BY <1>1, InvHolds, PTL

\* Every answer the recorder finished was handed to the uploader, with the
\* question it was started for, and nothing else was (UploadRecording).
THEOREM AnswersHandedOver == Spec => []EveryAnswerHandedOver
<1>1. Inv => EveryAnswerHandedOver
  BY DEF Inv
<1>2. QED
  BY <1>1, InvHolds, PTL

(***************************************************************************)
(*                        The outputs of the booth                         *)
(***************************************************************************)

\* What the effects of a step leave each output with: its last command.
Sounds == {"Play", "StopAudio"}
Pulses == {"ArmPulseTimeout", "CancelPulseTimeout"}
Limits == {"ArmRecordingTimeout", "CancelRecordingTimeout"}
Puts == {"PutStatus"}

SoundOf(x) == LastOf(x, Sounds)
PulseOf(x) == LastOf(x, Pulses)
LimitOf(x) == LastOf(x, Limits)
PutOf(x) == LastOf(x, Puts)

AtRest(s) == OnHook(s) \/ s.tag = "CallsPaused"
Groups(s) == s.tag \in {"Dialing", "Error"}
InUpload(s) == s.tag \in {"Uploading", "UploadingTimedOut"}

\* The states whose status the operator was told.
Advertised(s) ==
    /\ s.tag \notin {"CallsPaused", "Error"}
    /\ ~Protected(s) \/ (s.tag = "UploadingTimedOut" /\ s.beep_pending)

\* A step from s to new on e, with effects x, moves the outputs with the state.
SoundMoves(s, e, new, x) ==
    /\ AtRest(new) => SoundOf(x) = StopAudio \/ (SoundOf(x) = NoEffect /\ AtRest(s))
    /\ WaitsForClip(new) => \/ SoundOf(x).fx = "Play" /\ SoundOf(x).audio \in Clips
                            \/ /\ SoundOf(x) = NoEffect
                               /\ WaitsForClip(s) /\ e.ev # "PlaybackEnded"
LimitMoves(s, e, new, x) ==
    IF new.tag = "Recording"
    THEN \/ LimitOf(x).fx = "ArmRecordingTimeout"
         \/ LimitOf(x) = NoEffect /\ s.tag = "Recording" /\ e.ev # "RecordingTimedOut"
    ELSE \/ LimitOf(x) = CancelRecordingTimeout
         \/ LimitOf(x) = NoEffect /\ s.tag # "Recording"
PulseMoves(s, new, x) ==
    Groups(new) \/ PulseOf(x) = CancelPulseTimeout \/ (PulseOf(x) = NoEffect /\ ~Groups(s))
StatusMoves(s, new, x) ==
    Advertised(new) => \/ PutOf(x) = PutStatus(status(new))
                       \/ PutOf(x) = NoEffect /\ Advertised(s) /\ status(new) = status(s)

Moves(s, e, new, x) ==
    /\ x \in Seq(Effect)
    /\ SoundMoves(s, e, new, x) /\ LimitMoves(s, e, new, x)
    /\ PulseMoves(s, new, x) /\ StatusMoves(s, new, x)

----------------------------------------------------------------------------
(* The last command in a list of effects *)

LEMMA LastIs ==
    ASSUME NEW x \in Seq(Effect), NEW K, NEW i \in DOMAIN x, x[i].fx \in K,
           \A j \in DOMAIN x : j > i => x[j].fx \notin K
    PROVE  LastOf(x, K) = x[i]
<1> DEFINE places == {j \in DOMAIN x : x[j].fx \in K}
           last == CHOOSE k \in places : \A j \in places : j <= k
<1>1. DOMAIN x = 1..Len(x) /\ Len(x) \in Nat
  OBVIOUS
<1>2. i \in places /\ \A j \in places : j <= i
  BY <1>1
<1>3. last \in places /\ \A j \in places : j <= last
  BY <1>2
<1>4. last = i
  <2>1. last <= i /\ i <= last /\ last \in Nat /\ i \in Nat
    BY <1>1, <1>2, <1>3
  <2> HIDE DEF last
  <2>2. QED
    BY <2>1
<1>5. LastOf(x, K) = x[last]
  BY <1>2 DEF LastOf
<1>6. QED
  BY <1>4, <1>5

LEMMA LastNone ==
    ASSUME NEW x \in Seq(Effect), NEW K, \A j \in DOMAIN x : x[j].fx \notin K
    PROVE  LastOf(x, K) = NoEffect
  BY DEF LastOf

\* Either there is no such command, or one is the last.
LEMMA LastFound ==
    ASSUME NEW x \in Seq(Effect), NEW K
    PROVE  \/ LastOf(x, K) = NoEffect /\ \A j \in DOMAIN x : x[j].fx \notin K
           \/ \E i \in DOMAIN x : /\ x[i].fx \in K /\ LastOf(x, K) = x[i]
                                 /\ \A j \in DOMAIN x : j > i => x[j].fx \notin K
<1>1. CASE \A j \in DOMAIN x : x[j].fx \notin K
  BY <1>1, LastNone
<1>2. CASE \E j \in DOMAIN x : x[j].fx \in K
  <2> DEFINE T == {i \in DOMAIN x : x[i].fx \in K}
  <2>1. DOMAIN x = 1..Len(x) /\ Len(x) \in Nat
    OBVIOUS
  <2>2. T \in SUBSET (1..Len(x)) /\ T # {}
    BY <1>2, <2>1
  <2>3. PICK i \in T : \A k \in T : k <= i
    <3> HIDE DEF T
    <3>1. QED
      BY <2>1, <2>2, Greatest
  <2>4. \A k \in DOMAIN x : k > i => k \notin T
    BY <2>1, <2>2, <2>3
  <2>5. i \in DOMAIN x /\ x[i].fx \in K /\ \A k \in DOMAIN x : k > i => x[k].fx \notin K
    BY <2>3, <2>4
  <2>6. LastOf(x, K) = x[i]
    BY <2>5, LastIs
  <2>7. QED
    BY <2>5, <2>6
<1>3. QED
  BY <1>1, <1>2

\* Of two lists, the second decides if it has such a command.
LEMMA LastJoined ==
    ASSUME NEW x \in Seq(Effect), NEW y \in Seq(Effect), NEW K, "NoEffect" \notin K
    PROVE  LastOf(x \o y, K) = IF LastOf(y, K) = NoEffect THEN LastOf(x, K) ELSE LastOf(y, K)
<1> DEFINE w == x \o y
<1>1. /\ DOMAIN x = 1..Len(x) /\ DOMAIN y = 1..Len(y) /\ Len(x) \in Nat /\ Len(y) \in Nat
      /\ w \in Seq(Effect) /\ DOMAIN w = 1..(Len(x) + Len(y))
      /\ \A i \in 1..Len(x) : w[i] = x[i]
      /\ \A i \in 1..Len(y) : w[Len(x) + i] = y[i]
      /\ \A i \in 1..(Len(x) + Len(y)) : i > Len(x) => w[i] = y[i - Len(x)]
  OBVIOUS
<1> SUFFICES LastOf(w, K) = IF LastOf(y, K) = NoEffect THEN LastOf(x, K) ELSE LastOf(y, K)
  OBVIOUS
<1> HIDE DEF w
<1>2. ASSUME NEW z \in Seq(Effect), NEW j \in DOMAIN z, z[j].fx \in K
      PROVE  \E i \in DOMAIN z : z[i].fx \in K /\ \A k \in DOMAIN z : k > i => z[k].fx \notin K
  BY <1>2, LastFound
<1>3. NoEffect.fx \notin K
  BY DEF NoEffect, Command
<1>4. CASE \E j \in DOMAIN y : y[j].fx \in K
  <2>1. PICK i \in DOMAIN y : y[i].fx \in K /\ \A k \in DOMAIN y : k > i => y[k].fx \notin K
    BY <1>2, <1>4
  <2>2. LastOf(y, K) = y[i]
    BY <2>1, LastIs
  <2>3. Len(x) + i \in DOMAIN w /\ w[Len(x) + i] = y[i]
    BY <1>1
  <2>4. ASSUME NEW k \in DOMAIN w, k > Len(x) + i PROVE w[k].fx \notin K
    <3>1. k - Len(x) \in DOMAIN y /\ k - Len(x) > i /\ w[k] = y[k - Len(x)]
      BY <1>1, <2>4
    <3>2. QED
      BY <2>1, <3>1
  <2>5. LastOf(w, K) = y[i]
    <3>1. PICK n \in DOMAIN w : n = Len(x) + i
      BY <2>3
    <3>2. w[n] = y[i] /\ \A k \in DOMAIN w : k > n => w[k].fx \notin K
      BY <2>3, <2>4, <3>1
    <3> w \in Seq(Effect) /\ w[n].fx \in K
      BY <1>1, <2>1, <3>2
    <3>3. LastOf(w, K) = w[n]
      BY <3>2, LastIs
    <3>4. QED
      BY <3>2, <3>3
  <2>6. QED
    BY <1>3, <2>1, <2>2, <2>5
<1>5. CASE \A j \in DOMAIN y : y[j].fx \notin K
  <2>1. LastOf(y, K) = NoEffect
    BY <1>5, LastNone
  <2>2. ASSUME NEW k \in DOMAIN w, k > Len(x) PROVE w[k].fx \notin K
    <3>1. k - Len(x) \in DOMAIN y /\ w[k] = y[k - Len(x)]
      BY <1>1, <2>2
    <3>2. QED
      BY <1>5, <3>1
  <2>3. CASE \E j \in DOMAIN x : x[j].fx \in K
    <3>1. PICK i \in DOMAIN x : x[i].fx \in K /\ \A k \in DOMAIN x : k > i => x[k].fx \notin K
      BY <1>2, <2>3
    <3>2. LastOf(x, K) = x[i]
      BY <3>1, LastIs
    <3>3. i \in DOMAIN w /\ w[i] = x[i]
      BY <1>1
    <3>4. ASSUME NEW k \in DOMAIN w, k > i  PROVE w[k].fx \notin K
      <4>1. CASE k > Len(x)
        BY <2>2, <4>1
      <4>2. CASE ~(k > Len(x))
        <5>1. k \in DOMAIN x /\ w[k] = x[k]
          BY <1>1, <4>2
        <5> QED
          BY <3>1, <3>4, <5>1
      <4> QED
        BY <4>1, <4>2
    <3> w \in Seq(Effect) /\ w[i].fx \in K
      BY <1>1, <3>1, <3>3
    <3>5. LastOf(w, K) = x[i]
      BY <3>3, <3>4, LastIs
    <3>6. QED
      BY <2>1, <3>2, <3>5
  <2>4. CASE \A j \in DOMAIN x : x[j].fx \notin K
    <3>1. \A k \in DOMAIN w : w[k].fx \notin K
      BY <1>1, <2>2, <2>4
    <3>2. w \in Seq(Effect)
      BY <1>1
    <3>3. LastOf(w, K) = NoEffect /\ LastOf(x, K) = NoEffect
      BY <2>4, <3>1, <3>2, LastNone
    <3>4. QED
      BY <2>1, <3>3
  <2>5. QED
    BY <2>3, <2>4
<1>6. QED
  BY <1>4, <1>5

\* Kinds that pick the same commands of a list have the same last one.
LEMMA LastAgrees ==
    ASSUME NEW x \in Seq(Effect), NEW K, NEW L,
           \A i \in DOMAIN x : x[i].fx \in K <=> x[i].fx \in L
    PROVE  LastOf(x, K) = LastOf(x, L)
<1>1. CASE \A j \in DOMAIN x : x[j].fx \notin K
  BY <1>1, LastNone
<1>2. CASE ~ \A j \in DOMAIN x : x[j].fx \notin K
  <2>1. PICK i \in DOMAIN x : /\ x[i].fx \in K /\ LastOf(x, K) = x[i]
                              /\ \A j \in DOMAIN x : j > i => x[j].fx \notin K
    BY <1>2, LastFound
  <2>2. x[i].fx \in L /\ \A j \in DOMAIN x : j > i => x[j].fx \notin L
    BY <2>1
  <2>3. LastOf(x, L) = x[i]
    BY <2>2, LastIs
  <2>4. QED
    BY <2>1, <2>3
<1>3. QED
  BY <1>1, <1>2

\* Lists of one effect, and one more effect at the end.
LEMMA LastOfOne ==
    ASSUME NEW a \in Effect, NEW K
    PROVE  LastOf(<<a>>, K) = IF a.fx \in K THEN a ELSE NoEffect
<1> DEFINE x == <<a>>
<1>1. x \in Seq(Effect) /\ DOMAIN x = {1} /\ x[1] = a
  OBVIOUS
<1> HIDE DEF x
<1>2. LastOf(x, K) = IF a.fx \in K THEN a ELSE NoEffect
  <2>1. CASE a.fx \in K
    <3>1. 1 \in DOMAIN x /\ \A j \in DOMAIN x : ~ j > 1
      BY <1>1
    <3>2. LastOf(x, K) = x[1]
      BY <1>1, <2>1, <3>1, LastIs
    <3>3. QED
      BY <1>1, <2>1, <3>2
  <2>2. CASE a.fx \notin K
    BY <1>1, <2>2, LastNone
  <2>3. QED
    BY <2>1, <2>2
<1>3. QED
  BY <1>2 DEF x

LEMMA LastOfMore ==
    ASSUME NEW x \in Seq(Effect), NEW a \in Effect, NEW K, "NoEffect" \notin K
    PROVE  /\ x \o <<a>> \in Seq(Effect)
           /\ LastOf(x \o <<a>>, K) = IF a.fx \in K THEN a ELSE LastOf(x, K)
<1>1. <<a>> \in Seq(Effect) /\ x \o <<a>> \in Seq(Effect)
  OBVIOUS
<1>2. LastOf(x \o <<a>>, K) = IF LastOf(<<a>>, K) = NoEffect THEN LastOf(x, K) ELSE LastOf(<<a>>, K)
  BY <1>1, LastJoined
<1>3. a = NoEffect => a.fx \notin K
  BY DEF NoEffect, Command
<1>4. QED
  BY <1>1, <1>2, <1>3, LastOfOne

Kinds == {Sounds, Pulses, Limits, Puts}

LEMMA KindsOfCommands == \A K \in Kinds : "NoEffect" \notin K
  BY DEF Kinds, Sounds, Pulses, Limits, Puts

LEMMA ListOfNone == <<>> \in Seq(Effect) /\ \A K : LastOf(<<>>, K) = NoEffect
  BY DEF LastOf

LEMMA ListOfTwo ==
    ASSUME NEW a \in Effect, NEW b \in Effect
    PROVE  /\ <<a, b>> \in Seq(Effect)
           /\ \A K \in Kinds :
                LastOf(<<a, b>>, K) = IF b.fx \in K THEN b ELSE IF a.fx \in K THEN a ELSE NoEffect
<1> DEFINE x == <<a, b>>
<1>1. x \in Seq(Effect) /\ DOMAIN x = {1, 2} /\ x[1] = a /\ x[2] = b
  OBVIOUS
<1> HIDE DEF x
<1>2. ASSUME NEW K \in Kinds
      PROVE  LastOf(x, K) = IF b.fx \in K THEN b ELSE IF a.fx \in K THEN a ELSE NoEffect
  <2>1. CASE b.fx \in K
    <3>1. 2 \in DOMAIN x /\ \A j \in DOMAIN x : ~ j > 2
      BY <1>1
    <3>2. LastOf(x, K) = x[2]
      BY <1>1, <2>1, <3>1, LastIs
    <3>3. QED
      BY <1>1, <2>1, <3>2
  <2>2. CASE b.fx \notin K /\ a.fx \in K
    <3>1. 1 \in DOMAIN x /\ \A j \in DOMAIN x : j > 1 => x[j].fx \notin K
      BY <1>1, <2>2
    <3>2. LastOf(x, K) = x[1]
      BY <1>1, <2>2, <3>1, LastIs
    <3>3. QED
      BY <1>1, <2>2, <3>2
  <2>3. CASE b.fx \notin K /\ a.fx \notin K
    BY <1>1, <2>3, LastNone
  <2>4. QED
    BY <2>1, <2>2, <2>3
<1>3. QED
  BY <1>1, <1>2 DEF x

LEMMA ListOfThree ==
    ASSUME NEW a \in Effect, NEW b \in Effect, NEW c \in Effect
    PROVE  /\ <<a, b, c>> \in Seq(Effect)
           /\ \A K \in Kinds :
                LastOf(<<a, b, c>>, K) =
                    IF c.fx \in K THEN c ELSE IF b.fx \in K THEN b
                    ELSE IF a.fx \in K THEN a ELSE NoEffect
<1> DEFINE x == <<a, b>>
           y == <<a, b, c>>
<1>1. y = x \o <<c>>
  OBVIOUS
<1>2. /\ x \in Seq(Effect)
      /\ \A K \in Kinds : LastOf(x, K) = IF b.fx \in K THEN b ELSE IF a.fx \in K THEN a
                                         ELSE NoEffect
  BY ListOfTwo, KindsOfCommands
<1> HIDE DEF x, y
<1>3. y \in Seq(Effect) /\ \A K \in Kinds : LastOf(y, K) = IF c.fx \in K THEN c ELSE LastOf(x, K)
  BY <1>1, <1>2, LastOfMore, KindsOfCommands
<1> QED
  BY <1>2, <1>3 DEF y

LEMMA ListOfFour ==
    ASSUME NEW a \in Effect, NEW b \in Effect, NEW c \in Effect, NEW d \in Effect
    PROVE  /\ <<a, b, c, d>> \in Seq(Effect)
           /\ \A K \in Kinds :
                LastOf(<<a, b, c, d>>, K) =
                    IF d.fx \in K THEN d ELSE IF c.fx \in K THEN c ELSE IF b.fx \in K THEN b
                    ELSE IF a.fx \in K THEN a ELSE NoEffect
<1> DEFINE x == <<a, b, c>>
           y == <<a, b, c, d>>
<1>1. y = x \o <<d>>
  OBVIOUS
<1>2. /\ x \in Seq(Effect)
      /\ \A K \in Kinds : LastOf(x, K) = IF c.fx \in K THEN c ELSE IF b.fx \in K THEN b
                                         ELSE IF a.fx \in K THEN a ELSE NoEffect
  BY ListOfThree, KindsOfCommands
<1> HIDE DEF x, y
<1>3. y \in Seq(Effect) /\ \A K \in Kinds : LastOf(y, K) = IF d.fx \in K THEN d ELSE LastOf(x, K)
  BY <1>1, <1>2, LastOfMore, KindsOfCommands
<1> QED
  BY <1>2, <1>3 DEF y

LEMMA ListOfFive ==
    ASSUME NEW a \in Effect, NEW b \in Effect, NEW c \in Effect, NEW d \in Effect,
           NEW f \in Effect
    PROVE  /\ <<a, b, c, d, f>> \in Seq(Effect)
           /\ \A K \in Kinds :
                LastOf(<<a, b, c, d, f>>, K) =
                    IF f.fx \in K THEN f ELSE IF d.fx \in K THEN d ELSE IF c.fx \in K THEN c
                    ELSE IF b.fx \in K THEN b ELSE IF a.fx \in K THEN a ELSE NoEffect
<1> DEFINE x == <<a, b, c, d>>
           y == <<a, b, c, d, f>>
<1>1. y = x \o <<f>>
  OBVIOUS
<1>2. /\ x \in Seq(Effect)
      /\ \A K \in Kinds : LastOf(x, K) = IF d.fx \in K THEN d ELSE IF c.fx \in K THEN c
                                         ELSE IF b.fx \in K THEN b ELSE IF a.fx \in K THEN a
                                         ELSE NoEffect
  BY ListOfFour, KindsOfCommands
<1> HIDE DEF x, y
<1>3. y \in Seq(Effect) /\ \A K \in Kinds : LastOf(y, K) = IF f.fx \in K THEN f ELSE LastOf(x, K)
  BY <1>1, <1>2, LastOfMore, KindsOfCommands
<1> QED
  BY <1>2, <1>3 DEF y

\* The commands that the lists are made of, by kind.
LEMMA Commanded ==
    /\ Command("StopAudio") \in Effect /\ Command("ArmPulseTimeout") \in Effect
    /\ Command("CancelPulseTimeout") \in Effect /\ Command("ArmRecordingTimeout") \in Effect
    /\ Command("CancelRecordingTimeout") \in Effect /\ Command("StartRecording") \in Effect
    /\ Command("StopRecording") \in Effect /\ Command("FetchRandomQuestion") \in Effect
    /\ Command("FetchRandomMessage") \in Effect /\ Command("FetchInstructions") \in Effect
    /\ Command("Reboot") \in Effect /\ Command("PowerOff") \in Effect
    /\ \A k : Command(k).fx = k
    /\ \A a \in AudioRef : Play(a) \in Effect
    /\ \A a : Play(a).fx = "Play" /\ Play(a).audio = a
    /\ \A b \in BoothStatus : PutStatus(b) \in Effect
    /\ \A b : PutStatus(b).fx = "PutStatus" /\ PutStatus(b).status = b
    /\ \A r \in RecordingId, q \in QuestionId :
          UploadRecording(r, q) \in Effect /\ UploadRecording(r, q).fx = "UploadRecording"
    /\ \A l \in Led : SetStatusLed(l) \in Effect
    /\ \A l : SetStatusLed(l).fx = "SetStatusLed"
  BY DEF Command, Effect, Commands, Play, PutStatus, UploadRecording, SetStatusLed

\* What a list says to each of the outputs.
Says(x, sound, pulse, limit, put) ==
    /\ x \in Seq(Effect)
    /\ SoundOf(x) = sound /\ PulseOf(x) = pulse /\ LimitOf(x) = limit /\ PutOf(x) = put

\* The two long lists.
LEMMA HangUpLists ==
    /\ Says(<<StopAudio, CancelPulseTimeout, CancelRecordingTimeout, PutStatus("Idle")>>,
            StopAudio, CancelPulseTimeout, CancelRecordingTimeout, PutStatus("Idle"))
    /\ Says(<<StopAudio, CancelRecordingTimeout, StopRecording, CancelPulseTimeout,
              PutStatus("Uploading")>>,
            StopAudio, CancelPulseTimeout, CancelRecordingTimeout, PutStatus("Uploading"))
<1> DEFINE idle == PutStatus("Idle")
           uploading == PutStatus("Uploading")
           x == <<StopAudio, CancelPulseTimeout, CancelRecordingTimeout, idle>>
           y == <<StopAudio, CancelRecordingTimeout, StopRecording, CancelPulseTimeout, uploading>>
<1>1. /\ StopAudio \in Effect /\ StopAudio.fx = "StopAudio"
      /\ CancelPulseTimeout \in Effect /\ CancelPulseTimeout.fx = "CancelPulseTimeout"
      /\ CancelRecordingTimeout \in Effect
      /\ CancelRecordingTimeout.fx = "CancelRecordingTimeout"
      /\ StopRecording \in Effect /\ StopRecording.fx = "StopRecording"
      /\ idle \in Effect /\ idle.fx = "PutStatus"
      /\ uploading \in Effect /\ uploading.fx = "PutStatus"
  BY Commanded DEF StopAudio, CancelPulseTimeout, CancelRecordingTimeout, StopRecording, BoothStatus
<1> HIDE DEF idle, uploading
<1>2. /\ x \in Seq(Effect)
      /\ \A K \in Kinds : LastOf(x, K) =
            IF idle.fx \in K THEN idle
            ELSE IF CancelRecordingTimeout.fx \in K THEN CancelRecordingTimeout
            ELSE IF CancelPulseTimeout.fx \in K THEN CancelPulseTimeout
            ELSE IF StopAudio.fx \in K THEN StopAudio ELSE NoEffect
  BY <1>1, ListOfFour
<1>3. /\ y \in Seq(Effect)
      /\ \A K \in Kinds : LastOf(y, K) =
            IF uploading.fx \in K THEN uploading
            ELSE IF CancelPulseTimeout.fx \in K THEN CancelPulseTimeout
            ELSE IF StopRecording.fx \in K THEN StopRecording
            ELSE IF CancelRecordingTimeout.fx \in K THEN CancelRecordingTimeout
            ELSE IF StopAudio.fx \in K THEN StopAudio ELSE NoEffect
  BY <1>1, ListOfFive
<1> HIDE DEF x, y
<1>4. Says(x, StopAudio, CancelPulseTimeout, CancelRecordingTimeout, idle)
  BY <1>1, <1>2 DEF Says, SoundOf, PulseOf, LimitOf, PutOf, Sounds, Pulses, Limits, Puts, Kinds
<1>5. Says(y, StopAudio, CancelPulseTimeout, CancelRecordingTimeout, uploading)
  BY <1>1, <1>3 DEF Says, SoundOf, PulseOf, LimitOf, PutOf, Sounds, Pulses, Limits, Puts, Kinds
<1>6. QED
  BY <1>4, <1>5 DEF x, y, idle, uploading

LEMMA Lists ==
    /\ Says(<<>>, NoEffect, NoEffect, NoEffect, NoEffect)
    /\ Says(<<StopAudio, CancelRecordingTimeout, StopRecording, CancelPulseTimeout,
              PutStatus("Uploading")>>,
            StopAudio, CancelPulseTimeout, CancelRecordingTimeout, PutStatus("Uploading"))
    /\ Says(<<StopAudio, CancelPulseTimeout>>, StopAudio, CancelPulseTimeout, NoEffect, NoEffect)
    /\ Says(<<StopAudio, CancelRecordingTimeout, CancelPulseTimeout>>,
            StopAudio, CancelPulseTimeout, CancelRecordingTimeout, NoEffect)
    /\ Says(<<StopAudio, CancelPulseTimeout, CancelRecordingTimeout, PutStatus("Idle")>>,
            StopAudio, CancelPulseTimeout, CancelRecordingTimeout, PutStatus("Idle"))
    /\ Says(<<Command("Reboot")>>, NoEffect, NoEffect, NoEffect, NoEffect)
    /\ Says(<<Command("PowerOff")>>, NoEffect, NoEffect, NoEffect, NoEffect)
    /\ Says(<<Command("FetchInstructions"), CancelPulseTimeout>>,
            NoEffect, CancelPulseTimeout, NoEffect, NoEffect)
    /\ Says(<<Command("FetchRandomQuestion"), CancelPulseTimeout>>,
            NoEffect, CancelPulseTimeout, NoEffect, NoEffect)
    /\ Says(<<Command("FetchRandomMessage"), CancelPulseTimeout>>,
            NoEffect, CancelPulseTimeout, NoEffect, NoEffect)
    /\ Says(<<Play("CallUnavailable"), CancelPulseTimeout, PutStatus("CallUnavailable")>>,
            Play("CallUnavailable"), CancelPulseTimeout, NoEffect, PutStatus("CallUnavailable"))
    /\ Says(<<Play("LineBusy")>>, Play("LineBusy"), NoEffect, NoEffect, NoEffect)
    /\ Says(<<Play("DialTone"), CancelPulseTimeout>>,
            Play("DialTone"), CancelPulseTimeout, NoEffect, NoEffect)
    /\ Says(<<Command("ArmPulseTimeout")>>, NoEffect, Command("ArmPulseTimeout"), NoEffect, NoEffect)
    /\ Says(<<StopAudio, Command("ArmPulseTimeout")>>,
            StopAudio, Command("ArmPulseTimeout"), NoEffect, NoEffect)
    /\ \A a \in AudioRef, b \in BoothStatus :
          Says(<<Play(a), PutStatus(b)>>, Play(a), NoEffect, NoEffect, PutStatus(b))
    /\ Says(<<Command("StartRecording"), Command("ArmRecordingTimeout"), PutStatus("Recording")>>,
            NoEffect, NoEffect, Command("ArmRecordingTimeout"), PutStatus("Recording"))
    /\ Says(<<CancelRecordingTimeout, StopRecording, PutStatus("Uploading")>>,
            NoEffect, NoEffect, CancelRecordingTimeout, PutStatus("Uploading"))
    /\ Says(<<Play("LineBusy"), CancelRecordingTimeout, PutStatus("Idle")>>,
            Play("LineBusy"), NoEffect, CancelRecordingTimeout, PutStatus("Idle"))
    /\ \A r \in RecordingId, q \in QuestionId :
          /\ Says(<<CancelRecordingTimeout>> \o
                     <<Play("Beep"), UploadRecording(r, q), PutStatus("Uploading")>>,
                  Play("Beep"), NoEffect, CancelRecordingTimeout, PutStatus("Uploading"))
          /\ Says(<<>> \o <<Play("Beep"), UploadRecording(r, q), PutStatus("Uploading")>>,
                  Play("Beep"), NoEffect, NoEffect, PutStatus("Uploading"))
          /\ Says(<<UploadRecording(r, q), PutStatus("Uploading")>>,
                  NoEffect, NoEffect, NoEffect, PutStatus("Uploading"))
    /\ Says(<<PutStatus("Idle")>>, NoEffect, NoEffect, NoEffect, PutStatus("Idle"))
    /\ Says(<<StopAudio, PutStatus("Idle")>>, StopAudio, NoEffect, NoEffect, PutStatus("Idle"))
<1> USE Commanded DEF Says, SoundOf, PulseOf, LimitOf, PutOf, Sounds, Pulses, Limits, Puts, Kinds,
        AudioRef, RemoteAudio, BoothStatus, StopAudio, CancelPulseTimeout, CancelRecordingTimeout,
        StopRecording
<1>1. Says(<<>>, NoEffect, NoEffect, NoEffect, NoEffect)
  BY ListOfNone
<1>2. Says(<<StopAudio, CancelRecordingTimeout, StopRecording, CancelPulseTimeout,
              PutStatus("Uploading")>>,
            StopAudio, CancelPulseTimeout, CancelRecordingTimeout, PutStatus("Uploading"))
  BY HangUpLists
<1>3. Says(<<StopAudio, CancelPulseTimeout>>, StopAudio, CancelPulseTimeout, NoEffect, NoEffect)
  BY ListOfTwo
<1>4. Says(<<StopAudio, CancelRecordingTimeout, CancelPulseTimeout>>,
            StopAudio, CancelPulseTimeout, CancelRecordingTimeout, NoEffect)
  BY ListOfThree
<1>5. Says(<<StopAudio, CancelPulseTimeout, CancelRecordingTimeout, PutStatus("Idle")>>,
            StopAudio, CancelPulseTimeout, CancelRecordingTimeout, PutStatus("Idle"))
  BY HangUpLists
<1>6. Says(<<Command("Reboot")>>, NoEffect, NoEffect, NoEffect, NoEffect)
  BY LastOfOne
<1>7. Says(<<Command("PowerOff")>>, NoEffect, NoEffect, NoEffect, NoEffect)
  BY LastOfOne
<1>8. Says(<<Command("FetchInstructions"), CancelPulseTimeout>>,
            NoEffect, CancelPulseTimeout, NoEffect, NoEffect)
  BY ListOfTwo
<1>9. Says(<<Command("FetchRandomQuestion"), CancelPulseTimeout>>,
            NoEffect, CancelPulseTimeout, NoEffect, NoEffect)
  BY ListOfTwo
<1>10. Says(<<Command("FetchRandomMessage"), CancelPulseTimeout>>,
            NoEffect, CancelPulseTimeout, NoEffect, NoEffect)
  BY ListOfTwo
<1>11. Says(<<Play("CallUnavailable"), CancelPulseTimeout, PutStatus("CallUnavailable")>>,
            Play("CallUnavailable"), CancelPulseTimeout, NoEffect, PutStatus("CallUnavailable"))
  BY ListOfThree
<1>12. Says(<<Play("LineBusy")>>, Play("LineBusy"), NoEffect, NoEffect, NoEffect)
  BY LastOfOne
<1>13. Says(<<Play("DialTone"), CancelPulseTimeout>>,
            Play("DialTone"), CancelPulseTimeout, NoEffect, NoEffect)
  BY ListOfTwo
<1>14. Says(<<Command("ArmPulseTimeout")>>, NoEffect, Command("ArmPulseTimeout"), NoEffect, NoEffect)
  BY LastOfOne
<1>15. Says(<<StopAudio, Command("ArmPulseTimeout")>>,
            StopAudio, Command("ArmPulseTimeout"), NoEffect, NoEffect)
  BY ListOfTwo
<1>16. \A a \in AudioRef, b \in BoothStatus :
          Says(<<Play(a), PutStatus(b)>>, Play(a), NoEffect, NoEffect, PutStatus(b))
  BY ListOfTwo
<1>17. Says(<<Command("StartRecording"), Command("ArmRecordingTimeout"), PutStatus("Recording")>>,
            NoEffect, NoEffect, Command("ArmRecordingTimeout"), PutStatus("Recording"))
  BY ListOfThree
<1>18. Says(<<CancelRecordingTimeout, StopRecording, PutStatus("Uploading")>>,
            NoEffect, NoEffect, CancelRecordingTimeout, PutStatus("Uploading"))
  BY ListOfThree
<1>19. Says(<<Play("LineBusy"), CancelRecordingTimeout, PutStatus("Idle")>>,
            Play("LineBusy"), NoEffect, CancelRecordingTimeout, PutStatus("Idle"))
  BY ListOfThree
<1>20. \A r \in RecordingId, q \in QuestionId :
          /\ Says(<<CancelRecordingTimeout>> \o
                     <<Play("Beep"), UploadRecording(r, q), PutStatus("Uploading")>>,
                  Play("Beep"), NoEffect, CancelRecordingTimeout, PutStatus("Uploading"))
          /\ Says(<<>> \o <<Play("Beep"), UploadRecording(r, q), PutStatus("Uploading")>>,
                  Play("Beep"), NoEffect, NoEffect, PutStatus("Uploading"))
          /\ Says(<<UploadRecording(r, q), PutStatus("Uploading")>>,
                  NoEffect, NoEffect, NoEffect, PutStatus("Uploading"))
  <2> SUFFICES ASSUME NEW r \in RecordingId, NEW q \in QuestionId
               PROVE  /\ Says(<<CancelRecordingTimeout>> \o
                                 <<Play("Beep"), UploadRecording(r, q), PutStatus("Uploading")>>,
                              Play("Beep"), NoEffect, CancelRecordingTimeout, PutStatus("Uploading"))
                      /\ Says(<<>> \o
                                 <<Play("Beep"), UploadRecording(r, q), PutStatus("Uploading")>>,
                              Play("Beep"), NoEffect, NoEffect, PutStatus("Uploading"))
                      /\ Says(<<UploadRecording(r, q), PutStatus("Uploading")>>,
                              NoEffect, NoEffect, NoEffect, PutStatus("Uploading"))
    OBVIOUS
  <2> DEFINE x == <<Play("Beep"), UploadRecording(r, q), PutStatus("Uploading")>>
             y == <<CancelRecordingTimeout>>
  <2>1. Says(x, Play("Beep"), NoEffect, NoEffect, PutStatus("Uploading"))
    BY ListOfThree
  <2>2. Says(y, NoEffect, NoEffect, CancelRecordingTimeout, NoEffect)
    BY LastOfOne
  <2>3. Says(<<UploadRecording(r, q), PutStatus("Uploading")>>,
             NoEffect, NoEffect, NoEffect, PutStatus("Uploading"))
    BY ListOfTwo
  <2> HIDE DEF x, y
  <2>4. Says(y \o x, Play("Beep"), NoEffect, CancelRecordingTimeout, PutStatus("Uploading"))
    <3>1. \A K \in Kinds : "NoEffect" \notin K
      BY KindsOfCommands
    <3>2. y \o x \in Seq(Effect) /\ y \in Seq(Effect) /\ x \in Seq(Effect)
      BY <2>1, <2>2
    <3> HIDE DEF Kinds
    <3>3. \A K \in Kinds :
             LastOf(y \o x, K) = IF LastOf(x, K) = NoEffect THEN LastOf(y, K) ELSE LastOf(x, K)
      BY <3>1, <3>2, LastJoined
    <3>4. QED
      BY <2>1, <2>2, <3>2, <3>3 DEF Kinds
  <2>5. <<>> \o x = x
    BY <2>1
  <2>6. QED
    BY <2>1, <2>3, <2>4, <2>5 DEF x, y
<1>21. Says(<<PutStatus("Idle")>>, NoEffect, NoEffect, NoEffect, PutStatus("Idle"))
  BY LastOfOne
<1>22. Says(<<StopAudio, PutStatus("Idle")>>, StopAudio, NoEffect, NoEffect, PutStatus("Idle"))
  BY ListOfTwo
<1>23. QED
  BY <1>1, <1>2, <1>3, <1>4, <1>5, <1>6, <1>7, <1>8, <1>9, <1>10, <1>11,
     <1>12, <1>13, <1>14, <1>15, <1>16, <1>17, <1>18, <1>19, <1>20, <1>21, <1>22

----------------------------------------------------------------------------
(* handle_inner, part by part *)

\* A step that stays where it is and says nothing to the outputs.
LEMMA Unmoved ==
    ASSUME NEW s, NEW e, NEW x, Says(x, NoEffect, NoEffect, NoEffect, NoEffect),
           ~(WaitsForClip(s) /\ e.ev = "PlaybackEnded"),
           ~(s.tag = "Recording" /\ e.ev = "RecordingTimedOut")
    PROVE  Moves(s, e, s, x)
  BY DEF Says, Moves, SoundMoves, LimitMoves, PulseMoves, StatusMoves

\* What the variants mean to the outputs.
LEMMA PlainMeans ==
    ASSUME NEW t
    PROVE  /\ Plain(t).tag = t
           /\ AtRest(Plain(t)) <=> t \in {"Idle", "CallsPaused"}
           /\ Groups(Plain(t)) <=> t \in {"Dialing", "Error"}
           /\ WaitsForClip(Plain(t)) <=>
                t \in {"RingingQuestion", "PlayingQuestion", "Beep", "RecordingEndedBeep",
                       "PlayingMessage", "PlayingInstructions", "CallUnavailable"}
           /\ Advertised(Plain(t)) <=>
                t \notin {"CallsPaused", "Error", "Recording", "FinishingRecording",
                          "FinishingTimedOutRecording", "Uploading", "UploadingTimedOut"}
  BY DEF Plain, Variant, AtRest, OnHook, Groups, WaitsForClip, Advertised, Protected

LEMMA StatusOfPlain ==
    /\ status(Plain("Idle")) = "Idle" /\ status(Plain("DialTone")) = "DialTone"
    /\ status(Plain("CallUnavailable")) = "CallUnavailable"
    /\ status(Plain("PlayingMessage")) = "PlayingMessage"
    /\ status(Plain("PlayingInstructions")) = "PlayingInstructions"
    /\ status(Plain("RecordingEndedBeep")) = "Uploading"
  BY DEF status, Plain, Variant

\* Back to a tone: whatever the state was, unless a timer runs in it.
LEMMA ToneMoves ==
    ASSUME NEW s, s.tag # "Recording", NEW e
    PROVE  /\ ~Groups(s) => Moves(s, e, Plain("DialTone"), ToDialTone.effects)
           /\ ~Groups(s) /\ AtRest(s) => Moves(s, e, Plain("Idle"), ToIdle.effects)
           /\ Moves(s, e, Plain("Error"), ToBusyTone.effects)
           /\ ToDialTone = To(Plain("DialTone"), ToDialTone.effects)
           /\ ToIdle = To(Plain("Idle"), ToIdle.effects)
           /\ ToBusyTone = To(Plain("Error"), ToBusyTone.effects)
<1>1. /\ ToDialTone.effects = <<Play("DialTone"), PutStatus("DialTone")>>
      /\ ToIdle.effects = <<PutStatus("Idle")>>
      /\ ToBusyTone.effects = <<Play("LineBusy")>>
      /\ ToDialTone = To(Plain("DialTone"), ToDialTone.effects)
      /\ ToIdle = To(Plain("Idle"), ToIdle.effects)
      /\ ToBusyTone = To(Plain("Error"), ToBusyTone.effects)
  BY DEF ToDialTone, ToIdle, ToBusyTone, To
<1>2. /\ Says(ToDialTone.effects, Play("DialTone"), NoEffect, NoEffect, PutStatus("DialTone"))
      /\ Says(ToIdle.effects, NoEffect, NoEffect, NoEffect, PutStatus("Idle"))
      /\ Says(ToBusyTone.effects, Play("LineBusy"), NoEffect, NoEffect, NoEffect)
  BY <1>1, Lists DEF AudioRef, BoothStatus
<1>3. ~Groups(s) => Moves(s, e, Plain("DialTone"), ToDialTone.effects)
  BY <1>2, PlainMeans, StatusOfPlain DEF Says, Moves, SoundMoves, LimitMoves, PulseMoves, StatusMoves
<1>4. ~Groups(s) /\ AtRest(s) => Moves(s, e, Plain("Idle"), ToIdle.effects)
  BY <1>2, PlainMeans, StatusOfPlain DEF Says, Moves, SoundMoves, LimitMoves, PulseMoves, StatusMoves
<1>5. Moves(s, e, Plain("Error"), ToBusyTone.effects)
  BY <1>2, PlainMeans DEF Says, Moves, SoundMoves, LimitMoves, PulseMoves, StatusMoves
<1>6. QED
  BY <1>1, <1>3, <1>4, <1>5

\* The step y leaves the outputs as its state says.
Outputs(s, e, y) == Moves(s, e, y.state, y.effects)

LEMMA OutputsOf ==
    ASSUME NEW s, NEW e, NEW new, NEW x
    PROVE  Outputs(s, e, To(new, x)) <=> Moves(s, e, new, x)
  BY DEF Outputs, To

LEMMA HangUpOutputs ==
    ASSUME NEW s, WellFormed(s), NEW e, e.ev = "HookOn"
    PROVE  Outputs(s, e, HangUp(s))
<1> USE DEF Moves, SoundMoves, LimitMoves, PulseMoves, StatusMoves, Says
<1>1. CASE s.tag = "Recording"
  <2> DEFINE new == Finishing("FinishingRecording", s.question, TRUE)
             x == <<StopAudio, CancelRecordingTimeout, StopRecording, CancelPulseTimeout,
                    PutStatus("Uploading")>>
  <2>1. HangUp(s) = To(new, x)
    BY <1>1 DEF HangUp
  <2>2. Says(x, StopAudio, CancelPulseTimeout, CancelRecordingTimeout, PutStatus("Uploading"))
    BY Lists
  <2>3. new.tag = "FinishingRecording"
    BY DEF Finishing, Variant
  <2> HIDE DEF new, x
  <2>4. Moves(s, e, new, x)
    BY <2>2, <2>3 DEF WaitsForClip, Advertised, Protected
  <2>5. QED
    BY <2>1, <2>4, OutputsOf
<1>2. CASE Finishes(s)
  <2> DEFINE new == [s EXCEPT !.on_hook = TRUE]
  <2>1. \/ HangUp(s) = To(new, <<StopAudio, CancelPulseTimeout>>)
        \/ HangUp(s) = To(new, <<StopAudio, CancelRecordingTimeout, CancelPulseTimeout>>)
    BY <1>2 DEF HangUp, Finishes
  <2>2. new.tag = s.tag
    BY DEF WellFormed, State
  <2> HIDE DEF new
  <2>3. ASSUME NEW x, SoundOf(x) = StopAudio, PulseOf(x) = CancelPulseTimeout, x \in Seq(Effect),
               LimitOf(x) \in {CancelRecordingTimeout, NoEffect}
        PROVE  Moves(s, e, new, x)
    BY <1>2, <2>2, <2>3 DEF Finishes, WaitsForClip, Advertised, Protected
  <2> HIDE DEF Moves
  <2>4. \A x \in {<<StopAudio, CancelPulseTimeout>>,
                 <<StopAudio, CancelRecordingTimeout, CancelPulseTimeout>>} : Moves(s, e, new, x)
    BY <2>3, Lists
  <2>5. QED
    BY <2>1, <2>4, OutputsOf
<1>3. CASE ~Answering(s)
  <2> DEFINE x == <<StopAudio, CancelPulseTimeout, CancelRecordingTimeout, PutStatus("Idle")>>
  <2>1. HangUp(s) = To(Plain("Idle"), x)
    BY <1>3 DEF HangUp, Answering, Finishes
  <2>2. Says(x, StopAudio, CancelPulseTimeout, CancelRecordingTimeout, PutStatus("Idle"))
    BY Lists
  <2> HIDE DEF x
  <2>3. Moves(s, e, Plain("Idle"), x)
    BY <2>2, PlainMeans, StatusOfPlain
  <2>4. QED
    BY <2>1, <2>3, OutputsOf
<1>4. QED
  BY <1>1, <1>2, <1>3 DEF Answering

LEMMA DecodeOutputs ==
    ASSUME NEW d \in Nat, NEW s, s.tag \in {"DialTone", "Dialing"}, ~OnHook(s), NEW e
    PROVE  Outputs(s, e, decode_digit(d))
<1>1. s.tag # "Recording" /\ status(s) = "DialTone" /\ Advertised(s)
  BY DEF status, Advertised, Protected
<1>2. CASE d \in 0..2
  <2> DEFINE lists == {<<Command("FetchInstructions"), CancelPulseTimeout>>,
                       <<Command("FetchRandomQuestion"), CancelPulseTimeout>>,
                       <<Command("FetchRandomMessage"), CancelPulseTimeout>>}
  <2>1. \E x \in lists : decode_digit(d) = To(Plain("DialTone"), x)
    BY <1>2 DEF decode_digit
  <2>2. \A x \in lists : Says(x, NoEffect, CancelPulseTimeout, NoEffect, NoEffect)
    BY Lists
  <2> HIDE DEF lists
  <2>3. \A x \in lists : Moves(s, e, Plain("DialTone"), x)
    BY <1>1, <2>2, PlainMeans, StatusOfPlain
       DEF Says, Moves, SoundMoves, LimitMoves, PulseMoves, StatusMoves
  <2>4. QED
    BY <2>1, <2>3, OutputsOf
<1>3. CASE d \in 3..9
  <2> DEFINE x == <<Play("CallUnavailable"), CancelPulseTimeout, PutStatus("CallUnavailable")>>
  <2>1. decode_digit(d) = To(Plain("CallUnavailable"), x)
    BY <1>3 DEF decode_digit
  <2>2. Says(x, Play("CallUnavailable"), CancelPulseTimeout, NoEffect, PutStatus("CallUnavailable"))
    BY Lists
  <2> HIDE DEF x
  <2>3. Moves(s, e, Plain("CallUnavailable"), x)
    BY <1>1, <2>2, PlainMeans, StatusOfPlain, Commanded
       DEF Says, Moves, SoundMoves, LimitMoves, PulseMoves, StatusMoves, Clips
  <2>4. QED
    BY <2>1, <2>3, OutputsOf
<1>4. CASE d > 9
  <2>1. decode_digit(d) = ToBusyTone
    BY <1>4 DEF decode_digit
  <2>2. QED
    BY <1>1, <2>1, ToneMoves, OutputsOf
<1>5. QED
  BY <1>2, <1>3, <1>4

\* A clip starts, and its state is put to the operator.
LEMMA ClipMoves ==
    ASSUME NEW s, s.tag # "Recording", ~Groups(s), NEW e, NEW new,
           new.tag \notin {"Recording", "Dialing", "Error"}, ~AtRest(new),
           NEW a \in Clips, a \in AudioRef, status(new) \in BoothStatus
    PROVE  Outputs(s, e, To(new, <<Play(a), PutStatus(status(new))>>))
<1> DEFINE x == <<Play(a), PutStatus(status(new))>>
<1>1. Says(x, Play(a), NoEffect, NoEffect, PutStatus(status(new)))
  BY Lists
<1> HIDE DEF x
<1>2. Moves(s, e, new, x)
  BY <1>1, Commanded DEF Says, Moves, SoundMoves, LimitMoves, PulseMoves, StatusMoves, Groups
<1>3. QED
  BY <1>2, OutputsOf DEF x

LEMMA CountPulseOutputs ==
    ASSUME NEW s, s.tag = "Dialing", ~OnHook(s), NEW e
    PROVE  Outputs(s, e, CountPulse(s))
<1> USE DEF Says, Moves, SoundMoves, LimitMoves, PulseMoves, StatusMoves
<1>1. status(s) = "DialTone" /\ Advertised(s)
  BY DEF status, Advertised, Protected
<1>2. CASE s.pulses + 1 > MAX_PULSES_PER_DIGIT
  <2> DEFINE x == <<Play("DialTone"), CancelPulseTimeout>>
  <2>1. CountPulse(s) = To(Plain("DialTone"), x)
    BY <1>2 DEF CountPulse
  <2>2. Says(x, Play("DialTone"), CancelPulseTimeout, NoEffect, NoEffect)
    BY Lists
  <2> HIDE DEF x
  <2>3. Moves(s, e, Plain("DialTone"), x)
    BY <1>1, <2>2, PlainMeans, StatusOfPlain
  <2>4. QED
    BY <2>1, <2>3, OutputsOf
<1>3. CASE ~(s.pulses + 1 > MAX_PULSES_PER_DIGIT)
  <2> DEFINE x == <<Command("ArmPulseTimeout")>>
             new == Dialing(s.pulses + 1)
  <2>1. CountPulse(s) = To(new, x)
    BY <1>3 DEF CountPulse
  <2>2. Says(x, NoEffect, Command("ArmPulseTimeout"), NoEffect, NoEffect)
    BY Lists
  <2>3. new.tag = "Dialing" /\ ~AtRest(new) /\ status(new) = "DialTone"
    BY DEF Dialing, Variant, AtRest, OnHook, status
  <2> HIDE DEF x, new
  <2>4. Moves(s, e, new, x)
    BY <1>1, <2>2, <2>3 DEF Groups, WaitsForClip
  <2>5. QED
    BY <2>1, <2>4, OutputsOf
<1>4. QED
  BY <1>2, <1>3

LEMMA AskingMeans ==
    ASSUME NEW t, NEW q
    PROVE  /\ Asking(t, q).tag = t
           /\ t # "Idle" /\ t # "CallsPaused" => ~AtRest(Asking(t, q))
           /\ t \in {"RingingQuestion", "PlayingQuestion", "Beep"}
                => status(Asking(t, q)) = "PlayingQuestion"
           /\ t = "Recording" => status(Asking(t, q)) = "Recording"
  BY DEF Asking, Variant, AtRest, OnHook, status

LEMMA WhileDialingOutputs ==
    ASSUME NEW s, WellFormed(s), s.tag \in {"DialTone", "Dialing"}, NEW e \in Event
    PROVE  Outputs(s, e, WhileDialing(s, e))
<1>1. ~OnHook(s)
  BY FieldTypes DEF OnHook, CarriesHook
<1>2. CASE e.ev = "DigitDialed"
  <2>1. WhileDialing(s, e) = decode_digit(e.digit) /\ e.digit \in Nat
    BY <1>2, EventTypes DEF WhileDialing
  <2>2. QED
    BY <1>1, <2>1, DecodeOutputs
<1>3. CASE e.ev = "Tick" /\ s.tag = "Dialing"
  <2>1. WhileDialing(s, e) = decode_digit(IF s.pulses = 10 THEN 0 ELSE s.pulses)
    BY <1>3 DEF WhileDialing
  <2>2. (IF s.pulses = 10 THEN 0 ELSE s.pulses) \in Nat
    BY <1>3, FieldTypes DEF MAX_PULSES_PER_DIGIT
  <2>3. QED
    BY <1>1, <2>1, <2>2, DecodeOutputs
<1>4. CASE e.ev = "RotaryPulse" /\ s.tag = "DialTone"
  <2> DEFINE x == <<StopAudio, Command("ArmPulseTimeout")>>
             new == Dialing(1)
  <2>1. WhileDialing(s, e) = To(new, x)
    BY <1>4 DEF WhileDialing
  <2>2. Says(x, StopAudio, Command("ArmPulseTimeout"), NoEffect, NoEffect)
    BY Lists
  <2>3. new.tag = "Dialing" /\ ~AtRest(new) /\ status(new) = "DialTone"
    BY DEF Dialing, Variant, AtRest, OnHook, status
  <2>4. status(s) = "DialTone" /\ Advertised(s)
    BY <1>4 DEF status, Advertised, Protected
  <2> HIDE DEF x, new
  <2>5. Moves(s, e, new, x)
    BY <1>4, <2>2, <2>3, <2>4
       DEF Says, Moves, SoundMoves, LimitMoves, PulseMoves, StatusMoves, Groups, WaitsForClip
  <2>6. QED
    BY <2>1, <2>5, OutputsOf
<1>5. CASE e.ev = "RotaryPulse" /\ s.tag = "Dialing"
  <2>1. WhileDialing(s, e) = CountPulse(s)
    BY <1>5 DEF WhileDialing
  <2>2. QED
    BY <1>1, <1>5, <2>1, CountPulseOutputs
<1>6. CASE e.ev \in {"QuestionReady", "MessageReady", "InstructionsReady"} /\ s.tag = "DialTone"
  <2>1. \/ WhileDialing(s, e) = To(Asking("RingingQuestion", e.question),
                                   <<Play("Ringback"), PutStatus("PlayingQuestion")>>)
        \/ WhileDialing(s, e) = To(Plain("PlayingMessage"),
                                   <<Play(RemoteAudio), PutStatus("PlayingMessage")>>)
        \/ WhileDialing(s, e) = To(Plain("PlayingInstructions"),
                                   <<Play(RemoteAudio), PutStatus("PlayingInstructions")>>)
    BY <1>6 DEF WhileDialing
  <2>2. s.tag # "Recording" /\ ~Groups(s)
    BY <1>6 DEF Groups
  <2>3. /\ {"Ringback", RemoteAudio} \subseteq Clips \cap AudioRef
        /\ {"PlayingQuestion", "PlayingMessage", "PlayingInstructions"} \subseteq BoothStatus
    BY DEF Clips, AudioRef, BoothStatus
  <2>4. Outputs(s, e, To(Asking("RingingQuestion", e.question),
                         <<Play("Ringback"), PutStatus("PlayingQuestion")>>))
    <3> DEFINE new == Asking("RingingQuestion", e.question)
    <3>1. new.tag = "RingingQuestion" /\ ~AtRest(new) /\ status(new) = "PlayingQuestion"
      BY AskingMeans
    <3> HIDE DEF new
    <3>2. Outputs(s, e, To(new, <<Play("Ringback"), PutStatus(status(new))>>))
      BY <2>2, <2>3, <3>1, ClipMoves
    <3>3. QED
      BY <3>1, <3>2 DEF new
  <2>5. ASSUME NEW t \in {"PlayingMessage", "PlayingInstructions"}
        PROVE  Outputs(s, e, To(Plain(t), <<Play(RemoteAudio), PutStatus(t)>>))
    <3>1. Plain(t).tag = t /\ ~AtRest(Plain(t)) /\ status(Plain(t)) = t
      BY PlainMeans, StatusOfPlain
    <3>2. Outputs(s, e, To(Plain(t), <<Play(RemoteAudio), PutStatus(status(Plain(t)))>>))
      BY <2>2, <2>3, <3>1, ClipMoves
    <3>3. QED
      BY <3>1, <3>2
  <2>6. QED
    BY <2>1, <2>4, <2>5
<1>7. CASE e.ev \in {"QuestionFailed", "MessageFailed", "InstructionsFailed"} /\ s.tag = "DialTone"
  <2>1. WhileDialing(s, e) = ToBusyTone
    BY <1>7 DEF WhileDialing
  <2>2. QED
    BY <1>7, <2>1, ToneMoves, OutputsOf
<1>8. CASE \/ e.ev \notin {"DigitDialed", "RotaryPulse", "Tick", "QuestionReady", "MessageReady",
                           "InstructionsReady", "QuestionFailed", "MessageFailed",
                           "InstructionsFailed"}
           \/ s.tag = "Dialing" /\ e.ev \notin {"DigitDialed", "RotaryPulse", "Tick"}
           \/ s.tag = "DialTone" /\ e.ev = "Tick"
  <2>1. WhileDialing(s, e) = To(s, <<>>)
    BY <1>8 DEF WhileDialing
  <2>2. ~WaitsForClip(s) /\ s.tag # "Recording"
    BY DEF WaitsForClip
  <2>3. QED
    BY <2>1, <2>2, Lists, Unmoved, OutputsOf
<1>9. QED
  BY <1>2, <1>3, <1>4, <1>5, <1>6, <1>7, <1>8

LEMMA WhilePlayingOutputs ==
    ASSUME NEW s, WellFormed(s), NEW e,
           s.tag \in {"RingingQuestion", "PlayingQuestion", "Beep", "RecordingEndedBeep",
                      "PlayingMessage", "PlayingInstructions", "CallUnavailable"}
    PROVE  Outputs(s, e, WhilePlaying(s, e))
<1>1. s.tag # "Recording" /\ ~Groups(s)
  BY DEF Groups
<1>2. CASE e.ev # "PlaybackEnded"
  <2>1. WhilePlaying(s, e) = To(s, <<>>)
    BY <1>2 DEF WhilePlaying
  <2>2. QED
    BY <1>1, <1>2, <2>1, Lists, Unmoved, OutputsOf
<1>3. CASE e.ev = "PlaybackEnded" /\ s.tag \in {"RingingQuestion", "PlayingQuestion"}
  <2> DEFINE asked == Asking("PlayingQuestion", s.question)
             beep == Asking("Beep", s.question)
  <2>1. \/ WhilePlaying(s, e) = To(asked, <<Play(RemoteAudio), PutStatus("PlayingQuestion")>>)
        \/ WhilePlaying(s, e) = To(beep, <<Play("Beep"), PutStatus("PlayingQuestion")>>)
    BY <1>3 DEF WhilePlaying
  <2>2. {"Beep", RemoteAudio} \subseteq Clips \cap AudioRef /\ "PlayingQuestion" \in BoothStatus
    BY DEF Clips, AudioRef, BoothStatus
  <2>3. \A new \in {asked, beep} : /\ new.tag \in {"PlayingQuestion", "Beep"} /\ ~AtRest(new)
                                  /\ status(new) = "PlayingQuestion"
    BY AskingMeans
  <2> HIDE DEF asked, beep
  <2>4. \A new \in {asked, beep}, a \in {"Beep", RemoteAudio} :
           Outputs(s, e, To(new, <<Play(a), PutStatus(status(new))>>))
    BY <1>1, <2>2, <2>3, ClipMoves
  <2>5. QED
    BY <2>1, <2>3, <2>4
<1>4. CASE e.ev = "PlaybackEnded" /\ s.tag = "Beep"
  <2> DEFINE new == Asking("Recording", s.question)
             x == <<Command("StartRecording"), Command("ArmRecordingTimeout"),
                    PutStatus("Recording")>>
  <2>1. WhilePlaying(s, e) = To(new, x)
    BY <1>4 DEF WhilePlaying
  <2>2. Says(x, NoEffect, NoEffect, Command("ArmRecordingTimeout"), PutStatus("Recording"))
    BY Lists
  <2>3. new.tag = "Recording" /\ ~AtRest(new) /\ status(new) = "Recording"
    BY AskingMeans
  <2> HIDE DEF new, x
  <2>4. Moves(s, e, new, x)
    BY <1>1, <2>2, <2>3, Commanded
       DEF Says, Moves, SoundMoves, LimitMoves, PulseMoves, StatusMoves, WaitsForClip
  <2>5. QED
    BY <2>1, <2>4, OutputsOf
<1>5. CASE e.ev = "PlaybackEnded" /\ s.tag \notin {"RingingQuestion", "PlayingQuestion", "Beep"}
  <2>1. WhilePlaying(s, e) = ToDialTone
    BY <1>5 DEF WhilePlaying
  <2>2. QED
    BY <1>1, <2>1, ToneMoves, OutputsOf
<1>6. QED
  BY <1>2, <1>3, <1>4, <1>5

LEMMA WhileRecordingOutputs ==
    ASSUME NEW s, WellFormed(s), s.tag = "Recording", NEW e \in Event
    PROVE  Outputs(s, e, WhileRecording(s, e))
<1> USE DEF Says, Moves, SoundMoves, LimitMoves, PulseMoves, StatusMoves
<1>1. s.question \in QuestionId /\ ~Groups(s)
  BY FieldTypes DEF CarriesQuestion, Groups
<1>2. CASE e.ev = "RecordingTimedOut"
  <2> DEFINE new == Finishing("FinishingTimedOutRecording", s.question, FALSE)
             x == <<CancelRecordingTimeout, StopRecording, PutStatus("Uploading")>>
  <2>1. WhileRecording(s, e) = To(new, x)
    BY <1>2 DEF WhileRecording
  <2>2. Says(x, NoEffect, NoEffect, CancelRecordingTimeout, PutStatus("Uploading"))
    BY Lists
  <2>3. new.tag = "FinishingTimedOutRecording" /\ ~AtRest(new)
    BY DEF Finishing, Variant, AtRest, OnHook
  <2> HIDE DEF new, x
  <2>4. Moves(s, e, new, x)
    BY <1>1, <2>2, <2>3 DEF WaitsForClip, Advertised, Protected
  <2>5. QED
    BY <2>1, <2>4, OutputsOf
<1>3. CASE e.ev = "RecordingFinished"
  <2> DEFINE new == UploadingTimedOut(s.question, e.recording, TRUE)
             x == <<CancelRecordingTimeout>> \o
                    <<Play("Beep"), UploadRecording(e.recording, s.question), PutStatus("Uploading")>>
  <2>1. WhileRecording(s, e) = To(new, x)
    BY <1>3 DEF WhileRecording, EndBeep
  <2>2. Says(x, Play("Beep"), NoEffect, CancelRecordingTimeout, PutStatus("Uploading"))
    BY <1>1, <1>3, EventTypes, Lists
  <2>3. new.tag = "UploadingTimedOut" /\ ~AtRest(new) /\ status(new) = "Uploading"
    BY DEF UploadingTimedOut, Variant, AtRest, OnHook, status
  <2> HIDE DEF new, x
  <2>4. Moves(s, e, new, x)
    BY <1>1, <2>2, <2>3, Commanded DEF Clips
  <2>5. QED
    BY <2>1, <2>4, OutputsOf
<1>4. CASE e.ev = "RecordingFailed"
  <2> DEFINE x == <<Play("LineBusy"), CancelRecordingTimeout, PutStatus("Idle")>>
  <2>1. WhileRecording(s, e) = To(Plain("Error"), x)
    BY <1>4 DEF WhileRecording
  <2>2. Says(x, Play("LineBusy"), NoEffect, CancelRecordingTimeout, PutStatus("Idle"))
    BY Lists
  <2> HIDE DEF x
  <2>3. Moves(s, e, Plain("Error"), x)
    BY <2>2, PlainMeans
  <2>4. QED
    BY <2>1, <2>3, OutputsOf
<1>5. CASE e.ev \notin {"RecordingTimedOut", "RecordingFinished", "RecordingFailed"}
  <2>1. WhileRecording(s, e) = To(s, <<>>)
    BY <1>5 DEF WhileRecording
  <2>2. ~WaitsForClip(s)
    BY DEF WaitsForClip
  <2> HIDE DEF Says, Moves
  <2>3. QED
    BY <1>5, <2>1, <2>2, Lists, Unmoved, OutputsOf
<1>6. QED
  BY <1>2, <1>3, <1>4, <1>5

\* A state whose handset is set, by an event that says nothing to the outputs.
LEMMA LiftedOutputs ==
    ASSUME NEW s, WellFormed(s),
           s.tag \in {"FinishingRecording", "FinishingTimedOutRecording", "Uploading"}, NEW e
    PROVE  Outputs(s, e, To([s EXCEPT !.on_hook = FALSE], <<>>))
<1> DEFINE new == [s EXCEPT !.on_hook = FALSE]
<1>1. new.tag = s.tag /\ new.on_hook = FALSE
  BY DEF WellFormed, State
<1>2. ~AtRest(new) /\ ~WaitsForClip(new) /\ ~Advertised(new) /\ ~Groups(s)
  BY <1>1 DEF AtRest, OnHook, WaitsForClip, Advertised, Protected, Groups
<1>3. Says(<<>>, NoEffect, NoEffect, NoEffect, NoEffect)
  BY Lists
<1> HIDE DEF new
<1>4. Moves(s, e, new, <<>>)
  BY <1>1, <1>2, <1>3 DEF Says, Moves, SoundMoves, LimitMoves, PulseMoves, StatusMoves
<1>5. QED
  BY <1>4, OutputsOf DEF new

LEMMA WhileFinishingOutputs ==
    ASSUME NEW s, WellFormed(s), Finishes(s), NEW e \in Event
    PROVE  Outputs(s, e, WhileFinishing(s, e))
<1>1. s.question \in QuestionId /\ ~Groups(s) /\ s.tag # "Recording" /\ ~WaitsForClip(s)
  BY FieldTypes DEF CarriesQuestion, Groups, Finishes, WaitsForClip
<1>2. CASE e.ev = "HookOff"
  <2>1. WhileFinishing(s, e) = To([s EXCEPT !.on_hook = FALSE], <<>>)
    BY <1>2 DEF WhileFinishing
  <2>2. QED
    BY <2>1, LiftedOutputs DEF Finishes
<1>3. CASE e.ev = "RecordingFinished" /\ s.tag = "FinishingTimedOutRecording" /\ ~s.on_hook
  <2> DEFINE new == UploadingTimedOut(s.question, e.recording, TRUE)
             x == <<>> \o
                    <<Play("Beep"), UploadRecording(e.recording, s.question), PutStatus("Uploading")>>
  <2>1. WhileFinishing(s, e) = To(new, x)
    BY <1>3 DEF WhileFinishing, EndBeep
  <2>2. Says(x, Play("Beep"), NoEffect, NoEffect, PutStatus("Uploading"))
    BY <1>1, <1>3, EventTypes, Lists
  <2>3. new.tag = "UploadingTimedOut" /\ ~AtRest(new) /\ status(new) = "Uploading"
    BY DEF UploadingTimedOut, Variant, AtRest, OnHook, status
  <2> HIDE DEF new, x
  <2>4. Moves(s, e, new, x)
    BY <1>1, <2>2, <2>3, Commanded
       DEF Clips, Says, Moves, SoundMoves, LimitMoves, PulseMoves, StatusMoves
  <2>5. QED
    BY <2>1, <2>4, OutputsOf
<1>4. CASE e.ev = "RecordingFinished" /\ ~(s.tag = "FinishingTimedOutRecording" /\ ~s.on_hook)
  <2> DEFINE new == Uploading(s.question, e.recording, s.on_hook)
             x == <<UploadRecording(e.recording, s.question), PutStatus("Uploading")>>
  <2>1. WhileFinishing(s, e) = To(new, x)
    BY <1>4 DEF WhileFinishing
  <2>2. Says(x, NoEffect, NoEffect, NoEffect, PutStatus("Uploading"))
    BY <1>1, <1>4, EventTypes, Lists
  <2>3. new.tag = "Uploading" /\ (AtRest(new) => AtRest(s))
    BY <1>1 DEF Uploading, Variant, AtRest, OnHook
  <2> HIDE DEF new, x
  <2>4. Moves(s, e, new, x)
    BY <1>1, <2>2, <2>3
       DEF Says, Moves, SoundMoves, LimitMoves, PulseMoves, StatusMoves, WaitsForClip, Advertised,
           Protected
  <2>5. QED
    BY <2>1, <2>4, OutputsOf
<1>5. CASE e.ev = "RecordingFailed"
  <2> DEFINE x == <<StopAudio, PutStatus("Idle")>>
  <2>1. WhileFinishing(s, e) = IF s.on_hook THEN To(Plain("Idle"), x) ELSE ToDialTone
    BY <1>5 DEF WhileFinishing
  <2>2. Says(x, StopAudio, NoEffect, NoEffect, PutStatus("Idle"))
    BY Lists
  <2> HIDE DEF x
  <2>3. Moves(s, e, Plain("Idle"), x)
    BY <1>1, <2>2, PlainMeans, StatusOfPlain
       DEF Says, Moves, SoundMoves, LimitMoves, PulseMoves, StatusMoves
  <2>4. QED
    BY <1>1, <2>1, <2>3, ToneMoves, OutputsOf
<1>6. CASE e.ev \notin {"HookOff", "RecordingFinished", "RecordingFailed"}
  <2>1. WhileFinishing(s, e) = To(s, <<>>)
    BY <1>6 DEF WhileFinishing
  <2>2. QED
    BY <1>1, <2>1, Lists, Unmoved, OutputsOf
<1>7. QED
  BY <1>2, <1>3, <1>4, <1>5, <1>6

LEMMA WhileUploadingOutputs ==
    ASSUME NEW s, WellFormed(s), s.tag = "Uploading", NEW e
    PROVE  Outputs(s, e, WhileUploading(s, e))
<1>1. ~Groups(s) /\ s.tag # "Recording" /\ ~WaitsForClip(s)
  BY DEF Groups, WaitsForClip
<1>2. CASE e.ev = "HookOff"
  <2>1. WhileUploading(s, e) = To([s EXCEPT !.on_hook = FALSE], <<>>)
    BY <1>2 DEF WhileUploading
  <2>2. QED
    BY <2>1, LiftedOutputs
<1>3. CASE e.ev \in {"UploadComplete", "UploadDeferred", "UploadFailed"}
  <2>1. \/ WhileUploading(s, e) = ToIdle /\ s.on_hook
        \/ WhileUploading(s, e) \in {ToDialTone, ToBusyTone}
    BY <1>3 DEF WhileUploading
  <2>2. s.on_hook => AtRest(s)
    BY DEF AtRest, OnHook
  <2>3. QED
    BY <1>1, <2>1, <2>2, ToneMoves, OutputsOf
<1>4. CASE e.ev \notin {"HookOff", "UploadComplete", "UploadDeferred", "UploadFailed"}
  <2>1. WhileUploading(s, e) = To(s, <<>>)
    BY <1>4 DEF WhileUploading
  <2>2. QED
    BY <1>1, <2>1, Lists, Unmoved, OutputsOf
<1>5. QED
  BY <1>2, <1>3, <1>4

LEMMA WhileUploadingTimedOutOutputs ==
    ASSUME NEW s, WellFormed(s), s.tag = "UploadingTimedOut", NEW e
    PROVE  Outputs(s, e, WhileUploadingTimedOut(s, e))
<1>1. ~Groups(s) /\ s.tag # "Recording" /\ (WaitsForClip(s) <=> s.beep_pending)
  BY DEF Groups, WaitsForClip
<1>2. CASE e.ev = "PlaybackEnded"
  <2> DEFINE new == [s EXCEPT !.beep_pending = FALSE]
  <2>1. WhileUploadingTimedOut(s, e) = To(new, <<>>)
    BY <1>2 DEF WhileUploadingTimedOut
  <2>2. new.tag = s.tag /\ new.beep_pending = FALSE /\ new.on_hook = s.on_hook
    BY DEF WellFormed, State
  <2> HIDE DEF new
  <2>3. (AtRest(new) => AtRest(s)) /\ ~WaitsForClip(new) /\ ~Advertised(new)
    BY <2>2 DEF AtRest, OnHook, WaitsForClip, Advertised, Protected
  <2>4. Says(<<>>, NoEffect, NoEffect, NoEffect, NoEffect)
    BY Lists
  <2>5. Moves(s, e, new, <<>>)
    BY <1>1, <2>2, <2>3, <2>4 DEF Says, Moves, SoundMoves, LimitMoves, PulseMoves, StatusMoves
  <2>6. QED
    BY <2>1, <2>5, OutputsOf
<1>3. CASE e.ev \in {"UploadComplete", "UploadDeferred"} /\ s.beep_pending
  <2> DEFINE new == Plain("RecordingEndedBeep")
  <2>1. WhileUploadingTimedOut(s, e) = To(new, <<>>)
    BY <1>3 DEF WhileUploadingTimedOut
  <2>2. Says(<<>>, NoEffect, NoEffect, NoEffect, NoEffect)
    BY Lists
  <2>3. /\ new.tag # "Recording" /\ ~AtRest(new) /\ ~Groups(new)
        /\ status(new) = "Uploading" /\ e.ev # "PlaybackEnded"
    BY <1>3, PlainMeans, StatusOfPlain
  <2>4. Advertised(s) /\ status(s) = "Uploading"
    BY <1>3 DEF Advertised, status
  <2> HIDE DEF new
  <2>5. Moves(s, e, new, <<>>)
    BY <1>1, <1>3, <2>2, <2>3, <2>4 DEF Says, Moves, SoundMoves, LimitMoves, PulseMoves, StatusMoves
  <2>6. QED
    BY <2>1, <2>5, OutputsOf
<1>4. CASE e.ev \in {"UploadComplete", "UploadDeferred", "UploadFailed"}
           /\ ~(e.ev \in {"UploadComplete", "UploadDeferred"} /\ s.beep_pending)
  <2>1. WhileUploadingTimedOut(s, e) \in {ToDialTone, ToBusyTone}
    BY <1>4 DEF WhileUploadingTimedOut
  <2>2. QED
    BY <1>1, <2>1, ToneMoves, OutputsOf
<1>5. CASE e.ev \notin {"PlaybackEnded", "UploadComplete", "UploadDeferred", "UploadFailed"}
  <2>1. WhileUploadingTimedOut(s, e) = To(s, <<>>)
    BY <1>5 DEF WhileUploadingTimedOut
  <2>2. QED
    BY <1>1, <1>5, <2>1, Lists, Unmoved, OutputsOf
<1>6. QED
  BY <1>2, <1>3, <1>4, <1>5

LEMMA InnerOutputs ==
    ASSUME NEW s, WellFormed(s), NEW e \in Event
    PROVE  Outputs(s, e, handle_inner(s, e))
<1> DEFINE step == handle_inner(s, e)
<1>1. CASE e.ev = "HookOn"
  <2>1. step = HangUp(s)
    BY <1>1 DEF handle_inner
  <2>2. QED
    BY <1>1, <2>1, HangUpOutputs
<1>2. CASE e.ev \in {"PowerButtonPressed", "PowerButtonHeld"}
  <2>1. step \in {To(s, <<Command("Reboot")>>), To(s, <<Command("PowerOff")>>)}
    BY <1>2 DEF handle_inner
  <2>2. e.ev \notin {"PlaybackEnded", "RecordingTimedOut"}
    BY <1>2
  <2>3. QED
    BY <2>1, <2>2, Lists, Unmoved, OutputsOf
<1>3. CASE e.ev \notin {"HookOn", "PowerButtonPressed", "PowerButtonHeld"}
  <2>0. s.tag \in Tags
    BY FieldTypes
  <2>1. CASE s.tag \in {"Idle", "Error", "CallsPaused"}
    <3>1. \/ step = ToDialTone /\ s.tag = "Idle"
          \/ step = To(s, <<>>)
      BY <1>3, <2>1 DEF handle_inner
    <3>2. s.tag # "Recording" /\ ~WaitsForClip(s) /\ (s.tag = "Idle" => ~Groups(s))
      BY <2>1 DEF WaitsForClip, Groups
    <3>3. QED
      BY <3>1, <3>2, Lists, Unmoved, ToneMoves, OutputsOf
  <2>2. CASE s.tag \in {"DialTone", "Dialing"}
    <3>1. step = WhileDialing(s, e)
      BY <1>3, <2>2 DEF handle_inner
    <3>2. QED
      BY <2>2, <3>1, WhileDialingOutputs
  <2>3. CASE s.tag \in {"RingingQuestion", "PlayingQuestion", "Beep", "RecordingEndedBeep",
                        "PlayingMessage", "PlayingInstructions", "CallUnavailable"}
    <3>1. step = WhilePlaying(s, e)
      BY <1>3, <2>3 DEF handle_inner
    <3>2. QED
      BY <2>3, <3>1, WhilePlayingOutputs
  <2>4. CASE s.tag = "Recording"
    <3>1. step = WhileRecording(s, e)
      BY <1>3, <2>4 DEF handle_inner
    <3>2. QED
      BY <2>4, <3>1, WhileRecordingOutputs
  <2>5. CASE Finishes(s)
    <3>1. step = WhileFinishing(s, e)
      BY <1>3, <2>5 DEF handle_inner, Finishes
    <3>2. QED
      BY <2>5, <3>1, WhileFinishingOutputs
  <2>6. CASE s.tag = "Uploading"
    <3>1. step = WhileUploading(s, e)
      BY <1>3, <2>6 DEF handle_inner
    <3>2. QED
      BY <2>6, <3>1, WhileUploadingOutputs
  <2>7. CASE s.tag = "UploadingTimedOut"
    <3>1. step = WhileUploadingTimedOut(s, e)
      BY <1>3, <2>7 DEF handle_inner
    <3>2. QED
      BY <2>7, <3>1, WhileUploadingTimedOutOutputs
  <2>8. QED
    BY <2>0, <2>1, <2>2, <2>3, <2>4, <2>5, <2>6, <2>7 DEF Tags, Finishes
<1>4. QED
  BY <1>1, <1>2, <1>3

----------------------------------------------------------------------------
(* Call admission and the ring *)

\* A list that says nothing leaves what another says.
LEMMA Silently ==
    ASSUME NEW a, Says(a, NoEffect, NoEffect, NoEffect, NoEffect), NEW x \in Seq(Effect)
    PROVE  Says(a \o x, SoundOf(x), PulseOf(x), LimitOf(x), PutOf(x))
<1>1. a \in Seq(Effect) /\ a \o x \in Seq(Effect)
  BY DEF Says
<1>2. \A K \in Kinds :
         LastOf(a \o x, K) = IF LastOf(x, K) = NoEffect THEN LastOf(a, K) ELSE LastOf(x, K)
  BY <1>1, LastJoined, KindsOfCommands
<1>3. QED
  BY <1>1, <1>2 DEF Says, SoundOf, PulseOf, LimitOf, PutOf, Kinds

\* What a muted list says: what it said, but no sound starts and nothing is put.
LEMMA MutedSays ==
    ASSUME NEW x \in Seq(Effect)
    PROVE  /\ Muted(x) \in Seq(Effect)
           /\ PulseOf(Muted(x)) = PulseOf(x) /\ LimitOf(Muted(x)) = LimitOf(x)
           /\ PutOf(Muted(x)) = NoEffect /\ SoundOf(Muted(x)) \in {NoEffect, StopAudio}
           /\ SoundOf(x) \in {NoEffect, StopAudio} => SoundOf(Muted(x)) = SoundOf(x)
<1> DEFINE y == Muted(x)
<1>1. DOMAIN y = DOMAIN x
  BY DEF Muted
<1>2. \A i \in DOMAIN x :
         /\ x[i].fx \in {"PutStatus", "Play"} => y[i].fx = "NoEffect"
         /\ x[i].fx \notin {"PutStatus", "Play"} => y[i] = x[i]
  BY DEF Muted, NoEffect, Command
<1>3. y \in Seq(Effect)
  BY MutedWork DEF SameWork
<1> HIDE DEF y
<1>4. ASSUME NEW K, \A k \in K : k \notin {"PutStatus", "Play", "NoEffect"}
      PROVE  LastOf(y, K) = LastOf(x, K)
  <2>1. {i \in DOMAIN y : y[i].fx \in K} = {i \in DOMAIN x : x[i].fx \in K}
    BY <1>1, <1>2, <1>4
  <2>2. \A i \in DOMAIN x : x[i].fx \in K => y[i] = x[i]
    BY <1>2, <1>4
  <2>3. CASE \A j \in DOMAIN x : x[j].fx \notin K
    <3>1. \A j \in DOMAIN y : y[j].fx \notin K
      BY <2>1, <2>3
    <3>2. QED
      BY <1>3, <2>3, <3>1, LastNone
  <2>4. CASE ~ \A j \in DOMAIN x : x[j].fx \notin K
    <3>1. PICK i \in DOMAIN x : /\ x[i].fx \in K /\ LastOf(x, K) = x[i]
                                /\ \A j \in DOMAIN x : j > i => x[j].fx \notin K
      BY <2>4, LastFound
    <3>2. /\ i \in DOMAIN y /\ y[i] = x[i]
          /\ \A j \in DOMAIN y : j > i => y[j].fx \notin K
      BY <1>1, <2>1, <2>2, <3>1
    <3>3. LastOf(y, K) = y[i]
      BY <1>3, <3>1, <3>2, LastIs
    <3>4. QED
      BY <3>1, <3>2, <3>3
  <2>5. QED
    BY <2>3, <2>4
<1>5. PulseOf(y) = PulseOf(x) /\ LimitOf(y) = LimitOf(x)
  BY <1>4 DEF PulseOf, LimitOf, Pulses, Limits
<1>6. PutOf(y) = NoEffect
  <2>1. \A i \in DOMAIN y : y[i].fx \notin Puts
    BY <1>1, <1>2 DEF Puts
  <2>2. QED
    BY <1>3, <2>1, LastNone DEF PutOf
<1>7. SoundOf(y) = LastOf(x, {"StopAudio"})
  <2>1. LastOf(y, {"StopAudio"}) = LastOf(x, {"StopAudio"})
    BY <1>4
  <2>2. \A i \in DOMAIN y : y[i].fx \in Sounds <=> y[i].fx \in {"StopAudio"}
    BY <1>1, <1>2 DEF Sounds, NoEffect, Command
  <2>3. LastOf(y, Sounds) = LastOf(y, {"StopAudio"})
    BY <1>3, <2>2, LastAgrees
  <2>4. QED
    BY <2>1, <2>3 DEF SoundOf
<1>8. \A f \in Effect : f.fx = "StopAudio" => f = StopAudio
  BY DEF Effect, StopAudio, Command
<1>9. LastOf(x, {"StopAudio"}) \in {NoEffect, StopAudio}
  BY <1>8, LastOfType
<1>10. SoundOf(x) \in {NoEffect, StopAudio} => LastOf(x, {"StopAudio"}) = SoundOf(x)
  <2>1. CASE SoundOf(x) = NoEffect
    <3>1. \A j \in DOMAIN x : x[j].fx \notin Sounds
      <4>1. NoEffect.fx \notin Sounds
        BY DEF NoEffect, Command, Sounds
      <4>2. QED
        BY <2>1, <4>1, LastFound DEF SoundOf
    <3>2. \A j \in DOMAIN x : x[j].fx \notin {"StopAudio"}
      BY <3>1 DEF Sounds
    <3>3. QED
      BY <2>1, <3>2, LastNone
  <2>2. CASE SoundOf(x) = StopAudio
    <3>1. StopAudio # NoEffect /\ StopAudio.fx = "StopAudio"
      BY DEF StopAudio, NoEffect, Command
    <3>2. PICK i \in DOMAIN x : /\ LastOf(x, Sounds) = x[i]
                                /\ \A j \in DOMAIN x : j > i => x[j].fx \notin Sounds
      BY <2>2, <3>1, LastFound DEF SoundOf
    <3>3. x[i].fx \in {"StopAudio"} /\ \A j \in DOMAIN x : j > i => x[j].fx \notin {"StopAudio"}
      BY <2>2, <3>1, <3>2 DEF SoundOf, Sounds
    <3>4. LastOf(x, {"StopAudio"}) = x[i]
      BY <3>3, LastIs
    <3>5. QED
      BY <3>2, <3>4 DEF SoundOf
  <2>3. QED
    BY <2>1, <2>2
<1>11. QED
  BY <1>3, <1>5, <1>6, <1>7, <1>9, <1>10 DEF y

LEMMA Resumed ==
    ASSUME NEW s, s.tag = "CallsPaused", NEW e \in Event
    PROVE  Outputs(s, e, Resume(s, e))
<1>1. ~Groups(s) /\ AtRest(s) /\ s.tag # "Recording"
  BY DEF Groups, AtRest
<1>2. CASE HookAfter(s, e) \/ e.ev \notin {"RotaryPulse", "DigitDialed"}
  <2>1. Resume(s, e) \in {ToIdle, ToDialTone}
    BY <1>2 DEF Resume
  <2>2. QED
    BY <1>1, <2>1, ToneMoves, OutputsOf
<1>3. CASE ~HookAfter(s, e) /\ e.ev \in {"RotaryPulse", "DigitDialed"}
  <2> DEFINE dial == Plain("DialTone")
             d == handle_inner(dial, e)
             new == d.state
             a == ToDialTone.effects
             x == d.effects
  <2>1. ToDialTone = To(dial, a) /\ a = <<Play("DialTone"), PutStatus("DialTone")>>
    BY DEF ToDialTone, To
  <2>2. Resume(s, e) = To(new, a \o x)
    BY <1>3, <2>1 DEF Resume, Then
  <2>3. WellFormed(dial)
    BY PlainWellFormed DEF Tags, CarriesQuestion
  <2>4. Moves(dial, e, new, x)
    BY <2>3, InnerOutputs DEF Outputs
  <2>5. Says(a, Play("DialTone"), NoEffect, NoEffect, PutStatus("DialTone"))
    BY <2>1, Lists DEF AudioRef, BoothStatus
  <2>6. /\ dial.tag = "DialTone" /\ ~AtRest(dial) /\ ~WaitsForClip(dial) /\ ~Groups(dial)
        /\ status(dial) = "DialTone"
    BY PlainMeans, StatusOfPlain
  <2> HIDE DEF dial, new, a, x
  <2>7. a \in Seq(Effect) /\ x \in Seq(Effect) /\ a \o x \in Seq(Effect)
    BY <2>4, <2>5 DEF Moves, Says
  <2>8. \A K \in Kinds :
           LastOf(a \o x, K) = IF LastOf(x, K) = NoEffect THEN LastOf(a, K) ELSE LastOf(x, K)
    BY <2>7, LastJoined, KindsOfCommands
  <2>9. /\ SoundOf(a \o x) = IF SoundOf(x) = NoEffect THEN Play("DialTone") ELSE SoundOf(x)
        /\ PulseOf(a \o x) = PulseOf(x) /\ LimitOf(a \o x) = LimitOf(x)
        /\ PutOf(a \o x) = IF PutOf(x) = NoEffect THEN PutStatus("DialTone") ELSE PutOf(x)
    BY <2>5, <2>8 DEF Says, SoundOf, PulseOf, LimitOf, PutOf, Kinds
  <2>10. NoEffect # StopAudio /\ NoEffect.fx \notin {"Play", "ArmRecordingTimeout"}
         /\ \A b : PutStatus(b) # NoEffect
    BY Commanded DEF NoEffect, StopAudio
  <2>11. SoundMoves(s, e, new, a \o x)
    BY <2>4, <2>6, <2>9, <2>10 DEF Moves, SoundMoves
  <2>12. LimitMoves(s, e, new, a \o x)
    BY <1>1, <2>4, <2>6, <2>9, <2>10 DEF Moves, LimitMoves
  <2>13. PulseMoves(s, new, a \o x)
    BY <1>1, <2>4, <2>6, <2>9 DEF Moves, PulseMoves
  <2>14. StatusMoves(s, new, a \o x)
    BY <2>4, <2>6, <2>9, <2>10 DEF Moves, StatusMoves
  <2>15. Moves(s, e, new, a \o x)
    BY <2>7, <2>11, <2>12, <2>13, <2>14 DEF Moves
  <2>16. QED
    BY <2>2, <2>15, OutputsOf
<1>4. QED
  BY <1>2, <1>3

\* A paused booth starts no sound.
NoSoundStarts(y) == SoundOf(y.effects) \in {NoEffect, StopAudio}

LEMMA PausedOutputs ==
    ASSUME NEW s, WellFormed(s), NEW e \in Event
    PROVE  Outputs(s, e, Paused(s, e)) /\ NoSoundStarts(Paused(s, e))
<1> DEFINE paused == CallsPaused(HookAfter(s, e))
<1>1. paused.tag = "CallsPaused" /\ ~WaitsForClip(paused) /\ ~Advertised(paused) /\ ~Groups(paused)
  BY DEF CallsPaused, Variant, WaitsForClip, Advertised, Groups
<1>2. /\ Says(Silence, StopAudio, CancelPulseTimeout, NoEffect, NoEffect)
      /\ Says(<<>>, NoEffect, NoEffect, NoEffect, NoEffect)
  BY Lists DEF Silence
<1>3. NoEffect # StopAudio /\ NoEffect # CancelPulseTimeout
  BY Commanded DEF NoEffect, StopAudio, CancelPulseTimeout
<1> HIDE DEF paused
<1>4. CASE ~Protected(s)
  <2>1. \/ Paused(s, e) = To(paused, <<>>) /\ s.tag = "CallsPaused"
        \/ Paused(s, e) = To(paused, Silence)
    BY <1>4 DEF Paused, paused
  <2>2. s.tag # "Recording" /\ (s.tag = "CallsPaused" => AtRest(s) /\ ~Groups(s))
    BY <1>4 DEF Protected, AtRest, Groups
  <2>3. Moves(s, e, paused, Silence)
    BY <1>1, <1>2, <2>2 DEF Says, Moves, SoundMoves, LimitMoves, PulseMoves, StatusMoves
  <2>4. s.tag = "CallsPaused" => Moves(s, e, paused, <<>>)
    BY <1>1, <1>2, <2>2 DEF Says, Moves, SoundMoves, LimitMoves, PulseMoves, StatusMoves
  <2>5. NoSoundStarts(To(paused, <<>>)) /\ NoSoundStarts(To(paused, Silence))
    BY <1>2 DEF NoSoundStarts, To, Says
  <2>6. QED
    BY <2>1, <2>3, <2>4, <2>5, OutputsOf
<1>5. CASE Protected(s)
  <2> DEFINE from == WithoutBeep(s)
             inner == handle_inner(from, e)
             new == inner.state
             x == inner.effects
             beepCut == from # s \/ WithoutBeep(new) # new
             a == IF beepCut THEN <<StopAudio>> ELSE <<>>
             y == a \o Muted(x)
  <2>1. Paused(s, e) = IF Protected(new) THEN To(WithoutBeep(new), y) ELSE To(paused, y \o Silence)
    BY <1>5 DEF Paused, Quietly, paused
  <2>2. Moves(from, e, new, x)
    BY BeepSet, InnerOutputs DEF Outputs
  <2>3. /\ from.tag = s.tag /\ (AtRest(from) <=> AtRest(s)) /\ ~Groups(s) /\ ~Groups(from)
    BY <1>5, BeepSet DEF AtRest, Protected, Groups
  <2>4. /\ WithoutBeep(new).tag = new.tag
        /\ OnHook(WithoutBeep(new)) <=> OnHook(new)
        /\ WithoutBeep(new).tag = "UploadingTimedOut" => ~WithoutBeep(new).beep_pending
    <3>1. WellFormed(new)
      <4>1. from.tag # "CallsPaused" /\ WellFormed(from)
        BY <1>5, BeepSet DEF Protected
      <4>2. QED
        BY <4>1, InnerSound DEF Sound
    <3> HIDE DEF new
    <3>2. QED
      BY <3>1, BeepSet DEF WithoutBeep, WellFormed, State
  <2>5. Says(<<StopAudio>>, StopAudio, NoEffect, NoEffect, NoEffect)
    BY Commanded, LastOfOne
       DEF Says, SoundOf, PulseOf, LimitOf, PutOf, Sounds, Pulses, Limits, Puts, StopAudio
  <2>6. /\ a \in Seq(Effect) /\ SoundOf(a) \in {NoEffect, StopAudio}
        /\ PulseOf(a) = NoEffect /\ LimitOf(a) = NoEffect /\ PutOf(a) = NoEffect
    BY <1>2, <2>5 DEF Says
  <2> HIDE DEF from, inner, new, x, beepCut, a
  <2>7. /\ Muted(x) \in Seq(Effect) /\ x \in Seq(Effect)
        /\ PulseOf(Muted(x)) = PulseOf(x) /\ LimitOf(Muted(x)) = LimitOf(x)
        /\ PutOf(Muted(x)) = NoEffect /\ SoundOf(Muted(x)) \in {NoEffect, StopAudio}
        /\ SoundOf(x) \in {NoEffect, StopAudio} => SoundOf(Muted(x)) = SoundOf(x)
    BY <2>2, MutedSays DEF Moves
  <2>8. /\ y \in Seq(Effect)
        /\ \A K \in Kinds :
             LastOf(y, K) = IF LastOf(Muted(x), K) = NoEffect THEN LastOf(a, K)
                            ELSE LastOf(Muted(x), K)
    BY <2>6, <2>7, LastJoined, KindsOfCommands
  <2>9. /\ y \in Seq(Effect) /\ SoundOf(y) \in {NoEffect, StopAudio}
        /\ PulseOf(y) = PulseOf(x) /\ LimitOf(y) = LimitOf(x) /\ PutOf(y) = NoEffect
        /\ SoundOf(x) = StopAudio => SoundOf(y) = StopAudio
    BY <1>3, <2>6, <2>7, <2>8 DEF SoundOf, PulseOf, LimitOf, PutOf, Kinds
  <2> HIDE DEF y
  <2>10. CASE Protected(new)
    <3> DEFINE after == WithoutBeep(new)
    <3>1. Paused(s, e) = To(after, y)
      BY <2>1, <2>10
    <3>2. ~WaitsForClip(after) /\ ~Advertised(after) /\ (AtRest(after) <=> AtRest(new))
      BY <2>4, <2>10 DEF WaitsForClip, Advertised, Protected, AtRest
    <3>3. after.tag = new.tag /\ ~Groups(new)
      BY <2>4, <2>10 DEF Protected, Groups
    <3> HIDE DEF after
    <3>4. SoundMoves(s, e, after, y)
      BY <2>2, <2>3, <2>9, <3>2 DEF Moves, SoundMoves
    <3>5. LimitMoves(s, e, after, y)
      BY <2>2, <2>3, <2>9, <3>3 DEF Moves, LimitMoves
    <3>6. PulseMoves(s, after, y)
      BY <2>2, <2>3, <2>9, <3>3 DEF Moves, PulseMoves, Groups
    <3>7. StatusMoves(s, after, y)
      BY <3>2 DEF StatusMoves
    <3>8. QED
      BY <2>9, <3>1, <3>4, <3>5, <3>6, <3>7, OutputsOf DEF Moves, NoSoundStarts, To
  <2>11. CASE ~Protected(new)
    <3> DEFINE z == y \o Silence
    <3>1. Paused(s, e) = To(paused, z)
      BY <2>1, <2>11
    <3>2. /\ z \in Seq(Effect)
          /\ \A K \in Kinds :
               LastOf(z, K) = IF LastOf(Silence, K) = NoEffect THEN LastOf(y, K)
                              ELSE LastOf(Silence, K)
      BY <1>2, <2>9, LastJoined, KindsOfCommands DEF Says
    <3>3. SoundOf(z) = StopAudio /\ PulseOf(z) = CancelPulseTimeout /\ LimitOf(z) = LimitOf(x)
      BY <1>2, <1>3, <2>9, <3>2 DEF Says, SoundOf, PulseOf, LimitOf, Kinds
    <3> HIDE DEF z
    <3>4. new.tag # "Recording"
      BY <2>11 DEF Protected
    <3>5. LimitMoves(s, e, paused, z)
      BY <1>1, <2>2, <2>3, <3>3, <3>4 DEF Moves, LimitMoves
    <3>6. Moves(s, e, paused, z)
      BY <1>1, <3>2, <3>3, <3>5 DEF Moves, SoundMoves, PulseMoves, StatusMoves
    <3>7. QED
      BY <3>1, <3>3, <3>6, OutputsOf DEF NoSoundStarts, To
  <2>12. QED
    BY <2>10, <2>11
<1>6. QED
  BY <1>4, <1>5

\* A list that begins with the ring says what the rest of it says.
LEMMA RingSays ==
    ASSUME NEW led \in Led, NEW x \in Seq(Effect)
    PROVE  Says(<<SetStatusLed(led)>> \o x, SoundOf(x), PulseOf(x), LimitOf(x), PutOf(x))
<1>1. SetStatusLed(led) \in Effect /\ SetStatusLed(led).fx = "SetStatusLed"
  BY DEF SetStatusLed, Effect, Commands
<1>2. Says(<<SetStatusLed(led)>>, NoEffect, NoEffect, NoEffect, NoEffect)
  BY <1>1, LastOfOne
     DEF Says, SoundOf, PulseOf, LimitOf, PutOf, Sounds, Pulses, Limits, Puts
<1>3. QED
  BY <1>2, Silently

\* Every step of the core moves the outputs with the state, and no step starts a
\* sound while calls are not admitted.
LEMMA CoreStepOutputs ==
    ASSUME NEW s, WellFormed(s), NEW e \in Event, NEW accepting_calls \in BOOLEAN
    PROVE  /\ Outputs(s, e, handle_with_call_availability(s, e, accepting_calls))
           /\ ~accepting_calls
                => NoSoundStarts(handle_with_call_availability(s, e, accepting_calls))
<1> DEFINE whole == handle_with_call_availability(s, e, accepting_calls)
           step == handle_available(s, e, accepting_calls)
           event == IF e.ev = "UploadFinished" THEN Signal(e.outcome) ELSE e
           led == status_led_for(step.state)
<1>1. event \in Event
  <2>1. CASE e.ev = "UploadFinished"
    <3>1. e.outcome \in Outcome
      BY <2>1, EventTypes
    <3>2. QED
      BY <2>1, <3>1 DEF Signal, Event, Signals
  <2>2. QED
    BY <2>1
<1>2. Outputs(s, e, step) /\ (~accepting_calls => NoSoundStarts(step))
  <2>1. CASE Stale(s, e)
    <3>1. step = To(s, <<>>) /\ e.ev = "UploadFinished"
      BY <2>1 DEF handle_available, Stale
    <3> HIDE DEF step
    <3>2. Says(<<>>, NoEffect, NoEffect, NoEffect, NoEffect)
      BY Lists
    <3>3. Moves(s, e, s, <<>>)
      BY <3>1, <3>2, Unmoved
    <3>4. NoSoundStarts(To(s, <<>>))
      BY <3>2 DEF NoSoundStarts, To, Says
    <3>5. QED
      BY <3>1, <3>3, <3>4, OutputsOf
  <2>2. CASE e.ev \in {"PowerButtonPressed", "PowerButtonHeld"}
    <3>1. step = handle_inner(s, e)
      BY <2>2 DEF handle_available, Stale
    <3>2. step \in {To(s, <<Command("Reboot")>>), To(s, <<Command("PowerOff")>>)}
      BY <2>2, <3>1 DEF handle_inner
    <3> HIDE DEF step
    <3>3. NoSoundStarts(To(s, <<Command("Reboot")>>)) /\ NoSoundStarts(To(s, <<Command("PowerOff")>>))
      BY Lists DEF NoSoundStarts, To, Says
    <3>4. QED
      BY <3>1, <3>2, <3>3, InnerOutputs
  <2>3. CASE ~Stale(s, e) /\ e.ev \notin {"PowerButtonPressed", "PowerButtonHeld"}
    <3>1. step = (IF ~accepting_calls THEN Paused(s, event)
                  ELSE IF s.tag = "CallsPaused" THEN Resume(s, event)
                  ELSE handle_inner(s, event))
      BY <2>3 DEF handle_available
    <3> HIDE DEF step
    <3>2. Outputs(s, event, step) /\ (~accepting_calls => NoSoundStarts(step))
      <4> HIDE DEF event
      <4>1. QED
        BY <1>1, <3>1, PausedOutputs, Resumed, InnerOutputs
    <3>3. CASE e.ev # "UploadFinished"
      BY <3>2, <3>3
    <3>4. CASE e.ev = "UploadFinished"
      <4>1. e.ev \notin {"PlaybackEnded", "RecordingTimedOut"}
        BY <3>4
      <4>2. QED
        BY <3>2, <4>1 DEF Outputs, Moves, SoundMoves, LimitMoves
    <3>5. QED
      BY <3>3, <3>4
  <2>4. QED
    BY <2>1, <2>2, <2>3
<1>3. whole = IF led = status_led_for(s) THEN step
              ELSE To(step.state, <<SetStatusLed(led)>> \o step.effects)
  BY DEF handle_with_call_availability, LedFirst
<1>4. led \in Led
  <2>1. whole.state = step.state
    BY <1>3 DEF To
  <2>2. WellFormed(whole.state)
    BY CoreStepSound DEF Sound
  <2> HIDE DEF whole, step
  <2>3. QED
    BY <2>1, <2>2, LedTyped
<1> HIDE DEF whole, step, led
<1>5. step.effects \in Seq(Effect)
  BY <1>2 DEF Outputs, Moves
<1> DEFINE x == step.effects
           z == <<SetStatusLed(led)>> \o x
<1>6. Says(z, SoundOf(x), PulseOf(x), LimitOf(x), PutOf(x))
  BY <1>4, <1>5, RingSays
<1> HIDE DEF z
<1>7. /\ z \in Seq(Effect) /\ SoundOf(z) = SoundOf(x) /\ PulseOf(z) = PulseOf(x)
      /\ LimitOf(z) = LimitOf(x) /\ PutOf(z) = PutOf(x)
  BY <1>6 DEF Says
<1>8. Moves(s, e, step.state, z)
  BY <1>2, <1>7 DEF Outputs, Moves, SoundMoves, PulseMoves, LimitMoves, StatusMoves
<1>9. Outputs(s, e, To(step.state, z)) /\ (~accepting_calls => NoSoundStarts(To(step.state, z)))
  BY <1>2, <1>7, <1>8, OutputsOf DEF NoSoundStarts, To
<1>10. QED
  BY <1>2, <1>3, <1>9 DEF whole, z

----------------------------------------------------------------------------
(* The upload a call waits for *)

\* A step from s to new begins to wait for the upload of the answer that was
\* just finished, goes on waiting for the one it waited for, or waits for none.
Waits(s, e, new) ==
    /\ InUpload(new) => \/ /\ Answering(s) /\ e.ev = "RecordingFinished"
                           /\ new.recording = e.recording
                        \/ /\ InUpload(s) /\ new.recording = s.recording
                           /\ e.ev \notin Outcome
    /\ InUpload(s) /\ ~InUpload(new) => e.ev \in Outcome \cup {"HookOn"}

LEMMA VariantTags ==
    /\ \A t : Plain(t).tag = t
    /\ \A t, q : Asking(t, q).tag = t
    /\ \A n : Dialing(n).tag = "Dialing"
    /\ \A t, q, h : Finishing(t, q, h).tag = t
    /\ \A q, r, h : /\ Uploading(q, r, h).tag = "Uploading"
                    /\ Uploading(q, r, h).recording = r
    /\ \A q, r, b : /\ UploadingTimedOut(q, r, b).tag = "UploadingTimedOut"
                    /\ UploadingTimedOut(q, r, b).recording = r
    /\ \A h : CallsPaused(h).tag = "CallsPaused"
  BY DEF Plain, Asking, Dialing, Finishing, Uploading, UploadingTimedOut, CallsPaused, Variant

LEMMA StatesOf ==
    /\ ToDialTone.state = Plain("DialTone") /\ ToIdle.state = Plain("Idle")
    /\ ToBusyTone.state = Plain("Error")
    /\ \A new, x : To(new, x).state = new
  BY DEF ToDialTone, ToIdle, ToBusyTone, To

\* A booth that neither waits nor answers.
LEMMA NoUpload ==
    ASSUME NEW s, ~InUpload(s), NEW e, NEW new, ~InUpload(new)
    PROVE  Waits(s, e, new)
  BY DEF Waits

LEMMA DialingWaits ==
    ASSUME NEW s, WellFormed(s), s.tag \in {"DialTone", "Dialing"}, NEW e \in Event
    PROVE  Waits(s, e, WhileDialing(s, e).state)
<1>1. ASSUME NEW d \in Nat PROVE ~InUpload(decode_digit(d).state)
  BY VariantTags, StatesOf DEF decode_digit, InUpload
<1>2. ~InUpload(CountPulse(s).state)
  BY VariantTags, StatesOf DEF CountPulse, InUpload
<1>3. e.ev = "DigitDialed" => e.digit \in Nat
  BY EventTypes
<1>4. s.tag = "Dialing" => (IF s.pulses = 10 THEN 0 ELSE s.pulses) \in Nat
  BY FieldTypes DEF MAX_PULSES_PER_DIGIT
<1>5. ~InUpload(s)
  BY DEF InUpload
<1>6. ~InUpload(WhileDialing(s, e).state)
  <2>1. /\ ~InUpload(Dialing(1)) /\ ~InUpload(Plain("PlayingMessage"))
        /\ ~InUpload(Plain("PlayingInstructions")) /\ ~InUpload(Plain("Error"))
        /\ \A q : ~InUpload(Asking("RingingQuestion", q))
    BY VariantTags DEF InUpload
  <2>2. QED
    BY <1>1, <1>2, <1>3, <1>4, <1>5, <2>1, StatesOf DEF WhileDialing
<1>7. QED
  BY <1>5, <1>6, NoUpload

LEMMA PlayingWaits ==
    ASSUME NEW s, s.tag \in {"RingingQuestion", "PlayingQuestion", "Beep", "RecordingEndedBeep",
                             "PlayingMessage", "PlayingInstructions", "CallUnavailable"}, NEW e
    PROVE  Waits(s, e, WhilePlaying(s, e).state)
<1>1. ~InUpload(s)
  BY DEF InUpload
<1>2. ~InUpload(WhilePlaying(s, e).state)
  BY <1>1, VariantTags, StatesOf DEF WhilePlaying, InUpload
<1>3. QED
  BY <1>1, <1>2, NoUpload

LEMMA AnsweringWaits ==
    ASSUME NEW s, WellFormed(s), Answering(s), NEW e
    PROVE  /\ s.tag = "Recording" => Waits(s, e, WhileRecording(s, e).state)
           /\ Finishes(s) => Waits(s, e, WhileFinishing(s, e).state)
<1>1. ~InUpload(s) /\ ~InUpload([s EXCEPT !.on_hook = FALSE])
  BY DEF InUpload, Answering, Finishes, WellFormed, State
<1>2. \A r, x : EndBeep(s, r, x).state = UploadingTimedOut(s.question, r, TRUE)
  BY DEF EndBeep, To
<1>3. WhileRecording(s, e).state \in
         {s, Plain("Error"), Finishing("FinishingTimedOutRecording", s.question, FALSE)}
      \/ /\ e.ev = "RecordingFinished"
         /\ WhileRecording(s, e).state = UploadingTimedOut(s.question, e.recording, TRUE)
  BY <1>2, StatesOf DEF WhileRecording
<1>4. WhileFinishing(s, e).state \in
         {s, Plain("Idle"), Plain("DialTone"), [s EXCEPT !.on_hook = FALSE]}
      \/ /\ e.ev = "RecordingFinished"
         /\ WhileFinishing(s, e).state \in {UploadingTimedOut(s.question, e.recording, TRUE),
                                            Uploading(s.question, e.recording, s.on_hook)}
  <2> DEFINE w == WhileFinishing(s, e)
             up == Uploading(s.question, e.recording, s.on_hook)
             late == UploadingTimedOut(s.question, e.recording, TRUE)
             lifted == [s EXCEPT !.on_hook = FALSE]
  <2> \A new, x : To(new, x).state = new
    BY StatesOf
  <2>1. CASE e.ev = "RecordingFinished"
    <3>1. w = EndBeep(s, e.recording, <<>>) \/ \E x : w = To(up, x)
      BY <2>1 DEF WhileFinishing
    <3> HIDE DEF w, up
    <3> w.state = late \/ w.state = up
      BY <1>2, <3>1
    <3> QED
      BY <2>1 DEF w, up
  <2>2. CASE e.ev = "RecordingFailed"
    <3>1. w = ToDialTone \/ \E x : w = To(Plain("Idle"), x)
      BY <2>2 DEF WhileFinishing
    <3> HIDE DEF w
    <3> w.state = Plain("DialTone") \/ w.state = Plain("Idle")
      BY <3>1, StatesOf
    <3> QED
      BY DEF w
  <2>3. CASE e.ev \notin {"RecordingFinished", "RecordingFailed"}
    <3>1. \E x : w = To(s, x) \/ w = To(lifted, x)
      BY <2>3 DEF WhileFinishing
    <3> HIDE DEF w, lifted
    <3> w.state = s \/ w.state = lifted
      BY <3>1
    <3> QED
      BY DEF w, lifted
  <2> QED
    BY <2>1, <2>2, <2>3
<1>5. /\ ~InUpload(Plain("Error")) /\ ~InUpload(Plain("Idle")) /\ ~InUpload(Plain("DialTone"))
      /\ ~InUpload(Finishing("FinishingTimedOutRecording", s.question, FALSE))
      /\ UploadingTimedOut(s.question, e.recording, TRUE).recording = e.recording
      /\ Uploading(s.question, e.recording, s.on_hook).recording = e.recording
  BY DEF InUpload, Finishing, Plain, UploadingTimedOut, Uploading, Variant
<1>6. ASSUME NEW new, \/ ~InUpload(new)
                      \/ e.ev = "RecordingFinished" /\ new.recording = e.recording
      PROVE  Waits(s, e, new)
  BY <1>1, <1>6 DEF Waits
<1>7. Waits(s, e, WhileRecording(s, e).state)
  BY <1>1, <1>3, <1>5, <1>6
<1>8. Waits(s, e, WhileFinishing(s, e).state)
  BY <1>1, <1>4, <1>5, <1>6
<1>9. QED
  BY <1>7, <1>8

LEMMA UploadingWaits ==
    ASSUME NEW s, WellFormed(s), InUpload(s), NEW e
    PROVE  /\ s.tag = "Uploading" => Waits(s, e, WhileUploading(s, e).state)
           /\ s.tag = "UploadingTimedOut" => Waits(s, e, WhileUploadingTimedOut(s, e).state)
<1>1. /\ [s EXCEPT !.on_hook = FALSE].tag = s.tag
      /\ [s EXCEPT !.on_hook = FALSE].recording = s.recording
      /\ [s EXCEPT !.beep_pending = FALSE].tag = s.tag
      /\ [s EXCEPT !.beep_pending = FALSE].recording = s.recording
  BY DEF WellFormed, State
<1>2. \/ WhileUploading(s, e).state \in {s, [s EXCEPT !.on_hook = FALSE]} /\ e.ev \notin Outcome
      \/ /\ WhileUploading(s, e).state \in {Plain("Idle"), Plain("DialTone"), Plain("Error")}
         /\ e.ev \in Outcome
  BY StatesOf DEF WhileUploading, Outcome
<1>3. \/ /\ WhileUploadingTimedOut(s, e).state \in {s, [s EXCEPT !.beep_pending = FALSE]}
         /\ e.ev \notin Outcome
      \/ /\ WhileUploadingTimedOut(s, e).state \in
              {Plain("RecordingEndedBeep"), Plain("DialTone"), Plain("Error")}
         /\ e.ev \in Outcome
  BY StatesOf DEF WhileUploadingTimedOut, Outcome
<1>4. /\ ~InUpload(Plain("Error")) /\ ~InUpload(Plain("Idle")) /\ ~InUpload(Plain("DialTone"))
      /\ ~InUpload(Plain("RecordingEndedBeep"))
  BY VariantTags DEF InUpload
<1>5. ASSUME NEW new, \/ ~InUpload(new) /\ e.ev \in Outcome
                      \/ new.tag = s.tag /\ new.recording = s.recording /\ e.ev \notin Outcome
      PROVE  Waits(s, e, new)
  BY <1>5 DEF Waits, InUpload
<1>6. Waits(s, e, WhileUploading(s, e).state)
  BY <1>1, <1>2, <1>4, <1>5
<1>7. Waits(s, e, WhileUploadingTimedOut(s, e).state)
  BY <1>1, <1>3, <1>4, <1>5
<1>8. QED
  BY <1>6, <1>7

LEMMA InnerWaits ==
    ASSUME NEW s, WellFormed(s), NEW e \in Event
    PROVE  Waits(s, e, handle_inner(s, e).state)
<1> DEFINE new == handle_inner(s, e).state
<1>1. CASE e.ev = "HookOn"
  <2>1. handle_inner(s, e) = HangUp(s)
    BY <1>1 DEF handle_inner
  <2>2. /\ Finishes(s) => ~InUpload([s EXCEPT !.on_hook = TRUE])
        /\ ~InUpload(Finishing("FinishingRecording", s.question, TRUE)) /\ ~InUpload(Plain("Idle"))
    <3>1. Finishes(s) => ~InUpload([s EXCEPT !.on_hook = TRUE])
      BY DEF WellFormed, State, Finishes, InUpload
    <3>2. QED
      BY <3>1 DEF InUpload, Finishing, Plain, Variant
  <2>3. \/ HangUp(s).state \in {Finishing("FinishingRecording", s.question, TRUE), Plain("Idle")}
        \/ Finishes(s) /\ HangUp(s).state = [s EXCEPT !.on_hook = TRUE]
    BY StatesOf DEF HangUp, Finishes
  <2>4. ~InUpload(HangUp(s).state)
    BY <2>2, <2>3
  <2>5. QED
    BY <1>1, <2>1, <2>4 DEF Waits
<1>2. CASE e.ev \in {"PowerButtonPressed", "PowerButtonHeld"}
  <2>1. new = s
    BY <1>2, StatesOf DEF handle_inner
  <2>2. QED
    BY <1>2, <2>1 DEF Waits, Outcome
<1>3. CASE e.ev \notin {"HookOn", "PowerButtonPressed", "PowerButtonHeld"}
  <2>0. s.tag \in Tags
    BY FieldTypes
  <2>1. CASE s.tag \in {"Idle", "Error", "CallsPaused"}
    <3>1. new \in {s, Plain("DialTone")}
      BY <1>3, <2>1, StatesOf DEF handle_inner
    <3>2. QED
      BY <2>1, <3>1, VariantTags, NoUpload DEF InUpload
  <2>2. CASE s.tag \in {"DialTone", "Dialing"}
    <3>1. handle_inner(s, e) = WhileDialing(s, e)
      BY <1>3, <2>2 DEF handle_inner
    <3>2. QED
      BY <2>2, <3>1, DialingWaits
  <2>3. CASE s.tag \in {"RingingQuestion", "PlayingQuestion", "Beep", "RecordingEndedBeep",
                        "PlayingMessage", "PlayingInstructions", "CallUnavailable"}
    <3>1. handle_inner(s, e) = WhilePlaying(s, e)
      BY <1>3, <2>3 DEF handle_inner
    <3>2. QED
      BY <2>3, <3>1, PlayingWaits
  <2>4. CASE Answering(s)
    <3>1. /\ s.tag = "Recording" => handle_inner(s, e) = WhileRecording(s, e)
          /\ Finishes(s) => handle_inner(s, e) = WhileFinishing(s, e)
      BY <1>3 DEF handle_inner, Finishes
    <3>2. QED
      BY <2>4, <3>1, AnsweringWaits DEF Answering
  <2>5. CASE InUpload(s)
    <3>1. /\ s.tag = "Uploading" => handle_inner(s, e) = WhileUploading(s, e)
          /\ s.tag = "UploadingTimedOut" => handle_inner(s, e) = WhileUploadingTimedOut(s, e)
      BY <1>3 DEF handle_inner
    <3>2. QED
      BY <2>5, <3>1, UploadingWaits DEF InUpload
  <2>6. QED
    BY <2>0, <2>1, <2>2, <2>3, <2>4, <2>5 DEF Tags, Answering, Finishes, InUpload
<1>4. QED
  BY <1>1, <1>2, <1>3

LEMMA BeepWaits ==
    ASSUME NEW s, WellFormed(s)
    PROVE  /\ InUpload(WithoutBeep(s)) <=> InUpload(s)
           /\ WithoutBeep(s).recording = s.recording
           /\ Answering(WithoutBeep(s)) <=> Answering(s)
<1>1. WithoutBeep(s).recording = s.recording
  BY DEF WithoutBeep, WellFormed, State
<1>2. QED
  BY <1>1, BeepSet DEF InUpload, Answering, Finishes

LEMMA ResumeWaits ==
    ASSUME NEW s, s.tag = "CallsPaused", NEW e \in Event
    PROVE  Waits(s, e, Resume(s, e).state)
<1>1. ~InUpload(s) /\ ~InUpload(Plain("Idle")) /\ ~InUpload(Plain("DialTone"))
  BY DEF InUpload, Plain, Variant
<1>2. ~InUpload(handle_inner(Plain("DialTone"), e).state)
  <2>1. WellFormed(Plain("DialTone")) /\ ~Answering(Plain("DialTone"))
    BY PlainWellFormed, PlainElsewhere DEF Tags, CarriesQuestion
  <2>2. Waits(Plain("DialTone"), e, handle_inner(Plain("DialTone"), e).state)
    BY <2>1, InnerWaits
  <2>3. QED
    BY <1>1, <2>1, <2>2 DEF Waits
<1>3. ~InUpload(Resume(s, e).state)
  <2>1. \/ Resume(s, e) \in {ToIdle, ToDialTone}
        \/ Resume(s, e) = Then(ToDialTone, handle_inner(Plain("DialTone"), e))
    BY DEF Resume
  <2>2. \A a, b : Then(a, b).state = b.state
    BY DEF Then, To
  <2>3. QED
    BY <1>1, <1>2, <2>1, <2>2, StatesOf
<1>4. QED
  BY <1>1, <1>3, NoUpload

LEMMA PausedWaits ==
    ASSUME NEW s, WellFormed(s), NEW e \in Event
    PROVE  Waits(s, e, Paused(s, e).state)
<1> DEFINE paused == CallsPaused(HookAfter(s, e))
<1>1. ~InUpload(paused)
  BY DEF CallsPaused, Variant, InUpload
<1> HIDE DEF paused
<1>2. CASE ~Protected(s)
  <2>1. Paused(s, e).state = paused
    BY <1>2, StatesOf DEF Paused, paused
  <2>2. ~InUpload(s)
    BY <1>2 DEF InUpload, Protected
  <2>3. QED
    BY <1>1, <2>1, <2>2, NoUpload
<1>3. CASE Protected(s)
  <2> DEFINE from == WithoutBeep(s)
             new == handle_inner(from, e).state
  <2>1. Paused(s, e).state = IF Protected(new) THEN WithoutBeep(new) ELSE paused
    BY <1>3, StatesOf DEF Paused, Quietly, paused
  <2>2. WellFormed(from) /\ from.tag # "CallsPaused"
    BY <1>3, BeepSet DEF Protected
  <2>3. WellFormed(new) /\ Waits(from, e, new)
    BY <2>2, InnerSound, InnerWaits DEF Sound
  <2>4. /\ InUpload(from) <=> InUpload(s)
        /\ from.recording = s.recording
        /\ Answering(from) <=> Answering(s)
    BY BeepWaits
  <2>5. InUpload(new) => Protected(new)
    BY DEF InUpload, Protected
  <2> HIDE DEF from, new
  <2>6. (InUpload(WithoutBeep(new)) <=> InUpload(new)) /\ WithoutBeep(new).recording = new.recording
    BY <2>3, BeepWaits
  <2>7. QED
    BY <1>1, <2>1, <2>3, <2>4, <2>5, <2>6 DEF Waits
<1>4. QED
  BY <1>2, <1>3

\* The upload a step of the core waits for, whatever the state, the event and the
\* admission decision: results of other uploads are passed over (Stale).
LEMMA CoreStepWaits ==
    ASSUME NEW s, WellFormed(s), NEW e \in Event, NEW accepting_calls \in BOOLEAN,
           NEW new, new = handle_with_call_availability(s, e, accepting_calls).state
    PROVE  /\ InUpload(new) => \/ /\ Answering(s) /\ e.ev = "RecordingFinished"
                                  /\ new.recording = e.recording
                               \/ /\ InUpload(s) /\ new.recording = s.recording
                                  /\ e.ev = "UploadFinished" => e.recording # s.recording
           /\ InUpload(s) /\ ~InUpload(new)
                => \/ e.ev \in Outcome \cup {"HookOn"}
                   \/ e.ev = "UploadFinished" /\ e.recording = s.recording
<1> DEFINE step == handle_available(s, e, accepting_calls)
           event == IF e.ev = "UploadFinished" THEN Signal(e.outcome) ELSE e
<1>1. new = step.state
  BY StatesOf DEF handle_with_call_availability, LedFirst
<1>2. event \in Event /\ (e.ev = "UploadFinished" => event.ev \in Outcome)
  <2>1. CASE e.ev = "UploadFinished"
    <3>1. e.outcome \in Outcome
      BY <2>1, EventTypes
    <3>2. QED
      BY <2>1, <3>1 DEF Signal, Event, Signals
  <2>2. QED
    BY <2>1
<1>3. CASE Stale(s, e)
  <2>1. step = To(s, <<>>)
    BY <1>3 DEF handle_available, Stale
  <2> HIDE DEF step
  <2>2. new = s
    BY <1>1, <2>1, StatesOf
  <2>3. QED
    BY <1>3, <2>2 DEF Stale, InUpload
<1>4. CASE e.ev \in {"PowerButtonPressed", "PowerButtonHeld"}
  <2>1. step = handle_inner(s, e)
    BY <1>4 DEF handle_available, Stale
  <2>2. Waits(s, e, new)
    BY <1>1, <2>1, InnerWaits
  <2>3. QED
    BY <1>4, <2>2 DEF Waits
<1>5. CASE ~Stale(s, e) /\ e.ev \notin {"PowerButtonPressed", "PowerButtonHeld"}
  <2>1. step = (IF ~accepting_calls THEN Paused(s, event)
                ELSE IF s.tag = "CallsPaused" THEN Resume(s, event)
                ELSE handle_inner(s, event))
    BY <1>5 DEF handle_available
  <2> HIDE DEF step
  <2>2. Waits(s, event, new)
    <3> HIDE DEF event
    <3>1. QED
      BY <1>1, <1>2, <2>1, PausedWaits, ResumeWaits, InnerWaits
  <2>3. CASE e.ev # "UploadFinished"
    BY <2>2, <2>3 DEF Waits
  <2>4. CASE e.ev = "UploadFinished"
    <3>1. event.ev \in Outcome /\ InUpload(s) /\ s.recording = e.recording
      BY <1>2, <1>5, <2>4 DEF Stale, InUpload
    <3>2. event.ev # "RecordingFinished"
      BY <3>1 DEF Outcome
    <3> HIDE DEF event
    <3>3. QED
      BY <2>2, <2>4, <3>1, <3>2 DEF Waits
  <2>5. QED
    BY <2>3, <2>4
<1>6. QED
  BY <1>3, <1>4, <1>5

----------------------------------------------------------------------------
(* The outputs of the booth *)

\* What the core's state leaves no choice of: the sound, the timers, the status
\* and the upload that is waited for.  With Inv it is inductive.
OutputsMatch ==
    /\ AtRest(core) => device.audio \in {"Silent", "Failed"}
    /\ WaitsForClip(core) => device.audio \in Clips \cup {"Failed"}
    /\ "Recording" \in device.armed <=> core.tag = "Recording"
    /\ "Pulse" \in device.armed => Groups(core)
    /\ Advertised(core) => advertised \in {status(core), "Unknown"}
    /\ InUpload(core) => core.recording \in uploads

OutputsInv == Inv /\ OutputsMatch

LEMMA DeviceOutputs ==
    ASSUME NEW x, NEW q, NEW d \in Device, NEW m \in DeviceAfter(x, q, d)
    PROVE  m.audio = AudioAfter(x, d.audio) /\ m.armed = ArmedAfter(x, d.armed)
<1>1. PICK n \in MicAfter(x, q, d) :
         m = [n EXCEPT !.audio = AudioAfter(x, d.audio), !.armed = ArmedAfter(x, d.armed)]
  BY DEF DeviceAfter
<1>2. d = [audio |-> d.audio, mic |-> d.mic, asked |-> d.asked,
           failures |-> d.failures, armed |-> d.armed]
  BY DEF Device
<1>3. \E mic, asked, failures :
         n = [audio |-> d.audio, mic |-> mic, asked |-> asked,
              failures |-> failures, armed |-> d.armed]
  BY <1>2 DEF MicAfter
<1>4. QED
  BY <1>1, <1>3

\* What plays and what is armed after a list of effects, by what the list says.
LEMMA AudioSaid ==
    ASSUME NEW x, NEW a
    PROVE  /\ SoundOf(x).fx = "Play" => AudioAfter(x, a) = SoundOf(x).audio
           /\ SoundOf(x) = StopAudio => AudioAfter(x, a) = "Silent"
           /\ SoundOf(x) = NoEffect => AudioAfter(x, a) = a
<1> DEFINE last == LastOf(x, {"Play", "StopAudio"})
<1>1. SoundOf(x) = last
  BY DEF SoundOf, Sounds
<1>2. AudioAfter(x, a) = CASE last.fx = "Play" -> last.audio
                           [] last.fx = "StopAudio" -> "Silent"
                           [] OTHER -> a
  BY DEF AudioAfter
<1> HIDE DEF last
<1>3. QED
  BY <1>1, <1>2 DEF StopAudio, NoEffect, Command

LEMMA TimersSaid ==
    ASSUME NEW x, NEW a
    PROVE  /\ "Pulse" \in ArmedAfter(x, a) <=> \/ PulseOf(x).fx = "ArmPulseTimeout"
                                               \/ "Pulse" \in a /\ PulseOf(x).fx = "NoEffect"
           /\ "Recording" \in ArmedAfter(x, a) <=>
                \/ LimitOf(x).fx = "ArmRecordingTimeout"
                \/ "Recording" \in a /\ LimitOf(x).fx = "NoEffect"
<1> DEFINE pulse == LastOf(x, {"ArmPulseTimeout", "CancelPulseTimeout"}).fx
           limit == LastOf(x, {"ArmRecordingTimeout", "CancelRecordingTimeout"}).fx
<1>1. PulseOf(x).fx = pulse /\ LimitOf(x).fx = limit
  BY DEF PulseOf, LimitOf, Pulses, Limits
<1>2. ArmedAfter(x, a) = {t \in Timers :
          \/ t = "Pulse" /\ pulse = "ArmPulseTimeout"
          \/ t = "Recording" /\ limit = "ArmRecordingTimeout"
          \/ t \in a /\ NoEffect.fx = (IF t = "Pulse" THEN pulse ELSE limit)}
  BY DEF ArmedAfter
<1>3. NoEffect.fx = "NoEffect"
  BY DEF NoEffect, Command
<1> HIDE DEF pulse, limit
<1>4. QED
  BY <1>1, <1>2, <1>3 DEF Timers

\* The devices are as they were, but for what event e tells of them.
Tells(e, d) ==
    /\ d.audio = device.audio \/ (e.ev = "PlaybackEnded" /\ d.audio = "Silent")
    /\ d.armed \subseteq device.armed
    /\ "Recording" \in device.armed => "Recording" \in d.armed \/ e.ev = "RecordingTimedOut"

\* What taking an event does to the outputs, whatever the event.
LEMMA TakeOutputs ==
    ASSUME OutputsInv, NEW e \in Event, NEW d \in Device, Take(e, d), Tells(e, d)
    PROVE  /\ OutputsMatch'
           /\ ~accepting => device'.audio \in {device.audio, "Silent"}
           /\ InUpload(core) /\ ~InUpload(core')
                => \/ e.ev \in Outcome \cup {"HookOn"}
                   \/ core.recording \notin uploads'
<1> DEFINE step == handle_with_call_availability(core, e, accepting)
           x == step.effects
<1>1. WellFormed(core) /\ accepting \in BOOLEAN
  BY DEF OutputsInv, Inv, TypeOK
<1>2. Moves(core, e, step.state, x) /\ (~accepting => NoSoundStarts(step))
  BY <1>1, CoreStepOutputs DEF Outputs
<1>3. Follows(core, e, step)
  BY <1>1, CoreStepFollows
<1>4. /\ InUpload(step.state)
           => \/ /\ Answering(core) /\ e.ev = "RecordingFinished"
                 /\ step.state.recording = e.recording
              \/ /\ InUpload(core) /\ step.state.recording = core.recording
                 /\ e.ev = "UploadFinished" => e.recording # core.recording
      /\ InUpload(core) /\ ~InUpload(step.state)
           => \/ e.ev \in Outcome \cup {"HookOn"}
              \/ e.ev = "UploadFinished" /\ e.recording = core.recording
  BY <1>1, CoreStepWaits
<1>5. /\ core' = step.state
      /\ device' \in DeviceAfter(x, step.state.question, d)
      /\ uploads' = (IF e.ev = "UploadFinished" THEN uploads \ {e.recording} ELSE uploads)
                       \cup {a[1] : a \in HandedBy(x)}
      /\ advertised' = IF PutOf(x) = NoEffect THEN advertised ELSE PutOf(x).status
  BY DEF Take, CarryOut, PutOf, Puts
<1> HIDE DEF step, x, Moves
<1>6. device'.audio = AudioAfter(x, d.audio) /\ device'.armed = ArmedAfter(x, d.armed)
  BY <1>5, DeviceOutputs
<1>7. Moves(core, e, core', x)
  BY <1>2, <1>5
<1>8. (AtRest(core) => d.audio \in {"Silent", "Failed"})
      /\ (WaitsForClip(core) /\ e.ev # "PlaybackEnded" => d.audio \in Clips \cup {"Failed"})
  BY DEF OutputsInv, OutputsMatch, Tells
<1>9. (AtRest(core) => device.audio \in {"Silent", "Failed"})'
  BY <1>6, <1>7, <1>8, AudioSaid DEF Moves, SoundMoves, AtRest, OnHook
<1>10. (WaitsForClip(core) => device.audio \in Clips \cup {"Failed"})'
  BY <1>6, <1>7, <1>8, AudioSaid DEF Moves, SoundMoves, WaitsForClip, Clips
<1>11. ("Recording" \in device.armed <=> core.tag = "Recording")'
  <2>1. CancelRecordingTimeout.fx = "CancelRecordingTimeout" /\ NoEffect.fx = "NoEffect"
    BY DEF CancelRecordingTimeout, NoEffect, Command
  <2>2. LimitMoves(core, e, core', x)
    BY <1>7 DEF Moves
  <2>3. "Recording" \in device.armed <=> core.tag = "Recording"
    BY DEF OutputsInv, OutputsMatch
  <2>4. QED
    BY <1>6, <2>1, <2>2, <2>3, TimersSaid DEF LimitMoves, Tells
<1>12. ("Pulse" \in device.armed => Groups(core))'
  <2>1. CancelPulseTimeout.fx = "CancelPulseTimeout" /\ NoEffect.fx = "NoEffect"
    BY DEF CancelPulseTimeout, NoEffect, Command
  <2>2. PulseMoves(core, core', x)
    BY <1>7 DEF Moves
  <2>3. "Pulse" \in device.armed => Groups(core)
    BY DEF OutputsInv, OutputsMatch
  <2>4. QED
    BY <1>6, <2>1, <2>2, <2>3, TimersSaid DEF PulseMoves, Groups, Tells
<1>13. (Advertised(core) => advertised \in {status(core), "Unknown"})'
  <2>1. StatusMoves(core, core', x)
    BY <1>7 DEF Moves
  <2>2. Advertised(core) => advertised \in {status(core), "Unknown"}
    BY DEF OutputsInv, OutputsMatch
  <2>3. \A b : PutStatus(b) # NoEffect /\ PutStatus(b).status = b
    BY DEF PutStatus, NoEffect, Command
  <2>4. Advertised(core') => advertised' \in {status(core'), "Unknown"}
    BY <1>5, <2>1, <2>2, <2>3 DEF StatusMoves
  <2>5. QED
    BY <2>4 DEF Advertised, Protected, status
<1>14. Answering(core) /\ e.ev = "RecordingFinished" => HandedBy(x) = {<<e.recording, core.question>>}
  BY <1>3 DEF x, Follows, NoAnswer, KeepsAnswer, StartsAnswer, StopsAnswer, HandsAnswerOver,
     LosesAnswer, Answering, Finishes
<1>15. ~Answering(core) => HandedBy(x) = {}
  BY <1>3 DEF x, Follows, NoAnswer, KeepsAnswer, StartsAnswer, StopsAnswer, HandsAnswerOver,
     LosesAnswer, Answering
<1>16. InUpload(core) => core.recording \in uploads /\ ~Answering(core)
  BY DEF OutputsInv, OutputsMatch, InUpload, Answering, Finishes
<1>17. InUpload(core') => core'.recording \in uploads'
  <2>1. CASE /\ Answering(core) /\ e.ev = "RecordingFinished"
             /\ core'.recording = e.recording
    <3>1. <<e.recording, core.question>> \in HandedBy(x)
      BY <1>14, <2>1
    <3>2. <<e.recording, core.question>>[1] \in uploads'
      BY <1>5, <3>1
    <3>3. QED
      BY <2>1, <3>2
  <2>2. CASE /\ InUpload(core) /\ core'.recording = core.recording
             /\ e.ev = "UploadFinished" => e.recording # core.recording
    BY <1>5, <1>16, <2>2
  <2>3. QED
    BY <1>4, <1>5, <2>1, <2>2
<1>18. OutputsMatch'
  BY <1>9, <1>10, <1>11, <1>12, <1>13, <1>17 DEF OutputsMatch, InUpload
<1>19. ~accepting => device'.audio \in {device.audio, "Silent"}
  BY <1>2, <1>6, AudioSaid DEF NoSoundStarts, x, Tells
<1>20. InUpload(core) /\ ~InUpload(core')
         => e.ev \in Outcome \cup {"HookOn"} \/ core.recording \notin uploads'
  BY <1>4, <1>5, <1>15, <1>16
<1>21. QED
  BY <1>18, <1>19, <1>20

\* Every action but three takes one event: never a bare upload outcome, and
\* HookOn only when the handset comes down.
LEMMA StepsTake ==
    ASSUME Inv, [Next]_vars
    PROVE  \/ UNCHANGED vars \/ PlaybackFails \/ AdmissionMoves
           \/ \E e \in Event, d \in Device :
                /\ Take(e, d) /\ Tells(e, d)
                /\ e.ev \notin Outcome /\ (e.ev = "HookOn" => hook')
<1>0. device \in Device /\ \A e : Tells(e, device)
  BY DEF Inv, TypeOK, Tells
<1> DEFINE Taken == \E e \in Event, d \in Device :
                       /\ Take(e, d) /\ Tells(e, d)
                       /\ e.ev \notin Outcome /\ (e.ev = "HookOn" => hook')
<1>1. ASSUME NEW on \in BOOLEAN, Hook(on) PROVE Taken
  <2>1. \A k \in {"HookOn", "HookOff"} :
           Signal(k) \in Event /\ Signal(k).ev = k /\ k \notin Outcome
    BY SignalsAreEvents DEF Signals, Outcome
  <2>2. Take(Signal(IF on THEN "HookOn" ELSE "HookOff"), device) /\ hook' = on
    BY <1>1 DEF Hook
  <2>3. QED
    BY <1>0, <2>1, <2>2
<1>2. ASSUME NEW e \in Event, Input(e) \/ OperatorAnswers(e) \/ LateReply(e) PROVE Taken
  <2>1. Take(e, device) /\ e.ev \notin Outcome \cup {"HookOn"}
    BY <1>2 DEF Input, OperatorAnswers, LateReply, Outcome
  <2>2. QED
    BY <1>0, <2>1
<1>3. ASSUME NEW t \in Timers, TimerFires(t) PROVE Taken
  <2> DEFINE d == [device EXCEPT !.armed = @ \ {t}]
             k == IF t = "Pulse" THEN "Tick" ELSE "RecordingTimedOut"
  <2>1. d \in Device /\ d.audio = device.audio /\ d.armed = device.armed \ {t}
    BY <1>0 DEF Device
  <2>2. k \in Signals /\ k \notin Outcome \cup {"HookOn"} /\ (t = "Recording" => k = "RecordingTimedOut")
    BY DEF Signals, Outcome
  <2>3. Take(Signal(k), d)
    BY <1>3 DEF TimerFires
  <2> HIDE DEF d, k
  <2>4. Signal(k) \in Event /\ Signal(k).ev = k
    BY <2>2, SignalsAreEvents
  <2>5. Tells(Signal(k), d)
    BY <2>1, <2>2, <2>4 DEF Tells, Timers
  <2>6. QED
    BY <2>1, <2>2, <2>3, <2>4, <2>5
<1>4. CASE PlaybackEnds
  <2> DEFINE d == [device EXCEPT !.audio = "Silent"]
             e == Signal("PlaybackEnded")
  <2>1. d \in Device /\ d.audio = "Silent" /\ d.armed = device.armed
    BY <1>0 DEF Device
  <2>2. e \in Event /\ e.ev = "PlaybackEnded" /\ e.ev \notin Outcome
    BY SignalsAreEvents DEF Signals, Outcome
  <2>3. Take(e, d)
    BY <1>4 DEF PlaybackEnds
  <2> HIDE DEF d, e
  <2>4. Tells(e, d)
    BY <2>1, <2>2 DEF Tells
  <2>5. QED
    BY <2>1, <2>2, <2>3, <2>4
<1>5. CASE RecorderReplies
  <2>1. ASSUME NEW r \in RecordingId, RecorderFinishes(r) PROVE Taken
    <3> DEFINE d == [device EXCEPT !.mic = "Off"]
               e == [ev |-> "RecordingFinished", recording |-> r]
    <3>1. d \in Device /\ d.audio = device.audio /\ d.armed = device.armed
      BY <1>0 DEF Device
    <3>2. e \in Event /\ e.ev = "RecordingFinished" /\ e.ev \notin Outcome
      BY DEF Event, Outcome
    <3>3. Take(e, d)
      BY <2>1 DEF RecorderFinishes
    <3> HIDE DEF d, e
    <3>4. Tells(e, d)
      BY <3>1 DEF Tells
    <3>5. QED
      BY <3>1, <3>2, <3>3, <3>4
  <2>2. ASSUME RecorderCannotFinish \/ RecorderReportsFailure PROVE Taken
    <3> DEFINE e == Signal("RecordingFailed")
    <3>1. e \in Event /\ e.ev = "RecordingFailed" /\ e.ev \notin Outcome
      BY SignalsAreEvents DEF Signals, Outcome
    <3>2. PICK d : /\ Take(e, d)
                   /\ \/ d = [device EXCEPT !.mic = "Off"]
                      \/ d = [device EXCEPT !.failures = @ - 1] /\ device.failures > 0
      BY <2>2 DEF RecorderCannotFinish, RecorderReportsFailure
    <3>3. d \in Device /\ d.audio = device.audio /\ d.armed = device.armed
      BY <1>0, <3>2 DEF Device
    <3> HIDE DEF e
    <3>4. Tells(e, d)
      BY <3>3 DEF Tells
    <3>5. QED
      BY <3>1, <3>2, <3>3, <3>4
  <2>3. QED
    BY <1>5, <2>1, <2>2 DEF RecorderReplies
<1>6. ASSUME NEW r \in RecordingId, NEW outcome \in Outcome, UploadEnds(r, outcome) PROVE Taken
  <2> DEFINE e == [ev |-> "UploadFinished", recording |-> r, outcome |-> outcome]
  <2>1. e \in Event /\ e.ev = "UploadFinished" /\ e.ev \notin Outcome
    BY DEF Event, Outcome
  <2>2. Take(e, device)
    BY <1>6 DEF UploadEnds
  <2> HIDE DEF e
  <2>3. QED
    BY <1>0, <2>1, <2>2
<1>7. CASE AdmissionNotified
  <2>1. Signal("Tick") \in Event /\ Signal("Tick").ev = "Tick" /\ "Tick" \notin Outcome
    BY SignalsAreEvents DEF Signals, Outcome
  <2>2. Take(Signal("Tick"), device)
    BY <1>7 DEF AdmissionNotified
  <2>3. QED
    BY <1>0, <2>1, <2>2
<1>8. QED
  BY <1>1, <1>2, <1>3, <1>4, <1>5, <1>6, <1>7 DEF Next

LEMMA InitOutputs == Init => OutputsMatch
<1> SUFFICES ASSUME Init PROVE OutputsMatch
  OBVIOUS
<1>1. /\ CallsPaused(hook).tag = "CallsPaused" /\ Plain("Idle").tag = "Idle"
      /\ Plain("DialTone").tag = "DialTone" /\ ~AtRest(Plain("DialTone"))
      /\ status(Plain("DialTone")) = "DialTone"
  BY VariantTags, PlainMeans, StatusOfPlain
<1>2. /\ core \in {CallsPaused(hook), Plain("Idle"), Plain("DialTone")}
      /\ core = Plain("DialTone") => advertised = "DialTone"
      /\ core # Plain("DialTone") => device.audio = "Silent" /\ advertised = "Unknown"
      /\ device.armed = {}
  <2>1. CallsPaused(hook) # Plain("DialTone") /\ Plain("Idle") # Plain("DialTone")
    BY <1>1
  <2>2. CASE accepting /\ ~hook
    BY <2>2 DEF Init
  <2>3. CASE ~(accepting /\ ~hook)
    BY <2>1, <2>3 DEF Init
  <2>4. QED
    BY <2>2, <2>3
<1>3. AtRest(core) => core # Plain("DialTone")
  BY <1>1
<1>4. core.tag \in {"CallsPaused", "Idle", "DialTone"}
  <2>1. core.tag \in {CallsPaused(hook).tag, Plain("Idle").tag, Plain("DialTone").tag}
    BY <1>2
  <2>2. QED
    BY <1>1, <2>1
<1>5. ~WaitsForClip(core) /\ ~InUpload(core) /\ core.tag # "Recording"
  BY <1>4 DEF WaitsForClip, InUpload
<1>6. advertised \in {status(core), "Unknown"}
  BY <1>1, <1>2
<1>7. QED
  BY <1>2, <1>3, <1>5, <1>6 DEF OutputsMatch

LEMMA NextOutputs == OutputsInv /\ [Next]_vars => OutputsInv'
<1> SUFFICES ASSUME OutputsInv, [Next]_vars PROVE OutputsInv'
  OBVIOUS
<1>1. Inv /\ Inv'
  BY NextInv DEF OutputsInv
<1>2. ASSUME NEW e \in Event, NEW d \in Device, Take(e, d), Tells(e, d) PROVE OutputsMatch'
  BY <1>2, TakeOutputs
<1>3. ASSUME /\ core' = core /\ uploads' = uploads /\ advertised' = advertised
             /\ \/ device' = device
                \/ /\ device.audio \in Clips /\ device'.audio = "Failed"
                   /\ device'.armed = device.armed
      PROVE  OutputsMatch'
  <2>1. ~AtRest(core) \/ device' = device
    BY <1>3 DEF OutputsInv, OutputsMatch, Clips, RemoteAudio
  <2>2. QED
    BY <1>3, <2>1 DEF OutputsInv, OutputsMatch, AtRest, OnHook, WaitsForClip, Groups, InUpload,
       Advertised, Protected, status
<1>4. CASE UNCHANGED vars \/ AdmissionMoves
  BY <1>1, <1>3, <1>4 DEF vars, AdmissionMoves, OutputsInv
<1>5. CASE PlaybackFails
  <2>1. device' = [device EXCEPT !.audio = "Failed"] /\ device.audio \in Clips
    BY <1>5 DEF PlaybackFails
  <2>2. device'.audio = "Failed" /\ device'.armed = device.armed
    BY <1>1, <2>1 DEF Inv, TypeOK, Device
  <2>3. QED
    BY <1>1, <1>3, <1>5, <2>1, <2>2 DEF PlaybackFails, OutputsInv
<1>6. QED
  BY <1>1, <1>2, <1>4, <1>5, StepsTake DEF OutputsInv

THEOREM OutputsInvHolds == Spec => []OutputsInv
<1>1. Init => OutputsInv
  BY InitInv, InitOutputs DEF OutputsInv
<1>2. QED
  BY <1>1, NextOutputs, PTL DEF Spec

----------------------------------------------------------------------------
(* What follows *)

\* What the booth commands agrees with where its core stands, in every order of
\* handset, devices, operator and gate: the handset is known, nothing plays to an
\* empty or paused booth, no timer outlives what it times, and the operator was
\* last told the status of the state (HookOn, handle_with_call_availability).
THEOREM OutputsFollow == Spec => []OutputsFollowState
<1>1. OutputsInv => OutputsFollowState
  <2> SUFFICES ASSUME OutputsInv PROVE OutputsFollowState
    OBVIOUS
  <2>1. TypeOK /\ HookIsKnown
    BY DEF OutputsInv, Inv
  <2>2. SilentWithoutCaller
    BY <2>1 DEF SilentWithoutCaller, HookIsKnown, OutputsInv, OutputsMatch, AtRest
  <2>3. TimersBelongToState
    BY DEF TimersBelongToState, OutputsInv, OutputsMatch, Groups
  <2>4. StatusIsCurrent
    BY DEF StatusIsCurrent, OutputsInv, OutputsMatch, Advertised
  <2>5. QED
    BY <2>1, <2>2, <2>3, <2>4 DEF OutputsFollowState
<1>2. QED
  BY <1>1, OutputsInvHolds, PTL

\* Whatever a state waits for is under way: a clip, the recorder, the time limit
\* of the recording, an upload (PlaybackEnded, RecordingFinished, UploadFinished).
THEOREM WaitsAreAnswered == Spec => []WaitIsAnswered
<1>1. OutputsInv => WaitIsAnswered
  BY DEF OutputsInv, OutputsMatch, Inv, RecorderTracked, WaitIsAnswered, InUpload
<1>2. QED
  BY <1>1, OutputsInvHolds, PTL

\* A lifted booth stops waiting for an upload only in a step after which that very
\* upload is over: no result of an abandoned call moves a later one (UploadFinished).
THEOREM OwnUploadEnds == Spec => OnlyOwnUploadEnds
<1> DEFINE Own == core.tag \in {"Uploading", "UploadingTimedOut"} /\ ~hook'
                     /\ core'.tag \notin {"Uploading", "UploadingTimedOut"}
                     => core.recording \notin uploads'
<1>1. OutputsInv /\ [Next]_vars => [Own]_vars
  <2> SUFFICES ASSUME OutputsInv, [Next]_vars, InUpload(core), ~hook', ~InUpload(core')
               PROVE  core.recording \notin uploads'
    BY DEF InUpload
  <2>1. core' # core
    OBVIOUS
  <2>2. \E e \in Event, d \in Device :
           /\ Take(e, d) /\ Tells(e, d)
           /\ e.ev \notin Outcome /\ (e.ev = "HookOn" => hook')
    BY <2>1, StepsTake DEF OutputsInv, vars, PlaybackFails, AdmissionMoves
  <2>3. QED
    BY <2>2, TakeOutputs
<1>2. QED
  BY <1>1, OutputsInvHolds, PTL DEF Spec, OnlyOwnUploadEnds

\* While calls are not admitted no step starts a sound, "including cached prompts"
\* (handle_calls_paused): all a step does to the sound is to stop it.
THEOREM PausedIsSilent == Spec => NothingPlayedWhilePaused
<1> DEFINE Hush == ~accepting /\ device'.audio # device.audio
                      => device'.audio \in {"Silent", "Failed"}
<1>1. OutputsInv /\ [Next]_vars => [Hush]_vars
  <2> SUFFICES ASSUME OutputsInv, [Next]_vars, ~accepting, device'.audio # device.audio
               PROVE  device'.audio \in {"Silent", "Failed"}
    OBVIOUS
  <2>1. CASE PlaybackFails
    BY <2>1 DEF PlaybackFails, OutputsInv, Inv, TypeOK, Device
  <2>2. CASE ~PlaybackFails
    <3>1. \E e \in Event, d \in Device : Take(e, d) /\ Tells(e, d)
      BY <2>2, StepsTake DEF OutputsInv, vars, AdmissionMoves
    <3>2. QED
      BY <3>1, TakeOutputs
  <2>3. QED
    BY <2>1, <2>2
<1>2. QED
  BY <1>1, OutputsInvHolds, PTL DEF Spec, NothingPlayedWhilePaused

----------------------------------------------------------------------------
(* The session tracker: what the operator is told of a call is true of it.  *)
(* The core's part, that it acts on a digit only in a step that publishes   *)
(* one, comes first; what becomes of the answers is proved above.           *)

Fetches == {"FetchInstructions", "FetchRandomQuestion", "FetchRandomMessage"}

\* The effects that no digit is needed for.
Inert == {f \in Effect : f.fx \notin Fetches /\ f # Play("CallUnavailable")}

\* The step acts on a digit only if one is published with it.
Publishes(s, e, step) ==
    /\ step.effects \in Seq(Effect)
    /\ Decodes(step.effects) => Dialed(s, e)

----------------------------------------------------------------------------
(* Effect lists *)

LEMMA InertEffects ==
    /\ StopAudio \in Inert /\ CancelPulseTimeout \in Inert /\ CancelRecordingTimeout \in Inert
    /\ StopRecording \in Inert /\ Command("StartRecording") \in Inert
    /\ Command("ArmPulseTimeout") \in Inert /\ Command("ArmRecordingTimeout") \in Inert
    /\ Command("Reboot") \in Inert /\ Command("PowerOff") \in Inert
    /\ NoEffect \in Inert /\ <<>> \in Seq(Inert)
    /\ \A a \in AudioRef \ {"CallUnavailable"} : Play(a) \in Inert
    /\ \A b \in BoothStatus : PutStatus(b) \in Inert
    /\ \A l \in Led : SetStatusLed(l) \in Inert
    /\ \A r \in RecordingId, q \in QuestionId : UploadRecording(r, q) \in Inert
  BY DEF Inert, Fetches, Effect, Commands, StopAudio, CancelPulseTimeout, StopRecording,
         CancelRecordingTimeout, NoEffect, Command, Play, PutStatus, SetStatusLed,
         UploadRecording

LEMMA InertDecodesNothing ==
    ASSUME NEW x \in Seq(Inert)
    PROVE  x \in Seq(Effect) /\ ~Decodes(x)
<1>1. \A i \in DOMAIN x : x[i] \in Inert
  OBVIOUS
<1>2. ~Decodes(x)
  BY <1>1 DEF Decodes, Inert, Fetches
<1>3. Inert \subseteq Effect
  BY DEF Inert
<1>4. QED
  BY <1>2, <1>3

LEMMA InertPublishes ==
    ASSUME NEW s, NEW e, NEW new, NEW x \in Seq(Inert)
    PROVE  Publishes(s, e, To(new, x))
<1>1. To(new, x).effects = x
  BY DEF To
<1>2. QED
  BY <1>1, InertDecodesNothing DEF Publishes

\* A list decodes a digit when one of its parts does.
LEMMA JoinedDecodes ==
    ASSUME NEW x \in Seq(Effect), NEW y \in Seq(Effect)
    PROVE  x \o y \in Seq(Effect) /\ (Decodes(x \o y) => Decodes(x) \/ Decodes(y))
<1>1. x \o y \in Seq(Effect)
  OBVIOUS
<1>2. ASSUME NEW i \in DOMAIN (x \o y)
      PROVE  \/ i \in DOMAIN x /\ (x \o y)[i] = x[i]
             \/ i - Len(x) \in DOMAIN y /\ (x \o y)[i] = y[i - Len(x)]
  OBVIOUS
<1>3. QED
  BY <1>1, <1>2 DEF Decodes

\* Striking effects out of a list decodes nothing.
LEMMA MutedInert ==
    ASSUME NEW x \in Seq(Inert)
    PROVE  Muted(x) \in Seq(Inert)
<1>1. \A i \in DOMAIN x : x[i] \in Inert
  OBVIOUS
<1>2. NoEffect \in Inert
  BY InertEffects
<1>3. QED
  BY <1>1, <1>2 DEF Muted
----------------------------------------------------------------------------
(* The core, part by part *)

LEMMA TonesInert ==
    /\ ToDialTone.effects \in Seq(Inert) /\ ToIdle.effects \in Seq(Inert)
    /\ ToBusyTone.effects \in Seq(Inert)
  BY InertEffects DEF ToDialTone, ToIdle, ToBusyTone, To, AudioRef, BoothStatus

LEMMA HangUpInert ==
    ASSUME NEW s
    PROVE  HangUp(s).effects \in Seq(Inert)
<1>1. /\ <<StopAudio, CancelRecordingTimeout, StopRecording, CancelPulseTimeout,
           PutStatus("Uploading")>> \in Seq(Inert)
      /\ <<StopAudio, CancelPulseTimeout>> \in Seq(Inert)
      /\ <<StopAudio, CancelRecordingTimeout, CancelPulseTimeout>> \in Seq(Inert)
      /\ <<StopAudio, CancelPulseTimeout, CancelRecordingTimeout, PutStatus("Idle")>>
             \in Seq(Inert)
  BY InertEffects DEF BoothStatus
<1>2. QED
  BY <1>1 DEF HangUp, To

\* Only the digits 0 to 9 are acted on.
LEMMA DecodePublishes ==
    ASSUME NEW s, NEW e, NEW d \in 0..10, d <= 9 => Dialed(s, e)
    PROVE  Publishes(s, e, decode_digit(d))
<1>1. CASE d = 10
  <2>1. decode_digit(d) = To(Plain("Error"), <<Play("LineBusy")>>)
    BY <1>1 DEF decode_digit, ToBusyTone
  <2>2. <<Play("LineBusy")>> \in Seq(Inert)
    BY InertEffects DEF AudioRef
  <2>3. QED
    BY <2>1, <2>2, InertPublishes
<1>2. CASE d \in 0..9
  <2>1. /\ Command("FetchInstructions") \in Effect /\ Command("FetchRandomQuestion") \in Effect
        /\ Command("FetchRandomMessage") \in Effect /\ CancelPulseTimeout \in Effect
        /\ Play("CallUnavailable") \in Effect /\ PutStatus("CallUnavailable") \in Effect
    BY DEF Effect, Commands, Command, CancelPulseTimeout, Play, PutStatus, AudioRef, BoothStatus
  <2>2. decode_digit(d).effects \in
          {<<Command("FetchInstructions"), CancelPulseTimeout>>,
           <<Command("FetchRandomQuestion"), CancelPulseTimeout>>,
           <<Command("FetchRandomMessage"), CancelPulseTimeout>>,
           <<Play("CallUnavailable"), CancelPulseTimeout, PutStatus("CallUnavailable")>>}
    BY <1>2 DEF decode_digit, To
  <2>3. decode_digit(d).effects \in Seq(Effect)
    <3>1. /\ <<Command("FetchInstructions"), CancelPulseTimeout>> \in Seq(Effect)
          /\ <<Command("FetchRandomQuestion"), CancelPulseTimeout>> \in Seq(Effect)
          /\ <<Command("FetchRandomMessage"), CancelPulseTimeout>> \in Seq(Effect)
      BY <2>1
    <3>2. <<Play("CallUnavailable"), CancelPulseTimeout, PutStatus("CallUnavailable")>>
            \in Seq(Effect)
      BY <2>1
    <3>3. QED
      BY <2>2, <3>1, <3>2
  <2>4. QED
    BY <1>2, <2>3 DEF Publishes
<1>3. QED
  BY <1>1, <1>2

LEMMA WhileDialingPublishes ==
    ASSUME NEW s, WellFormed(s), s.tag \in {"DialTone", "Dialing"}, NEW e \in Event
    PROVE  Publishes(s, e, WhileDialing(s, e))
<1>1. CASE e.ev = "DigitDialed"
  <2>1. WhileDialing(s, e) = decode_digit(e.digit) /\ e.digit \in 0..10
    BY <1>1, EventTypes DEF WhileDialing
  <2>2. e.digit <= 9 => Dialed(s, e)
    BY <1>1 DEF Dialed
  <2>3. QED
    BY <2>1, <2>2, DecodePublishes
<1>2. CASE e.ev = "Tick" /\ s.tag = "Dialing"
  <2> DEFINE d == IF s.pulses = 10 THEN 0 ELSE s.pulses
  <2>1. s.pulses \in 1..10
    BY <1>2, FieldTypes DEF MAX_PULSES_PER_DIGIT
  <2>2. WhileDialing(s, e) = decode_digit(d) /\ d \in 0..10
    BY <1>2, <2>1 DEF WhileDialing
  <2>3. Dialed(s, e)
    BY <1>2, <2>1 DEF Dialed
  <2> HIDE DEF d
  <2>4. QED
    BY <2>2, <2>3, DecodePublishes
<1>3. CASE ~(e.ev = "DigitDialed" \/ (e.ev = "Tick" /\ s.tag = "Dialing"))
  <2>1. /\ <<StopAudio, Command("ArmPulseTimeout")>> \in Seq(Inert)
        /\ <<Play("DialTone"), CancelPulseTimeout>> \in Seq(Inert)
        /\ <<Command("ArmPulseTimeout")>> \in Seq(Inert)
        /\ <<Play("Ringback"), PutStatus("PlayingQuestion")>> \in Seq(Inert)
        /\ <<Play(RemoteAudio), PutStatus("PlayingMessage")>> \in Seq(Inert)
        /\ <<Play(RemoteAudio), PutStatus("PlayingInstructions")>> \in Seq(Inert)
        /\ <<>> \in Seq(Inert)
    BY InertEffects DEF AudioRef, BoothStatus, RemoteAudio
  <2>2. CountPulse(s).effects \in {<<Play("DialTone"), CancelPulseTimeout>>,
                                   <<Command("ArmPulseTimeout")>>}
    BY DEF CountPulse, To
  <2>3. ToBusyTone.effects \in Seq(Inert)
    BY TonesInert
  <2>4. WhileDialing(s, e).effects \in
          {<<StopAudio, Command("ArmPulseTimeout")>>, CountPulse(s).effects,
           <<Play("Ringback"), PutStatus("PlayingQuestion")>>,
           <<Play(RemoteAudio), PutStatus("PlayingMessage")>>,
           <<Play(RemoteAudio), PutStatus("PlayingInstructions")>>,
           <<>>, ToBusyTone.effects}
    BY <1>3 DEF WhileDialing, To
  <2>5. WhileDialing(s, e).effects \in Seq(Inert)
    BY <2>1, <2>2, <2>3, <2>4
  <2>6. QED
    BY <2>5, InertDecodesNothing DEF Publishes
<1>4. QED
  BY <1>1, <1>2, <1>3

LEMMA WhilePlayingInert ==
    ASSUME NEW s, NEW e
    PROVE  WhilePlaying(s, e).effects \in Seq(Inert)
<1>1. /\ <<Play(RemoteAudio), PutStatus("PlayingQuestion")>> \in Seq(Inert)
      /\ <<Play("Beep"), PutStatus("PlayingQuestion")>> \in Seq(Inert)
      /\ <<Command("StartRecording"), Command("ArmRecordingTimeout"), PutStatus("Recording")>>
             \in Seq(Inert)
      /\ <<>> \in Seq(Inert)
  BY InertEffects DEF AudioRef, BoothStatus, RemoteAudio
<1>2. QED
  BY <1>1, TonesInert DEF WhilePlaying, To

LEMMA WhileAnsweringInert ==
    ASSUME NEW s, WellFormed(s), Answering(s), NEW e \in Event
    PROVE  WhileRecording(s, e).effects \in Seq(Inert) /\ WhileFinishing(s, e).effects \in Seq(Inert)
<1>1. s.question \in QuestionId
  BY FieldTypes DEF Answering, Finishes, CarriesQuestion
<1>2. /\ <<CancelRecordingTimeout, StopRecording, PutStatus("Uploading")>> \in Seq(Inert)
      /\ <<Play("LineBusy"), CancelRecordingTimeout, PutStatus("Idle")>> \in Seq(Inert)
      /\ <<StopAudio, PutStatus("Idle")>> \in Seq(Inert)
      /\ <<CancelRecordingTimeout>> \in Seq(Inert) /\ <<>> \in Seq(Inert)
  BY InertEffects DEF AudioRef, BoothStatus
<1>3. ASSUME NEW r \in RecordingId, NEW before \in Seq(Inert)
      PROVE  /\ <<UploadRecording(r, s.question), PutStatus("Uploading")>> \in Seq(Inert)
             /\ EndBeep(s, r, before).effects \in Seq(Inert)
  <2>1. /\ <<UploadRecording(r, s.question), PutStatus("Uploading")>> \in Seq(Inert)
        /\ <<Play("Beep"), UploadRecording(r, s.question), PutStatus("Uploading")>> \in Seq(Inert)
    BY <1>1, InertEffects DEF AudioRef, BoothStatus
  <2>2. QED
    BY <2>1 DEF EndBeep, To
<1>4. e.ev = "RecordingFinished" => e.recording \in RecordingId
  BY EventTypes
<1>5. WhileRecording(s, e).effects \in Seq(Inert)
  BY <1>2, <1>3, <1>4 DEF WhileRecording, To
<1>6. WhileFinishing(s, e).effects \in Seq(Inert)
  <2>1. ToDialTone.effects \in Seq(Inert)
    BY TonesInert
  <2>2. QED
    BY <1>2, <1>3, <1>4, <2>1 DEF WhileFinishing, To
<1>7. QED
  BY <1>5, <1>6

LEMMA WhileUploadingInert ==
    ASSUME NEW s, NEW e
    PROVE  /\ WhileUploading(s, e).effects \in Seq(Inert)
           /\ WhileUploadingTimedOut(s, e).effects \in Seq(Inert)
  BY InertEffects, TonesInert DEF WhileUploading, WhileUploadingTimedOut, To
LEMMA InnerPublishes ==
    ASSUME NEW s, WellFormed(s), NEW e \in Event
    PROVE  /\ Publishes(s, e, handle_inner(s, e))
           /\ Protected(s) => handle_inner(s, e).effects \in Seq(Inert)
<1> DEFINE x == handle_inner(s, e).effects
<1>1. ASSUME x \in Seq(Inert)
      PROVE  /\ Publishes(s, e, handle_inner(s, e))
             /\ Protected(s) => handle_inner(s, e).effects \in Seq(Inert)
  BY <1>1, InertDecodesNothing DEF Publishes
<1>2. CASE e.ev \in {"HookOn", "PowerButtonPressed", "PowerButtonHeld"}
  <2>1. <<Command("Reboot")>> \in Seq(Inert) /\ <<Command("PowerOff")>> \in Seq(Inert)
    BY InertEffects
  <2>2. x \in {HangUp(s).effects, <<Command("Reboot")>>, <<Command("PowerOff")>>}
    BY <1>2 DEF handle_inner, To
  <2>3. x \in Seq(Inert)
    BY <2>1, <2>2, HangUpInert
  <2>4. QED
    BY <1>1, <2>3
<1>3. CASE e.ev \notin {"HookOn", "PowerButtonPressed", "PowerButtonHeld"}
  <2>0. s.tag \in Tags
    BY FieldTypes
  <2>1. CASE s.tag \in {"DialTone", "Dialing"}
    <3>1. handle_inner(s, e) = WhileDialing(s, e) /\ ~Protected(s)
      BY <1>3, <2>1 DEF handle_inner, Protected
    <3>2. QED
      BY <2>1, <3>1, WhileDialingPublishes
  <2>2. CASE s.tag \in {"Idle", "Error", "CallsPaused"}
    <3>1. x \in {ToDialTone.effects, <<>>}
      BY <1>3, <2>2 DEF handle_inner, To
    <3>2. x \in Seq(Inert)
      BY <3>1, TonesInert, InertEffects
    <3>3. QED
      BY <1>1, <3>2
  <2>3. CASE s.tag \in {"RingingQuestion", "PlayingQuestion", "Beep", "RecordingEndedBeep",
                        "PlayingMessage", "PlayingInstructions", "CallUnavailable"}
    <3>1. handle_inner(s, e) = WhilePlaying(s, e)
      BY <1>3, <2>3 DEF handle_inner
    <3>2. QED
      BY <1>1, <3>1, WhilePlayingInert
  <2>4. CASE Answering(s)
    <3>1. handle_inner(s, e) \in {WhileRecording(s, e), WhileFinishing(s, e)}
      BY <1>3, <2>4 DEF handle_inner, Answering, Finishes
    <3>2. QED
      BY <1>1, <2>4, <3>1, WhileAnsweringInert
  <2>5. CASE InUpload(s)
    <3>1. handle_inner(s, e) \in {WhileUploading(s, e), WhileUploadingTimedOut(s, e)}
      BY <1>3, <2>5 DEF handle_inner, InUpload
    <3>2. QED
      BY <1>1, <3>1, WhileUploadingInert
  <2>6. QED
    BY <2>0, <2>1, <2>2, <2>3, <2>4, <2>5 DEF Tags, Answering, Finishes, InUpload
<1>4. QED
  BY <1>2, <1>3

\* A caller who dials while calls are paused: the digit that resumes the call.
LEMMA ResumePublishes ==
    ASSUME NEW s, WellFormed(s), s.tag = "CallsPaused", NEW e \in Event
    PROVE  Publishes(s, e, Resume(s, e))
<1>1. CASE HookAfter(s, e) \/ e.ev \notin {"RotaryPulse", "DigitDialed"}
  <2>1. Resume(s, e) \in {ToIdle, ToDialTone}
    BY <1>1 DEF Resume
  <2>2. QED
    BY <2>1, TonesInert, InertDecodesNothing DEF Publishes
<1>2. CASE ~HookAfter(s, e) /\ e.ev \in {"RotaryPulse", "DigitDialed"}
  <2> DEFINE first == Plain("DialTone")
             inner == handle_inner(first, e)
  <2>1. Resume(s, e).effects = ToDialTone.effects \o inner.effects
    BY <1>2 DEF Resume, Then, To
  <2>2. WellFormed(first) /\ first.tag = "DialTone"
    BY PlainWellFormed, VariantTags DEF Tags, CarriesQuestion
  <2>3. ~s.on_hook
    BY <1>2 DEF HookAfter, OnHook
  <2>4. Dialed(first, e) => Dialed(s, e)
    BY <1>2, <2>2, <2>3 DEF Dialed
  <2> HIDE DEF first
  <2>5. Publishes(first, e, inner)
    BY <2>2, InnerPublishes
  <2>6. ToDialTone.effects \in Seq(Effect) /\ ~Decodes(ToDialTone.effects)
    BY TonesInert, InertDecodesNothing
  <2> HIDE DEF inner
  <2>7. QED
    BY <2>1, <2>4, <2>5, <2>6, JoinedDecodes DEF Publishes
<1>3. QED
  BY <1>1, <1>2

LEMMA PausedInert ==
    ASSUME NEW s, WellFormed(s), NEW e \in Event
    PROVE  Paused(s, e).effects \in Seq(Inert)
<1>1. Silence \in Seq(Inert) /\ <<>> \in Seq(Inert) /\ <<StopAudio>> \in Seq(Inert)
  BY InertEffects DEF Silence
<1>2. CASE ~Protected(s)
  BY <1>1, <1>2 DEF Paused, To
<1>3. CASE Protected(s)
  <2> DEFINE from == WithoutBeep(s)
             inner == handle_inner(from, e)
  <2>1. WellFormed(from) /\ Protected(from)
    BY <1>3, BeepSet DEF Protected
  <2>2. Paused(s, e) = Quietly(s, e, inner)
    BY <1>3 DEF Paused
  <2> HIDE DEF from
  <2>3. inner.effects \in Seq(Inert)
    BY <2>1, InnerPublishes
  <2> HIDE DEF inner
  <2>4. Muted(inner.effects) \in Seq(Inert)
    BY <2>3, MutedInert
  <2>5. PICK before \in {<<>>, <<StopAudio>>} :
            \/ Quietly(s, e, inner).effects = before \o Muted(inner.effects)
            \/ Quietly(s, e, inner).effects = (before \o Muted(inner.effects)) \o Silence
    BY DEF Quietly, To
  <2>6. before \o Muted(inner.effects) \in Seq(Inert)
    <3>1. before \in Seq(Inert)
      BY <1>1
    <3>2. QED
      BY <2>4, <3>1
  <2>7. (before \o Muted(inner.effects)) \o Silence \in Seq(Inert)
    BY <1>1, <2>6
  <2>8. QED
    BY <2>2, <2>5, <2>6, <2>7
<1>4. QED
  BY <1>2, <1>3

\* A step of the core acts on a digit only while calls are admitted, and only on
\* one that handle_event publishes (dialed_digit_for_telemetry).
LEMMA CoreStepPublishes ==
    ASSUME NEW s, WellFormed(s), NEW e \in Event, NEW accepting_calls \in BOOLEAN
    PROVE  Decodes(handle_with_call_availability(s, e, accepting_calls).effects)
             => accepting_calls /\ Dialed(s, e)
<1> DEFINE step == handle_available(s, e, accepting_calls)
           event == IF e.ev = "UploadFinished" THEN Signal(e.outcome) ELSE e
           led == status_led_for(step.state)
<1>1. event \in Event /\ (Dialed(s, event) => Dialed(s, e))
  <2>1. CASE e.ev = "UploadFinished"
    <3>1. e.outcome \in Outcome
      BY <2>1, EventTypes
    <3>2. Signal(e.outcome) \in Event /\ Signal(e.outcome).ev \notin {"Tick", "DigitDialed"}
      BY <3>1 DEF Signal, Event, Signals, Outcome
    <3>3. QED
      BY <2>1, <3>2 DEF Dialed
  <2>2. QED
    BY <2>1
<1>2. step.effects \in Seq(Effect) /\ (Decodes(step.effects) => accepting_calls /\ Dialed(s, e))
  <2>1. CASE Stale(s, e)
    <3>1. step.effects = <<>>
      BY <2>1 DEF handle_available, Stale, To
    <3> HIDE DEF step
    <3>2. QED
      BY <3>1, InertEffects, InertDecodesNothing
  <2>2. CASE e.ev \in {"PowerButtonPressed", "PowerButtonHeld"}
    <3>1. step.effects \in {<<Command("Reboot")>>, <<Command("PowerOff")>>}
      BY <2>2 DEF handle_available, Stale, handle_inner, To
    <3> HIDE DEF step
    <3>2. <<Command("Reboot")>> \in Seq(Inert) /\ <<Command("PowerOff")>> \in Seq(Inert)
      BY InertEffects
    <3>3. QED
      BY <3>1, <3>2, InertDecodesNothing
  <2>3. CASE ~Stale(s, e) /\ e.ev \notin {"PowerButtonPressed", "PowerButtonHeld"}
    <3>1. step = (IF ~accepting_calls THEN Paused(s, event)
                  ELSE IF s.tag = "CallsPaused" THEN Resume(s, event)
                  ELSE handle_inner(s, event))
      BY <2>3 DEF handle_available
    <3> HIDE DEF step, event
    <3>2. CASE ~accepting_calls
      <4>1. step.effects \in Seq(Inert)
        BY <1>1, <3>1, <3>2, PausedInert
      <4>2. QED
        BY <4>1, InertDecodesNothing
    <3>3. CASE accepting_calls
      <4>1. Publishes(s, event, step)
        BY <1>1, <3>1, <3>3, ResumePublishes, InnerPublishes
      <4>2. QED
        BY <1>1, <3>3, <4>1 DEF Publishes
    <3>4. QED
      BY <3>2, <3>3
  <2>4. QED
    BY <2>1, <2>2, <2>3
<1>3. led \in Led
  <2>1. handle_with_call_availability(s, e, accepting_calls).state = step.state
    BY DEF handle_with_call_availability, LedFirst, To
  <2>2. WellFormed(step.state)
    BY <2>1, CoreStepSound DEF Sound
  <2> HIDE DEF step
  <2>3. QED
    BY <2>2, LedTyped
<1>4. handle_with_call_availability(s, e, accepting_calls).effects
        \in {step.effects, <<SetStatusLed(led)>> \o step.effects}
  BY DEF handle_with_call_availability, LedFirst, To
<1> HIDE DEF step, led
<1>5. <<SetStatusLed(led)>> \in Seq(Effect) /\ ~Decodes(<<SetStatusLed(led)>>)
  <2>1. <<SetStatusLed(led)>> \in Seq(Inert)
    BY <1>3, InertEffects
  <2>2. QED
    BY <2>1, InertDecodesNothing
<1>6. QED
  BY <1>2, <1>4, <1>5, JoinedDecodes
----------------------------------------------------------------------------
(* What a step of the core hands over *)

\* A recording that is finished while it is waited for is uploaded, paused or not.
LEMMA FinishedIsUploaded ==
    ASSUME NEW s, WellFormed(s), Answering(s), NEW e \in Event, e.ev = "RecordingFinished",
           NEW accepting_calls \in BOOLEAN
    PROVE  InUpload(handle_with_call_availability(s, e, accepting_calls).state)
<1>1. ASSUME NEW t, t.tag = s.tag, NEW y \in {handle_inner(t, e)}
      PROVE  InUpload(y.state)
  <2>1. \A r, x : EndBeep(t, r, x).state.tag = "UploadingTimedOut"
    BY DEF EndBeep, To, UploadingTimedOut, Variant
  <2>2. /\ t.tag = "Recording" => y = WhileRecording(t, e)
        /\ Finishes(t) => y = WhileFinishing(t, e)
    BY <1>1 DEF handle_inner, Finishes
  <2>3. /\ WhileRecording(t, e).state.tag = "UploadingTimedOut"
        /\ WhileFinishing(t, e).state.tag \in {"Uploading", "UploadingTimedOut"}
    BY <2>1, VariantTags, StatesOf DEF WhileRecording, WhileFinishing
  <2>4. Answering(t)
    BY <1>1 DEF Answering, Finishes
  <2>5. QED
    BY <2>2, <2>3, <2>4 DEF Answering, InUpload
<1>2. handle_available(s, e, accepting_calls) =
        IF accepting_calls THEN handle_inner(s, e) ELSE Paused(s, e)
  <2>1. s.tag # "CallsPaused" /\ ~Stale(s, e)
    BY DEF Answering, Finishes, Stale
  <2>2. QED
    BY <2>1 DEF handle_available
<1>3. InUpload(Paused(s, e).state)
  <2> DEFINE inner == handle_inner(WithoutBeep(s), e)
  <2>1. WithoutBeep(s).tag = s.tag
    BY BeepSet
  <2>2. InUpload(inner.state)
    BY <1>1, <2>1
  <2>3. Paused(s, e) = Quietly(s, e, inner)
    BY DEF Paused, Protected, Answering, Finishes
  <2> HIDE DEF inner
  <2>4. Quietly(s, e, inner).state = WithoutBeep(inner.state)
    BY <2>2, StatesOf DEF Quietly, Protected, InUpload
  <2>5. WithoutBeep(inner.state).tag = inner.state.tag \/ InUpload(WithoutBeep(inner.state))
    <3>1. WellFormed(inner.state)
      <4>1. WellFormed(WithoutBeep(s)) /\ WithoutBeep(s).tag # "CallsPaused"
        BY <2>1, BeepSet DEF Answering, Finishes
      <4>2. QED
        BY <4>1, InnerSound DEF Sound, inner
    <3>2. QED
      BY <3>1, BeepSet
  <2>6. QED
    BY <2>2, <2>3, <2>4, <2>5 DEF InUpload
<1>4. InUpload(handle_available(s, e, accepting_calls).state)
  BY <1>1, <1>2, <1>3
<1>5. handle_with_call_availability(s, e, accepting_calls).state
        = handle_available(s, e, accepting_calls).state
  BY StatesOf DEF handle_with_call_availability, LedFirst
<1>6. QED
  BY <1>4, <1>5

LEMMA CoreStepHandsOver ==
    ASSUME NEW s, WellFormed(s), NEW e \in Event, NEW accepting_calls \in BOOLEAN,
           NEW step, step = handle_with_call_availability(s, e, accepting_calls)
    PROVE  /\ HandedBy(step.effects) # {} => InUpload(step.state)
           /\ {a[1] : a \in HandedBy(step.effects)} \subseteq RecordingId
           /\ Answering(step.state) => Answering(s) \/ step.state.tag = "Recording"
<1>1. Follows(s, e, step)
  BY CoreStepFollows
<1>2. HandedBy(step.effects) # {}
        => /\ Answering(s) /\ e.ev = "RecordingFinished"
           /\ HandedBy(step.effects) = {<<e.recording, s.question>>}
  BY <1>1 DEF Follows, NoAnswer, KeepsAnswer, StartsAnswer, StopsAnswer, HandsAnswerOver,
     LosesAnswer
<1>3. Answering(step.state) => Answering(s) \/ step.state.tag = "Recording"
  BY <1>1 DEF Follows, NoAnswer, KeepsAnswer, StartsAnswer, StopsAnswer, HandsAnswerOver,
     LosesAnswer, Answering
<1>4. HandedBy(step.effects) # {} => InUpload(step.state)
  BY <1>2, FinishedIsUploaded
<1>5. {a[1] : a \in HandedBy(step.effects)} \subseteq RecordingId
  BY <1>2, EventTypes
<1>6. QED
  BY <1>3, <1>4, <1>5

----------------------------------------------------------------------------
(* The session tracker *)

Sessions == [live: BOOLEAN, phase: Phase, dialed: BOOLEAN]

LEMMA FreshSession ==
    /\ NoSession \in Sessions /\ ~NoSession.live
    /\ Fresh \in Sessions /\ Fresh.live /\ Fresh.phase = "Prompt"
  BY DEF NoSession, Fresh, Sessions, Phase

LEMMA DigitHeard ==
    ASSUME NEW s \in Sessions
    PROVE  /\ Digit(s) \in Sessions
           /\ Digit(s).live <=> s.live
           /\ Digit(s).phase = s.phase
           /\ s.live \/ s.dialed => Digit(s).dialed
           /\ ~s.live => Digit(s) = s
  BY DEF Digit, Sessions

LEMMA MovedHeard ==
    ASSUME NEW s \in Sessions, NEW from \in Tags, NEW to \in Tags
    PROVE  /\ Moved(s, from, to) \in Sessions
           /\ Moved(s, from, to).live <=> s.live \/ (Quiet(from) /\ ~Quiet(to))
           /\ s.live => /\ Moved(s, from, to).dialed <=> s.dialed
                        /\ Moved(s, from, to).phase = PhaseAfter(to, s.phase)
           /\ ~s.live /\ Moved(s, from, to).live
                => Moved(s, from, to).phase = PhaseAfter(to, "Prompt")
           /\ ~Moved(s, from, to).live => Moved(s, from, to) = s
<1>1. \A phase \in Phase : PhaseAfter(to, phase) \in Phase
  BY DEF PhaseAfter, Phase
<1>2. CASE s.live
  <2>1. Moved(s, from, to) = [s EXCEPT !.phase = PhaseAfter(to, s.phase)]
    BY <1>2 DEF Moved
  <2>2. s.phase \in Phase
    BY DEF Sessions
  <2>3. QED
    BY <1>1, <1>2, <2>1, <2>2 DEF Sessions
<1>3. CASE ~s.live /\ Quiet(from) /\ ~Quiet(to)
  <2>1. Moved(s, from, to) = [Fresh EXCEPT !.phase = PhaseAfter(to, Fresh.phase)]
    BY <1>3, FreshSession DEF Moved
  <2>2. QED
    BY <1>1, <1>3, <2>1, FreshSession DEF Sessions
<1>4. CASE ~s.live /\ ~(Quiet(from) /\ ~Quiet(to))
  <2>1. Moved(s, from, to) = s
    BY <1>4 DEF Moved
  <2>2. QED
    BY <1>4, <2>1
<1>5. QED
  BY <1>2, <1>3, <1>4

\* How a call that is closed ended.
LEMMA OutcomeIs ==
    ASSUME NEW s \in Sessions, NEW to, Quiet(to)
    PROVE  /\ OutcomeOf(s, to) \in CallOutcome
           /\ OutcomeOf(s, to) = "HungUpBeforeDial" => to = "Idle" /\ s.phase = "Prompt" /\ ~s.dialed
           /\ OutcomeOf(s, to) = "HungUpDuringRecording" => to = "Idle" /\ s.phase = "Recording"
  BY DEF OutcomeOf, Sessions, Phase, CallOutcome, Quiet
----------------------------------------------------------------------------
(* The inductive invariant *)

\* The tracker has noticed the digit of a call that has acted on one, and an
\* answer under way, or one the tracker takes to be under way, is not yet with
\* the uploader.
SessionMatches ==
    /\ session.live /\ call.decoded => session.dialed
    /\ Answering(core) \/ (session.live /\ session.phase = "Recording") => call.answers = {}

SessionSound == Inv /\ SessionTypeOK /\ SessionFollowsCall /\ SessionMatches

\* The outcome that is published is true of the call that ends.
EndIsTrue ==
    /\ ended' = "HungUpBeforeDial" => ~call.decoded
    /\ ended' = "HungUpDuringRecording" => call.answers = {}

LEMMA SessionFields ==
    ASSUME SessionTypeOK
    PROVE  /\ session \in Sessions /\ (~session.live => session = NoSession)
           /\ call.answers \subseteq RecordingId /\ call.done \in BOOLEAN
           /\ call.decoded \in BOOLEAN /\ call.refused \in BOOLEAN
           /\ told \in [RecordingId -> {"Nothing", "Completed", "Failed"}]
           /\ \A r \in RecordingId \ uploads : told[r] = "Nothing"
  BY DEF SessionTypeOK, Sessions

\* What is heard of a step, before a call that ends with it is closed.
LEMMA WhatIsHeard ==
    ASSUME SessionSound, NEW e \in Event, core'.tag \in Tags
    PROVE  /\ Heard(e) \in Sessions
           /\ Heard(e).live <=> session.live \/ ~Quiet(core'.tag)
           /\ ~Heard(e).live => Heard(e) = NoSession
           /\ Heard(e).live => Heard(e).phase = PhaseAfter(core'.tag, IF session.live
                                                  THEN session.phase ELSE "Prompt")
           /\ session.live /\ session.dialed => Heard(e).dialed
           /\ (/\ Heard(e).live /\ accepting /\ Dialed(core, e)
               /\ session.live \/ core.tag = "CallsPaused") => Heard(e).dialed
<1> DEFINE resumes == core.tag = "CallsPaused" /\ ~Quiet(core'.tag)
           digit == accepting /\ Dialed(core, e)
           before == IF digit /\ ~resumes THEN Digit(session) ELSE session
           after == Moved(before, core.tag, core'.tag)
<1>1. Heard(e) = IF digit /\ resumes THEN Digit(after) ELSE after
  BY DEF Heard
<1>2. /\ session \in Sessions /\ (~session.live => session = NoSession)
      /\ core.tag \in Tags /\ (session.live <=> ~Quiet(core.tag))
  BY SessionFields, FieldTypes DEF SessionSound, SessionFollowsCall, Inv, TypeOK
<1>3. resumes => Quiet(core.tag)
  BY DEF Quiet
<1>4. digit <=> accepting /\ Dialed(core, e)
  OBVIOUS
<1> HIDE DEF digit
<1>5. /\ before \in Sessions
      /\ before.live <=> session.live
      /\ before.phase = session.phase
      /\ session.dialed \/ (digit /\ ~resumes /\ session.live) => before.dialed
      /\ ~session.live => before = session
  BY <1>2, DigitHeard
<1> HIDE DEF before
<1>6. /\ after \in Sessions
      /\ after.live <=> before.live \/ (Quiet(core.tag) /\ ~Quiet(core'.tag))
      /\ before.live => /\ after.dialed <=> before.dialed
                        /\ after.phase = PhaseAfter(core'.tag, before.phase)
      /\ ~before.live /\ after.live => after.phase = PhaseAfter(core'.tag, "Prompt")
      /\ ~after.live => after = before
  BY <1>2, <1>5, MovedHeard
<1> HIDE DEF after
<1>7. /\ Digit(after) \in Sessions
      /\ Digit(after).live <=> after.live
      /\ Digit(after).phase = after.phase
      /\ after.live \/ after.dialed => Digit(after).dialed
      /\ ~after.live => Digit(after) = after
  BY <1>6, DigitHeard
<1>8. resumes <=> core.tag = "CallsPaused" /\ ~Quiet(core'.tag)
  OBVIOUS
<1> HIDE DEF resumes
<1>9. /\ Heard(e) \in Sessions
      /\ Heard(e).live <=> after.live
      /\ Heard(e).phase = after.phase
      /\ after.dialed => Heard(e).dialed
      /\ digit /\ resumes /\ after.live => Heard(e).dialed
      /\ ~after.live => Heard(e) = after
  BY <1>1, <1>6, <1>7
<1>10. after.live <=> session.live \/ ~Quiet(core'.tag)
  BY <1>2, <1>5, <1>6
<1>11. ~Heard(e).live => Heard(e) = NoSession
  BY <1>2, <1>5, <1>6, <1>9
<1>12. Heard(e).live => Heard(e).phase = PhaseAfter(core'.tag, IF session.live
                                           THEN session.phase ELSE "Prompt")
  BY <1>5, <1>6, <1>9
<1>13. session.live /\ session.dialed => Heard(e).dialed
  BY <1>5, <1>6, <1>9
<1>14. ASSUME Heard(e).live, digit, session.live \/ core.tag = "CallsPaused"
       PROVE  Heard(e).dialed
  <2>1. CASE resumes
    BY <1>9, <1>14, <2>1
  <2>2. CASE ~resumes
    <3>1. session.live
      BY <1>2, <1>8, <1>9, <1>10, <1>14, <2>2
    <3>2. QED
      BY <1>5, <1>6, <1>9, <1>14, <2>2, <3>1
  <2>3. QED
    BY <2>1, <2>2
<1>15. QED
  BY <1>4, <1>9, <1>10, <1>11, <1>12, <1>13, <1>14

\* The session and the call after a step that is heard.
LEMMA HearsSound ==
    ASSUME SessionSound, Inv', NEW e \in Event, Hears(e),
           core' = handle_with_call_availability(core, e, accepting).state
    PROVE  (SessionTypeOK /\ SessionFollowsCall /\ SessionMatches)' /\ EndIsTrue
<1> DEFINE step == handle_with_call_availability(core, e, accepting)
           s == Heard(e)
<1>1. /\ WellFormed(core) /\ accepting \in BOOLEAN /\ core.tag \in Tags /\ core'.tag \in Tags
      /\ (session.live <=> ~Quiet(core.tag)) /\ uploads' \subseteq RecordingId
  BY FieldTypes DEF SessionSound, SessionFollowsCall, Inv, TypeOK
<1>2. /\ s \in Sessions
      /\ s.live <=> session.live \/ ~Quiet(core'.tag)
      /\ ~s.live => s = NoSession
      /\ s.live => s.phase = PhaseAfter(core'.tag, IF session.live THEN session.phase
                                                   ELSE "Prompt")
      /\ session.live /\ session.dialed => s.dialed
      /\ s.live /\ accepting /\ Dialed(core, e) /\ (session.live \/ core.tag = "CallsPaused")
           => s.dialed
  BY <1>1, WhatIsHeard
<1>3. /\ Closes(core.tag, core'.tag) => /\ session' = NoSession
                                        /\ ended' = IF s.live THEN OutcomeOf(s, core'.tag)
                                                    ELSE None
      /\ ~Closes(core.tag, core'.tag) => session' = s /\ ended' = None
      /\ call' = Happened(e, step.effects)
      /\ told' = [r \in RecordingId |-> IF r \in uploads' THEN told[r] ELSE "Nothing"]
  BY DEF Hears
<1>4. /\ HandedBy(step.effects) # {} => InUpload(core')
      /\ {a[1] : a \in HandedBy(step.effects)} \subseteq RecordingId
      /\ Answering(core') => Answering(core) \/ core'.tag = "Recording"
      /\ Decodes(step.effects) => accepting /\ Dialed(core, e)
  BY <1>1, CoreStepHandsOver, CoreStepPublishes
<1> HIDE DEF step, s
<1>5. /\ session \in Sessions /\ (~session.live => session = NoSession)
      /\ call.answers \subseteq RecordingId /\ call.done \in BOOLEAN
      /\ call.decoded \in BOOLEAN /\ call.refused \in BOOLEAN
      /\ told \in [RecordingId -> {"Nothing", "Completed", "Failed"}]
      /\ session.live /\ call.decoded => session.dialed
      /\ Answering(core) \/ (session.live /\ session.phase = "Recording") => call.answers = {}
  BY SessionFields DEF SessionSound, SessionMatches
<1>6. /\ session' \in Sessions /\ (~session'.live => session' = NoSession)
      /\ session'.live <=> ~Quiet(core'.tag)
  BY <1>1, <1>2, <1>3, FreshSession DEF Closes
<1>7. session'.live => /\ session' = s
                       /\ session.live \/ (Quiet(core.tag) /\ ~Quiet(core'.tag))
  BY <1>1, <1>3, <1>6, FreshSession
<1> DEFINE opens == Quiet(core.tag) /\ ~Quiet(core'.tag)
           begins == core'.tag = "Recording" /\ core.tag # "Recording"
           fresh == {a[1] : a \in HandedBy(step.effects)}
<1>8. /\ call'.answers = (IF begins \/ opens THEN {} ELSE call.answers) \cup fresh
      /\ call'.done = ((IF opens THEN FALSE ELSE call.done) /\ ~begins)
      /\ call'.decoded = ((IF opens THEN FALSE ELSE call.decoded) \/ Decodes(step.effects))
      /\ call'.refused = ((IF opens THEN FALSE ELSE call.refused)
                            \/ (core'.tag = "Error" /\ e.ev \in
                                  {"QuestionFailed", "MessageFailed", "InstructionsFailed"}))
      /\ call' = [answers |-> call'.answers, done |-> call'.done, decoded |-> call'.decoded,
                  refused |-> call'.refused]
  BY <1>3 DEF Happened, NewCall
<1>9. call' \in [answers: SUBSET RecordingId, done: BOOLEAN, decoded: BOOLEAN, refused: BOOLEAN]
  <2>1. call'.answers \subseteq RecordingId
    BY <1>4, <1>5, <1>8
  <2>2. Decodes(step.effects) \in BOOLEAN
    BY DEF Decodes
  <2>3. call'.done \in BOOLEAN /\ call'.decoded \in BOOLEAN /\ call'.refused \in BOOLEAN
    BY <1>5, <1>8, <2>2
  <2>4. QED
    BY <1>8, <2>1, <2>3
<1>10. ended' \in CallOutcome \cup {None}
  BY <1>2, <1>3, OutcomeIs DEF Closes
<1>11. /\ told' \in [RecordingId -> {"Nothing", "Completed", "Failed"}]
       /\ \A r \in RecordingId \ uploads' : told'[r] = "Nothing"
  BY <1>3, <1>5
<1>12. SessionTypeOK'
  BY <1>6, <1>9, <1>10, <1>11 DEF SessionTypeOK, Sessions
<1>13. SessionFollowsCall'
  BY <1>6 DEF SessionFollowsCall
<1>14. ASSUME session'.live, call'.decoded PROVE session'.dialed
  <2>1. CASE Decodes(step.effects)
    <3>1. core.tag \in {"DialTone", "Dialing", "CallsPaused"}
      BY <1>4, <2>1 DEF Dialed
    <3>2. session.live \/ core.tag = "CallsPaused"
      BY <1>1, <3>1 DEF Quiet
    <3>3. QED
      BY <1>2, <1>4, <1>7, <1>14, <2>1, <3>2
  <2>2. CASE ~Decodes(step.effects)
    <3>1. ~opens /\ call.decoded
      BY <1>5, <1>8, <1>14, <2>2
    <3>2. QED
      BY <1>2, <1>5, <1>7, <1>14, <3>1
  <2>3. QED
    BY <2>1, <2>2
<1>15. ASSUME Answering(core') \/ (session'.live /\ session'.phase = "Recording")
       PROVE  call'.answers = {}
  <2>1. \A phase \in Phase : /\ InUpload(core') => PhaseAfter(core'.tag, phase) # "Recording"
                             /\ PhaseAfter(core'.tag, phase) = "Recording"
                                  => core'.tag = "Recording" \/ phase = "Recording"
    BY DEF PhaseAfter, InUpload
  <2>2. session'.live => session'.phase = PhaseAfter(core'.tag, IF session.live THEN session.phase
                                                                ELSE "Prompt")
    BY <1>2, <1>7
  <2>3. (IF session.live THEN session.phase ELSE "Prompt") \in Phase
    BY <1>5 DEF Sessions, Phase
  <2>4. fresh = {}
    <3>1. ~InUpload(core')
      BY <1>15, <2>1, <2>2, <2>3 DEF Answering, Finishes, InUpload
    <3>2. HandedBy(step.effects) = {}
      BY <1>4, <3>1
    <3>3. QED
      BY <3>2
  <2>5. begins \/ opens \/ call.answers = {}
    <3>1. CASE Answering(core')
      BY <1>4, <1>5, <3>1 DEF Answering
    <3>2. CASE session'.live /\ session'.phase = "Recording"
      <4>1. core'.tag = "Recording" \/ (session.live /\ session.phase = "Recording")
        BY <2>1, <2>2, <2>3, <3>2
      <4>2. core'.tag = "Recording" => begins \/ Answering(core)
        BY DEF Answering
      <4>3. QED
        BY <1>5, <4>1, <4>2
    <3>3. QED
      BY <1>15, <3>1, <3>2
  <2>6. QED
    BY <1>8, <2>4, <2>5
<1>16. EndIsTrue
  <2>1. CASE Closes(core.tag, core'.tag) /\ s.live
    <3>1. Quiet(core'.tag) /\ session.live /\ ended' = OutcomeOf(s, core'.tag)
      BY <1>1, <1>3, <2>1 DEF Closes
    <3>2. /\ ended' = "HungUpBeforeDial" => core'.tag = "Idle" /\ s.phase = "Prompt" /\ ~s.dialed
          /\ ended' = "HungUpDuringRecording" => core'.tag = "Idle" /\ s.phase = "Recording"
      BY <1>2, <3>1, OutcomeIs
    <3>3. core'.tag = "Idle" => s.phase = session.phase
      BY <1>2, <2>1, <3>1 DEF PhaseAfter
    <3>4. QED
      BY <1>2, <1>5, <3>1, <3>2, <3>3 DEF EndIsTrue
  <2>2. CASE ~(Closes(core.tag, core'.tag) /\ s.live)
    BY <1>3, <2>2, NoOutcomeAssumption DEF EndIsTrue, CallOutcome
  <2>3. QED
    BY <2>1, <2>2
<1>17. QED
  BY <1>12, <1>13, <1>14, <1>15, <1>16 DEF SessionMatches
\* A step nobody hears of.
LEMMA UnheardSound ==
    ASSUME SessionSound, UNCHANGED <<core, uploads>>,
           ended' = None, UNCHANGED <<session, told, call>>
    PROVE  (SessionTypeOK /\ SessionFollowsCall /\ SessionMatches)' /\ EndIsTrue
  BY NoOutcomeAssumption DEF SessionSound, SessionTypeOK, SessionFollowsCall, SessionMatches,
     EndIsTrue, CallOutcome

LEMMA PublishedSound ==
    ASSUME SessionSound, NEW r \in RecordingId, NEW what \in {"Completed", "Failed"},
           UploadPublished(r, what)
    PROVE  (SessionTypeOK /\ SessionFollowsCall /\ SessionMatches)' /\ EndIsTrue
<1> DEFINE phase == IF what = "Completed" THEN "RecordingDone" ELSE "RecordingFailed"
<1>1. /\ session \in Sessions /\ (~session.live => session = NoSession)
      /\ call \in [answers: SUBSET RecordingId, done: BOOLEAN, decoded: BOOLEAN, refused: BOOLEAN]
      /\ told \in [RecordingId -> {"Nothing", "Completed", "Failed"}]
      /\ \A x \in RecordingId \ uploads : told[x] = "Nothing"
  BY DEF SessionSound, SessionTypeOK, Sessions
<1>2. /\ r \in uploads /\ told' = [told EXCEPT ![r] = what] /\ ended' = None
      /\ core' = core /\ uploads' = uploads
      /\ session' = IF ~session.live THEN session ELSE [session EXCEPT !.phase = phase]
  BY DEF UploadPublished, vars
<1>3. phase \in Phase \ {"Recording"}
  BY DEF Phase
<1> HIDE DEF phase
<1>4. /\ session' \in Sessions /\ (~session'.live => session' = NoSession)
      /\ session'.live <=> session.live
      /\ session.live => session'.dialed = session.dialed /\ session'.phase = phase
  BY <1>1, <1>2, <1>3 DEF Sessions
<1>5. call' = [call EXCEPT !.done = @ \/ (what = "Completed" /\ r \in call.answers)]
  BY DEF UploadPublished
<1>6. /\ call' \in [answers: SUBSET RecordingId, done: BOOLEAN, decoded: BOOLEAN, refused: BOOLEAN]
      /\ call'.answers = call.answers /\ call'.decoded = call.decoded
  BY <1>1, <1>5
<1>7. /\ told' \in [RecordingId -> {"Nothing", "Completed", "Failed"}]
      /\ \A x \in RecordingId \ uploads' : told'[x] = "Nothing"
  BY <1>1, <1>2
<1>8. SessionTypeOK'
  BY <1>2, <1>4, <1>6, <1>7 DEF SessionTypeOK, Sessions
<1>9. SessionFollowsCall'
  BY <1>2, <1>4 DEF SessionFollowsCall, SessionSound
<1>10. SessionMatches'
  BY <1>2, <1>3, <1>4, <1>6 DEF SessionMatches, SessionSound
<1>11. QED
  BY <1>2, <1>8, <1>9, <1>10, NoOutcomeAssumption DEF EndIsTrue, CallOutcome

\* What a step of the tracker is: an event is taken and heard, or it is not a
\* step of the core.
LEMMA StepsAreHeard ==
    ASSUME SessionSound, SNext
    PROVE  \/ \E e \in Event : /\ Hears(e)
                               /\ core' = handle_with_call_availability(core, e, accepting).state
           \/ \E r \in RecordingId, what \in {"Completed", "Failed"} : UploadPublished(r, what)
           \/ Silent
<1> DEFINE Taken == \E e \in Event : /\ Hears(e)
                        /\ core' = handle_with_call_availability(core, e, accepting).state
<1>1. ASSUME NEW e \in Event, NEW d, Take(e, d), Hears(e) PROVE Taken
  BY <1>1 DEF Take, CarryOut
<1>2. \A k \in Signals : Signal(k) \in Event
  BY SignalsAreEvents
<1> HIDE DEF Taken
<1>3. ASSUME NEW k \in Signals, NEW d, Take(Signal(k), d), Hears(Signal(k)) PROVE Taken
  BY <1>1, <1>2, <1>3
<1>4. ASSUME NEW on \in BOOLEAN, Hook(on), Hears(Signal(IF on THEN "HookOn" ELSE "HookOff"))
      PROVE  Taken
  <2>1. (IF on THEN "HookOn" ELSE "HookOff") \in Signals
    BY DEF Signals
  <2>2. Take(Signal(IF on THEN "HookOn" ELSE "HookOff"), device)
    BY <1>4 DEF Hook
  <2>3. QED
    BY <1>3, <1>4, <2>1, <2>2
<1>5. ASSUME NEW e \in Event, Input(e) \/ OperatorAnswers(e) \/ LateReply(e), Hears(e)
      PROVE  Taken
  <2>1. Take(e, device)
    BY <1>5 DEF Input, OperatorAnswers, LateReply
  <2>2. QED
    BY <1>1, <1>5, <2>1
<1>6. ASSUME TimerFires("Pulse"), Hears(Signal("Tick")) PROVE Taken
  <2>1. \E d : Take(Signal("Tick"), d)
    BY <1>6 DEF TimerFires
  <2>2. QED
    BY <1>3, <1>6, <2>1 DEF Signals
<1>7. ASSUME TimerFires("Recording"), Hears(Signal("RecordingTimedOut")) PROVE Taken
  <2>1. \E d : Take(Signal("RecordingTimedOut"), d)
    BY <1>7 DEF TimerFires
  <2>2. QED
    BY <1>3, <1>7, <2>1 DEF Signals
<1>8. ASSUME PlaybackEnds, Hears(Signal("PlaybackEnded")) PROVE Taken
  <2>1. \E d : Take(Signal("PlaybackEnded"), d)
    BY <1>8 DEF PlaybackEnds
  <2>2. QED
    BY <1>3, <1>8, <2>1 DEF Signals
<1>9. ASSUME NEW r \in RecordingId, RecorderFinishes(r),
             Hears([ev |-> "RecordingFinished", recording |-> r])
      PROVE  Taken
  <2>1. \E d : Take([ev |-> "RecordingFinished", recording |-> r], d)
    BY <1>9 DEF RecorderFinishes
  <2>2. [ev |-> "RecordingFinished", recording |-> r] \in Event
    BY DEF Event
  <2>3. QED
    BY <1>1, <1>9, <2>1, <2>2
<1>10. ASSUME RecorderCannotFinish \/ RecorderReportsFailure, Hears(Signal("RecordingFailed"))
       PROVE  Taken
  <2>1. \E d : Take(Signal("RecordingFailed"), d)
    BY <1>10 DEF RecorderCannotFinish, RecorderReportsFailure
  <2>2. QED
    BY <1>3, <1>10, <2>1 DEF Signals
<1>11. ASSUME NEW r \in RecordingId, NEW outcome \in Outcome, UploadEndIsHeard(r, outcome)
       PROVE  Taken
  <2> DEFINE e == [ev |-> "UploadFinished", recording |-> r, outcome |-> outcome]
  <2>1. Take(e, device) /\ Hears(e)
    BY <1>11 DEF UploadEndIsHeard, UploadEnds
  <2>2. e \in Event
    BY DEF Event
  <2> HIDE DEF e
  <2>3. QED
    BY <1>1, <2>1, <2>2
<1>12. ASSUME AdmissionNotified, Hears(Signal("Tick")) PROVE Taken
  <2>1. Take(Signal("Tick"), device)
    BY <1>12 DEF AdmissionNotified
  <2>2. QED
    BY <1>3, <1>12, <2>1 DEF Signals
<1>13. Taken \/ (\E r \in RecordingId, what \in {"Completed", "Failed"} : UploadPublished(r, what))
              \/ Silent
  BY <1>4, <1>5, <1>6, <1>7, <1>8, <1>9, <1>10, <1>11, <1>12 DEF SNext
<1>14. QED
  BY <1>13 DEF Taken

\* The booth beside the tracker is the booth of BoothCall.
LEMMA TrackedBooth == [SNext]_allVars => [Next]_vars
<1>1. ASSUME SNext PROVE Next \/ UNCHANGED vars
  BY <1>1 DEF SNext, Next, UploadEndIsHeard, UploadPublished, Silent, RecorderReplies, Timers
<1>2. QED
  BY <1>1 DEF allVars

LEMMA InitSession == SInit => SessionSound
<1> SUFFICES ASSUME SInit PROVE SessionSound
  OBVIOUS
<1>1. Inv
  BY InitInv DEF SInit
<1>2. core.tag \in {"CallsPaused", "Idle", "DialTone"}
  BY VariantTags DEF SInit, Init
<1>3. session \in Sessions /\ (session.live <=> ~Quiet(core.tag))
      /\ (~session.live => session = NoSession) /\ session.phase = "Prompt"
  BY FreshSession DEF SInit, NoSession
<1>4. call = [answers |-> {}, done |-> FALSE, decoded |-> FALSE, refused |-> FALSE]
  BY DEF SInit, NewCall
<1>5. SessionTypeOK
  BY <1>3, <1>4 DEF SInit, SessionTypeOK, Sessions
<1>6. SessionMatches
  BY <1>4 DEF SessionMatches
<1>7. QED
  BY <1>1, <1>3, <1>5, <1>6 DEF SessionSound, SessionFollowsCall

LEMMA NextSession ==
    SessionSound /\ [SNext]_allVars => SessionSound' /\ [EndIsTrue]_allVars
<1> SUFFICES ASSUME SessionSound, [SNext]_allVars
             PROVE  SessionSound' /\ [EndIsTrue]_allVars
  OBVIOUS
<1>1. Inv'
  BY TrackedBooth, NextInv DEF SessionSound
<1>2. CASE UNCHANGED allVars
  BY <1>1, <1>2 DEF allVars, sessionVars, vars, SessionSound, SessionTypeOK, SessionFollowsCall,
     SessionMatches
<1>3. CASE SNext
  <2>1. (SessionTypeOK /\ SessionFollowsCall /\ SessionMatches)' /\ EndIsTrue
    <3>1. CASE \E e \in Event : /\ Hears(e)
                 /\ core' = handle_with_call_availability(core, e, accepting).state
      BY <1>1, <3>1, HearsSound
    <3>2. CASE \E r \in RecordingId, what \in {"Completed", "Failed"} : UploadPublished(r, what)
      BY <3>2, PublishedSound
    <3>3. CASE Silent
      <4>1. UNCHANGED <<core, uploads>> /\ ended' = None /\ UNCHANGED <<session, told, call>>
        BY <3>3 DEF Silent, PlaybackFails, AdmissionMoves
      <4>2. QED
        BY <4>1, UnheardSound
    <3>4. QED
      BY <1>3, <3>1, <3>2, <3>3, StepsAreHeard
  <2>2. QED
    BY <1>1, <2>1 DEF SessionSound
<1>4. QED
  BY <1>2, <1>3

\* What the operator is told of a call is true of it: the tracker, which sees only
\* what handle_event and upload_recording publish, has a session exactly while
\* the core has a call; a call it closes as hung up before the dial has acted on
\* no digit, and one closed as hung up during its recording has no answer with the
\* uploader.
THEOREM OperatorIsToldTheTruth == SSpec => SessionIsTrue
<1>1. SInit => SessionSound
  BY InitSession
<1>2. SessionSound /\ [SNext]_allVars => SessionSound'
  BY NextSession
<1>3. SessionSound /\ [SNext]_allVars => [ended' = "HungUpBeforeDial" => ~call.decoded]_allVars
  BY NextSession DEF EndIsTrue
<1>4. SessionSound /\ [SNext]_allVars
        => [ended' = "HungUpDuringRecording" => call.answers = {}]_allVars
  BY NextSession DEF EndIsTrue
<1>5. SessionSound => SessionTypeOK /\ SessionFollowsCall
  BY DEF SessionSound
<1>6. QED
  BY <1>1, <1>2, <1>3, <1>4, <1>5, PTL
     DEF SSpec, SessionIsTrue, BeforeDialMeansNoDigit, DuringRecordingMeansNoAnswer
=============================================================================
