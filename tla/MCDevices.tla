---------------------------- MODULE MCDevices ----------------------------
(* The adapters of the booth's devices for TLC, with the parser of the files *)
(* that the sink plays and the recorder writes: independent components, which *)
(* share no variable.  So each behaviour drives one of them, and leaves the  *)
(* others as they start: the interleavings of two would show nothing more.   *)
EXTENDS Playback, Recorder, HookIntake, StatusLedDriver, FlacFrame

VARIABLE driven     \* which of the components runs

Request(c, p, l) == [colour |-> c, pattern |-> p, level |-> l]
BoothRequests == {Request("Blue", "Pulse", 0), Request("Green", "Steady", 2),
                  Request("Red", "Steady", 4), Request("Red", "Blink", 0),
                  Request("Red", "Fade", 0)}

\* The first number of a recording is at each change of the length of a coded number.
MCNumbers == {0, 127, 2047, 65535, 2097151, 67108863}
MCPayloads == {<<>>, <<255, 248, 192>>}
MCErrors == {-2, -1, 1, 2, 1000}
OneFrame == <<[number |-> 0, block |-> 7, rate |-> 0, payload |-> <<>>]>>

\* "123456789": tests crc8_matches_reference_vectors and crc16_matches_reference_vectors.
ReferenceDigits == [i \in 1..9 |-> 48 + i]
ASSUME ReferenceVectors == crc8(ReferenceDigits) = 244 /\ crc16(ReferenceDigits) = <<254, 232>>

\* The components that are not driven start in one of their initial states.
Init ==
    /\ driven \in {"playback", "recorder", "hook", "led", "flac"}
    /\ PlaybackInit
    /\ RecorderInit
    /\ HookInit /\ (driven = "hook" \/ pin = "On")
    /\ LedInit
    /\ FlacInit /\ (driven = "flac" \/ (frames = OneFrame /\ metadata = 0))

Next ==
    /\ UNCHANGED driven
    /\ \/ driven = "playback" /\ PlaybackNext /\ UNCHANGED <<recorderVars, hookVars, ledVars, flacVars>>
       \/ driven = "recorder" /\ RecorderNext /\ UNCHANGED <<playbackVars, hookVars, ledVars, flacVars>>
       \/ driven = "hook" /\ HookNext /\ UNCHANGED <<playbackVars, recorderVars, ledVars, flacVars>>
       \/ driven = "led" /\ LedNext /\ UNCHANGED <<playbackVars, recorderVars, hookVars, flacVars>>
       \/ driven = "flac" /\ FlacNext /\ UNCHANGED <<playbackVars, recorderVars, hookVars, ledVars>>

Spec ==
    /\ Init /\ [][Next]_<<driven, playbackVars, recorderVars, hookVars, ledVars, flacVars>>
    /\ \/ driven = "playback" /\ PlaybackFairness
       \/ driven = "recorder" /\ RecorderFairness
       \/ driven = "hook" /\ HookFairness
       \/ driven = "led" /\ LedFairness
       \/ driven \in {"flac"}

\* No device keeps the booth waiting: sounds and recordings end, the handset is heard, the
\* ring shows what was asked, and an end that is told is the clip's own.
DevicesGoOn ==
    /\ EndIsTheClips /\ StopReturns /\ ClipComesToEnd
    /\ FailedStreamCloses /\ RecorderStopReturns
    /\ HookIsFollowed
    /\ AnimationTakesOver /\ FadeEndsDark
=============================================================================
