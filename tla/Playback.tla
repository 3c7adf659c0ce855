------------------------------ MODULE Playback ------------------------------
(***************************************************************************)
(* The earpiece: audio_task of booth-bin, which takes the core's audio     *)
(* commands, PiAudioSink of booth-pi, which opens one playback thread per  *)
(* clip, the callbacks of the sound device, and the level meter that each  *)
(* open stream feeds into the telemetry channel.                           *)
(*                                                                         *)
(* What a clip consists of, where it is fetched from and how it is decoded *)
(* is left out: loading it succeeds or fails.  A sample is loud or not.    *)
(***************************************************************************)
EXTENDS Integers, Sequences, SequencesExt

CONSTANTS
    Clips,          \* what the core asks for
    Tones,          \* the clips that repeat until they are stopped
    MaxPlays,       \* bound: how many threads a behaviour opens
    MaxCommands,    \* bound: how many commands it sends
    LevelCapacity,  \* mpsc::channel(128) between the meters and the bus
    Attempts        \* TERMINAL_LEVEL_SEND_ATTEMPTS

ASSUME PlaybackAssumption ==
    /\ Tones \subseteq Clips
    /\ MaxPlays \in Nat /\ MaxCommands \in Nat
    /\ LevelCapacity \in Nat \ {0} /\ Attempts \in Nat \ {0}

VARIABLES
    at,         \* what audio_task awaits: [tag, why, clip, task]
    playing,    \* audio_task: it also waits for the end of the clip
    sink,       \* PiAudioSink::playback: the thread it holds, or NoTask
    threads,    \* every playback thread that was spawned
    levels,     \* the telemetry channel
    shown,      \* the last level the bus was given
    gaveUp,     \* a terminal level was dropped for want of room
    told,       \* history: the threads whose end became a PlaybackEnded
    commands    \* how many commands were taken

playbackVars == <<at, playing, sink, threads, levels, shown, gaveUp, told, commands>>

NoTask == 0
NoClip == "none"

\* The awaits of audio_task: the select, a thread to join inside sink.stop, a
\* clip to fetch and decode inside sink.play, a finished thread to join inside
\* sink.wait_for_end; "down" once it has left its loop.
Await(tag, why, clip, task) == [tag |-> tag, why |-> why, clip |-> clip, task |-> task]
Select == Await("select", "any", NoClip, NoTask)
Down == Await("down", "any", NoClip, NoTask)

\* A thread of play_blocking and the stream it opens.  block is what the meter
\* has observed of the block it is in.
Thread(clip) ==
    [clip |-> clip, phase |-> "opening", cancel |-> FALSE, done |-> FALSE,
     stalled |-> FALSE, block |-> "empty", tries |-> 0, result |-> "ok"]

PlaybackInit ==
    /\ at = Select
    /\ playing = FALSE
    /\ sink = NoTask
    /\ threads = <<>>
    /\ levels = <<>>
    /\ shown = "silent"
    /\ gaveUp = FALSE
    /\ told = <<>>
    /\ commands = 0

Live == {t \in DOMAIN threads : threads[t].phase # "ended"}

Cancelled(t) == IF t = NoTask THEN threads ELSE [threads EXCEPT ![t].cancel = TRUE]

-----------------------------------------------------------------------------
(* audio_task and the sink's methods.                                      *)

\* Where a command finds the task: in the select, whether or not the future of
\* wait_for_end has already taken a finished thread out of the sink.
Listens == at.tag \in {"select", "ending"} /\ commands < MaxCommands

\* PiAudioSink::stop: the thread is taken, told to stop, and joined.
Stopping(why, clip) ==
    /\ at' = Await("stopping", why, clip, sink)
    /\ sink' = NoTask
    /\ threads' = Cancelled(sink)
    /\ commands' = commands + 1

\* A Play: when a clip is awaited audio_task stops it first; otherwise the sink
\* does, as the first thing in its own play.
TakePlay ==
    /\ Listens
    /\ Len(threads) < MaxPlays
    /\ \E clip \in Clips : Stopping(IF playing THEN "replace" ELSE "play", clip)
    /\ UNCHANGED <<playing, levels, shown, gaveUp, told>>

TakeStop ==
    /\ Listens
    /\ Stopping("stop", NoClip)
    /\ UNCHANGED <<playing, levels, shown, gaveUp, told>>

\* Shutdown, or the channel closes: the sink is stopped only when a clip is
\* awaited; otherwise the task leaves, and drops the sink with what it holds.
TakeShutdown ==
    /\ Listens
    /\ IF playing
       THEN Stopping("down", NoClip)
       ELSE /\ at' = Down
            /\ commands' = commands + 1
            /\ UNCHANGED <<sink, threads>>
    /\ UNCHANGED <<playing, levels, shown, gaveUp, told>>

\* Mutated Joined: a stop does not wait for the thread to end.
JoinedAtOnce(t) == TRUE

\* The join of a thread: it returns once the thread has ended.
Joined(t) == t \notin Live

Failed(t) == t # NoTask /\ threads[t].result = "error"

\* Mutated Stopped: after a Stop the task goes on waiting for an end.
StoppedStillWaiting ==
    /\ at.tag = "stopping"
    /\ Joined(at.task)
    /\ at' = CASE at.why = "down" -> Down
               [] at.why = "stop" -> Select
               [] at.why = "play" /\ Failed(at.task) -> Select
               [] OTHER -> Await("loading", at.why, at.clip, NoTask)
    /\ UNCHANGED <<playing, sink, threads, levels, shown, gaveUp, told, commands>>

\* The stop returns.  An error of the thread is published; inside the sink's own
\* play it is returned, and the clip is not played.
Stopped ==
    /\ at.tag = "stopping"
    /\ Joined(at.task)
    /\ at' = CASE at.why = "down" -> Down
               [] at.why = "stop" -> Select
               [] at.why = "play" /\ Failed(at.task) -> Select
               [] OTHER -> Await("loading", at.why, at.clip, NoTask)
    /\ playing' = IF at.why = "stop" THEN FALSE ELSE playing
    /\ UNCHANGED <<sink, threads, levels, shown, gaveUp, told, commands>>

\* The rest of the sink's play: the clip is fetched within the policy and the
\* size cap, verified and decoded, and a thread is spawned for it.  A clip that
\* was asked for while none was awaited is awaited unless it is a tone.
Loaded ==
    /\ at.tag = "loading"
    /\ threads' = Append(threads, Thread(at.clip))
    /\ sink' = Len(threads')
    /\ playing' = (at.why = "replace" \/ at.clip \notin Tones)
    /\ at' = Select
    /\ UNCHANGED <<levels, shown, gaveUp, told, commands>>

\* One of the checks on the way fails: the error is published.
LoadFails ==
    /\ at.tag = "loading"
    /\ playing' = FALSE
    /\ at' = Select
    /\ UNCHANGED <<sink, threads, levels, shown, gaveUp, told, commands>>

\* Mutated WaitForEnd: the thread is taken out of the sink up front.
WaitForEndTakesTask ==
    /\ at.tag = "select" /\ playing
    /\ at' = Await("ending", "any", NoClip, sink)
    /\ sink' = NoTask
    /\ UNCHANGED <<playing, threads, levels, shown, gaveUp, told, commands>>

\* PiAudioSink::wait_for_end sees through the watch channel that the thread is
\* done, and only then takes it.
WaitForEnd ==
    /\ at.tag = "select" /\ playing
    /\ Joined(sink)
    /\ at' = Await("ending", "any", NoClip, sink)
    /\ sink' = NoTask
    /\ UNCHANGED <<playing, threads, levels, shown, gaveUp, told, commands>>

\* It has joined the thread: the core is told of the end, or the bus of the error.
Ended ==
    /\ at.tag = "ending"
    /\ Joined(at.task)
    /\ told' = IF Failed(at.task) THEN told ELSE Append(told, at.task)
    /\ playing' = FALSE
    /\ at' = Select
    /\ UNCHANGED <<sink, threads, levels, shown, gaveUp, commands>>

-----------------------------------------------------------------------------
(* The threads of play_blocking and the callbacks of the device.           *)

\* Mutated TrySend: the send does not look at the capacity.
TrySendAlways(q, level) == Append(q, level)

\* LevelMeter::emit, not blocking: try_send, and a full channel loses the level.
TrySend(q, level) == IF Len(q) < LevelCapacity THEN Append(q, level) ELSE q

\* The device is found, and its stream built and started; or one of these fails
\* and the thread ends with the error.
Opens(t) ==
    /\ threads[t].phase = "opening"
    /\ threads' = [threads EXCEPT ![t].phase = "running"]
    /\ UNCHANGED levels

OpenFails(t) ==
    /\ threads[t].phase = "opening"
    /\ threads' = [threads EXCEPT ![t].phase = "ended", ![t].result = "error"]
    /\ UNCHANGED levels

\* The stream is open, and its callbacks are still called.
Calls(t) == threads[t].phase = "running" /\ ~threads[t].stalled

\* The output callback fills some of a block.  Once the stream is cancelled or
\* done it fills in silence.
Observes(t) ==
    /\ Calls(t)
    /\ threads[t].block # "loud"
    /\ LET quiet == threads[t].cancel \/ threads[t].done
       IN  \E block \in IF quiet THEN {"silent"} ELSE {"silent", "loud"} :
              /\ block # threads[t].block
              /\ threads' = [threads EXCEPT ![t].block = block]
    /\ UNCHANGED levels

\* LevelMeter::flush: the block is full.
Publishes(t) ==
    /\ Calls(t)
    /\ threads[t].block # "empty"
    /\ levels' = TrySend(levels, threads[t].block)
    /\ threads' = [threads EXCEPT ![t].block = "empty"]

\* The samples of a clip that does not repeat are used up.
RunsOut(t) ==
    /\ Calls(t)
    /\ threads[t].clip \notin Tones /\ ~threads[t].done
    /\ threads' = [threads EXCEPT ![t].done = TRUE]
    /\ UNCHANGED levels

\* Mutated StreamError: the error is only logged.
StreamErrorLogged(t) ==
    /\ Calls(t)
    /\ threads' = [threads EXCEPT ![t].stalled = TRUE]
    /\ UNCHANGED levels

\* err_fn: the stream fails and its callbacks stop; it counts as the clip's end.
StreamError(t) ==
    /\ Calls(t)
    /\ threads' = [threads EXCEPT ![t].stalled = TRUE, ![t].done = TRUE]
    /\ UNCHANGED levels

\* Mutated Closes: the loop waits for the end of the clip only.
ClosesWhenDone(t) ==
    /\ threads[t].phase = "running"
    /\ threads[t].done
    /\ levels' = IF threads[t].block = "empty" THEN levels
                 ELSE TrySend(levels, threads[t].block)
    /\ threads' = [threads EXCEPT ![t].phase = "closing", ![t].block = "empty"]

\* The loop of play_blocking sees cancel or done and drops the stream, and with
\* it the meter, whose finish flushes what it has observed.
Closes(t) ==
    /\ threads[t].phase = "running"
    /\ threads[t].cancel \/ threads[t].done
    /\ levels' = IF threads[t].block = "empty" THEN levels
                 ELSE TrySend(levels, threads[t].block)
    /\ threads' = [threads EXCEPT ![t].phase = "closing", ![t].block = "empty"]

\* Mutated Terminal: the last level is sent once, like any other.
TerminalOnce(t) ==
    /\ threads[t].phase = "closing"
    /\ levels' = TrySend(levels, "silent")
    /\ threads' = [threads EXCEPT ![t].phase = "ended"]
    /\ UNCHANGED gaveUp

\* The terminal level is sent, with a pause and another attempt while the channel
\* is full, until the attempts are used up.  Then the thread returns, and the
\* watch channel says so.
Terminal(t) ==
    /\ threads[t].phase = "closing"
    /\ IF Len(levels) < LevelCapacity
       THEN /\ levels' = Append(levels, "silent")
            /\ threads' = [threads EXCEPT ![t].phase = "ended"]
            /\ UNCHANGED gaveUp
       ELSE LET tries == threads[t].tries + 1
            IN  /\ threads' = [threads EXCEPT ![t].tries = tries,
                                  ![t].phase = IF tries = Attempts THEN "ended" ELSE @]
                /\ gaveUp' = (gaveUp \/ tries = Attempts)
                /\ UNCHANGED levels

\* build_pi_adapters: the task that hands the levels on to the bus.
Forwards ==
    /\ levels # <<>>
    /\ shown' = Head(levels)
    /\ levels' = Tail(levels)
    /\ UNCHANGED <<at, playing, sink, threads, gaveUp, told, commands>>

Device(t) ==
    /\ Opens(t) \/ OpenFails(t) \/ Observes(t) \/ Publishes(t) \/ RunsOut(t)
       \/ StreamError(t) \/ Closes(t)
    /\ UNCHANGED <<at, playing, sink, shown, gaveUp, told, commands>>

Finishes(t) ==
    /\ Terminal(t)
    /\ UNCHANGED <<at, playing, sink, shown, told, commands>>

-----------------------------------------------------------------------------
Task == Stopped \/ Loaded \/ LoadFails \/ WaitForEnd \/ Ended

PlaybackNext ==
    \/ TakePlay \/ TakeStop \/ TakeShutdown
    \/ Task
    \/ \E t \in DOMAIN threads : Device(t) \/ Finishes(t)
    \/ Forwards

\* The task and the threads run; the device goes on calling back until the clip
\* has run out or the stream fails.
Steps(t) ==
    /\ t \in DOMAIN threads
    /\ Opens(t) \/ OpenFails(t) \/ RunsOut(t) \/ Closes(t)
    /\ UNCHANGED <<at, playing, sink, shown, gaveUp, told, commands>>

PlaybackFairness ==
    /\ WF_playbackVars(Task)
    /\ WF_playbackVars(Forwards)
    /\ \A t \in 1..MaxPlays :
          /\ WF_playbackVars(Steps(t))
          /\ WF_playbackVars(t \in DOMAIN threads /\ Finishes(t))

PlaybackSpec == PlaybackInit /\ [][PlaybackNext]_playbackVars /\ PlaybackFairness

-----------------------------------------------------------------------------
Awaits == [tag : {"select", "stopping", "loading", "ending", "down"},
           why : {"any", "play", "replace", "stop", "down"},
           clip : Clips \cup {NoClip}, task : 0..MaxPlays]

ThreadStates ==
    [clip : Clips, phase : {"opening", "running", "closing", "ended"},
     cancel : BOOLEAN, done : BOOLEAN, stalled : BOOLEAN,
     block : {"empty", "silent", "loud"}, tries : 0..Attempts, result : {"ok", "error"}]

\* Every variable has its type, and no channel holds more than it can.
PlaybackTypeOK ==
    /\ at \in Awaits
    /\ playing \in BOOLEAN
    /\ sink \in 0..Len(threads)
    /\ threads \in Seq(ThreadStates) /\ Len(threads) <= MaxPlays
    /\ levels \in Seq({"silent", "loud"}) /\ Len(levels) <= LevelCapacity
    /\ shown \in {"silent", "loud"}
    /\ gaveUp \in BOOLEAN
    /\ told \in Seq(0..MaxPlays)
    /\ commands \in 0..MaxCommands

\* A stream that is open can be closed: whatever await a command interrupts, the
\* one thread that still plays is the one the sink holds, or it has been told to
\* stop and is being joined (wait_for_end must be cancel-safe).
LiveIsHeld ==
    at.tag # "down" =>
        \A t \in Live :
            \/ t = sink
            \/ at.tag = "stopping" /\ t = at.task /\ threads[t].cancel

\* The earpiece plays one clip at a time: the thread of the clip that was replaced
\* has closed its stream before the next one is opened.
OneStream == \A s, t \in Live : s = t

\* A PlaybackEnded is the end of the clip asked for last: it came to its end and
\* was not stopped, and its end is told once.
EndIsTheClips ==
    [][told' # told =>
         LET t == Last(told')
         IN  /\ t \in DOMAIN threads /\ t = Len(threads)
             /\ threads[t].phase = "ended" /\ ~threads[t].cancel
             /\ ~Contains(told, t)]_playbackVars

\* Once every stream is closed and the channel is empty, the meters show silence;
\* only a channel that stayed full through all the attempts can keep a level up.
MeterFallsSilent ==
    (Live = {} /\ levels = <<>> /\ ~gaveUp) => shown = "silent"

\* A stop always returns, even from a tone that would go on for ever or a stream
\* whose device has failed.
StopReturns == (at.tag = "stopping") ~> (at.tag # "stopping")

\* A clip that is awaited comes to an end, or a command ends it: an output stream
\* that fails is not waited for until the caller hangs up.
ClipComesToEnd ==
    (at.tag = "select" /\ playing /\ sink # NoTask /\ threads[sink].clip \notin Tones)
        ~> (at.tag \in {"stopping", "down"} \/ ~playing)

\* What booth-hal says of play, "If something else is playing it is replaced":
\* the clip asked for is at least tried.
EveryPlayIsTried ==
    [][(at.tag = "stopping" /\ at.clip # NoClip /\ at'.tag # "stopping")
          => at'.tag = "loading"]_playbackVars

\* What booth-bin says of its signals, "translate either into shutdown": when the
\* task has gone, no thread goes on for ever (the process waits for its threads).
ShutdownEnds == (at.tag = "down") ~> (Live = {})

\* The sink keeps its hold on the one stream that plays, until its meters are silent.
PlaybackInv ==
    /\ PlaybackTypeOK /\ LiveIsHeld /\ OneStream /\ MeterFallsSilent
=============================================================================
