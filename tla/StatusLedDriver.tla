---------------------------- MODULE StatusLedDriver ----------------------------
(***************************************************************************)
(* The status LED: apply_status_led of booth-bin and PiStatusLed of        *)
(* booth-pi, whose set either writes the pins itself or spawns a task that *)
(* animates them.  The calls come one after another, from startup, from    *)
(* the effect task, and from shutdown; they are numbered, and the task of  *)
(* a call has its number.                                                  *)
(*                                                                         *)
(* Tasks run on several threads: a task that is aborted stops when it next *)
(* has to wait, not at once.  The colour Off, which the port offers and    *)
(* the booth never asks for, is left out.                                  *)
(***************************************************************************)
EXTENDS Integers, FiniteSets, Sequences

CONSTANTS
    Requests,   \* what may be asked for: records [colour, pattern, level]
    MaxCalls,   \* bound: how many calls are made
    Full,       \* brightness 255, and a duty of one
    Ceiling,    \* StatusLedConfig::brightness_clamped
    ActiveLow,  \* StatusLedConfig::active_low
    Period,     \* the period of a pulse or blink, in ticks of the animation
    Duration    \* the duration of a fade, likewise

Channels == {"Red", "Green", "Blue"}
Patterns == {"Steady", "Pulse", "Blink", "Fade"}

ASSUME StatusLedAssumption ==
    /\ Full \in Nat \ {0} /\ Ceiling \in 0..Full /\ ActiveLow \in BOOLEAN
    /\ Requests \subseteq [colour : Channels, pattern : Patterns, level : 0..Full]
    /\ MaxCalls \in Nat /\ Period \in Nat \ {0} /\ Duration \in Nat \ {0}

VARIABLES
    asked,      \* the requests, in the order of the calls
    setter,     \* PiStatusLed::set: "idle", "ready", "writing", or "dropped"
    handle,     \* PiStatusLed::animation: the call whose task it holds, or 0
    task,       \* each call's task: [phase, cancelled, time]
    write,      \* the holder of the channels' lock, and its write
    high,       \* the pins: the fraction of the time each is high
    reported,   \* the call that apply_status_led published last, or 0
    tried,      \* history: the calls that have tried to write
    intruded    \* history: a task wrote after its abort, and nobody has since

ledVars == <<asked, setter, handle, task, write, high, reported, tried, intruded>>

LedCalls == 1..MaxCalls
NoAnimation == [phase |-> "none", cancelled |-> FALSE, time |-> 0]
NoWrite == [by |-> "nobody", call |-> 0, lit |-> 0, selected |-> FALSE]

Inactive == IF ActiveLow THEN Full ELSE 0

\* How much of the time a channel is lit.
Lit(c) == IF ActiveLow THEN Full - high[c] ELSE high[c]
Dark == \A c \in Channels : Lit(c) = 0

Distance(a, b) == IF a < b THEN b - a ELSE a - b

\* The shape of a pattern at a time: constant, a triangle, on and off, or once
\* from full brightness down.
Brightness(request, time) ==
    LET phase == time % Period IN
    CASE request.pattern = "Steady" -> request.level
      [] request.pattern = "Pulse" -> Full - Distance((2 * Full * phase) \div Period, Full)
      [] request.pattern = "Blink" -> IF 2 * phase < Period THEN Full ELSE 0
      [] request.pattern = "Fade" -> IF time < Duration
                                     THEN Full - ((Full * time) \div Duration) ELSE 0

\* The lit fraction at a time; a fade that is over is not asked (see Over).
lit_fraction(request, time) == (Brightness(request, time) * Ceiling) \div Full

\* lit_fraction has no value: the one-shot pattern is over.
Over(request, time) == request.pattern = "Fade" /\ time >= Duration

LedInit ==
    /\ asked = <<>>
    /\ setter = "idle"
    /\ handle = 0
    /\ task = [n \in LedCalls |-> NoAnimation]
    /\ write = NoWrite
    /\ high = [c \in Channels |-> Inactive]
    /\ reported = 0
    /\ tried = {}
    /\ intruded = FALSE

Current == Len(asked)
Animated(n) == asked[n].pattern # "Steady"

\* Aborting a task ends it where it waits; if it is running, it goes on until
\* it next has to.
Aborted(n) ==
    IF n = 0 THEN task
    ELSE [task EXCEPT ![n] = IF @.phase = "waiting"
                             THEN [@ EXCEPT !.phase = "gone"]
                             ELSE [@ EXCEPT !.cancelled = TRUE]]

-----------------------------------------------------------------------------
(* apply_status_led and PiStatusLed::set.                                  *)

\* Mutated Call: the animation is not replaced.
CallKeepsAnimation(r) ==
    /\ setter = "idle" /\ Len(asked) < MaxCalls
    /\ asked' = Append(asked, r)
    /\ setter' = "ready"
    /\ UNCHANGED <<handle, task, write, high, reported, tried, intruded>>

\* A call takes the old animation and aborts it.
Call(r) ==
    /\ setter = "idle" /\ Len(asked) < MaxCalls
    /\ asked' = Append(asked, r)
    /\ setter' = "ready"
    /\ task' = Aborted(handle)
    /\ handle' = 0
    /\ UNCHANGED <<write, high, reported, tried, intruded>>

\* Steady: the call locks the channels itself.
Locks ==
    /\ setter = "ready" /\ ~Animated(Current) /\ write = NoWrite
    /\ setter' = "writing"
    /\ write' = [by |-> "set", call |-> Current, lit |-> lit_fraction(asked[Current], 0),
                 selected |-> FALSE]
    /\ UNCHANGED <<asked, handle, task, high, reported, tried, intruded>>

\* Any other pattern: the call spawns a task, and returns.
Spawns ==
    /\ setter = "ready" /\ Animated(Current)
    /\ setter' = "idle"
    /\ handle' = Current
    /\ task' = [task EXCEPT ![Current].phase = "waiting"]
    /\ reported' = Current
    /\ UNCHANGED <<asked, write, high, tried, intruded>>

-----------------------------------------------------------------------------
(* The task of an animation.                                               *)

\* Mutated Ticks: the clock is read as it was at the first tick.
TicksAtZero(n) ==
    /\ task[n].phase = "waiting"
    /\ task' = [task EXCEPT ![n].phase = "ticked"]
    /\ UNCHANGED <<asked, setter, handle, write, high, reported, tried, intruded>>

\* The next tick; the first is immediate, and a later one may be missed.
Ticks(n) ==
    /\ task[n].phase = "waiting"
    /\ \E late \in {0, 1} :
          LET time == IF n \in tried THEN task[n].time + 1 + late ELSE late
          IN  task' = [task EXCEPT ![n].phase = "ticked",
                                   ![n].time = IF asked[n].pattern = "Fade"
                                               THEN time ELSE time % Period]
    /\ UNCHANGED <<asked, setter, handle, write, high, reported, tried, intruded>>

\* Mutated TaskLocks: a fade that is over keeps the brightness it had.
TaskLocksLit(n) ==
    /\ task[n].phase = "ticked" /\ write = NoWrite
    /\ task' = [task EXCEPT ![n].phase = "writing"]
    /\ write' = [by |-> "task", call |-> n, selected |-> FALSE,
                 lit |-> lit_fraction(asked[n], IF Over(asked[n], task[n].time)
                                                THEN Duration - 1 ELSE task[n].time)]
    /\ UNCHANGED <<asked, setter, handle, high, reported, tried, intruded>>

\* The channels' lock is free: the task has it without waiting, so that an abort
\* does not stop it.
TaskLocks(n) ==
    /\ task[n].phase = "ticked" /\ write = NoWrite
    /\ task' = [task EXCEPT ![n].phase = "writing"]
    /\ write' = [by |-> "task", call |-> n, selected |-> FALSE,
                 lit |-> IF Over(asked[n], task[n].time) THEN 0
                         ELSE lit_fraction(asked[n], task[n].time)]
    /\ UNCHANGED <<asked, setter, handle, high, reported, tried, intruded>>

\* An aborted task finds the lock taken, waits, and is stopped.
StopsAtLock(n) ==
    /\ task[n].phase = "ticked" /\ task[n].cancelled /\ write # NoWrite
    /\ task' = [task EXCEPT ![n].phase = "gone"]
    /\ UNCHANGED <<asked, setter, handle, write, high, reported, tried, intruded>>

-----------------------------------------------------------------------------
(* Channels::apply, by whoever holds the lock.                             *)

\* Mutated Selects: the pins keep their levels.
SelectsNothing ==
    /\ write # NoWrite /\ ~write.selected
    /\ write' = [write EXCEPT !.selected = TRUE]
    /\ UNCHANGED <<asked, setter, handle, task, high, reported, tried, intruded>>

\* select: the other two channels are turned off first.
Selects ==
    /\ write # NoWrite /\ ~write.selected
    /\ high' = [c \in Channels |-> IF c = asked[write.call].colour THEN high[c] ELSE Inactive]
    /\ write' = [write EXCEPT !.selected = TRUE]
    /\ UNCHANGED <<asked, setter, handle, task, reported, tried, intruded>>

Released(n) ==
    IF write.by = "set" THEN task
    ELSE [task EXCEPT ![n].phase = IF task[n].cancelled
                                      \/ Over(asked[n], task[n].time)
                                   THEN "gone" ELSE "waiting"]

Unlocks ==
    /\ write' = NoWrite
    /\ tried' = tried \cup {write.call}
    /\ setter' = IF write.by = "set" THEN "idle" ELSE setter
    /\ UNCHANGED <<asked, handle>>

\* Mutated Drives: a call that writes the pins itself is not reported.
DrivesUnreported ==
    /\ write # NoWrite /\ write.selected
    /\ high' = [high EXCEPT ![asked[write.call].colour] =
                   IF ActiveLow THEN Full - write.lit ELSE write.lit]
    /\ task' = Released(write.call)
    /\ UNCHANGED reported
    /\ intruded' = (write.by = "task" /\ task[write.call].cancelled)
    /\ Unlocks

\* The channel gets its duty, or its inactive level.
Drives ==
    /\ write # NoWrite /\ write.selected
    /\ high' = [high EXCEPT ![asked[write.call].colour] =
                   IF ActiveLow THEN Full - write.lit ELSE write.lit]
    /\ task' = Released(write.call)
    /\ reported' = IF write.by = "set" THEN write.call ELSE reported
    /\ intruded' = (write.by = "task" /\ task[write.call].cancelled)
    /\ Unlocks

\* set_pwm_frequency fails: the task gives up, or the call returns the error
\* and is not reported.
DriveFails ==
    /\ write # NoWrite /\ write.selected /\ write.lit > 0
    /\ task' = IF write.by = "set" THEN task ELSE [task EXCEPT ![write.call].phase = "gone"]
    /\ UNCHANGED <<high, reported, intruded>>
    /\ Unlocks

-----------------------------------------------------------------------------
\* The adapter is dropped at the end of the program; it turns the channels off
\* if it can have their lock at once.
Drop ==
    /\ setter = "idle" /\ asked # <<>> /\ asked[Current].pattern = "Fade"
    /\ setter' = "dropped"
    /\ task' = Aborted(handle)
    /\ handle' = 0
    /\ high' = IF write = NoWrite THEN [c \in Channels |-> Inactive] ELSE high
    /\ UNCHANGED <<asked, write, reported, tried, intruded>>

Animation(n) == Ticks(n) \/ TaskLocks(n) \/ StopsAtLock(n)

LedNext ==
    \/ \E r \in Requests : Call(r)
    \/ Locks \/ Spawns \/ Selects \/ Drives \/ DriveFails \/ Drop
    \/ \E n \in LedCalls : Animation(n)

\* The tasks run.
LedFairness ==
    /\ WF_ledVars(Locks \/ Spawns) /\ WF_ledVars(Selects \/ Drives \/ DriveFails)
    /\ \A n \in LedCalls :
          WF_ledVars(Ticks(n)) /\ SF_ledVars(TaskLocks(n) \/ StopsAtLock(n))

LedSpec == LedInit /\ [][LedNext]_ledVars /\ LedFairness

-----------------------------------------------------------------------------
\* Every variable has its type; at most one task has not been aborted, and it is
\* the one whose handle the adapter has.
LedTypeOK ==
    /\ asked \in Seq(Requests) /\ Len(asked) <= MaxCalls
    /\ setter \in {"idle", "ready", "writing", "dropped"}
    /\ handle \in 0..Len(asked)
    /\ task \in [LedCalls -> [phase : {"none", "waiting", "ticked", "writing", "gone"},
                           cancelled : BOOLEAN, time : 0..(Period + Duration + 1)]]
    /\ \A n \in LedCalls : task[n].phase \in {"none", "gone"} \/ task[n].cancelled \/ n = handle
    /\ write \in [by : {"nobody", "set", "task"}, call : 0..Len(asked), lit : 0..Full,
                  selected : BOOLEAN]
    /\ high \in [Channels -> 0..Full]
    /\ reported \in 0..Len(asked)
    /\ tried \subseteq LedCalls /\ intruded \in BOOLEAN

\* The shared resistor of the ring: at no moment, whichever tasks write and
\* whichever writes fail, is more than one channel lit, or one lit above the
\* configured ceiling, at either polarity.
OneChannel ==
    \A c \in Channels :
        Lit(c) > 0 => Lit(c) <= Ceiling /\ \A d \in Channels \ {c} : Lit(d) = 0

\* Between calls the LED is lit in no colour but the one telemetry reports,
\* though calls and animations may have failed to write, unless a task that was
\* aborted while it ran has written since.
LitIsReported ==
    setter = "idle" /\ ~intruded /\ reported \in tried =>
        \A c \in Channels : Lit(c) > 0 => c = asked[reported].colour

\* An animation takes the LED over, even from a task that wrote after its abort:
\* unless it is replaced or fails, its colour comes to be lit.
AnimationTakesOver ==
    \A n \in LedCalls :
        (handle = n /\ asked[n].pattern \in {"Pulse", "Blink"}) ~>
            (handle # n \/ task[n].phase = "gone" \/ Lit(asked[n].colour) > 0)

\* A fade ends dark by itself, however late its task is woken: unless it is
\* replaced, or a write fails.
FadeEndsDark ==
    \A n \in LedCalls :
        (handle = n /\ asked[n].pattern = "Fade" /\ task[n].phase # "gone") ~>
            (handle # n \/ (task[n].phase = "gone" /\ (Dark \/ task[n].time < Duration)))

\* What the port says of set, "replacing whatever was showing before": once a
\* steady indication was reported and no write is under way, it is what shows.
SteadyShows ==
    setter = "idle" /\ write = NoWrite /\ reported # 0 /\ reported = Current =>
        (asked[reported].pattern = "Steady" =>
            \A c \in Channels :
                Lit(c) = IF c = asked[reported].colour
                         THEN lit_fraction(asked[reported], 0) ELSE 0)

\* The ring is never overloaded, and telemetry tells what it shows.
LedInv ==
    /\ LedTypeOK /\ OneChannel /\ LitIsReported
=============================================================================
