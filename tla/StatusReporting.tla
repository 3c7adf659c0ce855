--------------------------- MODULE StatusReporting ---------------------------
(***************************************************************************)
(* How the operator learns the booth's status.  Two tasks write it: the    *)
(* status writer of crates/booth-bin/src/lib.rs takes the core's PutStatus *)
(* effects in their order, retrying each; the heartbeat of                 *)
(* observability.rs repeats, every thirty seconds, the status of the last  *)
(* transition it has heard of on the telemetry bus.                        *)
(*                                                                         *)
(* What the core does is left open: the state changes at any moment, and   *)
(* every change puts a status (BoothCall says which ones do).              *)
(***************************************************************************)
EXTENDS Naturals, Sequences

CONSTANTS
    Tag,      \* the states the booth is in
    Effects,  \* EFFECT_CHANNEL
    Depth,    \* STATUS_QUEUE_DEPTH
    Lag,      \* transitions the telemetry channel retains for the heartbeat
    Attempts  \* OPERATOR_ATTEMPTS

Core == INSTANCE BoothCore WITH QuestionId <- {}, RecordingId <- {}, None <- "None"

ASSUME StatusAssumption ==
    /\ Tag \subseteq Core!Tags /\ "Idle" \in Tag
    /\ {Effects, Depth, Lag, Attempts} \subseteq Nat \ {0}

VARIABLES
    tag,     \* of the main loop's state
    effects, \* PutStatus effects on their way to the effect task
    queue,   \* of the status writer
    writer,  \* its request
    unheard, \* transitions published and not yet received by the heartbeat
    known,   \* its current_status, as the state it was told of
    beat,    \* its request
    late,    \* requests given up by the booth that may still reach the operator
    shown,   \* external: what the operator shows
    wrote    \* how the writer's last write ended (history)

statusVars == <<tag, effects, queue, writer, unheard, known, beat, late, shown, wrote>>

BoothStatus == Core!BoothStatus
StatusOf(t) == Core!status([tag |-> t])

\* The heartbeat's own table of status by name of the state.
state_name_to_booth_status(t) ==
    CASE t = "Idle" -> "Idle"
      [] t \in {"DialTone", "Dialing"} -> "DialTone"
      [] t \in {"RingingQuestion", "PlayingQuestion", "Beep"} -> "PlayingQuestion"
      [] t \in {"FinishingTimedOutRecording", "Uploading", "UploadingTimedOut",
                "RecordingEndedBeep"} -> "Uploading"
      [] t \in {"Recording", "PlayingMessage", "PlayingInstructions", "CallUnavailable"} -> t
      [] OTHER -> "Idle"

StatusTypeOK ==
    /\ tag \in Tag /\ known \in Tag
    /\ effects \in Seq(BoothStatus) /\ Len(effects) <= Effects
    /\ queue \in Seq(BoothStatus) /\ Len(queue) <= Depth
    /\ unheard \in Seq(Tag) /\ Len(unheard) <= Lag
    /\ writer \in [at: {"Idle", "Sent", "Served"}, status: BoothStatus, attempt: 1..Attempts]
    /\ beat \in [at: {"Idle", "Sent", "Served"}, status: BoothStatus]
    /\ late \subseteq BoothStatus
    /\ shown \in BoothStatus /\ wrote \in BoothStatus \cup {"Nothing", "Failed"}

StatusInit ==
    /\ tag = "Idle" /\ known = "Idle"
    /\ effects = <<>> /\ queue = <<>> /\ unheard = <<>>
    /\ writer = [at |-> "Idle", status |-> "Idle", attempt |-> 1]
    /\ beat = [at |-> "Idle", status |-> "Idle"]
    /\ late = {} /\ shown \in {StatusOf(t) : t \in Tag} /\ wrote = "Nothing"

----------------------------------------------------------------------------
(* The main loop and the effect task *)

\* The last entries of a sequence, as many as there is room for.
Latest(s, room) == SubSeq(s, Len(s) - (IF Len(s) < room THEN Len(s) ELSE room) + 1, Len(s))

\* Mutated Change: the main loop does not wait for room in the effect queue.
ChangeAtOnce(t) ==
    /\ t # tag
    /\ tag' = t
    /\ effects' = Append(effects, StatusOf(t))
    /\ unheard' = Latest(Append(unheard, t), Lag)
    /\ UNCHANGED <<queue, writer, known, beat, late, shown, wrote>>

\* handle_event: the transition is published, then its effects are sent.
Change(t) ==
    /\ t # tag /\ Len(effects) < Effects
    /\ tag' = t
    /\ effects' = Append(effects, StatusOf(t))
    /\ unheard' = Latest(Append(unheard, t), Lag)
    /\ UNCHANGED <<queue, writer, known, beat, late, shown, wrote>>

\* Mutated PutStatus: the effect task does not wait for room in the queue.
PutOrDrop ==
    /\ effects # <<>>
    /\ effects' = Tail(effects)
    /\ queue' = IF Len(queue) < Depth THEN Append(queue, Head(effects)) ELSE queue
    /\ UNCHANGED <<tag, writer, unheard, known, beat, late, shown, wrote>>

\* The effect task waits for room in the queue of the writer.
PutStatus ==
    /\ effects # <<>> /\ Len(queue) < Depth
    /\ effects' = Tail(effects)
    /\ queue' = Append(queue, Head(effects))
    /\ UNCHANGED <<tag, writer, unheard, known, beat, late, shown, wrote>>

----------------------------------------------------------------------------
(* The status writer *)

WriterTakes ==
    /\ writer.at = "Idle" /\ queue # <<>>
    /\ writer' = [at |-> "Sent", status |-> Head(queue), attempt |-> 1]
    /\ queue' = Tail(queue)
    /\ UNCHANGED <<tag, effects, unheard, known, beat, late, shown, wrote>>

WriterServed ==
    /\ writer.at = "Sent"
    /\ writer' = [writer EXCEPT !.at = "Served"] /\ shown' = writer.status
    /\ UNCHANGED <<tag, effects, queue, unheard, known, beat, late, wrote>>

WriterSucceeds ==
    /\ writer.at = "Served"
    /\ writer' = [writer EXCEPT !.at = "Idle"] /\ wrote' = writer.status
    /\ UNCHANGED <<tag, effects, queue, unheard, known, beat, late, shown>>

\* A request that ran into its deadline may still reach the operator.
Abandon(request) ==
    late' \in {late} \cup IF request.at = "Sent" THEN {late \cup {request.status}} ELSE {}

\* A transport error or a deadline: another attempt follows.
WriterRetries ==
    /\ writer.at # "Idle" /\ writer.attempt < Attempts
    /\ writer' = [writer EXCEPT !.at = "Sent", !.attempt = @ + 1]
    /\ Abandon(writer)
    /\ UNCHANGED <<tag, effects, queue, unheard, known, beat, shown, wrote>>

\* The attempts are used up, or the error is final (the gate's among them).
WriterGivesUp ==
    /\ writer.at # "Idle"
    /\ writer' = [writer EXCEPT !.at = "Idle"] /\ wrote' = "Failed"
    /\ Abandon(writer)
    /\ UNCHANGED <<tag, effects, queue, unheard, known, beat, shown>>

----------------------------------------------------------------------------
(* The heartbeat *)

\* Mutated Hear: only the transitions to idle are heeded.
HearIdle ==
    /\ beat.at = "Idle" /\ unheard # <<>>
    /\ unheard' = Tail(unheard)
    /\ known' = IF Head(unheard) = "Idle" THEN "Idle" ELSE known
    /\ UNCHANGED <<tag, effects, queue, writer, beat, late, shown, wrote>>

\* The heartbeat receives nothing while it waits for an answer.
Hear ==
    /\ beat.at = "Idle" /\ unheard # <<>>
    /\ unheard' = Tail(unheard) /\ known' = Head(unheard)
    /\ UNCHANGED <<tag, effects, queue, writer, beat, late, shown, wrote>>

Beat ==
    /\ beat.at = "Idle"
    /\ beat' = [at |-> "Sent", status |-> state_name_to_booth_status(known)]
    /\ UNCHANGED <<tag, effects, queue, writer, unheard, known, late, shown, wrote>>

BeatServed ==
    /\ beat.at = "Sent"
    /\ beat' = [beat EXCEPT !.at = "Served"] /\ shown' = beat.status
    /\ UNCHANGED <<tag, effects, queue, writer, unheard, known, late, wrote>>

\* The answer, or an error, which is only logged.
BeatEnds ==
    /\ beat.at # "Idle"
    /\ beat' = [beat EXCEPT !.at = "Idle"]
    /\ \/ beat.at = "Served" /\ UNCHANGED late
       \/ Abandon(beat)
    /\ UNCHANGED <<tag, effects, queue, writer, unheard, known, shown, wrote>>

\* External: a request the booth has given up reaches the operator, or is lost.
LateArrives(s) ==
    /\ s \in late
    /\ late' = late \ {s} /\ shown' \in {s, shown}
    /\ UNCHANGED <<tag, effects, queue, writer, unheard, known, beat, wrote>>

Writer == WriterTakes \/ WriterServed \/ WriterSucceeds \/ WriterRetries \/ WriterGivesUp

StatusNext ==
    \/ \E t \in Tag : Change(t)
    \/ PutStatus \/ Writer
    \/ Hear \/ Beat \/ BeatServed \/ BeatEnds
    \/ \E s \in BoothStatus : LateArrives(s)

(* The two tasks go on, requests are answered or run into their deadline, and   *)
(* of the heartbeats sent again and again some get through.                     *)
StatusFairness ==
    /\ WF_statusVars(PutStatus) /\ WF_statusVars(WriterTakes)
    /\ WF_statusVars(WriterSucceeds \/ WriterRetries \/ WriterGivesUp)
    /\ SF_statusVars(Hear)
    /\ WF_statusVars(Beat)
    /\ SF_statusVars(BeatServed)
    /\ WF_statusVars(BeatEnds)
    /\ \A s \in BoothStatus : WF_statusVars(LateArrives(s))

StatusSpec == StatusInit /\ [][StatusNext]_statusVars /\ StatusFairness

----------------------------------------------------------------------------
(* Properties *)

Written == effects = <<>> /\ queue = <<>> /\ writer.at = "Idle"

\* The writes keep the order of the transitions, and none is skipped: when
\* nothing is left to write and the last write got through, it was that of the
\* present state (spawn_status_writer).
LastWordIsCurrent == Written /\ wrote \in BoothStatus => wrote = StatusOf(tag)

\* While the booth rests in a state whose name the heartbeat knows, the operator
\* ends up showing its status, whatever writes failed or came late: the
\* heartbeat "ensures the operator never shows stale state".
OperatorCatchesUp ==
    \A t \in Tag : <>[](tag = t) => <>[](shown = StatusOf(t))

\* STATUS_QUEUE_DEPTH is "deep enough that a slow operator never stalls the
\* critical path": the effect task never waits for room in the status queue.
PathNeverStalls == effects # <<>> => Len(queue) < Depth

\* The heartbeat "re-pushes the booth's current BoothStatus": the status it sends
\* is that of the state it was told of.
HeartbeatTellsStatus == beat.at = "Sent" => beat.status = StatusOf(known)

\* "An older status can never overtake a newer one and leave the operator stale"
\* (Effect::PutStatus): with everything written, the operator's right idea of the
\* booth is not replaced by a wrong one.
NeverLeftStale ==
    [][Written /\ late = {} /\ shown = StatusOf(tag) /\ UNCHANGED tag
           => shown' = StatusOf(tag)]_statusVars

\* The writer's queues and retries never lose or reorder its last word.
StatusInv ==
    /\ StatusTypeOK /\ LastWordIsCurrent
=============================================================================
