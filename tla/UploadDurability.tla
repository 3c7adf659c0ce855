--------------------------- MODULE UploadDurability ---------------------------
(***************************************************************************)
(* From a finalized recording to the operator's confirmation: the          *)
(* UploadRecording arm of effect_task, upload_recording and                *)
(* spawn_upload_replay of crates/booth-bin/src/lib.rs, and the spool of    *)
(* pending_uploads.rs.  A live upload and the replay worker share the      *)
(* spool's entries by claims; the process may be shut down, which drains   *)
(* what was accepted, or crash at any step.                                *)
(*                                                                         *)
(* Recordings are numbered in the order of their ids.  The file of a       *)
(* recording stays on disk; only its entry in the spool is at stake.       *)
(***************************************************************************)
EXTENDS Naturals, Sequences, FiniteSets

CONSTANTS
    Recording,
    Short,      \* shorter than min_recording_ms
    Refused,    \* refused whenever they are sent, by validate_upload_caps or the operator
    Slots,      \* OPERATOR_CONCURRENCY
    MaxRestarts \* bound: the process is restarted at most as often

ASSUME UploadAssumption ==
    /\ Recording \subseteq Nat \ {0}
    /\ Short \subseteq Recording /\ Refused \subseteq Recording
    /\ Slots \in Nat \ {0} /\ MaxRestarts \in Nat

VARIABLES
    process,   \* of the booth: Up, Stopping, Stopped (shut down) or Crashed
    restarts,
    handed,    \* recordings handed over since the last start (history)
    unstored,  \* of these, the ones whose loss was reported or logged (history)
    queue,     \* UploadRecording effects not yet taken by effect_task
    live,      \* the operator task of each recording, by what it does next
    writing,   \* durability tasks under way
    spool,     \* the entries on disk
    stored,    \* the recordings that ever had one (history)
    claims,    \* in_flight: recordings claimed
    replay,    \* the replay worker
    last,      \* its last_attempt; 0 before any
    accepting, \* InstallationGate::accepting_calls
    confirmed, \* external: what the operator has
    outcome    \* UploadFinished for each recording

vars == <<process, restarts, handed, unstored, queue, live, writing, spool, stored, claims,
          replay, last, accepting, confirmed, outcome>>

\* What a task does next: wait for the entry, look at the gate, send one of the
\* three requests, remove the entry.
Request == {"Init", "Put", "Complete"}
Step == {"None", "Persist", "Gate", "Dequeue"} \cup Request

Idle == [at |-> "Idle", rec |-> 0, todo |-> {}, from |-> 0]

TypeOK ==
    /\ process \in {"Up", "Stopping", "Stopped", "Crashed"} /\ restarts \in 0..MaxRestarts
    /\ handed \subseteq Recording /\ unstored \subseteq handed /\ writing \subseteq Recording
    /\ queue \in Seq(Recording)
    /\ live \in [Recording -> Step]
    /\ spool \subseteq stored /\ stored \subseteq Recording
    /\ claims \subseteq Recording
    /\ replay \in [at: {"Idle", "Next", "Check", "Dequeue"} \cup Request,
                   rec: Recording \cup {0}, todo: SUBSET Recording, from: Recording \cup {0}]
    /\ replay.rec = 0 <=> replay.at \in {"Idle", "Next"}
    /\ last \in Recording \cup {0}
    /\ accepting \in BOOLEAN /\ confirmed \subseteq Recording
    /\ outcome \in [Recording -> {"None", "Complete", "Deferred", "Failed", "Twice"}]

Init ==
    /\ process = "Up" /\ restarts = 0 /\ handed = {} /\ unstored = {} /\ queue = <<>>
    /\ live = [r \in Recording |-> "None"] /\ writing = {}
    /\ spool = {} /\ stored = {} /\ claims = {}
    /\ replay = Idle /\ last = 0
    /\ accepting = FALSE /\ confirmed = {}
    /\ outcome = [r \in Recording |-> "None"]

Running == process \in {"Up", "Stopping"}

\* send_upload_outcome
Report(r, result) ==
    outcome' = [outcome EXCEPT ![r] = IF @ = "None" THEN result ELSE "Twice"]

----------------------------------------------------------------------------
(* The effect task *)

\* The core hands a recording over (Effect::UploadRecording): ids are digests, so
\* that of a recording like an earlier one may still be in the spool.
Hand(r) ==
    /\ process = "Up" /\ r \notin handed
    /\ handed' = handed \cup {r} /\ queue' = Append(queue, r)
    /\ UNCHANGED <<process, restarts, unstored, live, writing, spool, stored, claims, replay,
                   last, accepting, confirmed, outcome>>

Busy == {r \in Recording : live[r] # "None"}

\* The next effect is taken when there is a slot for its task: while the process
\* stops, one for the entry alone.
MayTake ==
    /\ Running /\ queue # <<>>
    /\ IF process = "Up" THEN Cardinality(Busy) < Slots ELSE Cardinality(writing) < Slots

Took == queue' = Tail(queue) /\ UNCHANGED <<process, restarts, handed, spool, stored,
                                            replay, last, accepting, confirmed>>

Lost(r) == unstored' = unstored \cup {r}

\* The recorder does not know the recording's path.
CannotFind ==
    /\ MayTake /\ Took
    /\ Report(Head(queue), "Failed") /\ Lost(Head(queue))
    /\ UNCHANGED <<live, writing, claims>>

Discard ==
    /\ MayTake /\ Head(queue) \in Short /\ Took
    /\ Report(Head(queue), "Complete")
    /\ UNCHANGED <<live, writing, claims, unstored>>

AlreadyClaimed ==
    /\ MayTake /\ Head(queue) \notin Short /\ Head(queue) \in claims /\ Took
    /\ Report(Head(queue), "Deferred")
    /\ UNCHANGED <<live, writing, claims, unstored>>

\* The entry is written by a task of its own, which a shutdown waits for; the
\* network task holds the claim.  There is none any more while the process stops.
StartUpload ==
    /\ MayTake /\ Head(queue) \notin Short /\ Head(queue) \notin claims /\ Took
    /\ writing' = writing \cup {Head(queue)}
    /\ IF process = "Up"
       THEN /\ live' = [live EXCEPT ![Head(queue)] = "Persist"]
            /\ claims' = claims \cup {Head(queue)}
       ELSE UNCHANGED <<live, claims>>
    /\ UNCHANGED <<outcome, unstored>>

----------------------------------------------------------------------------
(* The durability task and the network task of a live upload *)

\* Mutated LiveEnds: the claim is not dropped.
LiveEndsClaiming(r) == live' = [live EXCEPT ![r] = "None"] /\ UNCHANGED claims

\* The network task of r ends and its claim is dropped.
LiveEnds(r) == live' = [live EXCEPT ![r] = "None"] /\ claims' = claims \ {r}

LiveStep(r, next) == live' = [live EXCEPT ![r] = next] /\ UNCHANGED claims

\* PendingUploadSpool::enqueue; a task that was cancelled no longer hears of it.
Persist(r) ==
    /\ Running /\ r \in writing
    /\ writing' = writing \ {r}
    /\ spool' = spool \cup {r} /\ stored' = stored \cup {r}
    /\ IF live[r] = "Persist" THEN LiveStep(r, "Gate") ELSE UNCHANGED <<live, claims>>
    /\ UNCHANGED <<process, restarts, handed, unstored, queue, replay, last, accepting,
                   confirmed, outcome>>

\* The directory cannot be written, or not be synced after the entry was renamed.
CannotPersist(r) ==
    /\ Running /\ r \in writing
    /\ writing' = writing \ {r}
    /\ \/ UNCHANGED <<spool, stored>>
       \/ spool' = spool \cup {r} /\ stored' = stored \cup {r}
    /\ Lost(r)
    /\ IF live[r] = "Persist"
       THEN LiveEnds(r) /\ Report(r, "Failed")
       ELSE UNCHANGED <<live, claims, outcome>>
    /\ UNCHANGED <<process, restarts, handed, queue, replay, last, accepting, confirmed>>

\* Mutated LiveChecksGate: an upload deferred by the gate is not reported.
DefersQuietly(r) ==
    /\ Running /\ live[r] = "Gate"
    /\ IF process = "Up" /\ accepting THEN LiveStep(r, "Init") ELSE LiveEnds(r)
    /\ UNCHANGED <<process, restarts, handed, unstored, queue, writing, spool, stored, replay,
                   last, accepting, confirmed, outcome>>

LiveChecksGate(r) ==
    /\ Running /\ live[r] = "Gate"
    /\ \/ process = "Stopping" /\ LiveEnds(r) /\ UNCHANGED outcome
       \/ process = "Up" /\ ~accepting /\ LiveEnds(r) /\ Report(r, "Deferred")
       \/ process = "Up" /\ accepting /\ LiveStep(r, "Init") /\ UNCHANGED outcome
    /\ UNCHANGED <<process, restarts, handed, unstored, queue, writing, spool, stored, replay,
                   last, accepting, confirmed>>

\* Mutated After: a conflict of the transfer also counts as success.
AfterAnyConflict(request, r) ==
    IF request = "Init" /\ r \notin confirmed THEN "Put" ELSE "Dequeue"

\* A request of upload_recording for r: the next one, or, when the operator
\* already has the recording, none.
After(request, r) ==
    IF request = "Init" /\ r \notin confirmed THEN "Put"
    ELSE IF request = "Put" THEN "Complete" ELSE "Dequeue"

\* External: the operator takes the recording; the answer may be lost.
OperatorConfirms(r) ==
    /\ Running
    /\ live[r] = "Complete" \/ (replay.at = "Complete" /\ replay.rec = r)
    /\ r \notin Refused
    /\ confirmed' = confirmed \cup {r}
    /\ UNCHANGED <<process, restarts, handed, unstored, queue, live, writing, spool, stored,
                   claims, replay, last, accepting, outcome>>

Answered(request, r) ==
    r \notin Refused /\ (request = "Complete" => r \in confirmed)

LiveSends(r) ==
    /\ Running /\ live[r] \in Request /\ Answered(live[r], r)
    /\ LiveStep(r, After(live[r], r))
    /\ IF After(live[r], r) = "Dequeue" THEN Report(r, "Complete") ELSE UNCHANGED outcome
    /\ UNCHANGED <<process, restarts, handed, unstored, queue, writing, spool, stored, replay,
                   last, accepting, confirmed>>

\* Mutated LiveFails: a failed upload is given up.
LiveGivesUp(r) ==
    /\ Running /\ live[r] \in Request
    /\ LiveEnds(r) /\ spool' = spool \ {r}
    /\ Report(r, "Failed")
    /\ UNCHANGED <<process, restarts, handed, unstored, queue, writing, stored, replay,
                   last, accepting, confirmed>>

\* Refused, out of retries, or deferred by the gate's conflict: the entry stays.
LiveFails(r) ==
    /\ Running /\ live[r] \in Request
    /\ LiveEnds(r)
    /\ \E result \in {"Failed", "Deferred"} : Report(r, result)
    /\ UNCHANGED <<process, restarts, handed, unstored, queue, writing, spool, stored, replay,
                   last, accepting, confirmed>>

\* PendingUploadSpool::dequeue, which may fail and leave the entry.
LiveDequeues(r) ==
    /\ Running /\ live[r] = "Dequeue"
    /\ LiveEnds(r)
    /\ spool' \in {spool \ {r}, spool}
    /\ UNCHANGED <<process, restarts, handed, unstored, queue, writing, stored, replay, last,
                   accepting, confirmed, outcome>>

----------------------------------------------------------------------------
(* The replay worker *)

Replaying(next) ==
    /\ replay' = next
    /\ UNCHANGED <<process, restarts, handed, unstored, queue, live, writing, stored, accepting,
                   confirmed, outcome>>

\* PendingUploadSpool::scan: entries that cannot be parsed are passed over, and
\* there are none, an entry being renamed into place when it is complete.
scan == spool

\* Every thirty seconds, and when the gate reopens.
ReplayScans ==
    /\ Running /\ replay.at = "Idle" /\ accepting
    /\ Replaying([at |-> "Next", rec |-> 0, todo |-> scan, from |-> last])
    /\ UNCHANGED <<spool, claims, last>>

\* Mutated First: a sweep always begins with the first entry.
FirstOfAll(todo, from) == CHOOSE r \in todo : \A q \in todo : r <= q

\* In the order of the ids, beginning after the last attempt.
First(todo, from) ==
    LET later == {r \in todo : r > from} IN
    CHOOSE r \in todo : IF later = {} THEN \A q \in todo : r <= q
                        ELSE r \in later /\ \A q \in later : r <= q

\* Mutated ReplayTakes: the claims are not looked at.
TakesUnclaimed ==
    /\ Running /\ replay.at = "Next"
    /\ IF replay.todo = {} \/ ~accepting
       THEN Replaying(Idle)
       ELSE \E r \in {First(replay.todo, replay.from)} :
              Replaying([replay EXCEPT !.todo = @ \ {r}, !.at = "Check", !.rec = r])
    /\ UNCHANGED <<spool, last, claims>>

ReplayTakes ==
    /\ Running /\ replay.at = "Next"
    /\ IF replay.todo = {} \/ ~accepting
       THEN Replaying(Idle) /\ UNCHANGED claims
       ELSE \E r \in {First(replay.todo, replay.from)} :
              IF r \in claims
              THEN Replaying([replay EXCEPT !.todo = @ \ {r}]) /\ UNCHANGED claims
              ELSE /\ Replaying([replay EXCEPT !.todo = @ \ {r}, !.at = "Check", !.rec = r])
                   /\ claims' = claims \cup {r}
    /\ UNCHANGED <<spool, last>>

\* Mutated ReplayGoesOn: the last entry is not forgotten.
GoesOnHolding ==
    /\ Replaying([replay EXCEPT !.at = "Next"])
    /\ claims' = claims \ {replay.rec}

\* The claim is dropped and the sweep goes on.
ReplayGoesOn ==
    /\ Replaying([replay EXCEPT !.at = "Next", !.rec = 0])
    /\ claims' = claims \ {replay.rec}

\* Mutated ReplayChecks: an entry is believed since it was scanned.
BelievesScan ==
    /\ Running /\ replay.at = "Check"
    /\ Replaying([replay EXCEPT !.at = "Init"]) /\ last' = replay.rec
    /\ UNCHANGED <<claims, spool>>

\* A live upload may have removed the entry since the scan.
ReplayChecks ==
    /\ Running /\ replay.at = "Check"
    /\ IF replay.rec \in spool
       THEN /\ Replaying([replay EXCEPT !.at = "Init"]) /\ last' = replay.rec
            /\ UNCHANGED claims
       ELSE ReplayGoesOn /\ UNCHANGED last
    /\ UNCHANGED spool

ReplaySends ==
    /\ Running /\ replay.at \in Request /\ Answered(replay.at, replay.rec)
    /\ Replaying([replay EXCEPT !.at = After(@, replay.rec)])
    /\ UNCHANGED <<spool, claims, last>>

\* The sweep ends with the first failure.
ReplayFails ==
    /\ Running /\ replay.at \in Request
    /\ Replaying(Idle) /\ claims' = claims \ {replay.rec}
    /\ UNCHANGED <<spool, last>>

ReplayDequeues ==
    /\ Running /\ replay.at = "Dequeue"
    /\ ReplayGoesOn
    /\ spool' \in {spool \ {replay.rec}, spool}
    /\ UNCHANGED last

----------------------------------------------------------------------------
(* The gate, shutdown, crash and restart *)

GateMoves ==
    /\ Running
    /\ accepting' = ~accepting
    /\ UNCHANGED <<process, restarts, handed, unstored, queue, live, writing, spool, stored, claims,
                   replay, last, confirmed, outcome>>

\* shutting_down is set; effects already sent are still taken.
Shutdown ==
    /\ process = "Up" /\ restarts < MaxRestarts
    /\ process' = "Stopping"
    /\ UNCHANGED <<restarts, handed, unstored, queue, live, writing, spool, stored, claims,
                   replay, last, accepting, confirmed, outcome>>

\* The tasks are aborted where they wait; a removal already begun is finished.
LiveAborted(r) ==
    /\ process = "Stopping" /\ live[r] # "None"
    /\ LiveEnds(r)
    /\ spool' \in {spool} \cup IF live[r] = "Dequeue" THEN {spool \ {r}} ELSE {}
    /\ UNCHANGED <<process, restarts, handed, unstored, queue, writing, stored, replay, last,
                   accepting, confirmed, outcome>>

ReplayAborted ==
    /\ process = "Stopping" /\ replay.at # "Idle"
    /\ Replaying(Idle) /\ claims' = claims \ {replay.rec}
    /\ spool' \in {spool} \cup IF replay.at = "Dequeue" THEN {spool \ {replay.rec}} ELSE {}
    /\ UNCHANGED last

\* Mutated Stop: the durability tasks are not waited for.
StopAtOnce ==
    /\ process = "Stopping" /\ queue = <<>> /\ Busy = {} /\ replay = Idle
    /\ process' = "Stopped"
    /\ UNCHANGED <<restarts, handed, unstored, queue, live, writing, spool, stored, claims,
                   replay, last, accepting, confirmed, outcome>>

\* effect_task ends when it has taken every effect and every entry is written.
Stop ==
    /\ process = "Stopping" /\ queue = <<>> /\ writing = {} /\ Busy = {} /\ replay = Idle
    /\ process' = "Stopped"
    /\ UNCHANGED <<restarts, handed, unstored, queue, live, writing, spool, stored, claims,
                   replay, last, accepting, confirmed, outcome>>

\* Entries were synced before they counted, their removal was not: it may be undone.
Crash ==
    /\ Running /\ restarts < MaxRestarts
    /\ process' = "Crashed"
    /\ \E undone \in SUBSET (stored \ spool) : spool' = spool \cup undone
    /\ handed' = {} /\ unstored' = {} /\ queue' = <<>>
    /\ writing' = {} /\ claims' = {} /\ replay' = Idle
    /\ live' = [r \in Recording |-> "None"]
    /\ outcome' = [r \in Recording |-> "None"]
    /\ UNCHANGED <<restarts, stored, last, accepting, confirmed>>

\* A new process starts with an empty memory and a closed gate.
Restart ==
    /\ process \in {"Stopped", "Crashed"}
    /\ process' = "Up" /\ restarts' = restarts + 1
    /\ handed' = {} /\ unstored' = {} /\ last' = 0 /\ accepting' = FALSE
    /\ outcome' = [r \in Recording |-> "None"]
    /\ UNCHANGED <<queue, live, writing, spool, stored, claims, replay, confirmed>>

Next ==
    \/ \E r \in Recording :
         \/ Hand(r) \/ Persist(r) \/ CannotPersist(r) \/ LiveChecksGate(r)
         \/ LiveSends(r) \/ LiveFails(r) \/ LiveDequeues(r) \/ LiveAborted(r)
         \/ OperatorConfirms(r)
    \/ CannotFind \/ Discard \/ AlreadyClaimed \/ StartUpload
    \/ ReplayScans \/ ReplayTakes \/ ReplayChecks \/ ReplaySends \/ ReplayFails
    \/ ReplayDequeues \/ ReplayAborted
    \/ GateMoves \/ Shutdown \/ Stop \/ Crash \/ Restart

Spec == Init /\ [][Next]_vars

(* Fairness, for the liveness properties: the booth's own tasks go on.  Requests *)
(* are answered or fail (the HTTP client has a deadline, the retries a number),  *)
(* the directory's operations return, and a stopped booth is started again.      *)
Live(r) == LiveChecksGate(r) \/ LiveSends(r) \/ LiveFails(r) \/ LiveDequeues(r)

Replay == ReplayScans \/ ReplayTakes \/ ReplayChecks \/ ReplaySends \/ ReplayFails
          \/ ReplayDequeues

Fairness ==
    /\ WF_vars(CannotFind \/ Discard \/ AlreadyClaimed \/ StartUpload)
    /\ \A r \in Recording :
         /\ WF_vars(Persist(r) \/ CannotPersist(r)) /\ WF_vars(Live(r))
         /\ WF_vars(LiveAborted(r)) /\ WF_vars(OperatorConfirms(r))
    /\ WF_vars(Replay) /\ WF_vars(ReplayAborted) /\ WF_vars(Stop) /\ WF_vars(Restart)

FairSpec == Spec /\ Fairness

Good == Recording \ (Short \cup Refused)

\* In the end the exhibition is open, and requests for good recordings and
\* removals succeed.
NothingGoodFails ==
    \A r \in Good :
        /\ ~LiveFails(r) /\ (LiveDequeues(r) => spool' = spool \ {r})
        /\ replay.rec = r => ~ReplayFails /\ (ReplayDequeues => spool' = spool \ {r})

SettledSpec == FairSpec /\ <>[]accepting /\ <>[][NothingGoodFails]_vars

----------------------------------------------------------------------------
(* Properties *)

\* One recording is never uploaded by a live task and by the replay worker at
\* once, whichever of them finds it first (PendingUploadSpool::claim).
ExclusiveUpload ==
    \A r \in Recording : ~(live[r] # "None" /\ replay.rec = r)

\* A claim is held exactly while somebody works on the recording: a claim left
\* behind would keep the recording from ever being replayed (UploadClaim's drop).
ClaimsAreHeld ==
    claims = {r \in Recording : live[r] # "None" \/ replay.rec = r}

\* The replay worker only sends what is still pending: the entry may have been
\* removed by the live upload between the scan and the claim.
ReplaySendsPending == replay.at \in Request => replay.rec \in spool

\* The caller's thank-you is earned: an upload reported complete is with the
\* operator or was discarded as too short, one reported deferred is with the
\* operator or in the spool, and no upload is reported twice.
OutcomeIsTrue ==
    \A r \in Recording :
        /\ outcome[r] = "Complete" => r \in confirmed \cup Short
        /\ outcome[r] = "Deferred" => r \in confirmed \cup spool
        /\ outcome[r] # "Twice"

\* An orderly shutdown loses no answer that was handed over before it: each is
\* stored or with the operator, too short, or its loss was reported.
ShutdownKeepsAnswers ==
    process = "Stopped" => handed \subseteq spool \cup confirmed \cup Short \cup unstored

\* A stored answer is kept until the operator has it, through failures,
\* shutdowns, crashes and restarts (pending_uploads.rs:4).
S == INSTANCE AnswerStore WITH kept <- spool, delivered <- confirmed
Keeps == S!Spec

\* The core hears how each upload went, so that the call can end.
EveryUploadAnswered ==
    \A r \in Recording :
        (r \in handed /\ process = "Up") ~> (outcome[r] # "None" \/ process # "Up")

\* A recording that is refused again and again, or sorts before the others, does
\* not keep the others from being uploaded.
NoStarvation ==
    <>[](process = "Up") => \A r \in Good : (r \in spool) ~> (r \in confirmed)

\* Uploads go on: every live one is answered, and replay starves none.
UploadsProgress == EveryUploadAnswered /\ NoStarvation
=============================================================================
