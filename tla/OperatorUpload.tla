---------------------------- MODULE OperatorUpload ----------------------------
(***************************************************************************)
(* One recording on its way to the operator: upload_recording and          *)
(* retry_operator of booth-bin, and PiOperatorClient of booth-pi with the  *)
(* classification of replies.  An upload is three requests; each is        *)
(* retried, and the transfer is retried a second time within each attempt. *)
(* A reply may be lost, and a request that was given up may still be       *)
(* carried out later.  A failed upload is repeated by the replay worker.   *)
(*                                                                         *)
(* ExhibitionOperator asks the gate before every attempt, and sends        *)
(* nothing unless it is open.  Why the gate says so is InstallationGate's  *)
(* matter: here it moves as it may.                                        *)
(*                                                                         *)
(* The recording keeps to the caps of validate_upload_caps; a slot has an  *)
(* address that is allowed, or not.                                        *)
(***************************************************************************)
EXTENDS Integers, FiniteSets

CONSTANTS
    OPERATOR_ATTEMPTS,  \* of each of the three requests
    UPLOAD_RETRIES,     \* of the transfer, within one attempt
    Failures,           \* the other statuses the services may answer
    MaxUploads,         \* bound: uploads of the recording
    MaxSwitches         \* bound: how often the exhibition ends or starts

ASSUME OperatorUploadAssumption ==
    /\ OPERATOR_ATTEMPTS \in Nat \ {0} /\ UPLOAD_RETRIES \in Nat
    /\ Failures \subseteq 400..599 /\ MaxUploads \in Nat /\ MaxSwitches \in Nat

VARIABLES
    \* The operator and the blob service.
    active,     \* the exhibition is open
    hasEnded,   \* history: it has been closed
    blob,       \* the bytes have arrived
    stored,     \* the operator has the completed row
    lateRequests,       \* requests given up by the booth that may still be carried out
    switches,
    gate,       \* what check says: "Open", "Between" (exhibitions) or "Unknown"
    \* upload_recording.
    request,    \* which request: "none", "Init", "Put" or "Complete"
    attempt,    \* retry_operator: which attempt of it
    transfer,   \* put_recording: which attempt of the transfer within it
    wire,       \* "ready" to send, "sent", or the reply: [status, code]
    readable,   \* the recording's file can be opened
    allowed,    \* the slot's address is allowed
    outcome,    \* what the core was told last: "none" or an UploadOutcome
    uploads,    \* how many uploads there have been
    sent,       \* history: the requests sent by this upload
    refused,    \* history: this upload was told that the exhibition is not open
    reported    \* history: [is, was], the status told by telemetry, and the last read

service == <<active, hasEnded, blob, stored, lateRequests, switches>>
place == <<readable, allowed>>
operatorVars == <<service, gate, place, request, attempt, transfer, wire, outcome, uploads, sent,
                  refused, reported>>

Requests == {"Init", "Put", "Complete"}
Reply(status, code) == [status |-> status, code |-> code]
Ready == Reply(0, "ready")
Sent == Reply(0, "sent")
Lost == Reply(0, "lost")
Success == 200..299

-----------------------------------------------------------------------------
(* The classification of replies.                                          *)

map_operator_error_body(reply) ==
    CASE reply.status = 400 -> "InvalidArgument"
      [] reply.status = 401 -> "Unauthorized"
      [] reply.status = 409 -> CASE reply.code = "installation_inactive" -> "InstallationInactive"
                                 [] reply.code = "message_already_exists" -> "DuplicateRecording"
                                 [] OTHER -> "Conflict"
      [] reply.status = 413 -> "PayloadTooLarge"
      [] reply.status = 422 -> "Unprocessable"
      [] OTHER -> "Server"

\* The error of a reply that is no success; none came back at all.
ErrorOf(reply) == IF reply = Lost THEN "Transport" ELSE map_operator_error_body(reply)

is_retryable_upload_status(status) == status \in {408, 409, 425, 429} \cup 500..599

\* put_recording gives up with this error.  A conflict to the end is taken for a
\* duplicate.
TransferError(reply) ==
    IF reply.status = 409 /\ transfer = UPLOAD_RETRIES THEN "DuplicateRecording"
    ELSE ErrorOf(reply)

\* Mutated is_retryable_operator_error: everything is worth another attempt.
RetryableAlways(error, status) == TRUE

is_retryable_operator_error(error, status) ==
    error = "Transport" \/ (error = "Server" /\ status >= 500)

\* What telemetry says of an attempt.
operator_status(error, status) ==
    CASE error = "none" -> 200
      [] error = "Unauthorized" -> 401
      [] error \in {"DuplicateRecording", "Conflict", "InstallationInactive"} -> 409
      [] error \in {"InvalidArgument", "Unprocessable"} -> 422
      [] error = "PayloadTooLarge" -> 413
      [] error = "Transport" -> 503
      [] error = "Server" -> status

-----------------------------------------------------------------------------
OperatorInit ==
    /\ active \in BOOLEAN /\ hasEnded = ~active
    /\ gate \in {"Open", "Unknown"} \cup (IF hasEnded THEN {"Between"} ELSE {})
    /\ blob = FALSE /\ stored = FALSE /\ lateRequests = {} /\ switches = 0
    /\ readable = TRUE /\ allowed = TRUE
    /\ request = "none" /\ attempt = 1 /\ transfer = 0 /\ wire = Ready
    /\ outcome = "none" /\ uploads = 0
    /\ sent = [Init |-> 0, Put |-> 0, Complete |-> 0]
    /\ refused = FALSE
    /\ reported = [is |-> 0, was |-> 0]

\* The first upload, or a sweep of the replay worker; one that succeeded has
\* removed the recording.
Begin ==
    /\ request = "none" /\ outcome # "Complete" /\ uploads < MaxUploads
    /\ request' = "Init" /\ attempt' = 1 /\ transfer' = 0 /\ wire' = Ready
    /\ uploads' = uploads + 1
    /\ sent' = [Init |-> 0, Put |-> 0, Complete |-> 0]
    /\ refused' = FALSE
    /\ UNCHANGED <<service, gate, place, outcome, reported>>

\* The next request, in full.
GoOn(next) == request' = next /\ attempt' = 1 /\ transfer' = 0 /\ wire' = Ready

Tell(result) ==
    /\ outcome' = result /\ request' = "none"
    /\ wire' = Ready /\ UNCHANGED <<attempt, transfer>>

Reports(error, status) ==
    reported' = [is |-> operator_status(error, status), was |-> status]

\* Mutated Gives: a duplicate of any request is success.
GivesDuplicates(error) ==
    IF error = "DuplicateRecording" THEN Tell("Complete")
    ELSE Tell(IF error = "InstallationInactive" THEN "Deferred" ELSE "Failed")

\* The upload ends with an error.  A duplicate is success for the first request
\* only: of the operator's confirmed rows, not of the transfer.
Gives(error) ==
    IF error = "DuplicateRecording" /\ request = "Init" THEN Tell("Complete")
    ELSE Tell(IF error = "InstallationInactive" THEN "Deferred" ELSE "Failed")

\* retry_operator, after an attempt that failed.
Attempted(error, status) ==
    IF attempt = OPERATOR_ATTEMPTS \/ ~is_retryable_operator_error(error, status)
    THEN Gives(error)
    ELSE /\ attempt' = attempt + 1 /\ transfer' = 0 /\ wire' = Ready
         /\ UNCHANGED <<request, outcome>>

-----------------------------------------------------------------------------
\* The gate is asked before each attempt of a request, not before each transfer
\* of one attempt.
Admitted == transfer = 0 => gate = "Open"

\* ExhibitionOperator refuses an attempt: nothing is sent.
NotAdmitted ==
    /\ request # "none" /\ wire = Ready /\ ~Admitted
    /\ LET error == IF gate = "Between" THEN "InstallationInactive" ELSE "Transport"
       IN  Attempted(error, 0) /\ Reports(error, 0)
    /\ refused' = (refused \/ gate = "Between")
    /\ UNCHANGED <<service, gate, place, uploads, sent>>

Sends ==
    /\ request # "none" /\ wire = Ready /\ Admitted
    /\ request = "Put" => allowed /\ readable
    /\ wire' = Sent
    /\ sent' = [sent EXCEPT ![request] = @ + 1]
    /\ UNCHANGED <<service, gate, place, request, attempt, transfer, outcome, uploads, refused,
                   reported>>

\* The transfer's own checks fail before anything is sent: the address, the
\* file's size, or opening it, anew in every transfer.
CannotTransfer ==
    /\ request = "Put" /\ wire = Ready /\ Admitted /\ ~(allowed /\ readable)
    /\ Attempted("Transport", 0) /\ Reports("Transport", 0)
    /\ UNCHANGED <<service, gate, place, uploads, sent, refused>>

\* The file cannot be opened for a while.
FileMoves ==
    /\ request = "Put" /\ readable' = ~readable
    /\ UNCHANGED <<service, gate, allowed, request, attempt, transfer, wire, outcome, uploads,
                   sent, refused, reported>>

-----------------------------------------------------------------------------
(* External: the operator and the blob service.                            *)

\* What the services do with a request, and what they answer.
Serves(r, reply) ==
    \/ r = "Init" /\ ~active /\ reply = Reply(409, "installation_inactive")
       /\ UNCHANGED <<blob, stored>>
    \/ r = "Init" /\ active /\ UNCHANGED <<blob, stored>>
       /\ reply = IF stored THEN Reply(409, "message_already_exists") ELSE Reply(201, "none")
    \/ r = "Put" /\ blob' = TRUE /\ reply = Reply(201, "none") /\ UNCHANGED stored
    \/ r = "Put" /\ reply = Reply(409, "none") /\ UNCHANGED <<blob, stored>>
    \/ r = "Complete" /\ ~active /\ reply = Reply(409, "installation_inactive")
       /\ UNCHANGED <<blob, stored>>
    \/ r = "Complete" /\ active /\ (blob \/ stored) /\ stored' = TRUE /\ UNCHANGED blob
       /\ reply = Reply(200, "none")
    \/ r = "Complete" /\ active /\ ~blob /\ ~stored /\ reply = Reply(409, "none")
       /\ UNCHANGED <<blob, stored>>
    \/ \E status \in Failures : reply = Reply(status, "none") /\ UNCHANGED <<blob, stored>>

Replies(r) ==
    {Reply(200, "none"), Reply(201, "none"), Reply(409, "none"),
     Reply(409, "installation_inactive"), Reply(409, "message_already_exists")}
    \cup {Reply(status, "none") : status \in Failures}

Answers ==
    /\ wire = Sent
    /\ \E reply \in Replies(request) :
          /\ Serves(request, reply)
          /\ wire' \in {reply, Lost}
    /\ allowed' \in IF request = "Init" THEN BOOLEAN ELSE {allowed}
    /\ UNCHANGED <<active, hasEnded, gate, lateRequests, switches, readable, request, attempt,
                   transfer, outcome, uploads, sent, refused, reported>>

\* The booth's deadline passes first.
TimesOut ==
    /\ wire = Sent
    /\ wire' = Lost
    /\ lateRequests' = lateRequests \cup {request}
    /\ UNCHANGED <<active, hasEnded, gate, blob, stored, switches, place, request, attempt,
                   transfer, outcome, uploads, sent, refused, reported>>

ServedLate(r) ==
    /\ r \in lateRequests
    /\ \E reply \in Replies(r) : Serves(r, reply)
    /\ lateRequests' = lateRequests \ {r}
    /\ UNCHANGED <<active, hasEnded, gate, switches, place, request, attempt, transfer, wire,
                   outcome, uploads, sent, refused, reported>>

Switches ==
    /\ switches < MaxSwitches
    /\ active' = ~active /\ hasEnded' = TRUE /\ switches' = switches + 1
    /\ UNCHANGED <<gate, blob, stored, lateRequests, place, request, attempt, transfer, wire,
                   outcome, uploads, sent, refused, reported>>

\* The gate moves by itself: a probe is answered, another request is refused, the
\* lease runs out.  Only a true answer, or an old one, says that the exhibition
\* is not open.
GateMoves ==
    /\ \/ gate' = "Open"
       \/ gate' = "Between" /\ hasEnded
       \/ gate' = "Unknown" /\ gate = "Open"
    /\ UNCHANGED <<service, place, request, attempt, transfer, wire, outcome, uploads, sent,
                   refused, reported>>

-----------------------------------------------------------------------------
(* The reply is read.                                                      *)

\* Mutated Succeeds: the transfer is the last request.
SucceedsEarly ==
    /\ wire.status \in Success
    /\ IF request # "Init" THEN Tell("Complete") ELSE GoOn("Put") /\ UNCHANGED outcome
    /\ Reports("none", wire.status)
    /\ UNCHANGED <<service, gate, place, uploads, sent, refused>>

Succeeds ==
    /\ wire.status \in Success
    /\ IF request = "Complete" THEN Tell("Complete")
       ELSE GoOn(IF request = "Init" THEN "Put" ELSE "Complete") /\ UNCHANGED outcome
    /\ Reports("none", wire.status)
    /\ UNCHANGED <<service, gate, place, uploads, sent, refused>>

\* A body that cannot be read as JSON, of a slot that was handed out.
CannotDecode ==
    /\ request = "Init" /\ wire.status \in Success
    /\ Tell("Failed")
    /\ reported' = [is |-> 502, was |-> wire.status]
    /\ UNCHANGED <<service, gate, place, uploads, sent, refused>>

\* Mutated TransfersAgain: the retries of the transfer are not counted.
TransfersUncounted ==
    /\ request = "Put" /\ transfer < UPLOAD_RETRIES
    /\ (wire = Lost \/ is_retryable_upload_status(wire.status))
    /\ wire' = Ready
    /\ UNCHANGED <<service, gate, place, request, attempt, transfer, outcome, uploads, sent,
                   refused, reported>>

\* put_recording tries again by itself.
TransfersAgain ==
    /\ request = "Put" /\ transfer < UPLOAD_RETRIES
    /\ (wire = Lost \/ is_retryable_upload_status(wire.status))
    /\ transfer' = transfer + 1 /\ wire' = Ready
    /\ UNCHANGED <<service, gate, place, request, attempt, outcome, uploads, sent, refused,
                   reported>>

\* Mutated TransferFails: a last transfer without a reply is not noticed.
TransferFailsReplied ==
    /\ request = "Put" /\ wire \notin {Ready, Sent, Lost} /\ wire.status \notin Success
    /\ ~is_retryable_upload_status(wire.status) \/ transfer = UPLOAD_RETRIES
    /\ Attempted(TransferError(wire), wire.status)
    /\ Reports(TransferError(wire), wire.status)
    /\ UNCHANGED <<service, gate, place, uploads, sent, refused>>

TransferFails ==
    /\ request = "Put" /\ wire \notin {Ready, Sent} /\ wire.status \notin Success
    /\ \/ wire # Lost /\ ~is_retryable_upload_status(wire.status)
       \/ transfer = UPLOAD_RETRIES
    /\ Attempted(TransferError(wire), wire.status)
    /\ Reports(TransferError(wire), wire.status)
    /\ UNCHANGED <<service, gate, place, uploads, sent, refused>>

RequestFails ==
    /\ request \in {"Init", "Complete"} /\ wire \notin {Ready, Sent}
    /\ wire.status \notin Success
    /\ Attempted(ErrorOf(wire), wire.status)
    /\ Reports(ErrorOf(wire), wire.status)
    /\ refused' = (refused \/ wire.code = "installation_inactive")
    /\ gate' = IF wire.code = "installation_inactive" THEN "Between" ELSE gate
    /\ UNCHANGED <<service, place, uploads, sent>>

-----------------------------------------------------------------------------
Service == Answers \/ TimesOut \/ Switches \/ \E r \in Requests : ServedLate(r)
Booth == NotAdmitted \/ Sends \/ CannotTransfer \/ Succeeds \/ CannotDecode \/ TransfersAgain
         \/ TransferFails \/ RequestFails

OperatorNext == Begin \/ Booth \/ FileMoves \/ GateMoves \/ Service

\* The tasks run, and the HTTP client has a deadline.
OperatorFairness ==
    /\ WF_operatorVars(Booth)
    /\ WF_operatorVars(Answers \/ TimesOut)

OperatorSpec == OperatorInit /\ [][OperatorNext]_operatorVars /\ OperatorFairness

-----------------------------------------------------------------------------
\* Every variable has its type; no request is sent oftener than its attempts
\* allow, and the transfer no oftener than both retries together.
OperatorTypeOK ==
    /\ active \in BOOLEAN /\ hasEnded \in BOOLEAN /\ gate \in {"Open", "Between", "Unknown"}
    /\ blob \in BOOLEAN /\ stored \in BOOLEAN
    /\ lateRequests \subseteq Requests /\ switches \in 0..MaxSwitches
    /\ request \in Requests \cup {"none"}
    /\ attempt \in 1..OPERATOR_ATTEMPTS /\ transfer \in 0..UPLOAD_RETRIES
    /\ wire \in {Ready, Sent, Lost} \cup Replies(request)
    /\ readable \in BOOLEAN /\ allowed \in BOOLEAN
    /\ outcome \in {"none", "Complete", "Deferred", "Failed"}
    /\ uploads \in 0..MaxUploads /\ refused \in BOOLEAN
    /\ sent \in [Requests -> Nat]
    /\ sent["Init"] <= OPERATOR_ATTEMPTS /\ sent["Complete"] <= OPERATOR_ATTEMPTS
    /\ sent["Put"] <= OPERATOR_ATTEMPTS * (UPLOAD_RETRIES + 1)

\* The core is told Complete, and the recording let go, only when the operator
\* has it, whatever was lost, came late, or conflicted.
CompleteIsStored == outcome = "Complete" => stored

\* An upload that is told, by a reply or by the gate, that the exhibition is not
\* open sends nothing more and is deferred, never failed.  No other upload is
\* deferred: an operator out of reach, and the gate's not knowing, never are an
\* exhibition's end ("network health never manufactures inactivity").
InactiveEndsUpload ==
    /\ refused => request = "none" /\ outcome = "Deferred"
    /\ outcome = "Deferred" => hasEnded /\ (request = "none" => refused)

\* Every upload ends, and the core is told, however often it is retried.
UploadEnds == [](request # "none" => <>(request = "none"))

\* Seen from the spool, the recording is kept until the operator has it.
Store == INSTANCE AnswerStore WITH
    Recording <- {"recording"},
    kept <- IF outcome = "Complete" THEN {} ELSE {"recording"},
    delivered <- IF stored THEN {"recording"} ELSE {}
KeepsUntilDelivered == Store!Spec

\* What booth-hal says of the error DuplicateRecording: "The operator already has
\* this recording".
DuplicateIsStored ==
    request = "Put" /\ wire.status = 409 /\ TransferError(wire) = "DuplicateRecording" =>
        stored

\* What booth-hal says of OperatorResponse::status: "HTTP status code returned".
StatusIsReturned == reported.was >= 400 => reported.is = reported.was

\* Only an answer that the operator has counts as uploaded, through every retry.
OperatorInv ==
    /\ OperatorTypeOK /\ CompleteIsStored /\ InactiveEndsUpload
=============================================================================
