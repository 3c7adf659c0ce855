---------------------------- MODULE ReportingProofs ----------------------------
(***************************************************************************)
(* What the operator is told, for any capacities, attempts and numbers of  *)
(* failures: the status of the booth, what becomes of an answer that is    *)
(* uploaded request by request, and the events, from their queue through   *)
(* the buffer and the files to the operator; and the timestamps of the     *)
(* updates.  The inductive invariant of each component has a name that     *)
(* ends in Sound.                                                          *)
(*                                                                         *)
(* And what the operator tells the booth: the admission gate, whose        *)
(* inductive invariant is IInv.                                            *)
(***************************************************************************)
EXTENDS StatusReporting, OperatorUpload, EventForwarder, CivilDate, InstallationGate,
        SequenceTheorems, FiniteSetTheorems, WellFoundedInduction, TLAPS

(* Sequences as queues *)

\* One more at the end of a sequence.
LEMMA Appended ==
    ASSUME NEW S, NEW q \in Seq(S), NEW l \in S
    PROVE  /\ Append(q, l) \in Seq(S) /\ Append(q, l) # <<>>
           /\ Len(Append(q, l)) = Len(q) + 1 /\ Len(q) \in Nat
           /\ Append(q, l)[Len(Append(q, l))] = l
  BY AppendProperties, LenProperties

\* The empty sequence has no elements.
LEMMA EmptyIsShort == Len(<<>>) = 0
  OBVIOUS

\* The first of a sequence is taken: the last stays, or was the first.
LEMMA Taken ==
    ASSUME NEW S, NEW q \in Seq(S), q # <<>>
    PROVE  /\ Head(q) \in S /\ Tail(q) \in Seq(S) /\ Len(Tail(q)) = Len(q) - 1
           /\ Len(q) \in Nat
           /\ Tail(q) = <<>> => Head(q) = q[Len(q)]
           /\ Tail(q) # <<>> => Tail(q)[Len(Tail(q))] = q[Len(q)]
<1>1. /\ Head(q) \in S /\ Tail(q) \in Seq(S) /\ Head(q) = q[1]
      /\ \A i \in 1..Len(Tail(q)) : Tail(q)[i] = q[i + 1]
  BY HeadTailProperties, LenProperties
<1>2. Len(q) \in Nat
  BY LenProperties
<1>3. Len(Tail(q)) = Len(q) - 1
  BY HeadTailProperties
<1>4. CASE Tail(q) = <<>>
  <2>1. Len(q) - 1 = 0
    BY <1>3, <1>4, EmptyIsShort
  <2>2. Len(q) = 1
    BY <1>2, <2>1
  <2>3. QED
    BY <1>1, <1>3, <1>4, <2>2
<1>5. CASE Tail(q) # <<>>
  <2>1. Len(Tail(q)) \in Nat /\ Len(Tail(q)) # 0
    BY <1>1, <1>5, LenProperties, EmptySeq
  <2>2. QED
    BY <1>1, <1>2, <1>3, <1>5, <2>1
<1>6. QED
  BY <1>4, <1>5

\* Of a queue with a bound, the newest entries are kept.
LEMMA LatestAreKept ==
    ASSUME NEW S, NEW q \in Seq(S), NEW room \in Nat
    PROVE  Latest(q, room) \in Seq(S) /\ Len(Latest(q, room)) <= room
<1> DEFINE kept == IF Len(q) < room THEN Len(q) ELSE room
<1>1. Len(q) \in Nat /\ kept \in Nat /\ kept <= Len(q) /\ kept <= room
  BY LenProperties
<1>2. Latest(q, room) = SubSeq(q, Len(q) - kept + 1, Len(q))
  BY DEF Latest
<1> HIDE DEF kept
<1>3. /\ SubSeq(q, Len(q) - kept + 1, Len(q)) \in Seq(S)
      /\ Len(SubSeq(q, Len(q) - kept + 1, Len(q))) = kept
  BY <1>1, SubSeqProperties
<1>4. QED
  BY <1>1, <1>2, <1>3

----------------------------------------------------------------------------
(* The status of the booth *)

\* The newest status that is not written yet is that of the present state; once all
\* is written, so is the last that got through.
LastWord ==
    IF effects # <<>> THEN effects[Len(effects)] = StatusOf(tag)
    ELSE IF queue # <<>> THEN queue[Len(queue)] = StatusOf(tag)
    ELSE IF writer.at # "Idle" THEN writer.status = StatusOf(tag)
    ELSE wrote \in {"Nothing", "Failed", StatusOf(tag)}

StatusSound == StatusTypeOK /\ LastWord

\* Both tables, the core's and the heartbeat's, know a status for every state.
LEMMA TablesAreTotal ==
    ASSUME NEW t \in Tag
    PROVE  StatusOf(t) \in BoothStatus /\ state_name_to_booth_status(t) \in BoothStatus
<1>1. t \in Core!Tags
  BY StatusAssumption
<1>2. StatusOf(t) \in BoothStatus
  BY <1>1 DEF StatusOf, BoothStatus, Core!status, Core!BoothStatus, Core!Tags
<1>3. state_name_to_booth_status(t) \in BoothStatus
  BY <1>1 DEF state_name_to_booth_status, BoothStatus, Core!BoothStatus, Core!Tags
<1>4. QED
  BY <1>2, <1>3

\* A booth that starts has nothing to tell but that it is idle.
LEMMA InitStatus == StatusInit => StatusSound
<1> SUFFICES ASSUME StatusInit PROVE StatusSound
  OBVIOUS
<1>1. "Idle" \in BoothStatus /\ "Idle" \in Tag
      /\ {Effects, Depth, Lag, Attempts} \subseteq Nat \ {0}
  BY StatusAssumption DEF BoothStatus, Core!BoothStatus
<1>2. shown \in BoothStatus
  BY TablesAreTotal DEF StatusInit
<1>3. <<>> \in Seq(BoothStatus) /\ <<>> \in Seq(Tag) /\ Len(<<>>) = 0
  BY EmptySeq
<1>4. StatusTypeOK
  BY <1>1, <1>2, <1>3 DEF StatusInit, StatusTypeOK
<1>5. LastWord
  BY DEF StatusInit, LastWord
<1>6. QED
  BY <1>4, <1>5 DEF StatusSound

\* A request that the booth gives up is remembered as late, or lost.
LEMMA AbandonTypes ==
    ASSUME NEW given_up, given_up.status \in BoothStatus, late \subseteq BoothStatus,
           Abandon(given_up)
    PROVE  late' \subseteq BoothStatus
  BY DEF Abandon

\* The state changes, and the status of the new one is the newest.
LEMMA ChangeReports == ASSUME NEW t \in Tag, StatusSound, Change(t) PROVE StatusSound'
<1>1. StatusTypeOK
  BY DEF StatusSound
<1>2. /\ tag' = t /\ effects' = Append(effects, StatusOf(t)) /\ Len(effects) < Effects
      /\ unheard' = Latest(Append(unheard, t), Lag)
      /\ UNCHANGED <<queue, writer, known, beat, late, shown, wrote>>
  BY DEF Change
<1>3. /\ effects' \in Seq(BoothStatus) /\ effects' # <<>> /\ Len(effects') = Len(effects) + 1
      /\ Len(effects) \in Nat /\ effects'[Len(effects')] = StatusOf(t)
  BY <1>1, <1>2, TablesAreTotal, Appended DEF StatusTypeOK
<1>4. unheard' \in Seq(Tag) /\ Len(unheard') <= Lag
  <2>1. Append(unheard, t) \in Seq(Tag)
    BY <1>1, Appended DEF StatusTypeOK
  <2>2. Lag \in Nat
    BY StatusAssumption
  <2>3. QED
    BY <1>2, <2>1, <2>2, LatestAreKept
<1>5. Len(effects') <= Effects
  BY <1>2, <1>3, StatusAssumption
<1>6. StatusTypeOK'
  BY <1>1, <1>2, <1>3, <1>4, <1>5 DEF StatusTypeOK
<1>7. LastWord'
  BY <1>2, <1>3 DEF LastWord
<1>8. QED
  BY <1>6, <1>7 DEF StatusSound

\* The effect task hands the oldest on.
LEMMA PutReports == ASSUME StatusSound, PutStatus PROVE StatusSound'
<1>1. StatusTypeOK /\ LastWord
  BY DEF StatusSound
<1>2. /\ effects # <<>> /\ effects' = Tail(effects) /\ Len(queue) < Depth
      /\ queue' = Append(queue, Head(effects))
      /\ UNCHANGED <<tag, writer, unheard, known, beat, late, shown, wrote>>
  BY DEF PutStatus
<1>3. /\ Head(effects) \in BoothStatus /\ effects' \in Seq(BoothStatus)
      /\ Len(effects') = Len(effects) - 1 /\ Len(effects) \in Nat
      /\ effects' = <<>> => Head(effects) = effects[Len(effects)]
      /\ effects' # <<>> => effects'[Len(effects')] = effects[Len(effects)]
  BY <1>1, <1>2, Taken DEF StatusTypeOK
<1>4. /\ queue' \in Seq(BoothStatus) /\ queue' # <<>> /\ Len(queue') = Len(queue) + 1
      /\ Len(queue) \in Nat /\ queue'[Len(queue')] = Head(effects)
  BY <1>1, <1>2, <1>3, Appended DEF StatusTypeOK
<1>5. Len(effects') <= Effects /\ Len(queue') <= Depth
  BY <1>1, <1>2, <1>3, <1>4, StatusAssumption DEF StatusTypeOK
<1>6. StatusTypeOK'
  BY <1>1, <1>2, <1>3, <1>4, <1>5 DEF StatusTypeOK
<1>7. LastWord'
  BY <1>1, <1>2, <1>3, <1>4 DEF LastWord
<1>8. QED
  BY <1>6, <1>7 DEF StatusSound

\* The writer takes the oldest, and writes it.
LEMMA WriterReports == ASSUME StatusSound, Writer PROVE StatusSound'
<1>1. StatusTypeOK /\ LastWord
  BY DEF StatusSound
<1>2. Attempts \in Nat \ {0} /\ "Idle" \in BoothStatus
  BY StatusAssumption DEF BoothStatus, Core!BoothStatus
<1>3. CASE WriterTakes
  <2>1. /\ queue # <<>> /\ queue' = Tail(queue)
        /\ writer' = [at |-> "Sent", status |-> Head(queue), attempt |-> 1]
        /\ UNCHANGED <<tag, effects, unheard, known, beat, late, shown, wrote>>
    BY <1>3 DEF WriterTakes
  <2>2. /\ Head(queue) \in BoothStatus /\ queue' \in Seq(BoothStatus)
        /\ Len(queue') = Len(queue) - 1 /\ Len(queue) \in Nat
        /\ queue' = <<>> => Head(queue) = queue[Len(queue)]
        /\ queue' # <<>> => queue'[Len(queue')] = queue[Len(queue)]
    BY <1>1, <2>1, Taken DEF StatusTypeOK
  <2>3. writer' \in [at: {"Idle", "Sent", "Served"}, status: BoothStatus, attempt: 1..Attempts]
    BY <1>2, <2>1, <2>2
  <2>4. Len(queue') <= Depth
    BY <1>1, <2>2, StatusAssumption DEF StatusTypeOK
  <2>5. StatusTypeOK'
    BY <1>1, <2>1, <2>2, <2>3, <2>4 DEF StatusTypeOK
  <2>6. LastWord'
    BY <1>1, <2>1, <2>2 DEF LastWord
  <2>7. QED
    BY <2>5, <2>6 DEF StatusSound
<1>4. CASE WriterServed
  BY <1>1, <1>4 DEF WriterServed, StatusTypeOK, LastWord, StatusSound
<1>5. CASE WriterSucceeds
  BY <1>1, <1>5 DEF WriterSucceeds, StatusTypeOK, LastWord, StatusSound
<1>6. CASE WriterRetries
  <2>1. late' \subseteq BoothStatus
    BY <1>1, <1>6, AbandonTypes DEF WriterRetries, StatusTypeOK
  <2>2. /\ writer.at # "Idle" /\ writer.attempt < Attempts
        /\ writer' = [writer EXCEPT !.at = "Sent", !.attempt = @ + 1]
        /\ UNCHANGED <<tag, effects, queue, unheard, known, beat, shown, wrote>>
    BY <1>6 DEF WriterRetries
  <2>3. writer.attempt + 1 \in 1..Attempts
    BY <1>1, <1>2, <2>2 DEF StatusTypeOK
  <2>4. /\ writer' \in [at: {"Idle", "Sent", "Served"}, status: BoothStatus, attempt: 1..Attempts]
        /\ writer'.at = "Sent" /\ writer'.status = writer.status
    BY <1>1, <2>2, <2>3 DEF StatusTypeOK
  <2>5. StatusTypeOK'
    BY <1>1, <2>1, <2>2, <2>4 DEF StatusTypeOK
  <2>6. LastWord'
    BY <1>1, <2>2, <2>4 DEF LastWord
  <2>7. QED
    BY <2>5, <2>6 DEF StatusSound
<1>7. CASE WriterGivesUp
  <2>1. late' \subseteq BoothStatus
    BY <1>1, <1>7, AbandonTypes DEF WriterGivesUp, StatusTypeOK
  <2>2. QED
    BY <1>1, <1>7, <2>1 DEF WriterGivesUp, StatusTypeOK, LastWord, StatusSound
<1>8. QED
  BY <1>3, <1>4, <1>5, <1>6, <1>7 DEF Writer

\* The heartbeat, and what the network still holds, touch nothing the writer has.
LEMMA BeatReports ==
    ASSUME StatusSound, Hear \/ Beat \/ BeatServed \/ BeatEnds \/ \E s \in BoothStatus : LateArrives(s)
    PROVE  StatusSound'
<1>1. StatusTypeOK /\ LastWord
  BY DEF StatusSound
<1>2. CASE Hear
  <2>1. Head(unheard) \in Tag /\ unheard' \in Seq(Tag) /\ Len(unheard') <= Lag
    BY <1>1, <1>2, Taken, StatusAssumption DEF Hear, StatusTypeOK
  <2>2. QED
    BY <1>1, <1>2, <2>1 DEF Hear, StatusTypeOK, LastWord, StatusSound
<1>3. CASE Beat
  BY <1>1, <1>3, TablesAreTotal DEF Beat, StatusTypeOK, LastWord, StatusSound
<1>4. CASE BeatServed
  BY <1>1, <1>4 DEF BeatServed, StatusTypeOK, LastWord, StatusSound
<1>5. CASE BeatEnds
  <2>1. late' \subseteq BoothStatus
    BY <1>1, <1>5, AbandonTypes DEF BeatEnds, StatusTypeOK
  <2>2. QED
    BY <1>1, <1>5, <2>1 DEF BeatEnds, StatusTypeOK, LastWord, StatusSound
<1>6. CASE \E s \in BoothStatus : LateArrives(s)
  BY <1>1, <1>6 DEF LateArrives, StatusTypeOK, LastWord, StatusSound
<1>7. QED
  BY <1>2, <1>3, <1>4, <1>5, <1>6

\* Every step of the effect task, the queue, the writer and the operator.
LEMMA StatusStep == StatusSound /\ [StatusNext]_statusVars => StatusSound'
<1> SUFFICES ASSUME StatusSound, [StatusNext]_statusVars PROVE StatusSound'
  OBVIOUS
<1>1. CASE \E t \in Tag : Change(t)
  BY <1>1, ChangeReports
<1>2. CASE UNCHANGED statusVars
  BY <1>2 DEF statusVars, StatusSound, StatusTypeOK, LastWord
<1>3. QED
  BY <1>1, <1>2, PutReports, WriterReports, BeatReports DEF StatusNext

\* Neither of the queues nor a retry loses or reorders the last word: when all is written
\* and the last write got through, the operator was told the status of the present state
\* (Effect::PutStatus, spawn_status_writer).
THEOREM LastWordIsTold == StatusSpec => []StatusInv
<1>1. StatusSound => StatusInv
  BY DEF StatusSound, StatusInv, LastWord, LastWordIsCurrent, Written, BoothStatus,
         Core!BoothStatus
<1>2. QED
  BY <1>1, InitStatus, StatusStep, PTL DEF StatusSpec

----------------------------------------------------------------------------
(* An answer on its way to the operator *)

\* The transfers that are behind a transfer of an attempt.
SendsBefore(a, t) == (a - 1) * (UPLOAD_RETRIES + 1) + t

\* No request is sent oftener than the attempts so far allow.
WithinAttempts ==
    LET now == IF wire = Ready THEN 0 ELSE 1 IN
    /\ request = "Init" =>
           sent["Init"] <= attempt - 1 + now /\ sent["Put"] = 0 /\ sent["Complete"] = 0
    /\ request = "Put" => sent["Put"] <= SendsBefore(attempt, transfer) + now /\ sent["Complete"] = 0
    /\ request = "Complete" => sent["Complete"] <= attempt - 1 + now

\* What the replies that decide the outcome are worth.
RepliesAreTrue ==
    /\ request = "Complete" /\ wire.status \in Success => stored
    /\ request = "Init" /\ wire.code = "message_already_exists" => stored
    /\ request = "Put" => wire.code # "installation_inactive"
    /\ request = "none" => wire = Ready

\* Only an exhibition that has ended is said to be between exhibitions.
EndIsReal ==
    /\ ~active => hasEnded
    /\ gate = "Between" => hasEnded
    /\ wire.code = "installation_inactive" => hasEnded

\* An upload under way has not been told Complete, nor that the exhibition has ended.
Undecided ==
    /\ outcome = "Complete" => stored /\ request = "none"
    /\ InactiveEndsUpload

UploadSound ==
    OperatorTypeOK /\ WithinAttempts /\ RepliesAreTrue /\ EndIsReal /\ Undecided

\* The transfers of an attempt fit before the next, and all of them into the bound.
LEMMA TransfersFit ==
    ASSUME NEW a \in 1..OPERATOR_ATTEMPTS, NEW t \in 0..UPLOAD_RETRIES
    PROVE  /\ SendsBefore(a, t) \in Nat /\ SendsBefore(a, t + 1) = SendsBefore(a, t) + 1
           /\ SendsBefore(a, t) + 1 <= SendsBefore(a + 1, 0)
           /\ SendsBefore(a, t) + 1 <= OPERATOR_ATTEMPTS * (UPLOAD_RETRIES + 1)
<1>1. OPERATOR_ATTEMPTS \in Nat \ {0} /\ UPLOAD_RETRIES \in Nat
  BY OperatorUploadAssumption
<1>2. \A x, y, z \in Nat : x <= y => x * z <= y * z /\ x * z \in Nat
  OBVIOUS
<1>3. \A x, z \in Nat : (x + 1) * z = x * z + z
  OBVIOUS
<1>4. PICK b \in Nat : b = a - 1
  BY <1>1
<1>5. PICK z \in Nat : z = UPLOAD_RETRIES + 1
  BY <1>1
<1>6. /\ b * z \in Nat /\ (b + 1) * z = b * z + z
      /\ (b + 1) * z <= OPERATOR_ATTEMPTS * z
  BY <1>1, <1>2, <1>3, <1>4
<1>7. /\ SendsBefore(a, t) = b * z + t /\ SendsBefore(a, t + 1) = b * z + (t + 1)
      /\ SendsBefore(a + 1, 0) = (b + 1) * z + 0
  BY <1>1, <1>4, <1>5 DEF SendsBefore
<1>8. (b + 1) * z \in Nat /\ OPERATOR_ATTEMPTS * z \in Nat
  BY <1>1, <1>2
<1>9. t \in Nat /\ t + 1 <= z
  BY <1>1, <1>5
<1>10. QED
  BY <1>5, <1>6, <1>7, <1>8, <1>9

\* What the reply may be, and which error it is.
LEMMA RepliesKnown ==
    ASSUME NEW r, NEW reply \in {Ready, Sent, Lost} \cup Replies(r)
    PROVE  /\ reply.status \in Nat
           /\ reply.code \in {"installation_inactive", "message_already_exists"} =>
                  reply.status = 409 /\ reply # Lost
           /\ reply \in {Ready, Sent, Lost} => reply.status = 0
           /\ ErrorOf(reply) = "DuplicateRecording" => reply.code = "message_already_exists"
           /\ ErrorOf(reply) = "InstallationInactive" <=> reply.code = "installation_inactive"
<1>1. Failures \subseteq Nat
  BY OperatorUploadAssumption
<1>2. reply.status \in Nat
  BY <1>1 DEF Ready, Sent, Lost, Reply, Replies
<1>3. reply.code \in {"installation_inactive", "message_already_exists"} =>
          reply.status = 409 /\ reply # Lost
  BY DEF Ready, Sent, Lost, Reply, Replies
<1>4. reply \in {Ready, Sent, Lost} => reply.status = 0
  BY DEF Ready, Sent, Lost, Reply
<1>5. ErrorOf(reply) = "DuplicateRecording" => reply.code = "message_already_exists"
  BY DEF ErrorOf, map_operator_error_body
<1>6. ErrorOf(reply) = "InstallationInactive" <=> reply.code = "installation_inactive"
  BY <1>3 DEF ErrorOf, map_operator_error_body
<1>7. QED
  BY <1>2, <1>3, <1>4, <1>5, <1>6

\* Before the first request nothing was sent.
LEMMA InitUpload == OperatorInit => UploadSound
<1> SUFFICES ASSUME OperatorInit PROVE UploadSound
  OBVIOUS
<1>1. /\ OPERATOR_ATTEMPTS \in Nat \ {0} /\ UPLOAD_RETRIES \in Nat
      /\ MaxUploads \in Nat /\ MaxSwitches \in Nat
  BY OperatorUploadAssumption
<1>2. OPERATOR_ATTEMPTS * (UPLOAD_RETRIES + 1) \in Nat
  BY <1>1
<1>3. sent \in [Requests -> Nat] /\ \A r \in Requests : sent[r] = 0
  BY DEF OperatorInit, Requests
<1>4. OperatorTypeOK
  <2>1. sent["Put"] <= OPERATOR_ATTEMPTS * (UPLOAD_RETRIES + 1)
    BY <1>2, <1>3 DEF Requests
  <2>2. sent["Init"] <= OPERATOR_ATTEMPTS /\ sent["Complete"] <= OPERATOR_ATTEMPTS
    BY <1>1, <1>3 DEF Requests
  <2>3. /\ attempt \in 1..OPERATOR_ATTEMPTS /\ transfer \in 0..UPLOAD_RETRIES
        /\ uploads \in 0..MaxUploads /\ switches \in 0..MaxSwitches
    BY <1>1 DEF OperatorInit
  <2>4. QED
    BY <1>3, <2>1, <2>2, <2>3 DEF OperatorInit, OperatorTypeOK
<1>5. WithinAttempts /\ RepliesAreTrue /\ Undecided
  BY DEF OperatorInit, WithinAttempts, RepliesAreTrue, Undecided, InactiveEndsUpload
<1>6. EndIsReal
  BY DEF OperatorInit, EndIsReal, Ready, Reply
<1>7. QED
  BY <1>4, <1>5, <1>6 DEF UploadSound

\* retry_operator: another attempt, or the upload ends with what the error means.
LEMMA AttemptIsSound ==
    ASSUME UploadSound, request # "none", NEW error, NEW status, Attempted(error, status),
           UNCHANGED <<service, place, uploads, sent>>,
           refused' \in BOOLEAN, refused' <=> error = "InstallationInactive",
           gate' \in {"Open", "Between", "Unknown"}, gate' = "Between" => hasEnded,
           error = "InstallationInactive" => hasEnded,
           error = "DuplicateRecording" /\ request = "Init" => stored
    PROVE  UploadSound'
<1>1. OperatorTypeOK /\ WithinAttempts /\ RepliesAreTrue /\ EndIsReal /\ Undecided
  BY DEF UploadSound
<1>2. /\ OPERATOR_ATTEMPTS \in Nat \ {0} /\ UPLOAD_RETRIES \in Nat
      /\ MaxUploads \in Nat /\ MaxSwitches \in Nat
  BY OperatorUploadAssumption
<1>3. UNCHANGED <<active, hasEnded, blob, stored, lateRequests, switches, readable, allowed, uploads,
                  sent>>
  BY DEF service, place
<1>4. ~refused /\ refused' \in BOOLEAN
  BY <1>1 DEF Undecided, InactiveEndsUpload
<1>5. CASE /\ attempt' = attempt + 1 /\ transfer' = 0 /\ wire' = Ready
           /\ UNCHANGED <<request, outcome>> /\ attempt # OPERATOR_ATTEMPTS
           /\ is_retryable_operator_error(error, status)
  <2>1. attempt' \in 1..OPERATOR_ATTEMPTS /\ transfer' \in 0..UPLOAD_RETRIES
    BY <1>1, <1>2, <1>5 DEF OperatorTypeOK
  <2>2. ~refused'
    BY <1>5 DEF is_retryable_operator_error
  <2>3. OperatorTypeOK'
    BY <1>1, <1>3, <1>4, <1>5, <2>1 DEF OperatorTypeOK
  <2>4. SendsBefore(attempt, transfer) + 1 <= SendsBefore(attempt', 0) /\ SendsBefore(attempt, transfer) \in Nat
        /\ SendsBefore(attempt', 0) \in Nat
    BY <1>1, <1>2, <1>5, <2>1, TransfersFit DEF OperatorTypeOK
  <2>5. WithinAttempts'
    <3>1. sent["Init"] \in Nat /\ sent["Put"] \in Nat /\ sent["Complete"] \in Nat
      BY <1>1 DEF OperatorTypeOK, Requests
    <3>2. CASE request = "Init"
      BY <1>1, <1>2, <1>3, <1>5, <3>1, <3>2 DEF WithinAttempts, OperatorTypeOK
    <3>3. CASE request = "Put"
      <4>1. sent["Put"] <= SendsBefore(attempt, transfer) + 1 /\ sent["Complete"] = 0
        BY <1>1, <2>4, <3>1, <3>3 DEF WithinAttempts
      <4>2. sent["Put"] <= SendsBefore(attempt', transfer')
        BY <1>5, <2>4, <3>1, <4>1
      <4>3. QED
        BY <1>3, <1>5, <2>4, <3>1, <3>3, <4>1, <4>2 DEF WithinAttempts
    <3>4. CASE request \notin {"Init", "Put"}
      BY <1>1, <1>2, <1>3, <1>5, <3>1, <3>4 DEF WithinAttempts, OperatorTypeOK
    <3>5. QED
      BY <3>2, <3>3, <3>4
  <2>6. RepliesAreTrue' /\ Undecided'
    BY <1>1, <1>3, <1>5, <2>2
    DEF RepliesAreTrue, Undecided, InactiveEndsUpload, Ready, Reply, Success
  <2>7. EndIsReal'
    BY <1>1, <1>3, <1>5 DEF EndIsReal, Ready, Reply
  <2>8. QED
    BY <2>3, <2>5, <2>6, <2>7 DEF UploadSound
<1>6. CASE Gives(error)
  <2>1. /\ request' = "none" /\ wire' = Ready /\ UNCHANGED <<attempt, transfer>>
        /\ outcome' = IF error = "DuplicateRecording" /\ request = "Init" THEN "Complete"
                      ELSE IF error = "InstallationInactive" THEN "Deferred" ELSE "Failed"
    BY <1>6 DEF Gives, Tell
  <2>2. OperatorTypeOK'
    BY <1>1, <1>3, <1>4, <2>1 DEF OperatorTypeOK
  <2>3. WithinAttempts' /\ RepliesAreTrue'
    BY <2>1 DEF WithinAttempts, RepliesAreTrue
  <2>4. outcome' = "Complete" => stored' /\ request' = "none"
    BY <1>3, <2>1
  <2>5. refused' <=> outcome' = "Deferred"
    BY <2>1
  <2>6. Undecided'
    BY <1>3, <2>1, <2>4, <2>5 DEF Undecided, InactiveEndsUpload
  <2>7. EndIsReal'
    BY <1>1, <1>3, <2>1 DEF EndIsReal, Ready, Reply
  <2>8. QED
    BY <2>2, <2>3, <2>6, <2>7 DEF UploadSound
<1>7. QED
  BY <1>5, <1>6 DEF Attempted

\* What a request that changes nothing leaves alone.
LEMMA ServiceNames ==
  /\ UNCHANGED service => UNCHANGED <<active, hasEnded, blob, stored, lateRequests, switches>>
  /\ UNCHANGED place => UNCHANGED <<readable, allowed>>
  BY DEF service, place

\* An upload starts anew, with nothing sent.
LEMMA BeginIsSound == ASSUME UploadSound, Begin PROVE UploadSound'
<1>1. OperatorTypeOK /\ RepliesAreTrue /\ EndIsReal /\ Undecided
  BY DEF UploadSound
<1>2. /\ OPERATOR_ATTEMPTS \in Nat \ {0} /\ UPLOAD_RETRIES \in Nat /\ MaxUploads \in Nat
      /\ OPERATOR_ATTEMPTS * (UPLOAD_RETRIES + 1) \in Nat
  BY OperatorUploadAssumption
<1>3. UNCHANGED <<active, hasEnded, gate, blob, stored, lateRequests, switches, readable, allowed>>
  BY ServiceNames DEF Begin
<1>4. /\ sent' \in [Requests -> Nat]
      /\ sent'["Init"] = 0 /\ sent'["Put"] = 0 /\ sent'["Complete"] = 0
  BY DEF Begin, Requests
<1>5. /\ request' = "Init" /\ attempt' = 1 /\ transfer' = 0 /\ wire' = Ready /\ refused' = FALSE
      /\ outcome' = outcome /\ outcome # "Complete" /\ uploads' \in 0..MaxUploads
  BY <1>1, <1>2 DEF Begin, OperatorTypeOK
<1>6. OperatorTypeOK'
  <2>1. /\ sent'["Put"] <= OPERATOR_ATTEMPTS * (UPLOAD_RETRIES + 1)
        /\ attempt' \in 1..OPERATOR_ATTEMPTS /\ transfer' \in 0..UPLOAD_RETRIES
    BY <1>2, <1>4, <1>5
  <2>2. sent'["Init"] <= OPERATOR_ATTEMPTS /\ sent'["Complete"] <= OPERATOR_ATTEMPTS
    BY <1>2, <1>4
  <2>3. QED
    BY <1>1, <1>3, <1>4, <1>5, <2>1, <2>2 DEF OperatorTypeOK, Requests
<1>7. WithinAttempts'
  BY <1>4, <1>5 DEF WithinAttempts
<1>8. RepliesAreTrue' /\ Undecided'
  BY <1>1, <1>3, <1>5 DEF RepliesAreTrue, Undecided, InactiveEndsUpload, Ready, Reply, Success
<1>9. EndIsReal'
  BY <1>1, <1>3, <1>5 DEF EndIsReal, Ready, Reply
<1>10. QED
  BY <1>6, <1>7, <1>8, <1>9 DEF UploadSound

\* A request goes out, and is counted.
LEMMA SendIsSound == ASSUME UploadSound, Sends PROVE UploadSound'
<1>1. OperatorTypeOK /\ WithinAttempts /\ RepliesAreTrue /\ EndIsReal /\ Undecided
  BY DEF UploadSound
<1>2. /\ request \in Requests /\ wire = Ready /\ wire' = Sent
      /\ sent' = [sent EXCEPT ![request] = @ + 1]
      /\ UNCHANGED <<active, hasEnded, gate, blob, stored, lateRequests, switches, readable, allowed,
                     request, attempt, transfer, outcome, uploads, refused>>
  BY <1>1, ServiceNames DEF Sends, OperatorTypeOK
<1>3. /\ sent["Init"] \in Nat /\ sent["Put"] \in Nat /\ sent["Complete"] \in Nat
      /\ attempt \in 1..OPERATOR_ATTEMPTS /\ transfer \in 0..UPLOAD_RETRIES
      /\ OPERATOR_ATTEMPTS \in Nat
  BY <1>1, OperatorUploadAssumption DEF OperatorTypeOK, Requests
<1>4. /\ sent' \in [Requests -> Nat] /\ sent'[request] = sent[request] + 1
      /\ \A r \in Requests \ {request} : sent'[r] = sent[r]
  BY <1>1, <1>2 DEF OperatorTypeOK, Requests
<1>5. wire' # Ready
  BY <1>2 DEF Ready, Sent, Reply
<1>6. CASE request = "Init"
  <2>1. sent'["Init"] <= attempt - 1 + 1 /\ sent'["Put"] = 0 /\ sent'["Complete"] = 0
    BY <1>1, <1>2, <1>3, <1>4, <1>6 DEF WithinAttempts, Requests
  <2>2. WithinAttempts'
    BY <1>2, <1>5, <1>6, <2>1 DEF WithinAttempts
  <2>3. sent'["Init"] <= OPERATOR_ATTEMPTS /\ UNCHANGED <<sent["Put"], sent["Complete"]>>
    BY <1>2, <1>3, <1>4, <1>6, <2>1 DEF Requests
  <2>4. OperatorTypeOK'
    BY <1>1, <1>2, <1>4, <2>3 DEF OperatorTypeOK
  <2>5. QED
    BY <1>1, <1>2, <1>6, <2>2, <2>4
    DEF UploadSound, RepliesAreTrue, EndIsReal, Undecided, InactiveEndsUpload, Sent, Reply, Success
<1>7. CASE request = "Put"
  <2>1. sent'["Put"] <= SendsBefore(attempt, transfer) + 1 /\ sent'["Complete"] = 0
    <3>1. sent["Put"] <= SendsBefore(attempt, transfer) /\ sent["Complete"] = 0
      BY <1>1, <1>2, <1>3, <1>7, TransfersFit DEF WithinAttempts
    <3>2. QED
      BY <1>2, <1>3, <1>4, <1>7, <3>1, TransfersFit DEF Requests
  <2>2. WithinAttempts'
    BY <1>2, <1>5, <1>7, <2>1 DEF WithinAttempts, SendsBefore
  <2>3. sent'["Put"] <= OPERATOR_ATTEMPTS * (UPLOAD_RETRIES + 1)
    <3>1. /\ SendsBefore(attempt, transfer) \in Nat
          /\ SendsBefore(attempt, transfer) + 1 <= OPERATOR_ATTEMPTS * (UPLOAD_RETRIES + 1)
      BY <1>3, TransfersFit
    <3>2. OPERATOR_ATTEMPTS * (UPLOAD_RETRIES + 1) \in Nat /\ sent'["Put"] \in Nat
      BY <1>4, OperatorUploadAssumption DEF Requests
    <3>3. QED
      BY <2>1, <3>1, <3>2
  <2>4. UNCHANGED <<sent["Init"], sent["Complete"]>>
    BY <1>4, <1>7 DEF Requests
  <2>5. OperatorTypeOK'
    BY <1>1, <1>2, <1>4, <2>3, <2>4 DEF OperatorTypeOK
  <2>6. QED
    BY <1>1, <1>2, <1>7, <2>2, <2>5
    DEF UploadSound, RepliesAreTrue, EndIsReal, Undecided, InactiveEndsUpload, Sent, Reply
<1>8. CASE request = "Complete"
  <2>1. sent'["Complete"] <= attempt - 1 + 1
    BY <1>1, <1>2, <1>3, <1>4, <1>8 DEF WithinAttempts, Requests
  <2>2. WithinAttempts'
    BY <1>2, <1>5, <1>8, <2>1 DEF WithinAttempts
  <2>3. sent'["Complete"] <= OPERATOR_ATTEMPTS /\ UNCHANGED <<sent["Put"], sent["Init"]>>
    BY <1>2, <1>3, <1>4, <1>8, <2>1 DEF Requests
  <2>4. OperatorTypeOK'
    BY <1>1, <1>2, <1>4, <2>3 DEF OperatorTypeOK
  <2>5. QED
    BY <1>1, <1>2, <1>8, <2>2, <2>4
    DEF UploadSound, RepliesAreTrue, EndIsReal, Undecided, InactiveEndsUpload, Sent, Reply, Success
<1>9. QED
  BY <1>2, <1>6, <1>7, <1>8 DEF Requests

\* The next request, or the end of the upload.
LEMMA SuccessIsSound == ASSUME UploadSound, Succeeds \/ CannotDecode PROVE UploadSound'
<1>1. OperatorTypeOK /\ WithinAttempts /\ RepliesAreTrue /\ EndIsReal /\ Undecided
  BY DEF UploadSound
<1>2. UNCHANGED <<active, hasEnded, gate, blob, stored, lateRequests, switches, readable, allowed,
                  uploads, sent, refused>>
  BY ServiceNames DEF Succeeds, CannotDecode
<1>3. wire # Ready /\ request # "none" /\ ~refused
  BY <1>1 DEF Succeeds, CannotDecode, Success, Ready, Reply, RepliesAreTrue, Undecided,
              InactiveEndsUpload
<1>4. /\ 1 \in 1..OPERATOR_ATTEMPTS /\ 0 \in 0..UPLOAD_RETRIES /\ SendsBefore(1, 0) = 0
      /\ UPLOAD_RETRIES \in Nat
  BY OperatorUploadAssumption DEF SendsBefore
<1>5. CASE /\ request \in {"Init", "Put"} /\ UNCHANGED outcome
           /\ GoOn(IF request = "Init" THEN "Put" ELSE "Complete")
  <2>1. /\ request' = IF request = "Init" THEN "Put" ELSE "Complete"
        /\ attempt' = 1 /\ transfer' = 0 /\ wire' = Ready /\ outcome' = outcome
    BY <1>5 DEF GoOn
  <2>2. OperatorTypeOK'
    BY <1>1, <1>2, <1>4, <1>5, <2>1 DEF OperatorTypeOK, Requests
  <2>3. WithinAttempts'
    <3>1. CASE request = "Init"
      BY <1>1, <1>2, <1>4, <2>1, <3>1 DEF WithinAttempts
    <3>2. CASE request = "Put"
      BY <1>1, <1>2, <1>5, <2>1, <3>2 DEF WithinAttempts
    <3>3. QED
      BY <1>5, <3>1, <3>2
  <2>4. RepliesAreTrue' /\ Undecided'
    BY <1>1, <1>2, <1>3, <1>5, <2>1
    DEF RepliesAreTrue, Undecided, InactiveEndsUpload, Ready, Reply, Success
  <2>5. EndIsReal'
    BY <1>1, <1>2, <2>1 DEF EndIsReal, Ready, Reply
  <2>6. QED
    BY <2>2, <2>3, <2>4, <2>5 DEF UploadSound
<1>6. CASE (Tell("Complete") /\ stored) \/ Tell("Failed")
  <2>1. /\ request' = "none" /\ wire' = Ready /\ UNCHANGED <<attempt, transfer>>
        /\ outcome' \in {"Complete", "Failed"} /\ (outcome' = "Complete" => stored)
    BY <1>6 DEF Tell
  <2>2. OperatorTypeOK'
    BY <1>1, <1>2, <2>1 DEF OperatorTypeOK
  <2>3. WithinAttempts' /\ RepliesAreTrue'
    BY <2>1 DEF WithinAttempts, RepliesAreTrue
  <2>4. Undecided'
    BY <1>2, <1>3, <2>1 DEF Undecided, InactiveEndsUpload
  <2>5. EndIsReal'
    BY <1>1, <1>2, <2>1 DEF EndIsReal, Ready, Reply
  <2>6. QED
    BY <2>2, <2>3, <2>4, <2>5 DEF UploadSound
<1>7. CASE Succeeds
  <2>1. request \in Requests
    BY <1>1, <1>3 DEF OperatorTypeOK
  <2>2. request = "Complete" => Tell("Complete") /\ stored
    BY <1>1, <1>7 DEF Succeeds, RepliesAreTrue
  <2>3. QED
    BY <1>5, <1>6, <1>7, <2>1, <2>2 DEF Succeeds, Requests
<1>8. CASE CannotDecode
  BY <1>6, <1>8 DEF CannotDecode
<1>9. QED
  BY <1>7, <1>8

\* put_recording transfers again, within the attempt.
LEMMA TransferIsSound == ASSUME UploadSound, TransfersAgain PROVE UploadSound'
<1>1. OperatorTypeOK /\ WithinAttempts /\ RepliesAreTrue /\ EndIsReal /\ Undecided
  BY DEF UploadSound
<1>2. /\ request = "Put" /\ transfer' = transfer + 1 /\ wire' = Ready
      /\ UNCHANGED <<active, hasEnded, gate, blob, stored, lateRequests, switches, readable, allowed,
                     request, attempt, outcome, uploads, sent, refused>>
  BY ServiceNames DEF TransfersAgain
<1>3. transfer' \in 0..UPLOAD_RETRIES
  BY <1>1, OperatorUploadAssumption DEF OperatorTypeOK, TransfersAgain
<1>4. OperatorTypeOK'
  BY <1>1, <1>2, <1>3 DEF OperatorTypeOK
<1>5. WithinAttempts'
  <2>1. /\ SendsBefore(attempt, transfer + 1) = SendsBefore(attempt, transfer) + 1
        /\ SendsBefore(attempt, transfer) \in Nat /\ sent["Put"] \in Nat
    BY <1>1, TransfersFit DEF OperatorTypeOK, Requests
  <2>2. sent["Put"] <= SendsBefore(attempt, transfer) + 1 /\ sent["Complete"] = 0
    BY <1>1, <1>2, <2>1 DEF WithinAttempts
  <2>3. QED
    BY <1>2, <2>1, <2>2 DEF WithinAttempts
<1>6. RepliesAreTrue' /\ Undecided'
  BY <1>1, <1>2 DEF RepliesAreTrue, Undecided, InactiveEndsUpload, Ready, Reply
<1>7. EndIsReal'
  BY <1>1, <1>2 DEF EndIsReal, Ready, Reply
<1>8. QED
  BY <1>4, <1>5, <1>6, <1>7 DEF UploadSound

\* An attempt fails: at the gate or before anything was sent, in the transfer, or with an
\* error reply.
LEMMA FailureIsSound ==
    ASSUME UploadSound, NotAdmitted \/ CannotTransfer \/ TransferFails \/ RequestFails
    PROVE  UploadSound'
<1>1. OperatorTypeOK /\ RepliesAreTrue /\ EndIsReal /\ Undecided
  BY DEF UploadSound
<1>2. /\ ErrorOf(wire) = "DuplicateRecording" => wire.code = "message_already_exists"
      /\ ErrorOf(wire) = "InstallationInactive" <=> wire.code = "installation_inactive"
  BY <1>1, RepliesKnown DEF OperatorTypeOK
<1>3. request # "none" /\ UNCHANGED <<service, place, uploads, sent>>
  BY DEF NotAdmitted, CannotTransfer, TransferFails, RequestFails
<1>4. refused \in BOOLEAN /\ ~refused
  BY <1>1, <1>3 DEF OperatorTypeOK, Undecided, InactiveEndsUpload
<1>5. gate \in {"Open", "Between", "Unknown"} /\ (gate = "Between" => hasEnded)
  BY <1>1 DEF OperatorTypeOK, EndIsReal
<1>6. CASE NotAdmitted
  <2>1. /\ Attempted(IF gate = "Between" THEN "InstallationInactive" ELSE "Transport", 0)
        /\ refused' = (refused \/ gate = "Between") /\ gate' = gate
    BY <1>6 DEF NotAdmitted
  <2>2. CASE gate = "Between"
    <3>1. Attempted("InstallationInactive", 0) /\ refused' = TRUE
      BY <1>4, <2>1, <2>2
    <3>2. QED
      BY <1>3, <1>5, <2>1, <2>2, <3>1, AttemptIsSound
  <2>3. CASE gate # "Between"
    <3>1. Attempted("Transport", 0) /\ refused' = FALSE
      BY <1>4, <2>1, <2>3
    <3>2. QED
      BY <1>3, <1>5, <2>1, <2>3, <3>1, AttemptIsSound
  <2>4. QED
    BY <2>2, <2>3
<1>7. CASE CannotTransfer
  <2>1. Attempted("Transport", 0) /\ refused' = refused /\ gate' = gate
    BY <1>7 DEF CannotTransfer
  <2>2. QED
    BY <1>3, <1>4, <1>5, <2>1, AttemptIsSound
<1>8. CASE TransferFails
  <2>1. /\ Attempted(TransferError(wire), wire.status) /\ refused' = refused
        /\ request = "Put" /\ gate' = gate
    BY <1>8 DEF TransferFails
  <2>2. TransferError(wire) # "InstallationInactive"
    BY <1>1, <1>2, <2>1 DEF TransferError, RepliesAreTrue
  <2>3. QED
    BY <1>3, <1>4, <1>5, <2>1, <2>2, AttemptIsSound
<1>9. CASE RequestFails
  <2>1. /\ Attempted(ErrorOf(wire), wire.status)
        /\ refused' = (refused \/ wire.code = "installation_inactive")
        /\ gate' = IF wire.code = "installation_inactive" THEN "Between" ELSE gate
    BY <1>9 DEF RequestFails
  <2>2. ErrorOf(wire) = "DuplicateRecording" /\ request = "Init" => stored
    BY <1>1, <1>2 DEF RepliesAreTrue
  <2>3. refused' \in BOOLEAN /\ (refused' <=> ErrorOf(wire) = "InstallationInactive")
    BY <1>2, <1>4, <2>1
  <2>4. /\ gate' \in {"Open", "Between", "Unknown"} /\ (gate' = "Between" => hasEnded)
        /\ ErrorOf(wire) = "InstallationInactive" => hasEnded
    BY <1>1, <1>2, <1>5, <2>1 DEF EndIsReal
  <2>5. QED
    BY <1>3, <2>1, <2>2, <2>3, <2>4, AttemptIsSound
<1>10. QED
  BY <1>6, <1>7, <1>8, <1>9

\* What the services do never takes a stored answer away, and their replies are true.
LEMMA ServesTruly ==
    ASSUME NEW r \in Requests, NEW reply, stored \in BOOLEAN, blob \in BOOLEAN,
           reply \in Replies(r), Serves(r, reply)
    PROVE  /\ stored' \in BOOLEAN /\ blob' \in BOOLEAN /\ (stored => stored')
           /\ r = "Complete" /\ reply.status \in Success => stored'
           /\ r = "Init" /\ reply.code = "message_already_exists" => stored'
           /\ r = "Put" => reply.code # "installation_inactive"
           /\ reply.code = "installation_inactive" => ~active
<1>1. \A status \in Failures : status \notin Success
  BY OperatorUploadAssumption DEF Success
<1>2. 409 \notin Success
  BY DEF Success
<1>3. /\ stored' = stored \/ stored' = TRUE
      /\ blob' = blob \/ blob' = TRUE
  BY DEF Serves
<1>4. r = "Complete" /\ reply.status \in Success => stored'
  BY <1>1, <1>2 DEF Serves, Reply
<1>5. r = "Init" /\ reply.code = "message_already_exists" => stored'
  BY DEF Serves, Reply
<1>6. r = "Put" => reply.code # "installation_inactive"
  BY DEF Serves, Reply
<1>7. stored' \in BOOLEAN /\ blob' \in BOOLEAN /\ (stored => stored')
  <2>1. stored' \in BOOLEAN /\ blob' \in BOOLEAN
    BY <1>3
  <2>2. CASE stored' = stored
    BY <2>1, <2>2
  <2>3. CASE stored' = TRUE
    <3>1. stored'
      BY <2>3
    <3>2. QED
      BY <2>1, <3>1
  <2>4. QED
    BY <1>3, <2>2, <2>3
<1>8. reply.code = "installation_inactive" => ~active
  BY DEF Serves, Reply
<1>9. QED
  BY <1>4, <1>5, <1>6, <1>7, <1>8

\* The services: a request is answered, lost, or carried out after it was given up;
\* the file and the gate move.
LEMMA ServiceIsSound ==
    ASSUME UploadSound, Service \/ FileMoves \/ GateMoves PROVE UploadSound'
<1>1. OperatorTypeOK /\ WithinAttempts /\ RepliesAreTrue /\ EndIsReal /\ Undecided
  BY DEF UploadSound
<1>2. CASE /\ stored' \in BOOLEAN /\ blob' \in BOOLEAN /\ active' \in BOOLEAN
           /\ (stored => stored')
           /\ lateRequests' \subseteq Requests /\ switches' \in 0..MaxSwitches
           /\ readable' \in BOOLEAN /\ gate' \in {"Open", "Between", "Unknown"}
           /\ hasEnded' \in BOOLEAN /\ (hasEnded => hasEnded') /\ (~active' => hasEnded')
           /\ (gate' = "Between" => hasEnded')
           /\ UNCHANGED <<allowed, request, attempt, transfer, wire, outcome, uploads, sent, refused>>
  <2>1. OperatorTypeOK'
    BY <1>1, <1>2 DEF OperatorTypeOK
  <2>2. WithinAttempts'
    BY <1>1, <1>2 DEF WithinAttempts
  <2>3. RepliesAreTrue' /\ Undecided'
    BY <1>1, <1>2 DEF RepliesAreTrue, Undecided, InactiveEndsUpload
  <2>4. EndIsReal'
    BY <1>1, <1>2 DEF EndIsReal
  <2>5. QED
    BY <2>1, <2>2, <2>3, <2>4 DEF UploadSound
<1>3. CASE /\ wire = Sent /\ wire' # Ready /\ wire' \in {Lost} \cup Replies(request)
           /\ stored' \in BOOLEAN /\ blob' \in BOOLEAN /\ (stored => stored')
           /\ lateRequests' \subseteq Requests /\ allowed' \in BOOLEAN
           /\ request = "Complete" /\ wire'.status \in Success => stored'
           /\ request = "Init" /\ wire'.code = "message_already_exists" => stored'
           /\ request = "Put" => wire'.code # "installation_inactive"
           /\ wire'.code = "installation_inactive" => ~active
           /\ UNCHANGED <<active, hasEnded, gate, switches, readable, request, attempt, transfer,
                          outcome, uploads, sent, refused>>
  <2>1. wire # Ready /\ request # "none"
    BY <1>1, <1>3 DEF Ready, Sent, Reply, RepliesAreTrue
  <2>2. OperatorTypeOK'
    BY <1>1, <1>3 DEF OperatorTypeOK, Replies
  <2>3. WithinAttempts'
    BY <1>1, <1>3, <2>1 DEF WithinAttempts, SendsBefore
  <2>4. RepliesAreTrue' /\ Undecided'
    BY <1>1, <1>3, <2>1 DEF RepliesAreTrue, Undecided, InactiveEndsUpload
  <2>5. EndIsReal'
    BY <1>1, <1>3 DEF EndIsReal
  <2>6. QED
    BY <2>2, <2>3, <2>4, <2>5 DEF UploadSound
<1>4. CASE FileMoves
  <2>1. readable' \in BOOLEAN
    BY <1>1, <1>4 DEF FileMoves, OperatorTypeOK
  <2>2. UNCHANGED <<active, hasEnded, gate, blob, stored, lateRequests, switches, allowed, request,
                    attempt, transfer, wire, outcome, uploads, sent, refused>>
    BY <1>4, ServiceNames DEF FileMoves
  <2>3. QED
    BY <1>1, <1>2, <2>1, <2>2 DEF OperatorTypeOK, EndIsReal
<1>5. CASE Switches
  <2>1. switches' \in 0..MaxSwitches /\ active' \in BOOLEAN /\ hasEnded' = TRUE
    BY <1>1, <1>5, OperatorUploadAssumption DEF Switches, OperatorTypeOK
  <2>2. QED
    BY <1>1, <1>2, <1>5, <2>1, ServiceNames DEF Switches, OperatorTypeOK, EndIsReal
<1>6. CASE TimesOut
  <2>1. wire = Sent /\ wire' = Lost
    BY <1>6 DEF TimesOut
  <2>2. request \in Requests /\ wire'.status \notin Success /\ wire'.code = "lost" /\ wire' # Ready
    BY <1>1, <2>1 DEF OperatorTypeOK, RepliesAreTrue, Ready, Sent, Lost, Reply, Success
  <2>3. lateRequests' \subseteq Requests
    BY <1>1, <1>6, <2>2 DEF TimesOut, OperatorTypeOK
  <2>4. QED
    BY <1>1, <1>3, <1>6, <2>1, <2>2, <2>3, ServiceNames DEF TimesOut, OperatorTypeOK
<1>7. CASE Answers
  <2>1. PICK reply \in Replies(request) : Serves(request, reply) /\ wire' \in {reply, Lost}
    BY <1>7 DEF Answers
  <2>2. wire = Sent /\ request \in Requests
    BY <1>1, <1>7 DEF Answers, OperatorTypeOK, RepliesAreTrue, Ready, Sent, Reply
  <2>3. /\ stored' \in BOOLEAN /\ blob' \in BOOLEAN /\ (stored => stored')
        /\ request = "Complete" /\ reply.status \in Success => stored'
        /\ request = "Init" /\ reply.code = "message_already_exists" => stored'
        /\ request = "Put" => reply.code # "installation_inactive"
        /\ reply.code = "installation_inactive" => ~active
    BY <1>1, <2>1, <2>2, ServesTruly DEF OperatorTypeOK
  <2>4. Lost.status \notin Success /\ Lost.code = "lost" /\ Lost # Ready
    BY DEF Lost, Ready, Reply, Success
  <2>5. reply # Ready
    BY OperatorUploadAssumption DEF Replies, Ready, Reply
  <2>6. allowed' \in BOOLEAN
    BY <1>1, <1>7 DEF Answers, OperatorTypeOK
  <2>7. QED
    BY <1>1, <1>3, <1>7, <2>1, <2>2, <2>3, <2>4, <2>5, <2>6, ServiceNames
    DEF Answers, OperatorTypeOK
<1>8. CASE \E r \in Requests : ServedLate(r)
  <2>1. PICK r \in Requests : ServedLate(r)
    BY <1>8
  <2>2. PICK reply \in Replies(r) : Serves(r, reply)
    BY <2>1 DEF ServedLate
  <2>3. stored' \in BOOLEAN /\ blob' \in BOOLEAN /\ (stored => stored')
    BY <1>1, <2>2, ServesTruly DEF OperatorTypeOK
  <2>4. QED
    BY <1>1, <1>2, <2>1, <2>3, ServiceNames DEF ServedLate, OperatorTypeOK, EndIsReal
<1>9. CASE GateMoves
  <2>1. gate' \in {"Open", "Between", "Unknown"} /\ (gate' = "Between" => hasEnded)
    BY <1>9 DEF GateMoves
  <2>2. UNCHANGED <<active, hasEnded, blob, stored, lateRequests, switches, readable, allowed, request,
                    attempt, transfer, wire, outcome, uploads, sent, refused>>
    BY <1>9, ServiceNames DEF GateMoves
  <2>3. QED
    BY <1>1, <1>2, <2>1, <2>2 DEF OperatorTypeOK, EndIsReal
<1>10. QED
  BY <1>4, <1>5, <1>6, <1>7, <1>8, <1>9 DEF Service

\* Every step of an upload and of the operator.
LEMMA UploadStep == UploadSound /\ [OperatorNext]_operatorVars => UploadSound'
<1> SUFFICES ASSUME UploadSound, [OperatorNext]_operatorVars PROVE UploadSound'
  OBVIOUS
<1>1. CASE UNCHANGED operatorVars
  BY <1>1 DEF operatorVars, service, place, UploadSound, OperatorTypeOK, WithinAttempts,
              RepliesAreTrue, EndIsReal, Undecided, InactiveEndsUpload, SendsBefore
<1>2. CASE OperatorNext
  BY <1>2, BeginIsSound, SendIsSound, SuccessIsSound, TransferIsSound, FailureIsSound,
     ServiceIsSound DEF OperatorNext, Booth
<1>3. QED
  BY <1>1, <1>2

\* Only an answer that the operator has counts as uploaded, whatever is lost, late or in
\* conflict; no request is sent oftener than its attempts allow.  An upload that is told, by
\* the operator or by the gate before an attempt, that the exhibition has ended ends, and is
\* deferred; no other is (retry_operator, put_recording, upload_recording, ExhibitionOperator).
THEOREM OperatorHasWhatIsLetGo == OperatorSpec => []OperatorInv
<1>1. UploadSound => OperatorInv
  BY DEF UploadSound, Undecided, OperatorInv, CompleteIsStored
<1>2. QED
  BY <1>1, InitUpload, UploadStep, PTL DEF OperatorSpec

\* An upload is told something only while it is under way, and Complete only once.
Told ==
    \/ outcome' = outcome /\ stored' \in {stored, TRUE}
    \/ outcome # "Complete" /\ stored' = stored

\* What a step may do to the outcome and to what the operator has.
LEMMA OutcomeOrStored == UploadSound /\ [OperatorNext]_operatorVars => Told
<1> SUFFICES ASSUME UploadSound, [OperatorNext]_operatorVars PROVE Told
  OBVIOUS
<1>1. CASE Begin \/ FileMoves \/ GateMoves \/ Sends \/ TransfersAgain
  BY <1>1, ServiceNames DEF Begin, FileMoves, GateMoves, Sends, TransfersAgain, Told
<1>2. CASE NotAdmitted \/ CannotTransfer \/ Succeeds \/ CannotDecode \/ TransferFails \/ RequestFails
  <2>1. stored' = stored
    BY <1>2, ServiceNames
    DEF NotAdmitted, CannotTransfer, Succeeds, CannotDecode, TransferFails, RequestFails
  <2>2. request # "none"
    BY <1>2 DEF UploadSound, RepliesAreTrue, NotAdmitted, CannotTransfer, Succeeds, CannotDecode,
                TransferFails, RequestFails, Ready, Reply, Success
  <2>3. outcome # "Complete"
    BY <2>2 DEF UploadSound, Undecided
  <2>4. QED
    BY <2>1, <2>3 DEF Told
<1>3. CASE Service
  <2>1. \A r, reply : Serves(r, reply) => stored' \in {stored, TRUE}
    BY DEF Serves
  <2>2. QED
    BY <1>3, <2>1, ServiceNames DEF Service, Answers, TimesOut, Switches, ServedLate, Told
<1>4. CASE UNCHANGED operatorVars
  BY <1>4, ServiceNames DEF operatorVars, Told
<1>5. QED
  BY <1>1, <1>2, <1>3, <1>4 DEF OperatorNext, Booth

\* Seen from the spool an upload keeps what the store promises: the recording is let go
\* only when the operator has it, through every loss, retry and conflict
\* (upload_recording; the abstract AnswerStore).
THEOREM UploadKeepsTheAnswer == OperatorSpec => KeepsUntilDelivered
<1>1. OperatorInit => Store!Init
  BY DEF OperatorInit, Store!Init
<1>2. ASSUME UploadSound, UploadSound', [OperatorNext]_operatorVars
      PROVE  [Store!Next]_(Store!vars)
  <2> DEFINE kept == IF outcome = "Complete" THEN {} ELSE {"recording"}
             delivered == IF stored THEN {"recording"} ELSE {}
  <2>1. stored \in BOOLEAN /\ (outcome' = "Complete" => stored')
    BY <1>2 DEF UploadSound, OperatorTypeOK, Undecided
  <2>2. CASE kept' = kept /\ delivered' = delivered
    BY <2>2 DEF Store!vars
  <2>3. CASE kept' = kept /\ delivered' = delivered \cup {"recording"}
    BY <2>3 DEF Store!Next, Store!Deliver
  <2>4. CASE kept' = kept \ {"recording"} /\ delivered' = delivered /\ "recording" \in delivered
    BY <2>4 DEF Store!Next, Store!Forget
  <2>5. CASE outcome' = outcome /\ stored' = stored
    BY <2>2, <2>5
  <2>6. CASE outcome' = outcome /\ stored' = TRUE
    BY <2>2, <2>3, <2>6
  <2>7. CASE outcome # "Complete" /\ stored' = stored
    <3>1. CASE outcome' = "Complete"
      BY <2>1, <2>4, <2>7, <3>1
    <3>2. CASE outcome' # "Complete"
      BY <2>2, <2>7, <3>2
    <3>3. QED
      BY <3>1, <3>2
  <2>8. Told
    BY <1>2, OutcomeOrStored
  <2>9. \/ outcome' = outcome /\ stored' = stored
        \/ outcome' = outcome /\ stored' = TRUE
        \/ outcome # "Complete" /\ stored' = stored
    BY <2>8 DEF Told
  <2>10. QED
    BY <2>5, <2>6, <2>7, <2>9
<1>3. QED
  BY <1>1, <1>2, InitUpload, UploadStep, PTL DEF OperatorSpec, KeepsUntilDelivered, Store!Spec

-----------------------------------------------------------------------------
(* The forwarder of events.  Events are numbered as they are published, so *)
(* "earlier" is "less": the buffer and every file hold rising numbers, and *)
(* everything that waits in files is earlier than what only the buffer has. *)

Rising(s) == \A i, j \in 1..Len(s) : i < j => s[i] < s[j]

\* The events of a list of chunks.
Members(list) == UNION {Range(list[i]) : i \in 1..Len(list)}

\* A list of chunks that is to be written in order.
InOrder(list) ==
    /\ \A i \in 1..Len(list) : list[i] # <<>> /\ Rising(list[i])
    /\ \A i, j \in 1..Len(list) :
          i < j => \A a \in Range(list[i]), b \in Range(list[j]) : a < b

\* The events received that nothing but the buffer holds, and those that only the files hold.
Fresh == (1..pulled) \ (Spooled \cup acked \cup gone)
Pending == Spooled \ (acked \cup gone)

NotAfter(f, g) == f = g \/ Before(f, g)

\* Of two events still to be delivered, the earlier one is first found in no later file.
FirstsInOrder ==
    \A d, e \in Pending : d < e =>
        \A g \in spool : e \in Events(g) => \E h \in spool : d \in Events(h) /\ NotAfter(h, g)

FreshIsLater == \A x \in Fresh, e \in Pending : e < x

\* Numbers tell files apart, no part is longer than a request may be, and a file beside the
\* parts of its number is the one they were split from, whose removal failed or is due.
FilesSound ==
    /\ \A f, g \in spool : f.sequence = g.sequence /\ f.part = g.part => f = g
    /\ \A f \in spool : Rising(f.events) /\ f.events # <<>>
    /\ \A f \in spool : f.part # 0 => Len(f.events) <= BatchMax
    /\ \A f, p \in spool : (f.part = 0 /\ p.part # 0 /\ f.sequence = p.sequence) => p \in Parts(f)

\* What the forwarder does with the oldest file.
AtFile ==
    /\ task.at \in {"Replay", "Unlink", "Split", "Remove"} => spool # {}
    /\ (task.at = "Unlink" \/ (task.at = "Replay" /\ task.served)) => Events(oldest_batch) \subseteq acked
    /\ task.at \in {"Split", "Remove"} => Len(oldest_batch.events) > BatchMax
    /\ task.at = "Remove" => Parts(oldest_batch) \subseteq spool

\* What the operator took is acknowledged before the forwarder hears of it.
AtFlush ==
    task.at = "Flush" /\ task.served => Range(SentEvents) \subseteq acked

\* The chunks to be written cover what nothing else holds, unless the detached write has it, and
\* then the rest is later.
Writing ==
    /\ detached \in Seq(Seq(Event)) /\ InOrder(task.todo) /\ InOrder(detached)
    /\ Members(task.todo) \subseteq 1..pulled /\ Members(detached) \subseteq 1..pulled
    /\ task.at = "Spill" => Fresh \subseteq Members(task.todo)
    /\ \A x \in Fresh : x \in Members(detached) \/ \A e \in Members(detached) : e < x

\* The stages of a shutdown: the queue is drained before the last flush, and nothing is left in
\* memory alone when the process is done.
Ending ==
    /\ (task.final \/ task.at \in {"Drain", "Done"}) => shutdown
    /\ task.final => task.at \in {"Flush", "Spill"}
    /\ (task.final \/ task.at = "Done") => pulled = published
    /\ task.at = "Done" => Fresh = {}
    /\ detached # <<>> => task.final \/ task.at \in {"Drain", "Done"}
    /\ shutdown \/ task.at = "Down" => restarts < MaxRestarts
    /\ task.at = "Down" => pulled = published /\ batch = <<>> /\ Fresh = {} /\ detached = <<>>
    /\ task.why = "Final" => task.final
    /\ task.why = "Full" => ~task.final

FileTyped(f) == f.sequence \in 1..MaxSequence /\ f.part \in Nat /\ f.events \in Seq(Event)

Files == FirstsInOrder /\ FreshIsLater /\ FilesSound /\ \A f \in spool : FileTyped(f)

\* Nothing is held that was not received.
Numbers ==
    /\ published \in 0..MaxEvents /\ pulled \in 0..published /\ published - pulled <= BusMax
    /\ restarts \in 0..MaxRestarts /\ boot \in 0..published /\ shutdown \in BOOLEAN
    /\ Spooled \subseteq 1..pulled /\ acked \subseteq 1..pulled /\ gone \subseteq 1..pulled

\* What only the process has is in its buffer.
Buffer ==
    /\ batch \in Seq(Event) /\ Len(batch) <= BufferMax
    /\ Rising(batch) /\ Range(batch) \subseteq 1..pulled /\ Fresh \subseteq Range(batch)

Reasons == {"None", "Inactive", "Full", "Final"}

AtWork ==
    /\ task \in [at : At, served : BOOLEAN, final : BOOLEAN, why : Reasons, todo : Seq(Seq(Event))]
    /\ task.why # "None" <=> task.at = "Spill"
    /\ AtFile /\ AtFlush

ForwarderSound == Files /\ Numbers /\ Buffer /\ AtWork /\ Writing /\ Ending

----------------------------------------------------------------------------
(* Numbers and sequences *)

\* Every set of naturals that is not empty has a least element.
LEMMA LeastNumber ==
    ASSUME NEW T \in SUBSET Nat, T # {}
    PROVE  \E m \in T : \A k \in T : m <= k
<1> DEFINE Less == {ss \in Nat \X Nat : ss[1] < ss[2]}
<1>1. IsWellFoundedOn(Less, Nat)
  BY NatLessThanWellFounded DEF OpToRel
<1>2. PICK m \in T : \A k \in T : ~ (<<k, m>> \in Less)
  <2> HIDE DEF Less
  <2> QED
    BY <1>1, WFMin
<1>3. \A k \in T : ~(k < m) /\ k \in Nat /\ m \in Nat
  BY <1>2
<1> QED
  BY <1>3

\* Division, rounded up.
LEMMA RoundedUp ==
    ASSUME NEW l \in Nat, NEW n \in Nat \ {0}
    PROVE  LET m == (l + n - 1) \div n IN
           m \in Nat /\ l <= m * n /\ (m # 0 => (m - 1) * n < l)
<1> DEFINE m == (l + n - 1) \div n
<1>1. l + n - 1 \in Nat
  OBVIOUS
<1>2. m \in Nat
  BY <1>1
<1>3. m * n <= l + n - 1 /\ l + n - 1 < (m + 1) * n
  BY <1>1
<1>4. (m + 1) * n = m * n + n /\ (m - 1) * n = m * n - n
  BY <1>2
<1> QED
  BY <1>2, <1>3, <1>4

\* Products of naturals, for chunks of equal length.
LEMMA Products ==
    ASSUME NEW a \in Nat, NEW b \in Nat, NEW n \in Nat \ {0}
    PROVE  /\ a <= b => a * n <= b * n
           /\ a * n < b * n => a < b
           /\ a * n \in Nat /\ (a + 1) * n = a * n + n
OBVIOUS

\* The pieces of a sequence: where they begin and end.
LEMMA PieceBounds ==
    ASSUME NEW s \in Seq(Event), NEW n \in Nat \ {0}
    PROVE  LET c == Chunks(s, n) IN
           /\ Len(c) \in Nat /\ c \in Seq(Seq(Event)) /\ DOMAIN c = 1..Len(c)
           /\ Len(c) = (Len(s) + n - 1) \div n
           /\ \A i \in 1..Len(c) :
                \E first, last \in Nat :
                  /\ first = (i - 1) * n + 1 /\ last = (IF i * n < Len(s) THEN i * n ELSE Len(s))
                  /\ first <= last /\ last <= Len(s) /\ last <= i * n
                  /\ Len(c[i]) = last - first + 1 /\ Len(c[i]) <= n
                  /\ c[i] \in Seq(Event)
                  /\ \A k \in 1..Len(c[i]) : c[i][k] = s[first + k - 1]
<1> DEFINE m == (Len(s) + n - 1) \div n
           at(i) == SubSeq(s, (i - 1) * n + 1, IF i * n < Len(s) THEN i * n ELSE Len(s))
<1>1. Len(s) \in Nat /\ m \in Nat /\ Len(s) <= m * n /\ (m # 0 => (m - 1) * n < Len(s))
  BY RoundedUp
<1>2. Chunks(s, n) = [i \in 1..m |-> at(i)]
  BY DEF Chunks
<1>3. ASSUME NEW i \in 1..m
      PROVE  \E first, last \in Nat :
                  /\ first = (i - 1) * n + 1 /\ last = (IF i * n < Len(s) THEN i * n ELSE Len(s))
                  /\ first <= last /\ last <= Len(s) /\ last <= i * n
                  /\ Len(at(i)) = last - first + 1 /\ Len(at(i)) <= n
                  /\ at(i) \in Seq(Event)
                  /\ \A k \in 1..Len(at(i)) : at(i)[k] = s[first + k - 1]
  <2> DEFINE first == (i - 1) * n + 1
             last == IF i * n < Len(s) THEN i * n ELSE Len(s)
  <2>1. i - 1 \in Nat /\ m - 1 \in Nat /\ m # 0 /\ i \in Nat
    BY <1>1
  <2>2. (i - 1) * n <= (m - 1) * n /\ (i - 1) * n \in Nat /\ i * n = (i - 1) * n + n
    BY <2>1, Products
  <2>3. first \in Nat /\ last \in Nat /\ first <= last /\ last <= Len(s) /\ last <= i * n
        /\ last - first + 1 <= n
    BY <1>1, <2>1, <2>2
  <2>4. \A j \in first..last : s[j] \in Event
    <3> SUFFICES ASSUME NEW j \in first..last PROVE s[j] \in Event
      OBVIOUS
    <3>1. j \in 1..Len(s)
      BY <1>1, <2>2, <2>3
    <3> HIDE DEF first, last
    <3> QED
      BY <3>1, ElementOfSeq
  <2>5. at(i) = SubSeq(s, first, last)
    OBVIOUS
  <2>6. /\ SubSeq(s, first, last) \in Seq(Event)
        /\ Len(SubSeq(s, first, last)) = last - first + 1
        /\ \A k \in 1..(last - first + 1) : SubSeq(s, first, last)[k] = s[first + k - 1]
    <3> HIDE DEF first, last
    <3>1. first \in Int /\ last \in Int /\ first <= last
      BY <2>3
    <3>2. /\ SubSeq(s, first, last) \in Seq(Event)
          /\ Len(SubSeq(s, first, last)) = (IF first <= last THEN last - first + 1 ELSE 0)
          /\ \A k \in 1..(last - first + 1) : SubSeq(s, first, last)[k] = s[first + k - 1]
      BY <2>4, <3>1, SubSeqProperties
    <3> QED
      BY <3>1, <3>2
  <2> QED
    BY <2>3, <2>5, <2>6
<1>4. ASSUME NEW i \in 1..m  PROVE at(i) \in Seq(Event)
  BY <1>3
<1>5. Chunks(s, n) \in [1..m -> Seq(Event)]
  <2> HIDE DEF at, m
  <2> QED
    BY <1>2, <1>4
<1>6. Chunks(s, n) \in Seq(Seq(Event)) /\ Len(Chunks(s, n)) = m /\ DOMAIN Chunks(s, n) = 1..m
  <2> HIDE DEF m
  <2>1. \E k \in Nat : Chunks(s, n) \in [1..k -> Seq(Event)]
    BY <1>1, <1>5
  <2>2. Chunks(s, n) \in Seq(Seq(Event))
    BY <2>1, SeqDef
  <2>3. DOMAIN Chunks(s, n) = 1..m
    BY <1>5
  <2>4. Len(Chunks(s, n)) \in Nat /\ DOMAIN Chunks(s, n) = 1..Len(Chunks(s, n))
    BY <2>2, LenProperties
  <2> QED
    BY <1>1, <2>2, <2>3, <2>4
<1>7. \A i \in 1..m : Chunks(s, n)[i] = at(i)
  <2> HIDE DEF at, m
  <2> QED
    BY <1>2
<1> HIDE DEF at, m
<1>8. m = (Len(s) + n - 1) \div n
  BY DEF m
<1>9. ASSUME NEW i \in 1..m
      PROVE  \E first, last \in Nat :
                  /\ first = (i - 1) * n + 1 /\ last = (IF i * n < Len(s) THEN i * n ELSE Len(s))
                  /\ first <= last /\ last <= Len(s) /\ last <= i * n
                  /\ Len(Chunks(s, n)[i]) = last - first + 1 /\ Len(Chunks(s, n)[i]) <= n
                  /\ Chunks(s, n)[i] \in Seq(Event)
                  /\ \A k \in 1..Len(Chunks(s, n)[i]) : Chunks(s, n)[i][k] = s[first + k - 1]
  <2>1. Chunks(s, n)[i] = at(i)
    BY <1>7
  <2> QED
    BY <1>3, <2>1
<1>10. Len(Chunks(s, n)) \in Nat
  BY <1>1, <1>6
<1> QED
  BY <1>6, <1>8, <1>9, <1>10
\* The pieces of a rising sequence are in order, and hold what it holds.
LEMMA ChunksSound ==
    ASSUME NEW s \in Seq(Event), Rising(s), NEW n \in Nat \ {0}
    PROVE  /\ Chunks(s, n) \in Seq(Seq(Event)) /\ InOrder(Chunks(s, n))
           /\ Members(Chunks(s, n)) = Range(s)
           /\ \A i \in 1..Len(Chunks(s, n)) : Len(Chunks(s, n)[i]) <= n
<1> DEFINE c == Chunks(s, n)
<1>1. /\ Len(c) \in Nat /\ c \in Seq(Seq(Event)) /\ Len(s) \in Nat /\ DOMAIN s = 1..Len(s)
      /\ Len(c) = (Len(s) + n - 1) \div n
  BY PieceBounds, LenProperties
<1> HIDE DEF c
<1>2. ASSUME NEW i \in 1..Len(c)
      PROVE  /\ c[i] \in Seq(Event) /\ c[i] # <<>> /\ Len(c[i]) <= n /\ Rising(c[i])
             /\ \A a \in Range(c[i]) : \E x \in 1..Len(s) :
                   a = s[x] /\ (i - 1) * n < x /\ x <= i * n
             /\ \A x \in 1..Len(s) : (i - 1) * n < x /\ x <= i * n => s[x] \in Range(c[i])
  <2>1. PICK first \in Nat, last \in Nat :
                  /\ first = (i - 1) * n + 1 /\ last = (IF i * n < Len(s) THEN i * n ELSE Len(s))
                  /\ first <= last /\ last <= Len(s) /\ last <= i * n
                  /\ Len(c[i]) = last - first + 1 /\ Len(c[i]) <= n
                  /\ c[i] \in Seq(Event)
                  /\ \A k \in 1..Len(c[i]) : c[i][k] = s[first + k - 1]
    BY PieceBounds DEF c
  <2>2. DOMAIN c[i] = 1..Len(c[i]) /\ Len(c[i]) \in Nat /\ Len(c[i]) # 0 /\ Len(<<>>) = 0
    <3>1. DOMAIN c[i] = 1..Len(c[i]) /\ Len(c[i]) \in Nat
      BY <2>1, LenProperties
    <3>2. Len(<<>>) = 0
      BY EmptySeq
    <3>3. Len(c[i]) = last - first + 1 /\ first <= last
      BY <2>1
    <3> QED
      BY <3>1, <3>2, <3>3
  <2>3b. first >= 1 /\ first <= last /\ last <= Len(s) /\ Len(c[i]) = last - first + 1
    <3>0. i - 1 \in Nat
      BY <1>1
    <3>1. (i - 1) * n \in Nat
      BY <3>0, Products
    <3>1a. first = (i - 1) * n + 1
      BY <2>1
    <3>2. first >= 1
      BY <3>1, <3>1a
    <3> QED
      BY <2>1, <3>2
  <2>3a. first <= last /\ last <= Len(s) /\ Len(c[i]) = last - first + 1 /\ last <= i * n
         /\ first = (i - 1) * n + 1
    BY <2>1
  <2>3. Rising(c[i])
    <3> SUFFICES ASSUME NEW k \in 1..Len(c[i]), NEW l \in 1..Len(c[i]), k < l
                 PROVE  c[i][k] < c[i][l]
      BY DEF Rising
    <3>1. c[i][k] = s[first + k - 1] /\ c[i][l] = s[first + l - 1]
      BY <2>1
    <3>2. first + k - 1 \in 1..Len(s) /\ first + l - 1 \in 1..Len(s) /\ first + k - 1 < first + l - 1
      BY <1>1, <2>3b
    <3>3. \A x, y \in 1..Len(s) : x < y => s[x] < s[y]
      BY DEF Rising
    <3> QED
      BY <3>1, <3>2, <3>3
  <2>4. (i - 1) * n \in Nat /\ i * n \in Nat
    BY <1>1, Products
  <2> DEFINE t == c[i]
  <2>5. /\ t \in Seq(Event) /\ Len(t) = last - first + 1 /\ DOMAIN t = 1..Len(t)
        /\ \A k \in 1..Len(t) : t[k] = s[first + k - 1]
    BY <2>1, <2>2
  <2>6. c[i] = t
    OBVIOUS
  <2> HIDE DEF t
  <2>7. ASSUME NEW a \in Range(t)
        PROVE  \E x \in 1..Len(s) : a = s[x] /\ (i - 1) * n < x /\ x <= i * n
    <3>1. PICK k \in 1..Len(t) : a = t[k]
      BY <2>5 DEF Range
    <3>2. a = s[first + k - 1]
      BY <2>5, <3>1
    <3>3. first + k - 1 \in 1..Len(s) /\ (i - 1) * n < first + k - 1 /\ first + k - 1 <= i * n
      BY <1>1, <2>2, <2>3a, <2>4, <2>6, <3>1, SMTT(30)
    <3> QED
      BY <3>2, <3>3
  <2>8. ASSUME NEW x \in 1..Len(s), (i - 1) * n < x, x <= i * n
        PROVE  s[x] \in Range(t)
    <3>1. x - first + 1 \in 1..Len(t) /\ first + (x - first + 1) - 1 = x
      <4> DEFINE lo == (i - 1) * n
                 hi == i * n
      <4>1. lo \in Nat /\ hi \in Nat /\ lo < x /\ x <= hi /\ first = lo + 1
            /\ last = (IF hi < Len(s) THEN hi ELSE Len(s))
        BY <2>1, <2>4, <2>8
      <4> HIDE DEF lo, hi
      <4>2. first <= x /\ x <= last
        <5>1. x \in Nat /\ x <= Len(s) /\ Len(s) \in Nat
          BY <1>1
        <5> QED
          BY <4>1, <5>1
      <4> QED
        BY <1>1, <2>3b, <2>5, <4>2
    <3>2. t[x - first + 1] = s[first + (x - first + 1) - 1]
      BY <2>5, <3>1
    <3>3. t[x - first + 1] = s[x]
      BY <3>1, <3>2
    <3> QED
      BY <2>5, <3>1, <3>3 DEF Range
  <2>9. t # <<>>
    BY <2>2, <2>6
  <2> QED
    BY <2>1, <2>3, <2>6, <2>7, <2>8, <2>9
<1>3. ASSUME NEW i \in 1..Len(c), NEW j \in 1..Len(c), i < j,
             NEW a \in Range(c[i]), NEW b \in Range(c[j])
      PROVE  a < b
  <2>1. PICK x \in 1..Len(s) : a = s[x] /\ x <= i * n
    BY <1>2
  <2>2. PICK y \in 1..Len(s) : b = s[y] /\ (j - 1) * n < y
    BY <1>2
  <2>3. i * n <= (j - 1) * n /\ i * n \in Nat /\ (j - 1) * n \in Nat
    <3>1. i \in Nat /\ j - 1 \in Nat /\ i <= j - 1
      BY <1>1, <1>3
    <3> QED
      BY <3>1, Products
  <2>4. x \in Nat /\ y \in Nat /\ Len(s) \in Nat
    BY <1>1
  <2>5. x < y
    BY <2>1, <2>2, <2>3, <2>4
  <2> QED
    BY <2>1, <2>2, <2>5 DEF Rising
<1>4. InOrder(c)
  BY <1>2, <1>3 DEF InOrder
<1>5. Members(c) \subseteq Range(s)
  <2> SUFFICES ASSUME NEW a \in Members(c)  PROVE a \in Range(s)
    OBVIOUS
  <2>1. PICK i \in 1..Len(c) : a \in Range(c[i])
    BY DEF Members
  <2>2. PICK x \in 1..Len(s) : a = s[x]
    BY <1>2, <2>1
  <2> QED
    BY <1>1, <2>2 DEF Range
<1>6. Range(s) \subseteq Members(c)
  <2> SUFFICES ASSUME NEW a \in Range(s)  PROVE a \in Members(c)
    OBVIOUS
  <2>1. PICK x \in 1..Len(s) : a = s[x]
    BY <1>1 DEF Range
  <2> DEFINE d == (x - 1) \div n
  <2>2. x - 1 \in Nat /\ x \in Nat
    BY <1>1
  <2>3. d \in Nat /\ d * n <= x - 1 /\ x - 1 < (d + 1) * n
    BY <2>2
  <2>4. Len(s) <= Len(c) * n
    BY <1>1, RoundedUp
  <2>5. d * n < Len(c) * n
    BY <1>1, <2>1, <2>3, <2>4
  <2> HIDE DEF d
  <2>6. d < Len(c)
    BY <1>1, <2>3, <2>5, Products
  <2>7. d + 1 \in 1..Len(c) /\ (d + 1) - 1 = d
    BY <1>1, <2>3, <2>6
  <2>8. d * n < x /\ x <= (d + 1) * n
    BY <2>2, <2>3
  <2>9. s[x] \in Range(c[d + 1])
    BY <1>2, <2>7, <2>8
  <2> QED
    BY <2>1, <2>7, <2>9 DEF Members
<1> QED
  BY <1>1, <1>2, <1>4, <1>5, <1>6 DEF c

\* The first of a list of chunks, and the others.
LEMMA FirstAndRest ==
    ASSUME NEW list \in Seq(Seq(Event)), list # <<>>, InOrder(list)
    PROVE  /\ Head(list) \in Seq(Event) /\ Head(list) # <<>> /\ Rising(Head(list))
           /\ Tail(list) \in Seq(Seq(Event)) /\ InOrder(Tail(list))
           /\ Members(list) = Range(Head(list)) \cup Members(Tail(list))
           /\ \A a \in Range(Head(list)), b \in Members(Tail(list)) : a < b
<1>1. /\ Head(list) \in Seq(Event) /\ Tail(list) \in Seq(Seq(Event)) /\ Head(list) = list[1]
      /\ Len(list) \in Nat \ {0} /\ Len(Tail(list)) = Len(list) - 1
      /\ \A i \in 1..Len(Tail(list)) : Tail(list)[i] = list[i + 1]
  BY HeadTailProperties
<1>2. \A i \in 1..Len(Tail(list)) : i + 1 \in 1..Len(list)
  BY <1>1
<1>3. Head(list) # <<>> /\ Rising(Head(list))
  BY <1>1 DEF InOrder
<1>4. \A b \in Members(Tail(list)) : \E j \in 2..Len(list) : b \in Range(list[j])
  <2> SUFFICES ASSUME NEW b \in Members(Tail(list))
               PROVE  \E j \in 2..Len(list) : b \in Range(list[j])
    OBVIOUS
  <2>1. PICK i \in 1..Len(Tail(list)) : b \in Range(Tail(list)[i])
    BY DEF Members
  <2>2. i + 1 \in 2..Len(list) /\ Tail(list)[i] = list[i + 1]
    BY <1>1
  <2>3. b \in Range(list[i + 1])
    BY <2>1, <2>2
  <2> QED
    BY <2>2, <2>3
<1>5. \A j \in 2..Len(list) : Range(list[j]) \subseteq Members(Tail(list))
  <2> SUFFICES ASSUME NEW j \in 2..Len(list)  PROVE Range(list[j]) \subseteq Members(Tail(list))
    OBVIOUS
  <2>1. j - 1 \in 1..Len(Tail(list)) /\ (j - 1) + 1 = j
    BY <1>1
  <2>2. Tail(list)[j - 1] = list[(j - 1) + 1]
    BY <1>1, <2>1
  <2>3. Tail(list)[j - 1] = list[j]
    BY <2>1, <2>2
  <2> QED
    BY <2>1, <2>3 DEF Members
<1>6. Members(list) = Range(list[1]) \cup Members(Tail(list))
  <2>1. Members(list) \subseteq Range(list[1]) \cup Members(Tail(list))
    <3> SUFFICES ASSUME NEW a \in Members(list)
                 PROVE  a \in Range(list[1]) \cup Members(Tail(list))
      OBVIOUS
    <3>1. PICK i \in 1..Len(list) : a \in Range(list[i])
      BY DEF Members
    <3>2. i = 1 \/ i \in 2..Len(list)
      BY <1>1
    <3> QED
      BY <1>5, <3>1, <3>2
  <2>2. Range(list[1]) \subseteq Members(list)
    <3>1. 1 \in 1..Len(list)
      BY <1>1
    <3> QED
      BY <3>1 DEF Members
  <2>3. Members(Tail(list)) \subseteq Members(list)
    <3>1. \A j \in 2..Len(list) : j \in 1..Len(list)
      BY <1>1
    <3> QED
      BY <1>4, <3>1 DEF Members
  <2> QED
    BY <2>1, <2>2, <2>3
<1>7. \A a \in Range(list[1]), b \in Members(Tail(list)) : a < b
  <2> SUFFICES ASSUME NEW a \in Range(list[1]), NEW b \in Members(Tail(list))  PROVE a < b
    OBVIOUS
  <2>1. PICK j \in 2..Len(list) : b \in Range(list[j])
    BY <1>4
  <2>2. 1 \in 1..Len(list) /\ j \in 1..Len(list) /\ 1 < j
    BY <1>1
  <2> QED
    BY <2>1, <2>2 DEF InOrder
<1>8. InOrder(Tail(list))
  <2>1. \A i \in 1..Len(Tail(list)) : Tail(list)[i] # <<>> /\ Rising(Tail(list)[i])
    BY <1>1, <1>2 DEF InOrder
  <2>2. ASSUME NEW i \in 1..Len(Tail(list)), NEW j \in 1..Len(Tail(list)), i < j,
               NEW a \in Range(Tail(list)[i]), NEW b \in Range(Tail(list)[j])
        PROVE  a < b
    <3>1. i + 1 \in 1..Len(list) /\ j + 1 \in 1..Len(list) /\ i + 1 < j + 1
      BY <1>1, <1>2, <2>2
    <3>2. a \in Range(list[i + 1]) /\ b \in Range(list[j + 1])
      BY <1>1, <2>2
    <3> QED
      BY <3>1, <3>2 DEF InOrder
  <2> QED
    BY <2>1, <2>2 DEF InOrder
<1> QED
  BY <1>1, <1>3, <1>6, <1>7, <1>8

\* An empty list.
LEMMA NoChunks ==
    InOrder(<<>>) /\ Members(<<>>) = {} /\ <<>> \in Seq(Seq(Event)) /\ <<>> \in Seq(Event)
    /\ Rising(<<>>) /\ Range(<<>>) = {}
<1>1. Len(<<>>) = 0 /\ <<>> \in Seq(Seq(Event)) /\ <<>> \in Seq(Event)
  BY EmptySeq
<1>2. 1..Len(<<>>) = {} /\ DOMAIN <<>> = {}
  BY <1>1
<1> QED
  BY <1>1, <1>2 DEF InOrder, Members, Rising, Range
\* What the invariant says, by the names of the specification.
LEMMA SoundParts ==
    ASSUME ForwarderSound
    PROVE  /\ ForwarderTypeOK /\ FilesSound /\ FirstsInOrder /\ FreshIsLater /\ Accounted
           /\ Spooled \subseteq 1..pulled /\ acked \subseteq 1..pulled /\ gone \subseteq 1..pulled
<1>1. Files /\ Numbers /\ Buffer /\ AtWork /\ Writing
  BY DEF ForwarderSound
<1>2. FilesSound /\ FirstsInOrder /\ FreshIsLater
  BY <1>1 DEF Files
<1>3. Accounted
  BY <1>1 DEF Buffer, Fresh, Accounted
<1>4. acked \subseteq 1..published /\ gone \subseteq 1..published
  <2>1. 1..pulled \subseteq 1..published
    BY <1>1, ForwarderAssumption DEF Numbers
  <2> QED
    BY <1>1, <2>1 DEF Numbers
<1>5. /\ \A f \in spool : /\ f.sequence \in 1..MaxSequence /\ f.part \in Nat
                            /\ f.events \in Seq(Event) /\ f.events # <<>>
      /\ \A f, g \in spool : f.sequence = g.sequence /\ f.part = g.part => f = g
  BY <1>1 DEF Files, FilesSound, FileTyped
<1>6. /\ task.at \in At /\ {task.served, task.final, shutdown} \subseteq BOOLEAN
      /\ task.why \in {"None", "Inactive", "Full", "Final"}
      /\ task.why # "None" <=> task.at = "Spill"
      /\ task.todo \in Seq(Seq(Event)) /\ detached \in Seq(Seq(Event))
  <2>1. task.served \in BOOLEAN /\ task.final \in BOOLEAN /\ shutdown \in BOOLEAN
    BY <1>1, Zenon DEF AtWork, Numbers
  <2>2. task.why # "None" <=> task.at = "Spill"
    BY <1>1 DEF AtWork
  <2> QED
    BY <1>1, <2>1, <2>2 DEF AtWork, Writing, Reasons
<1>7. ForwarderTypeOK
  BY <1>1, <1>4, <1>5, <1>6 DEF ForwarderTypeOK, Numbers, Buffer
<1> QED
  BY <1>1, <1>2, <1>3, <1>7 DEF Numbers

----------------------------------------------------------------------------
(* The files *)

Numbered(files) ==
    /\ \A f \in files : f.sequence \in 1..MaxSequence /\ f.part \in Nat
    /\ \A f, g \in files : f.sequence = g.sequence /\ f.part = g.part => f = g

Oldest(files) == CHOOSE f \in files : \A g \in files \ {f} : Before(f, g)

\* There is an oldest file: files have a sequence number and a part of their own.
LEMMA OldestExists ==
    ASSUME NEW files, Numbered(files), files # {}
    PROVE  Oldest(files) \in files /\ \A g \in files \ {Oldest(files)} : Before(Oldest(files), g)
<1> DEFINE S == {f.sequence : f \in files}
<1>1. S \in SUBSET Nat /\ S # {}
  <2>1. \A f \in files : f.sequence \in Nat
    BY ForwarderAssumption DEF Numbered
  <2> QED
    BY <2>1
<1> HIDE DEF S
<1>2. PICK m \in S : \A k \in S : m <= k
  BY <1>1, LeastNumber
<1> DEFINE P == {f.part : f \in {g \in files : g.sequence = m}}
<1>3. P \in SUBSET Nat /\ P # {}
  <2>1. \A f \in files : f.part \in Nat
    BY DEF Numbered
  <2>2. \E f \in files : f.sequence = m
    BY <1>2 DEF S
  <2> QED
    BY <2>1, <2>2
<1> HIDE DEF P
<1>4. PICK q \in P : \A k \in P : q <= k
  BY <1>3, LeastNumber
<1>5. PICK f \in files : f.sequence = m /\ f.part = q
  BY <1>4 DEF P
<1>6. ASSUME NEW g \in files \ {f}  PROVE Before(f, g)
  <2>1. g.sequence \in Nat /\ g.part \in Nat /\ m \in Nat /\ q \in Nat
    BY <1>1, <1>2, <1>3, <1>4 DEF Numbered
  <2>2. m <= g.sequence
    BY <1>2 DEF S
  <2>3. g.sequence = m => q <= g.part
    BY <1>4 DEF P
  <2>4. g.sequence = m => g.part # q
    BY <1>5 DEF Numbered
  <2> QED
    BY <1>5, <2>1, <2>2, <2>3, <2>4 DEF Before
<1>7. \E h \in files : \A g \in files \ {h} : Before(h, g)
  BY <1>6
<1> QED
  BY <1>7 DEF Oldest

\* A file that is before all others is the oldest.
LEMMA OldestIs ==
    ASSUME NEW files, Numbered(files), NEW f \in files, \A g \in files \ {f} : Before(f, g)
    PROVE  Oldest(files) = f
<1>1. Oldest(files) \in files /\ \A g \in files \ {Oldest(files)} : Before(Oldest(files), g)
  BY OldestExists
<1> DEFINE o == Oldest(files)
<1> HIDE DEF o
<1>2. SUFFICES ASSUME o # f  PROVE FALSE
  BY DEF o
<1>3. Before(o, f) /\ Before(f, o)
  BY <1>1, <1>2 DEF o
<1>4. o.sequence \in Nat /\ o.part \in Nat /\ f.sequence \in Nat /\ f.part \in Nat
  BY <1>1 DEF Numbered, o
<1> QED
  BY <1>3, <1>4 DEF Before

\* The spool is a set of files that their numbers tell apart.
LEMMA SpoolNumbered ==
    ASSUME ForwarderTypeOK  PROVE Numbered(spool) /\ oldest_batch = Oldest(spool)
BY DEF ForwarderTypeOK, Numbered, oldest_batch, Oldest

\* The numbers that order the files.
LEMMA FileNumbers ==
    ASSUME ForwarderTypeOK
    PROVE  \A f \in spool : f.sequence \in Nat /\ f.part \in Nat
<1>1. \A f \in spool : f.sequence \in 1..MaxSequence /\ f.part \in Nat
  BY DEF ForwarderTypeOK
<1>2. MaxSequence \in Nat
  BY ForwarderAssumption
<1> QED
  BY <1>1, <1>2

\* A new file comes after all the others.
LEMMA NextIsLater ==
    ASSUME ForwarderTypeOK
    PROVE  NextSequence \in Nat \ {0} /\ \A f \in spool : f.sequence < NextSequence
<1>1. CASE spool = {}
  BY <1>1 DEF NextSequence
<1>2. CASE spool # {}
  <2> DEFINE T == {MaxSequence - f.sequence : f \in spool}
  <2>1. \A f \in spool : f.sequence \in Nat /\ MaxSequence - f.sequence \in Nat
    <3>1. \A f \in spool : f.sequence \in 1..MaxSequence
      BY DEF ForwarderTypeOK
    <3>2. MaxSequence \in Nat
      BY ForwarderAssumption
    <3> QED
      BY <3>1, <3>2
  <2>2. T \in SUBSET Nat /\ T # {}
    BY <1>2, <2>1
  <2> HIDE DEF T
  <2>3. PICK m \in T : \A k \in T : m <= k
    BY <2>2, LeastNumber
  <2>4. PICK f \in spool : m = MaxSequence - f.sequence
    BY <2>3 DEF T
  <2>5. \A g \in spool : MaxSequence - f.sequence <= MaxSequence - g.sequence
    BY <2>3, <2>4 DEF T
  <2>6. MaxSequence \in Nat
    BY ForwarderAssumption
  <2>7. \A g \in spool : g.sequence <= f.sequence
    BY <2>1, <2>5, <2>6
  <2> DEFINE top == CHOOSE h \in spool : \A g \in spool : g.sequence <= h.sequence
  <2>8. top \in spool /\ \A g \in spool : g.sequence <= top.sequence
    BY <2>7
  <2>9. NextSequence = 1 + top.sequence
    BY <1>2 DEF NextSequence
  <2> HIDE DEF top
  <2> QED
    BY <2>1, <2>8, <2>9
<1> QED
  BY <1>1, <1>2

\* What is left when a file is written: a file more, the oldest perhaps deleted, and
\* its events given up.
LEMMA SpillFiles ==
    ASSUME ForwarderTypeOK, NEW chunk, NEW lost, spill(chunk, lost)
    PROVE  \E q \in 1..MaxSequence :
             LET file == [sequence |-> q, part |-> 0, events |-> chunk] IN
             /\ \A f \in spool : f.sequence < q
             /\ spool' \subseteq spool \cup {file}
             /\ gone' = gone \cup lost \cup UNION {Events(f) : f \in (spool \cup {file}) \ spool'}
<1> DEFINE q == NextSequence
           file == [sequence |-> q, part |-> 0, events |-> chunk]
           files == {f \in spool : Before(f, file) \/ Before(file, f)} \cup {file}
<1>1. q \in Nat \ {0} /\ \A f \in spool : f.sequence < q
  BY NextIsLater
<1>2. files = spool \cup {file}
  BY <1>1 DEF Before
<1>3. /\ q <= MaxSequence /\ spool' = Newest(files)
      /\ gone' = gone \cup lost \cup UNION {Events(f) : f \in files \ Newest(files)}
  BY DEF spill
<1>4. Newest(files) \subseteq files
  BY DEF Newest
<1>5. q \in 1..MaxSequence
  BY <1>1, <1>3, ForwarderAssumption
<1> HIDE DEF q, files
<1>6. /\ spool' \subseteq spool \cup {file}
      /\ gone' = gone \cup lost \cup UNION {Events(f) : f \in (spool \cup {file}) \ spool'}
  BY <1>2, <1>3, <1>4
<1> QED
  BY <1>1, <1>5, <1>6
\* Writing a chunk of what has been received keeps the files in order.
LEMMA SpillSound ==
    ASSUME ForwarderSound,
           NEW chunk \in Seq(Event), chunk # <<>>, Rising(chunk), Range(chunk) \subseteq 1..pulled,
           NEW lost, lost \subseteq 1..pulled,
           spill(chunk, lost), pulled' = pulled, acked' = acked,
           \A x \in Fresh \ (Range(chunk) \cup lost), e \in Fresh \cap Range(chunk) : e < x
    PROVE  /\ Fresh' = Fresh \ (Range(chunk) \cup lost)
           /\ FirstsInOrder' /\ FreshIsLater' /\ FilesSound'
           /\ Spooled' \subseteq 1..pulled /\ gone' \subseteq 1..pulled
           /\ \A f \in spool' : FileTyped(f)
<1>1. ForwarderTypeOK /\ FilesSound /\ FirstsInOrder /\ FreshIsLater /\ Spooled \subseteq 1..pulled
      /\ gone \subseteq 1..pulled
  BY SoundParts
<1>2. PICK q \in 1..MaxSequence :
             LET file == [sequence |-> q, part |-> 0, events |-> chunk] IN
             /\ \A f \in spool : f.sequence < q
             /\ spool' \subseteq spool \cup {file}
             /\ gone' = gone \cup lost \cup UNION {Events(f) : f \in (spool \cup {file}) \ spool'}
  BY <1>1, SpillFiles
<1> DEFINE file == [sequence |-> q, part |-> 0, events |-> chunk]
<1>3. /\ file.sequence = q /\ file.part = 0 /\ file.events = chunk /\ Events(file) = Range(chunk)
      /\ \A f \in spool : f.sequence < q /\ f.sequence \in Nat /\ f.part \in Nat
      /\ q \in Nat
  <2>1. file.sequence = q /\ file.part = 0 /\ file.events = chunk
    OBVIOUS
  <2>2. q \in Nat /\ \A f \in spool : f.sequence < q
    BY <1>2, ForwarderAssumption
  <2>3. \A f \in spool : f.sequence \in Nat /\ f.part \in Nat
    BY <1>1, FileNumbers
  <2> QED
    BY <2>1, <2>2, <2>3 DEF Events
<1>4. /\ spool' \subseteq spool \cup {file}
      /\ gone' = gone \cup lost \cup UNION {Events(f) : f \in (spool \cup {file}) \ spool'}
  BY <1>2
<1> HIDE DEF file
<1>5. Spooled' \subseteq Spooled \cup Range(chunk)
  BY <1>3, <1>4 DEF Spooled
<1>6. Spooled' \cup gone' = Spooled \cup gone \cup lost \cup Range(chunk)
  <2>1. gone' \subseteq Spooled \cup gone \cup lost \cup Range(chunk)
    BY <1>3, <1>4 DEF Spooled
  <2>2. gone \cup lost \subseteq gone'
    BY <1>4
  <2>3. Spooled \subseteq Spooled' \cup gone'
    BY <1>4 DEF Spooled
  <2>4. Events(file) \subseteq Spooled' \cup gone'
    BY <1>4 DEF Spooled
  <2> QED
    BY <1>3, <1>5, <2>1, <2>2, <2>3, <2>4
<1>7. Fresh' = Fresh \ (Range(chunk) \cup lost)
  <2>1. Fresh' = (1..pulled) \ (Spooled' \cup acked \cup gone')
    BY DEF Fresh
  <2> QED
    BY <1>6, <2>1 DEF Fresh
<1>8. \A e \in Pending' : e \in Pending \/ e \in Fresh \cap Range(chunk)
  <2>1. Pending' = Spooled' \ (acked \cup gone')
    BY DEF Pending
  <2>2. gone \subseteq gone'
    BY <1>4
  <2> QED
    BY <1>5, <2>1, <2>2 DEF Pending, Fresh
<1>9. \A d \in Pending' : \A f \in spool \cup {file} : d \in Events(f) => f \in spool'
  <2>1. \A d \in Pending' : d \notin gone'
    BY DEF Pending
  <2> QED
    BY <1>4, <2>1
<1>10. \A e \in Event : e \in Nat
  BY ForwarderAssumption DEF Event
<1>11. Fresh \subseteq Nat /\ Pending \subseteq Nat
  <2>1. pulled \in Nat
    <3>1. pulled \in 0..published /\ published \in 0..MaxEvents
      BY <1>1 DEF ForwarderTypeOK
    <3>2. MaxEvents \in Nat
      BY ForwarderAssumption
    <3> QED
      BY <3>1, <3>2
  <2>2. Spooled \subseteq 1..pulled
    BY <1>1
  <2>3. 1..pulled \subseteq Nat
    BY <2>1
  <2> QED
    BY <2>2, <2>3 DEF Fresh, Pending
<1>12. FreshIsLater'
  <2> SUFFICES ASSUME NEW x \in Fresh', NEW e \in Pending'  PROVE e < x
    BY DEF FreshIsLater
  <2>1. x \in Fresh \ (Range(chunk) \cup lost)
    BY <1>7
  <2> QED
    BY <1>1, <1>8, <2>1 DEF FreshIsLater
<1>13. FirstsInOrder'
  <2> SUFFICES ASSUME NEW d \in Pending', NEW e \in Pending', d < e,
                      NEW g \in spool', e \in Events(g)
               PROVE  \E h \in spool' : d \in Events(h) /\ NotAfter(h, g)
    BY DEF FirstsInOrder
  <2>1. CASE d \in Pending /\ g \in spool
    <3>1. e \in Pending
      <4>1. e \in Spooled
        BY <2>1 DEF Spooled
      <4>2. e \notin acked /\ e \notin gone
        BY <1>4 DEF Pending
      <4> QED
        BY <4>1, <4>2 DEF Pending
    <3>2. PICK h \in spool : d \in Events(h) /\ NotAfter(h, g)
      BY <1>1, <2>1, <3>1 DEF FirstsInOrder
    <3> QED
      BY <1>9, <3>2
  <2>2. CASE d \in Pending /\ g = file
    <3>1. PICK h \in spool : d \in Events(h)
      BY <2>2 DEF Pending, Spooled
    <3>2. NotAfter(h, g)
      BY <1>3, <2>2, <3>1 DEF NotAfter, Before
    <3> QED
      BY <1>9, <3>1, <3>2
  <2>3. CASE d \notin Pending /\ g = file
    <3>1. d \in Range(chunk)
      BY <1>8, <2>3
    <3> QED
      BY <1>3, <2>3, <3>1 DEF NotAfter
  <2>4. CASE d \notin Pending /\ g \in spool
    <3>1. d \in Fresh
      BY <1>8, <2>4
    <3>2. e \in Pending
      <4>1. e \in Spooled
        BY <2>4 DEF Spooled
      <4>2. e \notin acked /\ e \notin gone
        BY <1>4 DEF Pending
      <4> QED
        BY <4>1, <4>2 DEF Pending
    <3>3. e < d
      BY <1>1, <3>1, <3>2 DEF FreshIsLater
    <3> QED
      BY <1>11, <3>1, <3>2, <3>3
  <2> QED
    BY <1>4, <2>1, <2>2, <2>3, <2>4
<1>14. FilesSound'
  <2>1. \A f, g \in spool' : f.sequence = g.sequence /\ f.part = g.part => f = g
    <3> SUFFICES ASSUME NEW f \in spool', NEW g \in spool', f.sequence = g.sequence, f.part = g.part
                 PROVE  f = g
      OBVIOUS
    <3>1. f \in spool \cup {file} /\ g \in spool \cup {file}
      BY <1>4
    <3> QED
      BY <1>1, <1>3, <3>1 DEF FilesSound
  <2>2. \A f \in spool' : Rising(f.events) /\ f.events # <<>>
    BY <1>1, <1>3, <1>4 DEF FilesSound
  <2>3. \A f \in spool' : f.part # 0 => Len(f.events) <= BatchMax
    BY <1>1, <1>3, <1>4 DEF FilesSound
  <2>4. ASSUME NEW f \in spool', NEW p \in spool', f.part = 0, p.part # 0, f.sequence = p.sequence
        PROVE  p \in Parts(f)
    <3>1. p \in spool
      BY <1>3, <1>4, <2>4
    <3>2. f \in spool
      BY <1>3, <1>4, <2>4, <3>1
    <3> QED
      BY <1>1, <2>4, <3>1, <3>2 DEF FilesSound
  <2> QED
    BY <2>1, <2>2, <2>3, <2>4 DEF FilesSound
<1>15. Spooled' \subseteq 1..pulled /\ gone' \subseteq 1..pulled
  <2>1. Spooled \subseteq 1..pulled /\ gone \subseteq 1..pulled
    BY <1>1
  <2> QED
    BY <1>5, <1>6, <2>1
<1>16. \A f \in spool' : FileTyped(f)
  BY <1>1, <1>3, <1>4 DEF FileTyped, ForwarderTypeOK
<1> QED
  BY <1>7, <1>12, <1>13, <1>14, <1>15, <1>16
\* The parts of a file.
LEMMA PartsSound ==
    ASSUME NEW o, FileTyped(o), Rising(o.events)
    PROVE  /\ \A p \in Parts(o) :
                /\ FileTyped(p) /\ p.sequence = o.sequence /\ p.part # 0
                /\ p.events # <<>> /\ Rising(p.events) /\ Len(p.events) <= BatchMax
                /\ p.part <= Cardinality(Parts(o))
           /\ \A p, r \in Parts(o) : p.part = r.part => p = r
           /\ \A p, r \in Parts(o) : \A d \in Events(p), e \in Events(r) : d < e => p.part <= r.part
           /\ UNION {Events(p) : p \in Parts(o)} = Events(o)
<1> DEFINE c == Chunks(o.events, BatchMax)
           m == Len(c)
           part(i) == [sequence |-> o.sequence, part |-> i, events |-> c[i]]
<1>1. /\ c \in Seq(Seq(Event)) /\ InOrder(c) /\ Members(c) = Range(o.events)
      /\ \A i \in 1..Len(c) : Len(c[i]) <= BatchMax
  BY ChunksSound, ForwarderAssumption DEF FileTyped
<1>2. Parts(o) = {part(i) : i \in 1..m}
  BY DEF Parts
<1> HIDE DEF c
<1>3. m \in Nat /\ \A i \in 1..m : c[i] \in Seq(Event) /\ i \in Nat \ {0}
  <2>1. m \in Nat
    BY <1>1, LenProperties
  <2>2. \A i \in 1..m : c[i] \in Seq(Event)
    BY <1>1, ElementOfSeq
  <2> QED
    BY <2>1, <2>2
<1>4. \A i \in 1..m : /\ part(i).sequence = o.sequence /\ part(i).part = i /\ part(i).events = c[i]
                      /\ Events(part(i)) = Range(c[i])
  BY DEF Events
<1> HIDE DEF m, part
<1>5. \A i \in 1..m : c[i] # <<>> /\ Rising(c[i]) /\ Len(c[i]) <= BatchMax
  BY <1>1 DEF InOrder, m
<1>6. Cardinality(Parts(o)) = m
  <2> DEFINE f == [i \in 1..m |-> part(i)]
  <2>1. f \in [1..m -> Parts(o)]
    BY <1>2
  <2>2. f \in Surjection(1..m, Parts(o))
    BY <1>2, <2>1 DEF Surjection
  <2>3. f \in Injection(1..m, Parts(o))
    <3> SUFFICES ASSUME NEW i \in 1..m, NEW j \in 1..m, f[i] = f[j]  PROVE i = j
      BY <2>1 DEF Injection, IsInjective
    <3>1. f[i] = part(i) /\ f[j] = part(j)
      OBVIOUS
    <3> QED
      BY <1>4, <3>1
  <2>4. ExistsBijection(1..m, Parts(o))
    BY <2>2, <2>3 DEF ExistsBijection, Bijection
  <2>5. IsFiniteSet(1..m) /\ Cardinality(1..m) = m
    BY <1>3, FS_Interval
  <2> QED
    BY <2>4, <2>5, FS_Bijection
<1>7. ASSUME NEW p \in Parts(o)
      PROVE  /\ FileTyped(p) /\ p.sequence = o.sequence /\ p.part # 0
             /\ p.events # <<>> /\ Rising(p.events) /\ Len(p.events) <= BatchMax
             /\ p.part <= Cardinality(Parts(o))
  <2>1. PICK i \in 1..m : p = part(i)
    BY <1>2
  <2> QED
    BY <1>3, <1>4, <1>5, <1>6, <2>1 DEF FileTyped
<1>8. ASSUME NEW p \in Parts(o), NEW r \in Parts(o), p.part = r.part  PROVE p = r
  <2>1. PICK i \in 1..m : p = part(i)
    BY <1>2
  <2>2. PICK j \in 1..m : r = part(j)
    BY <1>2
  <2> QED
    BY <1>4, <1>8, <2>1, <2>2
<1>9. ASSUME NEW p \in Parts(o), NEW r \in Parts(o), NEW d \in Events(p), NEW e \in Events(r), d < e
      PROVE  p.part <= r.part
  <2>1. PICK i \in 1..m : p = part(i)
    BY <1>2
  <2>2. PICK j \in 1..m : r = part(j)
    BY <1>2
  <2>3. p.part = i /\ r.part = j /\ d \in Range(c[i]) /\ e \in Range(c[j])
    BY <1>4, <2>1, <2>2
  <2>4. d \in Nat /\ e \in Nat
    <3>1. \A s \in Seq(Event) : Range(s) \subseteq Event
      <4>1. \A s \in Seq(Event) : s \in [1..Len(s) -> Event] /\ DOMAIN s = 1..Len(s)
        BY LenProperties
      <4> QED
        BY <4>1 DEF Range
    <3>2. Event \subseteq Nat
      BY ForwarderAssumption DEF Event
    <3> QED
      BY <1>3, <2>3, <3>1, <3>2
  <2>5. CASE j < i
    <3>1. e < d
      BY <1>1, <2>3, <2>5 DEF InOrder, m
    <3> QED
      BY <1>9, <2>4, <3>1
  <2>6. i \in Nat /\ j \in Nat
    BY <1>3
  <2> QED
    BY <2>3, <2>5, <2>6
<1>10. UNION {Events(p) : p \in Parts(o)} = Events(o)
  <2>1. UNION {Events(p) : p \in Parts(o)} = UNION {Range(c[i]) : i \in 1..m}
    BY <1>2, <1>4
  <2> QED
    BY <1>1, <2>1 DEF Members, Events, m
<1> QED
  BY <1>7, <1>8, <1>9, <1>10
\* What holds of the files holds when there is less to deliver.
LEMMA LessToDeliver ==
    ASSUME ForwarderSound, spool' = spool, Fresh' \subseteq Fresh, Pending' \subseteq Pending
    PROVE  /\ FirstsInOrder' /\ FreshIsLater' /\ FilesSound' /\ Spooled' = Spooled
           /\ (\A f \in spool' : FileTyped(f)) /\ oldest_batch' = oldest_batch
<1>1. FirstsInOrder /\ FreshIsLater /\ FilesSound /\ ForwarderTypeOK
  BY SoundParts
<1>2. Spooled' = Spooled /\ oldest_batch' = oldest_batch
  BY DEF Spooled, oldest_batch
<1>3. FirstsInOrder'
  <2> SUFFICES ASSUME NEW d \in Pending', NEW e \in Pending', d < e,
                      NEW g \in spool', e \in Events(g)
               PROVE  \E h \in spool' : d \in Events(h) /\ NotAfter(h, g)
    BY DEF FirstsInOrder
  <2> QED
    BY <1>1 DEF FirstsInOrder
<1>4. FreshIsLater'
  BY <1>1 DEF FreshIsLater
<1>5. FilesSound'
  BY <1>1 DEF FilesSound
<1>6. \A f \in spool' : FileTyped(f)
  BY <1>1 DEF ForwarderTypeOK, FileTyped
<1> QED
  BY <1>2, <1>3, <1>4, <1>5, <1>6

\* The file whose turn it is.
LEMMA OldestSound ==
    ASSUME ForwarderSound, spool # {}
    PROVE  /\ oldest_batch \in spool /\ FileTyped(oldest_batch)
           /\ Rising(oldest_batch.events) /\ oldest_batch.events # <<>>
           /\ \A g \in spool \ {oldest_batch} : Before(oldest_batch, g)
<1>1. ForwarderTypeOK /\ FilesSound
  BY SoundParts
<1>2. Numbered(spool) /\ oldest_batch = Oldest(spool)
  BY <1>1, SpoolNumbered
<1>3. oldest_batch \in spool /\ \A g \in spool \ {oldest_batch} : Before(oldest_batch, g)
  BY <1>2, OldestExists
<1> QED
  BY <1>1, <1>3 DEF ForwarderTypeOK, FileTyped, FilesSound

\* Removing a file all of whose events the operator has.
LEMMA UnlinkSound ==
    ASSUME ForwarderSound, spool # {}, Events(oldest_batch) \subseteq acked,
           spool' \in {spool \ {oldest_batch}, spool},
           acked' = acked, gone' = gone, pulled' = pulled
    PROVE  /\ Fresh' = Fresh /\ FirstsInOrder' /\ FreshIsLater' /\ FilesSound'
           /\ Spooled' \cup acked = Spooled \cup acked
           /\ Spooled' \subseteq Spooled /\ \A f \in spool' : FileTyped(f)
<1>1. FirstsInOrder /\ FreshIsLater /\ FilesSound /\ ForwarderTypeOK
  BY SoundParts
<1>2. oldest_batch \in spool
  BY OldestSound
<1> DEFINE o == oldest_batch
<1> HIDE DEF o
<1>3. spool' \subseteq spool /\ \A f \in spool : f \in spool' \/ f = o
  BY DEF o
<1>4. Spooled' \subseteq Spooled /\ Spooled' \cup acked = Spooled \cup acked
  BY <1>2, <1>3 DEF Spooled, o
<1>5. Fresh' = Fresh /\ Pending' = Pending
  <2>1. Fresh' = (1..pulled) \ (Spooled' \cup acked \cup gone) /\ Pending' = Spooled' \ (acked \cup gone)
    BY DEF Fresh, Pending
  <2> QED
    BY <1>4, <2>1 DEF Fresh, Pending
<1>6. FirstsInOrder'
  <2> SUFFICES ASSUME NEW d \in Pending', NEW e \in Pending', d < e,
                      NEW g \in spool', e \in Events(g)
               PROVE  \E h \in spool' : d \in Events(h) /\ NotAfter(h, g)
    BY DEF FirstsInOrder
  <2>1. PICK h \in spool : d \in Events(h) /\ NotAfter(h, g)
    BY <1>1, <1>3, <1>5 DEF FirstsInOrder
  <2>2. h # o
    BY <1>5, <2>1 DEF Pending, o
  <2> QED
    BY <1>3, <2>1, <2>2
<1>7. FreshIsLater'
  BY <1>1, <1>5 DEF FreshIsLater
<1>8. FilesSound'
  BY <1>1, <1>3 DEF FilesSound
<1>9. \A f \in spool' : FileTyped(f)
  BY <1>1, <1>3 DEF ForwarderTypeOK, FileTyped
<1> QED
  BY <1>4, <1>5, <1>6, <1>7, <1>8, <1>9

\* The oldest file is one that was never split, when it is larger than a batch.
LEMMA SplitsWhole ==
    ASSUME ForwarderSound, spool # {}, Len(oldest_batch.events) > BatchMax
    PROVE  oldest_batch.part = 0
<1>1. oldest_batch \in spool /\ FileTyped(oldest_batch)
  BY OldestSound
<1>2. Len(oldest_batch.events) \in Nat /\ BatchMax \in Nat
  BY <1>1, LenProperties, ForwarderAssumption DEF FileTyped
<1>3. ~(Len(oldest_batch.events) <= BatchMax)
  BY <1>2
<1> QED
  BY <1>1, <1>3, SoundParts DEF FilesSound

\* Adding parts of the oldest file to it.
LEMMA SplitSound ==
    ASSUME ForwarderSound, spool # {}, Len(oldest_batch.events) > BatchMax,
           NEW new, new \subseteq Parts(oldest_batch),
           spool' = spool \cup new,
           acked' = acked, gone' = gone, pulled' = pulled
    PROVE  /\ Fresh' = Fresh /\ FirstsInOrder' /\ FreshIsLater' /\ FilesSound'
           /\ Spooled' = Spooled /\ (\A f \in spool' : FileTyped(f))
           /\ oldest_batch' = oldest_batch
<1> DEFINE o == oldest_batch
<1>1. FirstsInOrder /\ FreshIsLater /\ FilesSound /\ ForwarderTypeOK
  BY SoundParts
<1>2. /\ o \in spool /\ FileTyped(o) /\ o.part = 0 /\ Rising(o.events)
      /\ \A g \in spool \ {o} : Before(o, g)
  BY OldestSound, SplitsWhole
<1> HIDE DEF o
<1>3. /\ \A p \in new :
            /\ p \in Parts(o) /\ FileTyped(p) /\ p.sequence = o.sequence /\ p.part # 0
            /\ p.events # <<>> /\ Rising(p.events) /\ Len(p.events) <= BatchMax
            /\ Events(p) \subseteq Events(o)
      /\ \A p, r \in Parts(o) : p.part = r.part => p = r
  <2>1. /\ \A p \in Parts(o) :
             /\ FileTyped(p) /\ p.sequence = o.sequence /\ p.part # 0
             /\ p.events # <<>> /\ Rising(p.events) /\ Len(p.events) <= BatchMax
        /\ \A p, r \in Parts(o) : p.part = r.part => p = r
        /\ UNION {Events(p) : p \in Parts(o)} = Events(o)
    BY <1>2, PartsSound
  <2>2. \A p \in Parts(o) : Events(p) \subseteq Events(o)
    BY <2>1
  <2>3. new \subseteq Parts(o)
    BY DEF o
  <2> QED
    BY <2>1, <2>2, <2>3
<1>4. \A f \in spool' : FileTyped(f)
  BY <1>1, <1>3 DEF ForwarderTypeOK, FileTyped
<1>5. \A p \in new : Before(o, p)
  BY <1>2, <1>3 DEF Before, FileTyped
<1>6. Spooled' = Spooled
  BY <1>2, <1>3 DEF Spooled
<1>7. Fresh' = Fresh /\ Pending' = Pending
  BY <1>6 DEF Fresh, Pending
<1>8. FilesSound'
  <2>1. \A f, g \in spool' : f.sequence = g.sequence /\ f.part = g.part => f = g
    <3> SUFFICES ASSUME NEW f \in spool', NEW g \in spool', f.sequence = g.sequence, f.part = g.part
                 PROVE  f = g
      OBVIOUS
    <3>1. ASSUME NEW p \in new, NEW r \in spool, p.sequence = r.sequence, p.part = r.part
          PROVE  p = r
      <4>1. r \in Parts(o)
        BY <1>1, <1>2, <1>3, <3>1 DEF FilesSound
      <4> QED
        BY <1>3, <3>1, <4>1
    <3>2. CASE f \in new /\ g \in new
      BY <1>3, <3>2
    <3>3. CASE f \in spool /\ g \in spool
      BY <1>1, <3>3 DEF FilesSound
    <3> QED
      BY <3>1, <3>2, <3>3
  <2>2. \A f \in spool' : Rising(f.events) /\ f.events # <<>>
    BY <1>1, <1>3 DEF FilesSound
  <2>3. \A f \in spool' : f.part # 0 => Len(f.events) <= BatchMax
    BY <1>1, <1>3 DEF FilesSound
  <2>4. ASSUME NEW f \in spool', NEW p \in spool', f.part = 0, p.part # 0, f.sequence = p.sequence
        PROVE  p \in Parts(f)
    <3>1. f \in spool
      BY <1>3, <2>4
    <3>2. CASE p \in spool
      BY <1>1, <2>4, <3>1, <3>2 DEF FilesSound
    <3>3. CASE p \in new
      <4>1. f = o
        BY <1>1, <1>2, <1>3, <2>4, <3>1, <3>3 DEF FilesSound
      <4> QED
        BY <1>3, <3>3, <4>1
    <3> QED
      BY <3>2, <3>3
  <2> QED
    BY <2>1, <2>2, <2>3, <2>4 DEF FilesSound
<1>9. FirstsInOrder'
  <2> SUFFICES ASSUME NEW d \in Pending', NEW e \in Pending', d < e,
                      NEW g \in spool', e \in Events(g)
               PROVE  \E h \in spool' : d \in Events(h) /\ NotAfter(h, g)
    BY DEF FirstsInOrder
  <2>1. CASE g \in spool
    BY <1>1, <1>7, <2>1 DEF FirstsInOrder
  <2>2. CASE g \in new
    <3>1. e \in Events(o)
      BY <1>3, <2>2
    <3>2. PICK h \in spool : d \in Events(h) /\ NotAfter(h, o)
      BY <1>1, <1>2, <1>7, <3>1 DEF FirstsInOrder
    <3>3. h = o
      <4>1. h # o => Before(o, h) /\ Before(h, o)
        BY <1>2, <3>2 DEF NotAfter
      <4>2. h.sequence \in Nat /\ h.part \in Nat /\ o.sequence \in Nat /\ o.part \in Nat
        <5>1. \A f \in spool : f.sequence \in Nat /\ f.part \in Nat
          BY <1>1, FileNumbers
        <5> QED
          BY <1>2, <3>2, <5>1
      <4> QED
        BY <4>1, <4>2 DEF Before
    <3> QED
      BY <1>5, <2>2, <3>2, <3>3 DEF NotAfter
  <2> QED
    BY <2>1, <2>2
<1>10. FreshIsLater'
  BY <1>1, <1>7 DEF FreshIsLater
<1>11. oldest_batch' = oldest_batch
  <2>1. Numbered(spool')
    BY <1>4, <1>8 DEF Numbered, FileTyped, FilesSound
  <2>2. o \in spool' /\ \A g \in spool' \ {o} : Before(o, g)
    BY <1>2, <1>5
  <2>3. Oldest(spool') = o
    BY <2>1, <2>2, OldestIs
  <2>4. oldest_batch' = Oldest(spool')
    BY DEF oldest_batch, Oldest
  <2> QED
    BY <2>3, <2>4 DEF o
<1> QED
  BY <1>4, <1>6, <1>7, <1>8, <1>9, <1>10, <1>11

\* Removing a file all of whose parts are there.
LEMMA RemoveSound ==
    ASSUME ForwarderSound, spool # {}, Len(oldest_batch.events) > BatchMax,
           Parts(oldest_batch) \subseteq spool,
           spool' \in {spool \ {oldest_batch}, spool},
           acked' = acked, gone' = gone, pulled' = pulled
    PROVE  /\ Fresh' = Fresh /\ FirstsInOrder' /\ FreshIsLater' /\ FilesSound'
           /\ Spooled' = Spooled /\ \A f \in spool' : FileTyped(f)
<1> DEFINE o == oldest_batch
<1>1. FirstsInOrder /\ FreshIsLater /\ FilesSound /\ ForwarderTypeOK
  BY SoundParts
<1>2. /\ o \in spool /\ FileTyped(o) /\ o.part = 0 /\ Rising(o.events)
      /\ \A g \in spool \ {o} : Before(o, g)
  BY OldestSound, SplitsWhole
<1> HIDE DEF o
<1>3. spool' \subseteq spool /\ \A f \in spool : f \in spool' \/ f = o
  BY DEF o
<1>4. /\ \A p \in Parts(o) : p \in spool' /\ p.sequence = o.sequence /\ p.part # 0 /\ p.part \in Nat
      /\ \A p, r \in Parts(o) : \A d \in Events(p), e \in Events(r) : d < e => p.part <= r.part
      /\ \A p, r \in Parts(o) : p.part = r.part => p = r
      /\ \A d \in Events(o) : \E p \in Parts(o) : d \in Events(p)
  <2>1. /\ \A p \in Parts(o) : p.sequence = o.sequence /\ p.part # 0 /\ FileTyped(p)
        /\ \A p, r \in Parts(o) : p.part = r.part => p = r
        /\ \A p, r \in Parts(o) : \A d \in Events(p), e \in Events(r) : d < e => p.part <= r.part
        /\ UNION {Events(p) : p \in Parts(o)} = Events(o)
    BY <1>2, PartsSound
  <2>2. Parts(o) \subseteq spool
    BY DEF o
  <2>3. \A p \in Parts(o) : p # o
    BY <1>2, <2>1
  <2>4. \A p \in Parts(o) : p \in spool'
    BY <1>3, <2>2, <2>3
  <2>5. \A d \in Events(o) : \E p \in Parts(o) : d \in Events(p)
    BY <2>1
  <2> QED
    BY <2>1, <2>4, <2>5 DEF FileTyped
<1>5. Spooled' = Spooled
  <2>1. Spooled \subseteq Spooled'
    BY <1>3, <1>4 DEF Spooled
  <2> QED
    BY <1>3, <2>1 DEF Spooled
<1>6. Fresh' = Fresh /\ Pending' = Pending
  BY <1>5 DEF Fresh, Pending
<1>7. FilesSound'
  BY <1>1, <1>3 DEF FilesSound
<1>8. \A f \in spool' : FileTyped(f)
  BY <1>1, <1>3 DEF ForwarderTypeOK, FileTyped
<1>9. FirstsInOrder'
  <2> SUFFICES ASSUME NEW d \in Pending', NEW e \in Pending', d < e,
                      NEW g \in spool', e \in Events(g)
               PROVE  \E h \in spool' : d \in Events(h) /\ NotAfter(h, g)
    BY DEF FirstsInOrder
  <2>1. PICK h \in spool : d \in Events(h) /\ NotAfter(h, g)
    BY <1>1, <1>3, <1>6 DEF FirstsInOrder
  <2>2. CASE h # o
    BY <1>3, <2>1, <2>2
  <2>3. CASE h = o
    <3>1. PICK p \in Parts(o) : d \in Events(p)
      BY <1>4, <2>1, <2>3
    <3>2. CASE g = o
      <4>1. PICK r \in Parts(o) : e \in Events(r)
        BY <1>4, <3>2
      <4>2. g \in spool' /\ spool' = spool
        BY <1>3, <3>2 DEF o
      <4> QED
        BY <2>1, <4>2
    <3>3. CASE g # o
      <4>1. Before(o, g) /\ g \in spool
        BY <1>2, <1>3, <3>3
      <4>2. CASE g.sequence = o.sequence
        <5>1. g.part # 0
          BY <1>1, <1>2, <3>3, <4>1, <4>2 DEF FilesSound
        <5>2. g \in Parts(o)
          BY <1>1, <1>2, <4>1, <4>2, <5>1 DEF FilesSound
        <5>3. p.part <= g.part
          BY <1>4, <3>1, <5>2
        <5>4. p = g \/ p.part < g.part
          BY <1>4, <5>2, <5>3
        <5> QED
          BY <1>4, <3>1, <4>2, <5>4 DEF NotAfter, Before
      <4>3. CASE g.sequence # o.sequence
        <5>1. p.sequence < g.sequence
          BY <1>4, <4>1, <4>3 DEF Before
        <5> QED
          BY <1>4, <3>1, <5>1 DEF NotAfter, Before
      <4> QED
        BY <4>2, <4>3
    <3> QED
      BY <3>2, <3>3
  <2> QED
    BY <2>2, <2>3
<1>10. FreshIsLater'
  BY <1>1, <1>6 DEF FreshIsLater
<1> QED
  BY <1>5, <1>6, <1>7, <1>8, <1>9, <1>10
----------------------------------------------------------------------------
(* The buffer *)

\* Adding an event that is later than the others.
LEMMA AppendSound ==
    ASSUME NEW s \in Seq(Event), Rising(s), NEW e \in Event, \A a \in Range(s) : a < e
    PROVE  /\ Append(s, e) \in Seq(Event) /\ Len(Append(s, e)) = Len(s) + 1
           /\ Rising(Append(s, e)) /\ Range(Append(s, e)) = Range(s) \cup {e}
<1> DEFINE t == Append(s, e)
<1>1. /\ Len(s) \in Nat /\ DOMAIN s = 1..Len(s)
      /\ t \in Seq(Event) /\ Len(t) = Len(s) + 1 /\ DOMAIN t = 1..(Len(s) + 1)
      /\ t[Len(s) + 1] = e /\ \A i \in 1..Len(s) : t[i] = s[i]
  BY LenProperties
<1> HIDE DEF t
<1>2. Rising(t)
  <2> SUFFICES ASSUME NEW i \in 1..Len(t), NEW j \in 1..Len(t), i < j  PROVE t[i] < t[j]
    BY DEF Rising
  <2>1. i \in 1..Len(s)
    BY <1>1
  <2>2. CASE j \in 1..Len(s)
    BY <1>1, <2>1, <2>2 DEF Rising
  <2>3. CASE j = Len(s) + 1
    <3>1. s[i] \in Range(s)
      BY <1>1, <2>1 DEF Range
    <3> QED
      BY <1>1, <2>1, <2>3, <3>1
  <2> QED
    BY <1>1, <2>2, <2>3
<1>3. Range(t) = Range(s) \cup {e}
  <2>1. \A i \in 1..Len(s) : i \in 1..(Len(s) + 1)
    BY <1>1
  <2>2. \A i \in 1..(Len(s) + 1) : i \in 1..Len(s) \/ i = Len(s) + 1
    BY <1>1
  <2>3. Len(s) + 1 \in 1..(Len(s) + 1)
    BY <1>1
  <2> QED
    BY <1>1, <2>1, <2>2, <2>3 DEF Range
<1> QED
  BY <1>1, <1>2, <1>3 DEF t

\* Taking off the first events.
LEMMA SuffixSound ==
    ASSUME NEW s \in Seq(Event), Rising(s), NEW k \in 0..Len(s)
    PROVE  /\ SubSeq(s, k + 1, Len(s)) \in Seq(Event)
           /\ Len(SubSeq(s, k + 1, Len(s))) = Len(s) - k
           /\ Rising(SubSeq(s, k + 1, Len(s)))
           /\ SubSeq(s, 1, k) \in Seq(Event) /\ Len(SubSeq(s, 1, k)) = k
           /\ Range(s) = Range(SubSeq(s, 1, k)) \cup Range(SubSeq(s, k + 1, Len(s)))
<1> DEFINE u == SubSeq(s, 1, k)
           v == SubSeq(s, k + 1, Len(s))
<1>1. Len(s) \in Nat /\ DOMAIN s = 1..Len(s) /\ k \in Nat /\ k <= Len(s)
  BY LenProperties
<1>2. \A i \in 1..Len(s) : s[i] \in Event
  BY ElementOfSeq
<1>3. u \in Seq(Event) /\ Len(u) = k /\ \A i \in 1..k : u[i] = s[i]
  <2>1. \A i \in 1..k : s[i] \in Event
    BY <1>1, <1>2
  <2>2. 1 \in Int /\ k \in Int
    BY <1>1
  <2>3. /\ u \in Seq(Event) /\ Len(u) = (IF 1 <= k THEN k - 1 + 1 ELSE 0)
        /\ \A i \in 1..(k - 1 + 1) : u[i] = s[1 + i - 1]
    BY <2>1, <2>2, SubSeqProperties
  <2>4. Len(u) = k /\ k - 1 + 1 = k
    BY <1>1, <2>3
  <2>5. \A i \in 1..k : 1 + i - 1 = i
    BY <1>1
  <2> HIDE DEF u
  <2> QED
    BY <2>3, <2>4, <2>5
<1>4. v \in Seq(Event) /\ Len(v) = Len(s) - k /\ \A i \in 1..(Len(s) - k) : v[i] = s[k + i]
  <2>1. \A i \in (k + 1)..Len(s) : s[i] \in Event
    BY <1>1, <1>2
  <2>2. k + 1 \in Int /\ Len(s) \in Int
    BY <1>1
  <2>3. /\ v \in Seq(Event) /\ Len(v) = (IF k + 1 <= Len(s) THEN Len(s) - (k + 1) + 1 ELSE 0)
        /\ \A i \in 1..(Len(s) - (k + 1) + 1) : v[i] = s[k + 1 + i - 1]
    BY <2>1, <2>2, SubSeqProperties
  <2>4. Len(v) = Len(s) - k /\ Len(s) - (k + 1) + 1 = Len(s) - k
    <3> DEFINE l == Len(s)
    <3>1. l \in Nat /\ k \in Nat /\ k <= l
      BY <1>1
    <3>2. Len(v) = IF k + 1 <= l THEN l - (k + 1) + 1 ELSE 0
      BY <2>3
    <3> HIDE DEF l, v
    <3>3. l - (k + 1) + 1 = l - k
      BY <3>1
    <3>4. ~(k + 1 <= l) => l - k = 0
      BY <3>1
    <3>5. Len(v) = l - k
      BY <3>2, <3>3, <3>4
    <3> QED
      BY <3>3, <3>5 DEF l
  <2>5. \A i \in 1..(Len(s) - k) : k + 1 + i - 1 = k + i
    BY <1>1
  <2> HIDE DEF v
  <2> QED
    BY <2>3, <2>4, <2>5
<1>5. DOMAIN u = 1..Len(u) /\ DOMAIN v = 1..Len(v)
  BY <1>3, <1>4, LenProperties
<1> HIDE DEF u, v
<1>6. Rising(v)
  <2> SUFFICES ASSUME NEW i \in 1..Len(v), NEW j \in 1..Len(v), i < j  PROVE v[i] < v[j]
    BY DEF Rising
  <2>1. k + i \in 1..Len(s) /\ k + j \in 1..Len(s) /\ k + i < k + j
    BY <1>1, <1>4
  <2>2. s[k + i] < s[k + j]
    BY <2>1 DEF Rising
  <2> QED
    BY <1>4, <2>2
<1>7. Range(u) \cup Range(v) \subseteq Range(s)
  <2>1. \A i \in 1..k : i \in 1..Len(s)
    BY <1>1
  <2>2. \A i \in 1..(Len(s) - k) : k + i \in 1..Len(s)
    BY <1>1
  <2>3. ASSUME NEW i \in 1..Len(u)  PROVE u[i] \in Range(s)
    <3>1. i \in DOMAIN s /\ u[i] = s[i]
      BY <1>1, <1>3, <2>1
    <3> QED
      BY <3>1 DEF Range
  <2>4. ASSUME NEW i \in 1..Len(v)  PROVE v[i] \in Range(s)
    <3>1. k + i \in DOMAIN s /\ v[i] = s[k + i]
      BY <1>1, <1>4, <2>2
    <3> QED
      BY <3>1 DEF Range
  <2> QED
    BY <1>5, <2>3, <2>4 DEF Range
<1>8. Range(s) \subseteq Range(u) \cup Range(v)
  <2> SUFFICES ASSUME NEW x \in 1..Len(s)  PROVE s[x] \in Range(u) \cup Range(v)
    BY <1>1 DEF Range
  <2>1. CASE x <= k
    <3>1. x \in 1..k
      BY <1>1, <2>1
    <3> QED
      BY <1>3, <1>5, <3>1 DEF Range
  <2>2. CASE ~(x <= k)
    <3>1. x - k \in 1..(Len(s) - k) /\ k + (x - k) = x
      BY <1>1, <2>2
    <3>2. v[x - k] = s[k + (x - k)]
      BY <1>4, <3>1
    <3>3. v[x - k] = s[x]
      BY <3>1, <3>2
    <3> QED
      BY <1>4, <1>5, <3>1, <3>3 DEF Range
  <2> QED
    BY <2>1, <2>2
<1> QED
  BY <1>3, <1>4, <1>6, <1>7, <1>8 DEF u, v

\* Making room by dropping the oldest event.
LEMMA DropSound ==
    ASSUME NEW s \in Seq(Event), s # <<>>, Rising(s)
    PROVE  /\ Tail(s) \in Seq(Event) /\ Len(Tail(s)) = Len(s) - 1 /\ Rising(Tail(s))
           /\ Range(s) = {Head(s)} \cup Range(Tail(s)) /\ Head(s) \in Event
<1>1. Len(s) \in Nat \ {0} /\ Head(s) \in Event /\ Head(s) = s[1]
  BY HeadTailProperties
<1>2. Tail(s) = SubSeq(s, 1 + 1, Len(s))
  <2>1. Tail(s) = SubSeq(s, 2, Len(s))
    BY TailIsSubSeq
  <2>2. 1 + 1 = 2
    OBVIOUS
  <2> QED
    BY <2>1, <2>2
<1>3. 1 \in 0..Len(s)
  BY <1>1
<1> DEFINE u == SubSeq(s, 1, 1)
           v == SubSeq(s, 1 + 1, Len(s))
<1>4. /\ v \in Seq(Event) /\ Len(v) = Len(s) - 1 /\ Rising(v)
      /\ u \in Seq(Event) /\ Len(u) = 1 /\ Range(s) = Range(u) \cup Range(v)
  BY <1>3, SuffixSound
<1>5. u[1] = s[1]
  <2>1. \A i \in 1..1 : s[i] \in Event
    BY <1>1
  <2>2. \A i \in 1..(1 - 1 + 1) : u[i] = s[1 + i - 1]
    BY <2>1, SubSeqProperties
  <2>3. 1 \in 1..(1 - 1 + 1) /\ 1 + 1 - 1 = 1
    OBVIOUS
  <2> HIDE DEF u
  <2> QED
    BY <2>2, <2>3
<1>6. DOMAIN u = 1..1
  BY <1>4, LenProperties
<1> HIDE DEF u, v
<1>7. Range(u) = {Head(s)}
  BY <1>1, <1>5, <1>6 DEF Range
<1> QED
  BY <1>1, <1>2, <1>4, <1>7 DEF v
----------------------------------------------------------------------------
(* What a step leaves alone *)

Tasks == [at : At, served : BOOLEAN, final : BOOLEAN, why : Reasons, todo : Seq(Seq(Event))]

\* The files stay sound when they stay, and less is to be delivered.
LEMMA FilesSame ==
    ASSUME ForwarderSound, spool' = spool, Fresh' \subseteq Fresh, Pending' \subseteq Pending
    PROVE  Files' /\ Spooled' = Spooled /\ oldest_batch' = oldest_batch
BY LessToDeliver DEF Files

\* A step that touches neither files nor what became of the events.
LEMMA NothingGone ==
    ASSUME ForwarderSound, spool' = spool, acked' = acked, gone' = gone, pulled' = pulled
    PROVE  Files' /\ Fresh' = Fresh /\ Spooled' = Spooled /\ oldest_batch' = oldest_batch
<1>1. Fresh' = Fresh /\ Pending' = Pending
  BY DEF Fresh, Pending, Spooled
<1> QED
  BY <1>1, FilesSame

\* The numbers of events, when nothing is published or pulled.
LEMMA NumbersSame ==
    ASSUME ForwarderSound, published' = published, pulled' = pulled, shutdown' \in BOOLEAN,
           restarts' = restarts, boot' = boot,
           Spooled' \subseteq 1..pulled, acked' \subseteq 1..pulled, gone' \subseteq 1..pulled
    PROVE  Numbers'
BY DEF ForwarderSound, Numbers

\* The buffer, when it stays and fewer events are in it alone.
LEMMA BufferSame ==
    ASSUME ForwarderSound, batch' = batch, pulled' = pulled, Fresh' \subseteq Fresh
    PROVE  Buffer'
BY DEF ForwarderSound, Buffer

\* The fields of the task of the forwarder.
LEMMA TaskFields ==
    ASSUME ForwarderSound
    PROVE  /\ task \in Tasks /\ task.at \in At /\ task.served \in BOOLEAN /\ task.final \in BOOLEAN
           /\ task.why \in Reasons /\ task.todo \in Seq(Seq(Event))
<1>1. task \in Tasks
  BY DEF ForwarderSound, AtWork, Tasks
<1>2. task.served \in BOOLEAN /\ task.final \in BOOLEAN
  BY <1>1, Zenon DEF Tasks
<1> QED
  BY <1>1, <1>2 DEF Tasks

\* A task that has nothing but its place.
LEMMA PlainTask ==
    ASSUME NEW x \in At
    PROVE  /\ Task(x) \in Tasks /\ Task(x).at = x /\ Task(x).served = FALSE
           /\ Task(x).final = FALSE /\ Task(x).why = "None" /\ Task(x).todo = <<>>
<1>1. <<>> \in Seq(Seq(Event)) /\ FALSE \in BOOLEAN /\ "None" \in Reasons
  BY NoChunks DEF Reasons
<1>2. Task(x) \in Tasks
  BY <1>1, Zenon DEF Task, Tasks
<1> QED
  BY <1>2 DEF Task

\* The forwarder goes on with its work.
LEMMA GoesOn ==
    ASSUME ForwarderSound, NEW x \in At \ {"Spill", "Drain", "Done", "Down"}, task' = Task(x),
           ~task.final, task.at \notin {"Drain", "Done", "Down"},
           detached' = detached, pulled' = pulled, restarts' = restarts, shutdown' = shutdown,
           Fresh' \subseteq Fresh,
           x \in {"Replay", "Unlink", "Split", "Remove"} => AtFile'
    PROVE  AtWork' /\ Writing' /\ Ending'
<1>1. /\ task' \in Tasks /\ task'.at = x /\ task'.served = FALSE /\ task'.final = FALSE
      /\ task'.why = "None" /\ task'.todo = <<>>
  BY PlainTask
<1>2. detached = <<>>
  BY DEF ForwarderSound, Ending
<1>3. AtFile'
  <2>1. x \notin {"Replay", "Unlink", "Split", "Remove"} => AtFile'
    BY <1>1 DEF AtFile
  <2> QED
    BY <2>1
<1>4. AtFlush'
  BY <1>1 DEF AtFlush
<1>5. AtWork'
  BY <1>1, <1>3, <1>4 DEF AtWork, Tasks
<1>6. Writing'
  <2>1. InOrder(<<>>) /\ Members(<<>>) = {} /\ <<>> \in Seq(Seq(Event))
    BY NoChunks
  <2> QED
    BY <1>1, <1>2, <2>1 DEF Writing
<1>7. Ending'
  <2>1. shutdown => restarts < MaxRestarts
    BY DEF ForwarderSound, Ending
  <2> QED
    BY <1>1, <1>2, <2>1 DEF Ending
<1> QED
  BY <1>5, <1>6, <1>7

\* It is done.
LEMMA Finishes ==
    ASSUME ForwarderSound, task' = Task("Done"), shutdown,
           detached' = detached, pulled' = pulled, restarts' = restarts, shutdown' = shutdown,
           published' = published, pulled = published, Fresh' = {}
    PROVE  AtWork' /\ Writing' /\ Ending'
<1>1. /\ task' \in Tasks /\ task'.at = "Done" /\ task'.served = FALSE /\ task'.final = FALSE
      /\ task'.why = "None" /\ task'.todo = <<>>
  BY PlainTask DEF At
<1>2. AtWork'
  BY <1>1 DEF AtWork, Tasks, AtFile, AtFlush
<1>3. Writing'
  <2>1. InOrder(<<>>) /\ Members(<<>>) = {} /\ <<>> \in Seq(Seq(Event))
    BY NoChunks
  <2> QED
    BY <1>1, <2>1 DEF Writing, ForwarderSound
<1>4. Ending'
  BY <1>1 DEF Ending, ForwarderSound
<1> QED
  BY <1>2, <1>3, <1>4

\* It writes the whole buffer to disk; left are the chunks an earlier spill has to write.
LEMMA StartsSpill ==
    ASSUME ForwarderSound, NEW why \in {"Inactive", "Full", "Final"}, NEW fin \in BOOLEAN,
           task' = Spilling(why, fin),
           pulled' = pulled, restarts' = restarts, shutdown' = shutdown, published' = published,
           Fresh' \subseteq Fresh,
           fin => shutdown /\ pulled = published,
           fin \/ detached' = <<>>,
           why = "Final" => fin, why = "Full" => ~fin,
           \/ detached' = detached
           \/ detached' = task.todo /\ Fresh \subseteq Members(task.todo)
    PROVE  AtWork' /\ Writing' /\ Ending'
<1>1. Buffer /\ Writing /\ Ending
  BY DEF ForwarderSound
<1>2. /\ Chunks(batch, BatchMax) \in Seq(Seq(Event)) /\ InOrder(Chunks(batch, BatchMax))
      /\ Members(Chunks(batch, BatchMax)) = Range(batch)
  BY <1>1, ChunksSound, ForwarderAssumption DEF Buffer
<1> DEFINE c == Chunks(batch, BatchMax)
<1> HIDE DEF c
<1>3. task' = [at |-> "Spill", served |-> FALSE, final |-> fin, why |-> why, todo |-> c]
  BY DEF Spilling, Task, c
<1>4. /\ task'.at = "Spill" /\ task'.served = FALSE /\ task'.final = fin /\ task'.why = why
      /\ task'.todo = c
  BY <1>3
<1>5. task' \in Tasks
  <2>1. "Spill" \in At /\ FALSE \in BOOLEAN /\ fin \in BOOLEAN /\ why \in Reasons /\ c \in Seq(Seq(Event))
    BY <1>2 DEF At, Reasons, c
  <2>2. [at |-> "Spill", served |-> FALSE, final |-> fin, why |-> why, todo |-> c] \in Tasks
    BY <2>1, Zenon DEF Tasks
  <2> QED
    BY <1>3, <2>2
<1>6. AtWork'
  BY <1>4, <1>5 DEF AtWork, Tasks, AtFile, AtFlush
<1>7. Writing'
  <2>1. InOrder(c) /\ Members(c) = Range(batch) /\ Fresh \subseteq Members(c) /\ Members(c) \subseteq 1..pulled
    BY <1>1, <1>2 DEF Buffer, c
  <2>2. /\ detached' \in Seq(Seq(Event)) /\ InOrder(detached') /\ Members(detached') \subseteq 1..pulled
        /\ \A y \in Fresh : y \in Members(detached') \/ \A e \in Members(detached') : e < y
    <3>1. CASE detached' = detached
      BY <1>1, <3>1 DEF Writing
    <3>2. CASE detached' = task.todo /\ Fresh \subseteq Members(task.todo)
      BY <1>1, <3>2, TaskFields DEF Writing
    <3> QED
      BY <3>1, <3>2
  <2> QED
    BY <1>4, <2>1, <2>2 DEF Writing
<1>8. Ending'
  BY <1>1, <1>4 DEF Ending
<1> QED
  BY <1>6, <1>7, <1>8
----------------------------------------------------------------------------
(* The steps *)

\* After the oldest file the buffer is next, or the loop.
LEMMA ThenFlushSound ==
    ASSUME ForwarderSound, ThenFlush, ~task.final, task.at \notin {"Drain", "Done", "Down"},
           detached' = detached, pulled' = pulled, restarts' = restarts, shutdown' = shutdown,
           Fresh' \subseteq Fresh
    PROVE  AtWork' /\ Writing' /\ Ending'
<1>1. CASE task' = Task("Select")
  BY <1>1, GoesOn DEF At
<1>2. CASE task' = Task("Flush")
  BY <1>2, GoesOn DEF At
<1> QED
  BY <1>1, <1>2 DEF ThenFlush, Goes

\* Only a flush or a spill can be the last of a process.
LEMMA NotFinal ==
    ASSUME ForwarderSound, task.at \notin {"Flush", "Spill"}  PROVE ~task.final
BY DEF ForwarderSound, Ending

\* The interval ticks, and the oldest file or the buffer is next.
LEMMA TickSound ==
    ASSUME ForwarderSound, Tick  PROVE ForwarderSound'
<1>1. UNCHANGED <<published, pulled, shutdown, detached, restarts, boot, batch, spool, acked, gone>>
  BY DEF Tick, Quietly
<1>2. Files' /\ Fresh' = Fresh /\ Spooled' = Spooled /\ oldest_batch' = oldest_batch
  BY <1>1, NothingGone
<1>3. Numbers' /\ Buffer'
  BY <1>1, <1>2, NumbersSame, BufferSame DEF ForwarderSound, Numbers
<1>4. task.at = "Select" /\ ~task.final
  BY NotFinal DEF Tick
<1>5. CASE spool = {}
  <2>1. ThenFlush
    BY <1>5 DEF Tick
  <2> QED
    BY <1>1, <1>2, <1>3, <1>4, <2>1, ThenFlushSound DEF ForwarderSound
<1>6. CASE spool # {} /\ Len(oldest_batch.events) > BatchMax
  <2>1. task' = Task("Split")
    BY <1>6 DEF Tick, Goes
  <2>2. task'.at = "Split" /\ task'.served = FALSE
    BY <2>1, PlainTask DEF At
  <2>3. AtFile'
    BY <1>1, <1>2, <1>6, <2>2 DEF AtFile
  <2> QED
    BY <1>1, <1>2, <1>3, <1>4, <2>1, <2>3, GoesOn DEF ForwarderSound, At
<1>7. CASE spool # {} /\ ~(Len(oldest_batch.events) > BatchMax)
  <2>1. task' = Task("Replay")
    BY <1>7 DEF Tick, Goes
  <2>2. task'.at = "Replay" /\ task'.served = FALSE
    BY <2>1, PlainTask DEF At
  <2>3. AtFile'
    BY <1>1, <1>2, <1>7, <2>2 DEF AtFile
  <2> QED
    BY <1>1, <1>2, <1>3, <1>4, <2>1, <2>3, GoesOn DEF ForwarderSound, At
<1> QED
  BY <1>5, <1>6, <1>7

\* The operator gets events that have been received: nothing else changes.
LEMMA ServedSound ==
    ASSUME ForwarderSound, NEW events, events \subseteq 1..pulled, Serve(events),
           task.at = "Replay" => spool # {} /\ Events(oldest_batch) \subseteq events,
           task.at = "Flush" => Range(SentEvents) \subseteq events,
           task.at \in {"Replay", "Flush"}
    PROVE  ForwarderSound'
<1>1. /\ UNCHANGED <<published, pulled, shutdown, detached, restarts, boot, batch, spool, gone>>
      /\ acked' = acked \cup events /\ task' = [task EXCEPT !.served = TRUE]
  BY DEF Serve, Quietly, Goes
<1>2. Fresh' \subseteq Fresh /\ Pending' \subseteq Pending
  <2>1. Spooled' = Spooled
    BY <1>1 DEF Spooled
  <2> QED
    BY <1>1, <2>1 DEF Fresh, Pending
<1>3. Files' /\ Spooled' = Spooled /\ oldest_batch' = oldest_batch
  BY <1>1, <1>2, FilesSame
<1>4. Numbers' /\ Buffer'
  <2>1. Spooled' \subseteq 1..pulled /\ acked' \subseteq 1..pulled /\ gone' \subseteq 1..pulled
    BY <1>1, <1>3, SoundParts
  <2>2. shutdown' \in BOOLEAN
    BY <1>1 DEF ForwarderSound, Numbers
  <2> QED
    BY <1>1, <1>2, <2>1, <2>2, NumbersSame, BufferSame
<1>5. /\ task' \in Tasks /\ task'.at = task.at /\ task'.final = task.final
      /\ task'.why = task.why /\ task'.todo = task.todo
  <2>1. task \in Tasks
    BY TaskFields
  <2>2. task' \in Tasks
    BY <1>1, <2>1, Zenon DEF Tasks
  <2> QED
    BY <1>1, <2>1, <2>2 DEF Tasks
<1>6. AtWork'
  <2>1. SentEvents' = SentEvents
    BY <1>1 DEF SentEvents
  <2>2. AtFlush'
    BY <1>1, <1>5, <2>1 DEF AtFlush
  <2>3. AtFile'
    BY <1>1, <1>3, <1>5 DEF AtFile
  <2>4. task.why # "None" <=> task.at = "Spill"
    BY DEF ForwarderSound, AtWork
  <2> QED
    BY <1>5, <2>2, <2>3, <2>4 DEF AtWork, Tasks
<1>7. Writing'
  BY <1>1, <1>2, <1>5 DEF ForwarderSound, Writing
<1>8. Ending'
  BY <1>1, <1>2, <1>5 DEF ForwarderSound, Ending
<1> QED
  BY <1>3, <1>4, <1>6, <1>7, <1>8 DEF ForwarderSound

\* The operator takes the events of the oldest file.
LEMMA ReplayServedSound ==
    ASSUME ForwarderSound, ReplayServed  PROVE ForwarderSound'
<1>1. task.at = "Replay" /\ Serve(Events(oldest_batch))
  BY DEF ReplayServed
<1>2. spool # {}
  BY <1>1 DEF ForwarderSound, AtWork, AtFile
<1>3. Events(oldest_batch) \subseteq 1..pulled
  <2>1. oldest_batch \in spool
    BY <1>2, OldestSound
  <2> QED
    BY <2>1, SoundParts DEF Spooled
<1> QED
  BY <1>1, <1>2, <1>3, ServedSound

\* The operator takes the events at the head of the buffer.
LEMMA FlushServedSound ==
    ASSUME ForwarderSound, FlushServed  PROVE ForwarderSound'
<1>1. task.at = "Flush" /\ Serve(Range(SentEvents))
  BY DEF FlushServed
<1>2. Range(SentEvents) \subseteq 1..pulled
  <2> DEFINE k == IF Len(batch) < BatchMax THEN Len(batch) ELSE BatchMax
  <2>1. batch \in Seq(Event) /\ Rising(batch) /\ Range(batch) \subseteq 1..pulled
    BY DEF ForwarderSound, Buffer
  <2>2. k \in 0..Len(batch)
    BY <2>1, LenProperties, ForwarderAssumption
  <2>3. SentEvents = SubSeq(batch, 1, k)
    BY DEF SentEvents
  <2> HIDE DEF k
  <2> QED
    BY <2>1, <2>2, <2>3, SuffixSound
<1> QED
  BY <1>1, <1>2, ServedSound

\* The forwarder hears that the oldest file was taken.
LEMMA ReplaySucceedsSound ==
    ASSUME ForwarderSound, ReplaySucceeds  PROVE ForwarderSound'
<1>1. UNCHANGED <<published, pulled, shutdown, detached, restarts, boot, batch, spool, acked, gone>>
  BY DEF ReplaySucceeds, Quietly
<1>2. Files' /\ Fresh' = Fresh /\ Spooled' = Spooled /\ oldest_batch' = oldest_batch
  BY <1>1, NothingGone
<1>3. Numbers' /\ Buffer'
  BY <1>1, <1>2, NumbersSame, BufferSame DEF ForwarderSound, Numbers
<1>4. task.at = "Replay" /\ task.served /\ ~task.final /\ task' = Task("Unlink")
  BY NotFinal DEF ReplaySucceeds, Goes
<1>5. spool # {} /\ Events(oldest_batch) \subseteq acked
  BY <1>4 DEF ForwarderSound, AtWork, AtFile
<1>6. task'.at = "Unlink"
  BY <1>4, PlainTask DEF At
<1>7. AtFile'
  BY <1>1, <1>2, <1>5, <1>6 DEF AtFile
<1> QED
  BY <1>1, <1>2, <1>3, <1>4, <1>7, GoesOn DEF ForwarderSound, At

\* The oldest file is not delivered, and stays.
LEMMA ReplayFailsSound ==
    ASSUME ForwarderSound, ReplayFails  PROVE ForwarderSound'
<1>1. UNCHANGED <<published, pulled, shutdown, detached, restarts, boot, batch, spool, acked, gone>>
  BY DEF ReplayFails, Quietly
<1>2. Files' /\ Fresh' = Fresh /\ Spooled' = Spooled /\ oldest_batch' = oldest_batch
  BY <1>1, NothingGone
<1>3. Numbers' /\ Buffer'
  BY <1>1, <1>2, NumbersSame, BufferSame DEF ForwarderSound, Numbers
<1>4. task.at = "Replay" /\ ~task.final /\ ThenFlush
  BY NotFinal DEF ReplayFails
<1> QED
  BY <1>1, <1>2, <1>3, <1>4, ThenFlushSound DEF ForwarderSound

\* A delivered file is removed, or cannot be.
LEMMA UnlinkStepSound ==
    ASSUME ForwarderSound, Unlink  PROVE ForwarderSound'
<1>1. UNCHANGED <<published, pulled, shutdown, detached, restarts, boot, batch, acked, gone>>
  BY DEF Unlink, Quietly
<1>2. task.at = "Unlink" /\ ~task.final /\ ThenFlush /\ spool' \in {spool \ {oldest_batch}, spool}
  BY NotFinal DEF Unlink
<1>3. spool # {} /\ Events(oldest_batch) \subseteq acked
  BY <1>2 DEF ForwarderSound, AtWork, AtFile
<1>4. /\ Fresh' = Fresh /\ FirstsInOrder' /\ FreshIsLater' /\ FilesSound'
      /\ Spooled' \subseteq Spooled /\ \A f \in spool' : FileTyped(f)
  BY <1>1, <1>2, <1>3, UnlinkSound
<1>5. Files'
  BY <1>4 DEF Files
<1>6. Numbers' /\ Buffer'
  <2>1. Spooled' \subseteq 1..pulled /\ acked' \subseteq 1..pulled /\ gone' \subseteq 1..pulled
    BY <1>1, <1>4, SoundParts
  <2>2. shutdown' \in BOOLEAN
    BY <1>1 DEF ForwarderSound, Numbers
  <2> QED
    BY <1>1, <1>4, <2>1, <2>2, NumbersSame, BufferSame
<1> QED
  BY <1>1, <1>2, <1>4, <1>5, <1>6, ThenFlushSound DEF ForwarderSound

\* A file that is too long is written again in parts, or cannot be.
LEMMA SplitStepSound ==
    ASSUME ForwarderSound, Split  PROVE ForwarderSound'
<1>1. UNCHANGED <<published, pulled, shutdown, detached, restarts, boot, batch, acked, gone>>
  BY DEF Split, Quietly
<1>2. task.at = "Split" /\ ~task.final
  BY NotFinal DEF Split
<1>3. spool # {} /\ Len(oldest_batch.events) > BatchMax
  BY <1>2 DEF ForwarderSound, AtWork, AtFile
<1>4. PICK n \in 0..Cardinality(Parts(oldest_batch)) :
         /\ spool' = spool \cup {p \in Parts(oldest_batch) : p.part <= n}
         /\ IF n = Cardinality(Parts(oldest_batch)) THEN Goes(Task("Remove")) ELSE ThenFlush
  BY DEF Split
<1> DEFINE new == {p \in Parts(oldest_batch) : p.part <= n}
<1>5. new \subseteq Parts(oldest_batch) /\ spool' = spool \cup new
  BY <1>4
<1> HIDE DEF new
<1>6. /\ Fresh' = Fresh /\ FirstsInOrder' /\ FreshIsLater' /\ FilesSound'
      /\ Spooled' = Spooled /\ (\A f \in spool' : FileTyped(f))
      /\ oldest_batch' = oldest_batch
  BY <1>1, <1>3, <1>5, SplitSound
<1>7. Files'
  BY <1>6 DEF Files
<1>8. Numbers' /\ Buffer'
  <2>1. Spooled' \subseteq 1..pulled /\ acked' \subseteq 1..pulled /\ gone' \subseteq 1..pulled
    BY <1>1, <1>6, SoundParts
  <2>2. shutdown' \in BOOLEAN
    BY <1>1 DEF ForwarderSound, Numbers
  <2> QED
    BY <1>1, <1>6, <2>1, <2>2, NumbersSame, BufferSame
<1>9. CASE n = Cardinality(Parts(oldest_batch))
  <2>1. task' = Task("Remove")
    BY <1>4, <1>9 DEF Goes
  <2>2. task'.at = "Remove" /\ task'.served = FALSE
    BY <2>1, PlainTask DEF At
  <2>3. Parts(oldest_batch) \subseteq spool'
    <3>1. \A p \in Parts(oldest_batch) : p.part <= Cardinality(Parts(oldest_batch))
      BY <1>3, OldestSound, PartsSound
    <3> QED
      BY <1>5, <1>9, <3>1 DEF new
  <2>4. Parts(oldest_batch)' = Parts(oldest_batch)
    BY <1>6 DEF Parts
  <2>5. spool' # {}
    BY <1>3, <1>5
  <2>6. AtFile'
    BY <1>3, <1>6, <2>2, <2>3, <2>4, <2>5 DEF AtFile
  <2> QED
    BY <1>1, <1>2, <1>6, <1>7, <1>8, <2>1, <2>6, GoesOn DEF ForwarderSound, At
<1>10. CASE n # Cardinality(Parts(oldest_batch))
  <2>1. ThenFlush
    BY <1>4, <1>10
  <2> QED
    BY <1>1, <1>2, <1>6, <1>7, <1>8, <2>1, ThenFlushSound DEF ForwarderSound
<1> QED
  BY <1>9, <1>10

\* The file whose parts are written is removed, or cannot be.
LEMMA RemoveSourceSound ==
    ASSUME ForwarderSound, RemoveSource  PROVE ForwarderSound'
<1>1. UNCHANGED <<published, pulled, shutdown, detached, restarts, boot, batch, acked, gone>>
  BY DEF RemoveSource, Quietly
<1>2. task.at = "Remove" /\ ~task.final /\ ThenFlush /\ spool' \in {spool \ {oldest_batch}, spool}
  BY NotFinal DEF RemoveSource
<1>3. spool # {} /\ Len(oldest_batch.events) > BatchMax /\ Parts(oldest_batch) \subseteq spool
  BY <1>2 DEF ForwarderSound, AtWork, AtFile
<1>4. /\ Fresh' = Fresh /\ FirstsInOrder' /\ FreshIsLater' /\ FilesSound'
      /\ Spooled' = Spooled /\ \A f \in spool' : FileTyped(f)
  BY <1>1, <1>2, <1>3, RemoveSound
<1>5. Files'
  BY <1>4 DEF Files
<1>6. Numbers' /\ Buffer'
  <2>1. Spooled' \subseteq 1..pulled /\ acked' \subseteq 1..pulled /\ gone' \subseteq 1..pulled
    BY <1>1, <1>4, SoundParts
  <2>2. shutdown' \in BOOLEAN
    BY <1>1 DEF ForwarderSound, Numbers
  <2> QED
    BY <1>1, <1>4, <2>1, <2>2, NumbersSame, BufferSame
<1> QED
  BY <1>1, <1>2, <1>4, <1>5, <1>6, ThenFlushSound DEF ForwarderSound
\* The forwarder hears that the head of the buffer was taken.
LEMMA FlushSucceedsSound ==
    ASSUME ForwarderSound, FlushSucceeds  PROVE ForwarderSound'
<1>1. UNCHANGED <<published, pulled, shutdown, detached, restarts, boot, spool, acked, gone>>
  BY DEF FlushSucceeds, Quietly
<1>2. Files' /\ Fresh' = Fresh /\ Spooled' = Spooled /\ oldest_batch' = oldest_batch
  BY <1>1, NothingGone
<1>3. Numbers'
  BY <1>1, <1>2, NumbersSame DEF ForwarderSound, Numbers
<1>4. task.at = "Flush" /\ task.served /\ Range(SentEvents) \subseteq acked
  BY DEF FlushSucceeds, ForwarderSound, AtWork, AtFlush
<1> DEFINE k == IF Len(batch) < BatchMax THEN Len(batch) ELSE BatchMax
<1>5. /\ batch \in Seq(Event) /\ Rising(batch) /\ Range(batch) \subseteq 1..pulled
      /\ Len(batch) \in Nat /\ Len(batch) <= BufferMax /\ Fresh \subseteq Range(batch)
  BY LenProperties DEF ForwarderSound, Buffer
<1>6. k \in 0..Len(batch) /\ SentEvents = SubSeq(batch, 1, k)
  BY <1>5, ForwarderAssumption DEF SentEvents
<1> HIDE DEF k
<1>7. /\ SubSeq(batch, k + 1, Len(batch)) \in Seq(Event)
      /\ Len(SubSeq(batch, k + 1, Len(batch))) = Len(batch) - k
      /\ Rising(SubSeq(batch, k + 1, Len(batch)))
      /\ Len(SubSeq(batch, 1, k)) = k
      /\ Range(batch) = Range(SubSeq(batch, 1, k)) \cup Range(SubSeq(batch, k + 1, Len(batch)))
  BY <1>5, <1>6, SuffixSound
<1>8. batch' = SubSeq(batch, k + 1, Len(batch))
  BY <1>6, <1>7 DEF FlushSucceeds
<1>9. /\ batch' \in Seq(Event) /\ Len(batch') = Len(batch) - k /\ Rising(batch')
      /\ Range(batch) = Range(SentEvents) \cup Range(batch')
  BY <1>6, <1>7, <1>8
<1>10. Fresh \subseteq Range(batch')
  BY <1>4, <1>5, <1>9 DEF Fresh
<1>11. Buffer'
  <2>1. Len(batch') <= BufferMax
    BY <1>5, <1>6, <1>9, ForwarderAssumption
  <2> QED
    BY <1>1, <1>2, <1>5, <1>9, <1>10, <2>1 DEF Buffer
<1>12. CASE batch' # <<>>
  <2>1. task' = [task EXCEPT !.served = FALSE]
    BY <1>12 DEF FlushSucceeds, Goes
  <2>2. task \in Tasks
    BY TaskFields
  <2>3. task' \in Tasks
    BY <2>1, <2>2, Zenon DEF Tasks
  <2>4. /\ task'.at = "Flush" /\ task'.final = task.final /\ task'.why = task.why
        /\ task'.todo = task.todo /\ task'.served = FALSE
    BY <1>4, <2>1, <2>2 DEF Tasks
  <2>5. AtWork'
    BY <1>4, <2>3, <2>4 DEF AtWork, Tasks, AtFile, AtFlush, ForwarderSound
  <2>6. Writing'
    BY <1>1, <1>2, <2>4 DEF ForwarderSound, Writing
  <2>7. Ending'
    BY <1>1, <1>2, <1>4, <2>4 DEF ForwarderSound, Ending
  <2> QED
    BY <1>2, <1>3, <1>11, <2>5, <2>6, <2>7 DEF ForwarderSound
<1>13. CASE batch' = <<>> /\ task.final
  <2>1. task' = Task("Done")
    BY <1>13 DEF FlushSucceeds, Goes
  <2>2. Fresh' = {}
    BY <1>2, <1>10, <1>13, NoChunks
  <2>3. shutdown /\ pulled = published
    BY <1>13 DEF ForwarderSound, Ending
  <2> QED
    BY <1>1, <1>2, <1>3, <1>11, <2>1, <2>2, <2>3, Finishes DEF ForwarderSound
<1>14. CASE batch' = <<>> /\ ~task.final
  <2>1. task' = Task("Select")
    BY <1>14 DEF FlushSucceeds, Goes
  <2> QED
    BY <1>1, <1>2, <1>3, <1>4, <1>11, <1>14, <2>1, GoesOn DEF ForwarderSound, At
<1> QED
  BY <1>12, <1>13, <1>14

\* No exhibition is open: the buffer is to be written to files.
LEMMA FlushInactiveSound ==
    ASSUME ForwarderSound, FlushInactive  PROVE ForwarderSound'
<1>1. UNCHANGED <<published, pulled, shutdown, detached, restarts, boot, batch, spool, acked, gone>>
  BY DEF FlushInactive, Quietly
<1>2. Files' /\ Fresh' = Fresh /\ Spooled' = Spooled /\ oldest_batch' = oldest_batch
  BY <1>1, NothingGone
<1>3. Numbers' /\ Buffer'
  BY <1>1, <1>2, NumbersSame, BufferSame DEF ForwarderSound, Numbers
<1>4. task.at = "Flush" /\ task' = Spilling("Inactive", task.final) /\ task.final \in BOOLEAN
  BY TaskFields DEF FlushInactive, Goes
<1>5. task.final => shutdown /\ pulled = published
  BY DEF ForwarderSound, Ending
<1>6. task.final \/ detached' = <<>>
  BY <1>1, <1>4 DEF ForwarderSound, Ending
<1>7. AtWork' /\ Writing' /\ Ending'
  BY <1>1, <1>2, <1>4, <1>5, <1>6, StartsSpill
<1> QED
  BY <1>2, <1>3, <1>7 DEF ForwarderSound

\* A flush fails: the events stay in the buffer, or go to files when it was the last.
LEMMA FlushFailsSound ==
    ASSUME ForwarderSound, FlushFails  PROVE ForwarderSound'
<1>1. UNCHANGED <<published, pulled, shutdown, detached, restarts, boot, batch, spool, acked, gone>>
  BY DEF FlushFails, Quietly
<1>2. Files' /\ Fresh' = Fresh /\ Spooled' = Spooled /\ oldest_batch' = oldest_batch
  BY <1>1, NothingGone
<1>3. Numbers' /\ Buffer'
  BY <1>1, <1>2, NumbersSame, BufferSame DEF ForwarderSound, Numbers
<1>4. task.at = "Flush"
  BY DEF FlushFails
<1>5. CASE task.final
  <2>1. task' = Spilling("Final", TRUE)
    BY <1>5 DEF FlushFails, Goes
  <2>2. shutdown /\ pulled = published
    BY <1>5 DEF ForwarderSound, Ending
  <2>3. AtWork' /\ Writing' /\ Ending'
    BY <1>1, <1>2, <2>1, <2>2, StartsSpill
  <2> QED
    BY <1>2, <1>3, <2>3 DEF ForwarderSound
<1>6. CASE ~task.final
  <2>1. task' = Task("AfterFlush")
    BY <1>6 DEF FlushFails, Goes
  <2> QED
    BY <1>1, <1>2, <1>3, <1>4, <1>6, <2>1, GoesOn DEF ForwarderSound, At
<1> QED
  BY <1>5, <1>6

\* What follows a flush: the loop, or the end of the process.
LEMMA AfterFlushSound ==
    ASSUME ForwarderSound, AfterFlush  PROVE ForwarderSound'
<1>1. UNCHANGED <<published, pulled, shutdown, detached, restarts, boot, batch, spool, acked, gone>>
  BY DEF AfterFlush, Quietly
<1>2. Files' /\ Fresh' = Fresh /\ Spooled' = Spooled /\ oldest_batch' = oldest_batch
  BY <1>1, NothingGone
<1>3. Numbers' /\ Buffer'
  BY <1>1, <1>2, NumbersSame, BufferSame DEF ForwarderSound, Numbers
<1>4. task.at = "AfterFlush" /\ ~task.final /\ detached = <<>>
  BY NotFinal DEF AfterFlush, ForwarderSound, Ending
<1>5. CASE task' = Task("Select")
  BY <1>1, <1>2, <1>3, <1>4, <1>5, GoesOn DEF ForwarderSound, At
<1>6. CASE task' = Spilling("Full", FALSE)
  <2>1. AtWork' /\ Writing' /\ Ending'
    BY <1>1, <1>2, <1>4, <1>6, StartsSpill
  <2> QED
    BY <1>2, <1>3, <2>1 DEF ForwarderSound
<1> QED
  BY <1>5, <1>6 DEF AfterFlush, Goes

\* What a spill under way has to write.
LEMMA ToWrite ==
    ASSUME ForwarderSound, task.at = "Spill", task.todo # <<>>
    PROVE  /\ Head(task.todo) \in Seq(Event) /\ Head(task.todo) # <<>> /\ Rising(Head(task.todo))
           /\ Range(Head(task.todo)) \subseteq 1..pulled
           /\ Tail(task.todo) \in Seq(Seq(Event)) /\ InOrder(Tail(task.todo))
           /\ Members(Tail(task.todo)) \subseteq 1..pulled
           /\ Fresh \subseteq Range(Head(task.todo)) \cup Members(Tail(task.todo))
           /\ \A x \in Fresh \ Range(Head(task.todo)), e \in Range(Head(task.todo)) : e < x
<1>1. /\ task.todo \in Seq(Seq(Event)) /\ InOrder(task.todo) /\ Members(task.todo) \subseteq 1..pulled
      /\ Fresh \subseteq Members(task.todo)
  BY TaskFields DEF ForwarderSound, Writing
<1>2. /\ Head(task.todo) \in Seq(Event) /\ Head(task.todo) # <<>> /\ Rising(Head(task.todo))
      /\ Tail(task.todo) \in Seq(Seq(Event)) /\ InOrder(Tail(task.todo))
      /\ Members(task.todo) = Range(Head(task.todo)) \cup Members(Tail(task.todo))
      /\ \A a \in Range(Head(task.todo)), b \in Members(Tail(task.todo)) : a < b
  BY <1>1, FirstAndRest
<1> QED
  BY <1>1, <1>2

\* The next chunk of the buffer becomes a file.
LEMMA SpillWritesSound ==
    ASSUME ForwarderSound, SpillWrites  PROVE ForwarderSound'
<1>1. UNCHANGED <<published, pulled, shutdown, detached, restarts, boot, batch, acked>>
  BY DEF SpillWrites, Quietly
<1>2. /\ task.at = "Spill" /\ task.todo # <<>> /\ spill(Head(task.todo), {})
      /\ task' = [task EXCEPT !.todo = Tail(@)]
  BY DEF SpillWrites, Goes
<1>3. /\ Head(task.todo) \in Seq(Event) /\ Head(task.todo) # <<>> /\ Rising(Head(task.todo))
      /\ Range(Head(task.todo)) \subseteq 1..pulled
      /\ Tail(task.todo) \in Seq(Seq(Event)) /\ InOrder(Tail(task.todo))
      /\ Members(Tail(task.todo)) \subseteq 1..pulled
      /\ Fresh \subseteq Range(Head(task.todo)) \cup Members(Tail(task.todo))
      /\ \A x \in Fresh \ Range(Head(task.todo)), e \in Range(Head(task.todo)) : e < x
  BY <1>2, ToWrite
<1>4. /\ Fresh' = Fresh \ (Range(Head(task.todo)) \cup {})
      /\ FirstsInOrder' /\ FreshIsLater' /\ FilesSound'
      /\ Spooled' \subseteq 1..pulled /\ gone' \subseteq 1..pulled
      /\ \A f \in spool' : FileTyped(f)
  BY <1>1, <1>2, <1>3, SpillSound
<1>5. Files'
  BY <1>4 DEF Files
<1>6. Numbers' /\ Buffer'
  <2>1. acked' \subseteq 1..pulled
    BY <1>1, SoundParts
  <2>2. shutdown' \in BOOLEAN
    BY <1>1 DEF ForwarderSound, Numbers
  <2> QED
    BY <1>1, <1>4, <2>1, <2>2, NumbersSame, BufferSame
<1>7. task \in Tasks
  BY TaskFields
<1>8. task' \in Tasks
  BY <1>2, <1>3, <1>7, Zenon DEF Tasks
<1>9. /\ task'.at = "Spill" /\ task'.final = task.final /\ task'.why = task.why
      /\ task'.todo = Tail(task.todo) /\ task'.served = task.served
  BY <1>2, <1>7 DEF Tasks
<1>10. AtWork'
  BY <1>2, <1>8, <1>9 DEF AtWork, Tasks, AtFile, AtFlush, ForwarderSound
<1>11. Writing'
  BY <1>1, <1>3, <1>4, <1>9 DEF ForwarderSound, Writing
<1>12. Ending'
  BY <1>1, <1>2, <1>4, <1>9 DEF ForwarderSound, Ending
<1> QED
  BY <1>5, <1>6, <1>10, <1>11, <1>12 DEF ForwarderSound

\* Every chunk of the buffer is a file.
LEMMA SpillEndsSound ==
    ASSUME ForwarderSound, SpillEnds  PROVE ForwarderSound'
<1>1. UNCHANGED <<published, pulled, shutdown, detached, restarts, boot, spool, acked, gone>>
  BY DEF SpillEnds, Quietly
<1>2. Files' /\ Fresh' = Fresh /\ Spooled' = Spooled /\ oldest_batch' = oldest_batch
  BY <1>1, NothingGone
<1>3. Numbers'
  BY <1>1, <1>2, NumbersSame DEF ForwarderSound, Numbers
<1>4. task.at = "Spill" /\ task.todo = <<>> /\ batch' = <<>>
  BY DEF SpillEnds
<1>5. Fresh = {}
  BY <1>4, NoChunks DEF ForwarderSound, Writing
<1>6. Buffer'
  <2>1. Len(<<>>) = 0
    BY EmptySeq
  <2> QED
    BY <1>2, <1>4, <1>5, <2>1, NoChunks, ForwarderAssumption DEF Buffer
<1>7. CASE task.final
  <2>1. task' = Task("Done")
    BY <1>7 DEF SpillEnds, Goes
  <2>2. shutdown /\ pulled = published
    BY <1>7 DEF ForwarderSound, Ending
  <2> QED
    BY <1>1, <1>2, <1>3, <1>5, <1>6, <2>1, <2>2, Finishes DEF ForwarderSound
<1>8. CASE ~task.final
  <2>1. task' = Task("Select")
    BY <1>8 DEF SpillEnds, Goes
  <2> QED
    BY <1>1, <1>2, <1>3, <1>4, <1>6, <1>8, <2>1, GoesOn DEF ForwarderSound, At
<1> QED
  BY <1>7, <1>8

\* A chunk cannot be written.
LEMMA SpillFailsSound ==
    ASSUME ForwarderSound, SpillFails  PROVE ForwarderSound'
<1>1. UNCHANGED <<published, pulled, shutdown, detached, restarts, boot, batch, acked>>
  BY DEF SpillFails, Quietly
<1>2. task.at = "Spill" /\ task.todo # <<>> /\ task' = Unspilled
  BY DEF SpillFails, Goes
<1>3. /\ Head(task.todo) \in Seq(Event) /\ Head(task.todo) # <<>> /\ Rising(Head(task.todo))
      /\ Range(Head(task.todo)) \subseteq 1..pulled
      /\ \A x \in Fresh \ Range(Head(task.todo)), e \in Range(Head(task.todo)) : e < x
  BY <1>2, ToWrite
<1> DEFINE lost == IF task.why = "Final" THEN Range(batch) ELSE {}
<1>4. \/ UNCHANGED spool /\ gone' = gone \cup lost
      \/ spill(Head(task.todo), lost)
  BY DEF SpillFails
<1>5. /\ lost \subseteq 1..pulled /\ (task.why = "Final" => Fresh \subseteq lost)
  BY DEF ForwarderSound, Buffer
<1> HIDE DEF lost
<1>6. /\ Fresh' \subseteq Fresh \ lost /\ Files'
      /\ Spooled' \subseteq 1..pulled /\ gone' \subseteq 1..pulled
  <2>1. CASE UNCHANGED spool /\ gone' = gone \cup lost
    <3>1. Spooled' = Spooled
      BY <2>1 DEF Spooled
    <3>2. Fresh' \subseteq Fresh \ lost /\ Pending' \subseteq Pending
      BY <1>1, <2>1, <3>1 DEF Fresh, Pending
    <3>3. Files'
      BY <2>1, <3>2, FilesSame
    <3> QED
      BY <1>5, <2>1, <3>1, <3>2, <3>3, SoundParts
  <2>2. CASE spill(Head(task.todo), lost)
    <3>1. \A x \in Fresh \ (Range(Head(task.todo)) \cup lost), e \in Fresh \cap Range(Head(task.todo)) : e < x
      BY <1>3
    <3>2. /\ Fresh' = Fresh \ (Range(Head(task.todo)) \cup lost)
          /\ FirstsInOrder' /\ FreshIsLater' /\ FilesSound'
          /\ Spooled' \subseteq 1..pulled /\ gone' \subseteq 1..pulled
          /\ \A f \in spool' : FileTyped(f)
      BY <1>1, <1>3, <1>5, <2>2, <3>1, SpillSound
    <3> QED
      BY <3>2 DEF Files
  <2> QED
    BY <1>4, <2>1, <2>2
<1>7. Numbers' /\ Buffer'
  <2>1. acked' \subseteq 1..pulled
    BY <1>1, SoundParts
  <2>2. shutdown' \in BOOLEAN
    BY <1>1 DEF ForwarderSound, Numbers
  <2> QED
    BY <1>1, <1>6, <2>1, <2>2, NumbersSame, BufferSame
<1>8. Fresh' \subseteq Fresh
  BY <1>6
<1>9. task.why \in {"Inactive", "Full", "Final"} /\ task.final \in BOOLEAN
  BY <1>2, TaskFields DEF ForwarderSound, AtWork, Reasons
<1>10. CASE task.why = "Final"
  <2>1. task' = Task("Done")
    BY <1>2, <1>10 DEF Unspilled
  <2>2. task.final /\ shutdown /\ pulled = published
    BY <1>10 DEF ForwarderSound, Ending
  <2>3. Fresh' = {}
    BY <1>5, <1>6, <1>10
  <2> QED
    BY <1>1, <1>6, <1>7, <2>1, <2>2, <2>3, Finishes DEF ForwarderSound
<1>11. CASE task.why = "Inactive" /\ task.final
  <2>1. task' = Spilling("Final", TRUE)
    BY <1>2, <1>11 DEF Unspilled
  <2>2. shutdown /\ pulled = published
    BY <1>11 DEF ForwarderSound, Ending
  <2>3. AtWork' /\ Writing' /\ Ending'
    BY <1>1, <1>8, <2>1, <2>2, StartsSpill
  <2> QED
    BY <1>6, <1>7, <2>3 DEF ForwarderSound
<1>12. CASE task.why = "Inactive" /\ ~task.final
  <2>1. task' = Task("AfterFlush")
    BY <1>2, <1>12 DEF Unspilled
  <2> QED
    BY <1>1, <1>2, <1>6, <1>7, <1>8, <1>12, <2>1, GoesOn DEF ForwarderSound, At
<1>13. CASE task.why = "Full"
  <2>1. task' = Task("Select")
    BY <1>2, <1>13 DEF Unspilled
  <2>2. ~task.final
    BY <1>13 DEF ForwarderSound, Ending
  <2> QED
    BY <1>1, <1>2, <1>6, <1>7, <1>8, <2>1, <2>2, GoesOn DEF ForwarderSound, At
<1> QED
  BY <1>9, <1>10, <1>11, <1>12, <1>13
\* A receiver that lags behind the channel gives the oldest record up.
LEMMA PublishSound ==
    ASSUME ForwarderSound, Publish  PROVE ForwarderSound'
<1>1. /\ UNCHANGED <<batch, spool, task, shutdown, detached, restarts, boot, acked>>
      /\ published < MaxEvents /\ task.at # "Down" /\ ~shutdown /\ published' = published + 1
  BY DEF Publish
<1>2. /\ published \in Nat /\ pulled \in Nat /\ pulled <= published /\ BusMax \in Nat \ {0}
      /\ published - pulled <= BusMax /\ MaxEvents \in Nat
  BY ForwarderAssumption DEF ForwarderSound, Numbers
<1>3. /\ pulled' \in Nat /\ pulled <= pulled' /\ pulled' <= published' /\ published' - pulled' <= BusMax
      /\ Fresh' = Fresh /\ Pending' = Pending /\ gone' \subseteq 1..pulled'
  <2>0. Spooled' = Spooled /\ Spooled \subseteq 1..pulled /\ gone \subseteq 1..pulled
    BY <1>1, SoundParts DEF Spooled
  <2>1. CASE published - pulled = BusMax
    <3>1. pulled' = pulled + 1 /\ gone' = gone \cup {pulled + 1}
      BY <2>1 DEF Publish
    <3>2. 1..pulled' = (1..pulled) \cup {pulled + 1} /\ pulled + 1 \notin 1..pulled
      BY <1>2, <3>1
    <3>3. Fresh' = Fresh /\ Pending' = Pending
      BY <1>1, <2>0, <3>1, <3>2 DEF Fresh, Pending
    <3> QED
      BY <1>1, <1>2, <2>0, <2>1, <3>1, <3>2, <3>3
  <2>2. CASE published - pulled # BusMax
    <3>1. pulled' = pulled /\ gone' = gone
      BY <2>2 DEF Publish
    <3>2. Fresh' = Fresh /\ Pending' = Pending
      BY <1>1, <2>0, <3>1 DEF Fresh, Pending
    <3> QED
      BY <1>1, <1>2, <2>0, <2>2, <3>1, <3>2
  <2> QED
    BY <2>1, <2>2
<1>4. Files' /\ Spooled' = Spooled /\ oldest_batch' = oldest_batch
  BY <1>1, <1>3, FilesSame
<1>5. 1..pulled \subseteq 1..pulled'
  BY <1>2, <1>3
<1>6. Numbers'
  <2>1. published' \in 0..MaxEvents /\ pulled' \in 0..published'
    BY <1>1, <1>2, <1>3
  <2>2. Spooled' \subseteq 1..pulled' /\ acked' \subseteq 1..pulled'
    BY <1>1, <1>4, <1>5, SoundParts
  <2>3. boot' \in 0..published'
    BY <1>1, <1>2 DEF ForwarderSound, Numbers
  <2>4. shutdown' \in BOOLEAN /\ restarts' \in 0..MaxRestarts
    BY <1>1 DEF ForwarderSound, Numbers
  <2> QED
    BY <1>3, <2>1, <2>2, <2>3, <2>4 DEF Numbers
<1>7. Buffer'
  BY <1>1, <1>3, <1>5 DEF ForwarderSound, Buffer
<1>8. AtWork'
  <2>1. SentEvents' = SentEvents
    BY <1>1 DEF SentEvents
  <2>2. AtFlush'
    BY <1>1, <2>1 DEF AtFlush, ForwarderSound, AtWork
  <2>3. Parts(oldest_batch)' = Parts(oldest_batch)
    BY <1>4 DEF Parts
  <2>4. AtFile'
    BY <1>1, <1>4, <2>3 DEF AtFile, ForwarderSound, AtWork
  <2> QED
    BY <1>1, <2>2, <2>4 DEF AtWork, ForwarderSound
<1>9. Writing'
  BY <1>1, <1>3, <1>5 DEF ForwarderSound, Writing
<1>10. Ending'
  BY <1>1 DEF ForwarderSound, Ending
<1> QED
  BY <1>4, <1>6, <1>7, <1>8, <1>9, <1>10 DEF ForwarderSound

\* The next event is received; the oldest in the buffer may have to make room.
LEMMA PullSound ==
    ASSUME ForwarderSound, Pull
    PROVE  /\ Files' /\ Numbers' /\ Buffer' /\ 1..pulled \subseteq 1..pulled'
           /\ Fresh' \subseteq Fresh \cup {pulled + 1} /\ pulled \in Nat
<1>1. /\ UNCHANGED <<published, spool, shutdown, detached, restarts, boot, acked>>
      /\ pulled < published /\ pulled' = pulled + 1 /\ Push(pulled + 1)
  BY DEF Pull
<1>2. /\ published \in Nat /\ pulled \in Nat /\ published <= MaxEvents /\ BusMax \in Nat
      /\ published - pulled <= BusMax /\ MaxEvents \in Nat /\ BufferMax \in Nat \ {0}
  BY ForwarderAssumption DEF ForwarderSound, Numbers
<1>3. /\ batch \in Seq(Event) /\ Rising(batch) /\ Range(batch) \subseteq 1..pulled
      /\ Len(batch) \in Nat /\ Len(batch) <= BufferMax /\ Fresh \subseteq Range(batch)
  BY LenProperties DEF ForwarderSound, Buffer
<1>4. /\ pulled + 1 \in Event /\ pulled + 1 \notin 1..pulled
      /\ 1..pulled' = (1..pulled) \cup {pulled + 1} /\ \A a \in 1..pulled : a < pulled + 1
  BY <1>1, <1>2 DEF Event
<1>5. /\ Spooled' = Spooled /\ Spooled \subseteq 1..pulled /\ gone \subseteq 1..pulled
      /\ acked \subseteq 1..pulled
  BY <1>1, SoundParts DEF Spooled
<1>6. /\ batch' \in Seq(Event) /\ Len(batch') <= BufferMax /\ Rising(batch')
      /\ Range(batch') \subseteq Range(batch) \cup {pulled + 1} /\ pulled + 1 \in Range(batch')
      /\ gone \subseteq gone' /\ gone' \subseteq gone \cup Range(batch)
      /\ Range(batch) \subseteq Range(batch') \cup gone'
  <2>1. CASE Len(batch) >= BufferMax
    <3>1. batch' = Append(Tail(batch), pulled + 1) /\ gone' = gone \cup {Head(batch)}
      BY <1>1, <2>1 DEF Push
    <3>2. batch # <<>>
      <4>1. Len(<<>>) = 0
        BY EmptySeq
      <4> QED
        BY <1>2, <2>1, <4>1
    <3>3. /\ Tail(batch) \in Seq(Event) /\ Len(Tail(batch)) = Len(batch) - 1 /\ Rising(Tail(batch))
          /\ Range(batch) = {Head(batch)} \cup Range(Tail(batch))
      BY <1>3, <3>2, DropSound
    <3>4. \A a \in Range(Tail(batch)) : a < pulled + 1
      BY <1>3, <1>4, <3>3
    <3>5. /\ batch' \in Seq(Event) /\ Len(batch') = Len(Tail(batch)) + 1
          /\ Rising(batch') /\ Range(batch') = Range(Tail(batch)) \cup {pulled + 1}
      BY <1>4, <3>1, <3>3, <3>4, AppendSound
    <3>6. Len(batch') <= BufferMax
      BY <1>2, <1>3, <3>3, <3>5
    <3> QED
      BY <3>1, <3>3, <3>5, <3>6
  <2>2. CASE ~(Len(batch) >= BufferMax)
    <3>1. batch' = Append(batch, pulled + 1) /\ gone' = gone
      BY <1>1, <2>2 DEF Push
    <3>2. \A a \in Range(batch) : a < pulled + 1
      BY <1>3, <1>4
    <3>3. /\ batch' \in Seq(Event) /\ Len(batch') = Len(batch) + 1
          /\ Rising(batch') /\ Range(batch') = Range(batch) \cup {pulled + 1}
      BY <1>3, <1>4, <3>1, <3>2, AppendSound
    <3>4. Len(batch') <= BufferMax
      BY <1>2, <1>3, <2>2, <3>3
    <3> QED
      BY <3>1, <3>3, <3>4
  <2> QED
    BY <2>1, <2>2
<1>7. Fresh' \subseteq Fresh \cup {pulled + 1} /\ Pending' \subseteq Pending
  BY <1>1, <1>4, <1>5, <1>6 DEF Fresh, Pending
<1>8. Fresh' \subseteq Range(batch')
  <2>1. \A x \in Fresh' : x \notin gone'
    BY DEF Fresh
  <2> QED
    BY <1>3, <1>6, <1>7, <2>1
<1>9. Files'
  <2>1. FirstsInOrder /\ FreshIsLater /\ FilesSound /\ \A f \in spool : FileTyped(f)
    BY DEF ForwarderSound, Files
  <2>2. FirstsInOrder'
    <3> SUFFICES ASSUME NEW d \in Pending', NEW e \in Pending', d < e,
                        NEW g \in spool', e \in Events(g)
                 PROVE  \E h \in spool' : d \in Events(h) /\ NotAfter(h, g)
      BY DEF FirstsInOrder
    <3> QED
      BY <1>1, <1>7, <2>1 DEF FirstsInOrder
  <2>3. FreshIsLater'
    <3> SUFFICES ASSUME NEW x \in Fresh', NEW e \in Pending'  PROVE e < x
      BY DEF FreshIsLater
    <3>1. CASE x \in Fresh
      BY <1>7, <2>1, <3>1 DEF FreshIsLater
    <3>2. CASE x = pulled + 1
      <4>1. e \in 1..pulled
        BY <1>5, <1>7 DEF Pending
      <4> QED
        BY <1>4, <3>2, <4>1
    <3> QED
      BY <1>7, <3>1, <3>2
  <2>4. FilesSound'
    BY <1>1, <2>1 DEF FilesSound
  <2> QED
    BY <1>1, <2>1, <2>2, <2>3, <2>4 DEF Files
<1>10. Numbers'
  <2>1. pulled' \in 0..published' /\ published' - pulled' <= BusMax /\ published' \in 0..MaxEvents
    BY <1>1, <1>2
  <2>2. Spooled' \subseteq 1..pulled' /\ acked' \subseteq 1..pulled' /\ gone' \subseteq 1..pulled'
    BY <1>1, <1>3, <1>4, <1>5, <1>6
  <2>3. boot' \in 0..published' /\ shutdown' \in BOOLEAN /\ restarts' \in 0..MaxRestarts
    BY <1>1 DEF ForwarderSound, Numbers
  <2> QED
    BY <2>1, <2>2, <2>3 DEF Numbers
<1>11. Buffer'
  <2>1. Range(batch') \subseteq 1..pulled'
    BY <1>3, <1>4, <1>6
  <2> QED
    BY <1>6, <1>8, <2>1 DEF Buffer
<1> QED
  BY <1>2, <1>4, <1>7, <1>9, <1>10, <1>11

\* An event is pulled into the buffer, by the running loop.
LEMMA IngestSound ==
    ASSUME ForwarderSound, Ingest  PROVE ForwarderSound'
<1>1. task.at = "Select" /\ ~task.final /\ Pull /\ detached = <<>>
  BY NotFinal DEF Ingest, ForwarderSound, Ending
<1>2. UNCHANGED <<published, spool, shutdown, detached, restarts, boot, acked>>
  BY <1>1 DEF Pull
<1>3. Files' /\ Numbers' /\ Buffer' /\ 1..pulled \subseteq 1..pulled'
  BY <1>1, PullSound
<1>4. task' \in Tasks /\ task'.at \in {"Select", "Flush"} /\ task'.final = FALSE
      /\ task'.why = "None" /\ InOrder(task'.todo) /\ Members(task'.todo) \subseteq 1..pulled'
      /\ (task'.at = "Flush" => task'.served = FALSE)
  <2>1. CASE task' = Task("Flush")
    BY <2>1, PlainTask, NoChunks DEF At
  <2>2. CASE task' = task
    <3>1. InOrder(task.todo) /\ Members(task.todo) \subseteq 1..pulled
      BY DEF ForwarderSound, Writing
    <3>2. task.why = "None"
      BY <1>1 DEF ForwarderSound, AtWork
    <3> QED
      BY <1>1, <1>3, <2>2, <3>1, <3>2, TaskFields
  <2> QED
    BY <2>1, <2>2 DEF Ingest, Goes
<1>5. AtWork'
  BY <1>4 DEF AtWork, Tasks, AtFile, AtFlush
<1>6. Writing'
  BY <1>1, <1>2, <1>4, NoChunks DEF Writing
<1>7. Ending'
  BY <1>1, <1>2, <1>4 DEF Ending, ForwarderSound
<1> QED
  BY <1>3, <1>5, <1>6, <1>7 DEF ForwarderSound

\* An event is pulled into the buffer, by the shutdown.
LEMMA DrainSound ==
    ASSUME ForwarderSound, Drain  PROVE ForwarderSound'
<1>1. task.at = "Drain" /\ ~task.final /\ Pull /\ task' = task
  BY NotFinal DEF Drain
<1>2. UNCHANGED <<published, spool, shutdown, detached, restarts, boot, acked>>
  BY <1>1 DEF Pull
<1>3. /\ Files' /\ Numbers' /\ Buffer' /\ 1..pulled \subseteq 1..pulled'
      /\ Fresh' \subseteq Fresh \cup {pulled + 1} /\ pulled \in Nat
  BY <1>1, PullSound
<1>4. AtWork'
  BY <1>1 DEF AtWork, Tasks, AtFile, AtFlush, ForwarderSound
<1>5. Writing'
  <2>1. \A x \in Fresh : x \in Members(detached) \/ \A e \in Members(detached) : e < x
    BY DEF ForwarderSound, Writing
  <2>2. \A e \in Members(detached) : e < pulled + 1
    <3>1. Members(detached) \subseteq 1..pulled
      BY DEF ForwarderSound, Writing
    <3>2. \A e \in 1..pulled : e < pulled + 1
      BY <1>3
    <3> QED
      BY <3>1, <3>2
  <2>3. \A x \in Fresh' : x \in Members(detached) \/ \A e \in Members(detached) : e < x
    BY <1>3, <2>1, <2>2
  <2> QED
    BY <1>1, <1>2, <1>3, <2>3 DEF Writing, ForwarderSound
<1>6. Ending'
  BY <1>1, <1>2 DEF Ending, ForwarderSound
<1> QED
  BY <1>3, <1>4, <1>5, <1>6 DEF ForwarderSound

\* The process is told to stop.
LEMMA ShutdownSound ==
    ASSUME ForwarderSound, Shutdown  PROVE ForwarderSound'
<1>1. UNCHANGED <<published, pulled, batch, spool, task, detached, restarts, boot, acked, gone>>
      /\ shutdown' = TRUE /\ restarts < MaxRestarts
  BY DEF Shutdown
<1>2. Files' /\ Fresh' = Fresh /\ Spooled' = Spooled /\ oldest_batch' = oldest_batch
  BY <1>1, NothingGone
<1>3. Numbers' /\ Buffer'
  BY <1>1, <1>2, NumbersSame, BufferSame DEF ForwarderSound, Numbers
<1>4. AtWork'
  <2>1. SentEvents' = SentEvents /\ Parts(oldest_batch)' = Parts(oldest_batch)
    BY <1>1, <1>2 DEF SentEvents, Parts
  <2>2. AtFlush'
    BY <1>1, <2>1 DEF AtFlush, ForwarderSound, AtWork
  <2>3. AtFile'
    BY <1>1, <1>2, <2>1 DEF AtFile, ForwarderSound, AtWork
  <2> QED
    BY <1>1, <2>2, <2>3 DEF AtWork, ForwarderSound
<1>5. Writing'
  BY <1>1, <1>2 DEF ForwarderSound, Writing
<1>6. Ending'
  BY <1>1, <1>2 DEF ForwarderSound, Ending
<1> QED
  BY <1>2, <1>3, <1>4, <1>5, <1>6 DEF ForwarderSound

\* The task turns to what is still in the channel.
LEMMA TurnsToDrain ==
    ASSUME ForwarderSound, task' = Task("Drain"), shutdown, Fresh' = Fresh,
           UNCHANGED <<published, pulled, shutdown, restarts>>,
           \/ detached' = detached
           \/ detached' = task.todo /\ Fresh \subseteq Members(task.todo)
    PROVE  AtWork' /\ Writing' /\ Ending'
<1>1. /\ task' \in Tasks /\ task'.at = "Drain" /\ task'.served = FALSE /\ task'.final = FALSE
      /\ task'.why = "None" /\ task'.todo = <<>>
  BY PlainTask DEF At
<1>2. AtWork'
  BY <1>1 DEF AtWork, Tasks, AtFile, AtFlush
<1>3. Writing'
  <2>1. /\ detached' \in Seq(Seq(Event)) /\ InOrder(detached') /\ Members(detached') \subseteq 1..pulled
        /\ \A y \in Fresh : y \in Members(detached') \/ \A e \in Members(detached') : e < y
    <3>1. CASE detached' = detached
      BY <3>1 DEF Writing, ForwarderSound
    <3>2. CASE detached' = task.todo /\ Fresh \subseteq Members(task.todo)
      BY <3>2, TaskFields DEF Writing, ForwarderSound
    <3> QED
      BY <3>1, <3>2
  <2> QED
    BY <1>1, <2>1, NoChunks DEF Writing
<1>4. Ending'
  BY <1>1 DEF Ending, ForwarderSound
<1> QED
  BY <1>2, <1>3, <1>4

\* The signal ends what the loop was at; what is being written goes on detached.
LEMMA AbandonEventsSound ==
    ASSUME ForwarderSound, AbandonEvents  PROVE ForwarderSound'
<1>1. UNCHANGED <<published, pulled, batch, spool, shutdown, restarts, boot, acked, gone>> /\ shutdown
  BY DEF AbandonEvents
<1>2. Files' /\ Fresh' = Fresh /\ Spooled' = Spooled /\ oldest_batch' = oldest_batch
  BY <1>1, NothingGone
<1>3. Numbers' /\ Buffer'
  BY <1>1, <1>2, NumbersSame, BufferSame DEF ForwarderSound, Numbers
<1>4. AtWork' /\ Writing' /\ Ending'
  <2>1. CASE task' = Task("Drain") /\ detached' = detached
    BY <1>1, <1>2, <2>1, TurnsToDrain
  <2>2. CASE /\ task.at = "Spill" /\ detached' = task.todo
             /\ task' = IF task.final THEN Spilling("Final", TRUE) ELSE Task("Drain")
    <3>1. Fresh \subseteq Members(task.todo)
      BY <2>2 DEF ForwarderSound, Writing
    <3>2. CASE task.final
      <4>1. pulled = published
        BY <3>2 DEF ForwarderSound, Ending
      <4> QED
        BY <1>1, <1>2, <2>2, <3>1, <3>2, <4>1, StartsSpill
    <3>3. CASE ~task.final
      BY <1>1, <1>2, <2>2, <3>1, <3>3, TurnsToDrain
    <3> QED
      BY <3>2, <3>3
  <2> QED
    BY <2>1, <2>2 DEF AbandonEvents, Goes
<1> QED
  BY <1>2, <1>3, <1>4 DEF ForwarderSound

\* The detached write makes a file of its next chunk.
LEMMA DetachedWritesSound ==
    ASSUME ForwarderSound, DetachedWrites  PROVE ForwarderSound'
<1>1. /\ UNCHANGED <<published, pulled, batch, task, shutdown, restarts, boot, acked>>
      /\ detached # <<>> /\ task.at # "Down" /\ spill(Head(detached), {}) /\ detached' = Tail(detached)
  BY DEF DetachedWrites
<1>2. /\ detached \in Seq(Seq(Event)) /\ InOrder(detached) /\ Members(detached) \subseteq 1..pulled
      /\ \A x \in Fresh : x \in Members(detached) \/ \A e \in Members(detached) : e < x
  BY DEF ForwarderSound, Writing
<1>3. /\ Head(detached) \in Seq(Event) /\ Head(detached) # <<>> /\ Rising(Head(detached))
      /\ Tail(detached) \in Seq(Seq(Event)) /\ InOrder(Tail(detached))
      /\ Members(detached) = Range(Head(detached)) \cup Members(Tail(detached))
      /\ \A a \in Range(Head(detached)), b \in Members(Tail(detached)) : a < b
  BY <1>1, <1>2, FirstAndRest
<1>4. \A x \in Fresh \ (Range(Head(detached)) \cup {}), e \in Fresh \cap Range(Head(detached)) : e < x
  BY <1>2, <1>3
<1>5. /\ Fresh' = Fresh \ (Range(Head(detached)) \cup {})
      /\ FirstsInOrder' /\ FreshIsLater' /\ FilesSound'
      /\ Spooled' \subseteq 1..pulled /\ gone' \subseteq 1..pulled
      /\ \A f \in spool' : FileTyped(f)
  <2>1. Range(Head(detached)) \subseteq 1..pulled
    BY <1>2, <1>3
  <2> QED
    BY <1>1, <1>3, <1>4, <2>1, SpillSound
<1>6. Files'
  BY <1>5 DEF Files
<1>7. Numbers' /\ Buffer'
  <2>1. acked' \subseteq 1..pulled
    BY <1>1, SoundParts
  <2>2. shutdown' \in BOOLEAN
    BY <1>1 DEF ForwarderSound, Numbers
  <2> QED
    BY <1>1, <1>5, <2>1, <2>2, NumbersSame, BufferSame
<1>8. task.at \in {"Flush", "Spill", "Drain", "Done"}
  BY <1>1 DEF ForwarderSound, Ending
<1>9. AtWork'
  <2>1. SentEvents' = SentEvents
    BY <1>1 DEF SentEvents
  <2>2. AtFlush'
    BY <1>1, <2>1 DEF AtFlush, ForwarderSound, AtWork
  <2>3. AtFile'
    BY <1>1, <1>8 DEF AtFile
  <2> QED
    BY <1>1, <2>2, <2>3 DEF AtWork, ForwarderSound
<1>10. Writing'
  <2>1. task.at = "Spill" => Fresh' \subseteq Members(task.todo)
    BY <1>5 DEF ForwarderSound, Writing
  <2>2. \A x \in Fresh' : \/ x \in Members(Tail(detached))
                          \/ \A e \in Members(Tail(detached)) : e < x
    BY <1>2, <1>3, <1>5
  <2> QED
    BY <1>1, <1>2, <1>3, <2>1, <2>2 DEF ForwarderSound, Writing
<1>11. Ending'
  BY <1>1, <1>5 DEF ForwarderSound, Ending
<1> QED
  BY <1>6, <1>7, <1>9, <1>10, <1>11 DEF ForwarderSound

\* The detached write fails.
LEMMA DetachedFailsSound ==
    ASSUME ForwarderSound, DetachedFails  PROVE ForwarderSound'
<1>1. /\ UNCHANGED <<published, pulled, batch, spool, task, shutdown, restarts, boot, acked, gone>>
      /\ detached' = <<>>
  BY DEF DetachedFails
<1>2. Files' /\ Fresh' = Fresh /\ Spooled' = Spooled /\ oldest_batch' = oldest_batch
  BY <1>1, NothingGone
<1>3. Numbers' /\ Buffer'
  BY <1>1, <1>2, NumbersSame, BufferSame DEF ForwarderSound, Numbers
<1>4. AtWork'
  <2>1. SentEvents' = SentEvents /\ Parts(oldest_batch)' = Parts(oldest_batch)
    BY <1>1, <1>2 DEF SentEvents, Parts
  <2>2. AtFlush'
    BY <1>1, <2>1 DEF AtFlush, ForwarderSound, AtWork
  <2>3. AtFile'
    BY <1>1, <1>2, <2>1 DEF AtFile, ForwarderSound, AtWork
  <2> QED
    BY <1>1, <2>2, <2>3 DEF AtWork, ForwarderSound
<1>5. Writing'
  BY <1>1, <1>2, NoChunks DEF ForwarderSound, Writing
<1>6. Ending'
  BY <1>1, <1>2 DEF ForwarderSound, Ending
<1> QED
  BY <1>2, <1>3, <1>4, <1>5, <1>6 DEF ForwarderSound

\* The queue is empty: the buffer is flushed for the last time.
LEMMA DrainedSound ==
    ASSUME ForwarderSound, Drained  PROVE ForwarderSound'
<1>1. UNCHANGED <<published, pulled, shutdown, detached, restarts, boot, batch, spool, acked, gone>>
  BY DEF Drained, Quietly
<1>2. Files' /\ Fresh' = Fresh /\ Spooled' = Spooled /\ oldest_batch' = oldest_batch
  BY <1>1, NothingGone
<1>3. Numbers' /\ Buffer'
  BY <1>1, <1>2, NumbersSame, BufferSame DEF ForwarderSound, Numbers
<1>4. task.at = "Drain" /\ pulled = published /\ shutdown
  BY DEF Drained, ForwarderSound, Ending
<1>5. CASE batch = <<>>
  <2>1. task' = Task("Done")
    BY <1>5 DEF Drained, Goes
  <2>2. Fresh' = {}
    BY <1>2, <1>5, NoChunks DEF ForwarderSound, Buffer
  <2> QED
    BY <1>1, <1>2, <1>3, <1>4, <2>1, <2>2, Finishes DEF ForwarderSound
<1>6. CASE batch # <<>>
  <2>1. task' = [Task("Flush") EXCEPT !.final = TRUE]
    BY <1>6 DEF Drained, Goes
  <2>2. /\ Task("Flush") \in Tasks /\ Task("Flush").at = "Flush" /\ Task("Flush").served = FALSE
        /\ Task("Flush").why = "None" /\ Task("Flush").todo = <<>>
    BY PlainTask DEF At
  <2>3. task' \in Tasks
    BY <2>1, <2>2, Zenon DEF Tasks
  <2>4. /\ task'.at = "Flush" /\ task'.served = FALSE /\ task'.final = TRUE
        /\ task'.why = "None" /\ task'.todo = <<>>
    BY <2>1, <2>2 DEF Tasks
  <2>5. AtWork'
    BY <2>3, <2>4 DEF AtWork, Tasks, AtFile, AtFlush
  <2>6. Writing'
    BY <1>1, <1>2, <2>4, NoChunks DEF ForwarderSound, Writing
  <2>7. Ending'
    BY <1>1, <1>4, <2>4 DEF ForwarderSound, Ending
  <2> QED
    BY <1>2, <1>3, <2>5, <2>6, <2>7 DEF ForwarderSound
<1> QED
  BY <1>5, <1>6

\* The process ends: its memory is lost.
LEMMA GoesDown ==
    ASSUME ForwarderSound, task' = Task("Down"), batch' = <<>>, detached' = <<>>,
           pulled' = published, published' = published, Fresh' = {}, restarts' = restarts,
           shutdown' = shutdown, restarts < MaxRestarts
    PROVE  AtWork' /\ Writing' /\ Ending' /\ Buffer'
<1>1. /\ task' \in Tasks /\ task'.at = "Down" /\ task'.served = FALSE /\ task'.final = FALSE
      /\ task'.why = "None" /\ task'.todo = <<>>
  BY PlainTask DEF At
<1>2. AtWork'
  BY <1>1 DEF AtWork, Tasks, AtFile, AtFlush
<1>3. Writing'
  BY <1>1, NoChunks DEF Writing
<1>4. Ending'
  BY <1>1 DEF Ending
<1>5. Buffer'
  <2>1. Len(<<>>) = 0
    BY EmptySeq
  <2> QED
    BY <2>1, NoChunks, ForwarderAssumption DEF Buffer
<1> QED
  BY <1>2, <1>3, <1>4, <1>5

\* The process crashes, with what only its memory held.
LEMMA CrashSound ==
    ASSUME ForwarderSound, Crash  PROVE ForwarderSound'
<1>1. /\ UNCHANGED <<published, spool, shutdown, restarts, boot, acked>>
      /\ task' = Task("Down") /\ restarts < MaxRestarts
      /\ gone' = gone \cup ((1..published) \ (Spooled \cup acked))
      /\ batch' = <<>> /\ pulled' = published /\ detached' = <<>>
  BY DEF Crash, Goes
<1>2. /\ published \in Nat /\ pulled \in Nat /\ pulled <= published /\ BusMax \in Nat
      /\ Spooled \subseteq 1..pulled /\ acked \subseteq 1..pulled /\ gone \subseteq 1..pulled
  BY ForwarderAssumption DEF ForwarderSound, Numbers
<1>3. 1..pulled \subseteq 1..published
  BY <1>2
<1>4. Spooled' = Spooled
  BY <1>1 DEF Spooled
<1>5. Fresh' = {} /\ Pending' \subseteq Pending
  BY <1>1, <1>4 DEF Fresh, Pending
<1>6. Files'
  BY <1>1, <1>5, FilesSame
<1>7. Numbers'
  <2>1. pulled' \in 0..published' /\ published' - pulled' <= BusMax
    BY <1>1, <1>2
  <2>2. Spooled' \subseteq 1..pulled' /\ acked' \subseteq 1..pulled' /\ gone' \subseteq 1..pulled'
    BY <1>1, <1>2, <1>3, <1>4
  <2> QED
    BY <1>1, <2>1, <2>2 DEF ForwarderSound, Numbers
<1>8. AtWork' /\ Writing' /\ Ending' /\ Buffer'
  BY <1>1, <1>5, GoesDown
<1> QED
  BY <1>6, <1>7, <1>8 DEF ForwarderSound

\* The process ends in order.
LEMMA ExitSound ==
    ASSUME ForwarderSound, Exit  PROVE ForwarderSound'
<1>1. /\ UNCHANGED <<published, pulled, spool, shutdown, detached, restarts, boot, acked, gone>>
      /\ task.at = "Done" /\ detached = <<>> /\ task' = Task("Down") /\ batch' = <<>>
  BY DEF Exit, Goes
<1>2. Files' /\ Fresh' = Fresh /\ Spooled' = Spooled /\ oldest_batch' = oldest_batch
  BY <1>1, NothingGone
<1>3. Numbers'
  BY <1>1, <1>2, NumbersSame DEF ForwarderSound, Numbers
<1>4. pulled = published /\ Fresh = {} /\ restarts < MaxRestarts
  BY <1>1 DEF ForwarderSound, Ending
<1>5. AtWork' /\ Writing' /\ Ending' /\ Buffer'
  BY <1>1, <1>2, <1>4, GoesDown
<1> QED
  BY <1>2, <1>3, <1>5 DEF ForwarderSound

\* The process starts again, with the files it left.
LEMMA RestartSound ==
    ASSUME ForwarderSound, Restart  PROVE ForwarderSound'
<1>1. /\ UNCHANGED <<published, batch, spool, detached, acked, gone>>
      /\ task.at = "Down" /\ task' = Task("Select") /\ shutdown' = FALSE
      /\ restarts' = restarts + 1 /\ boot' = published /\ pulled' = published
  BY DEF Restart, Goes
<1>2. pulled = published /\ detached = <<>> /\ restarts < MaxRestarts
  BY <1>1 DEF ForwarderSound, Ending
<1>3. Files' /\ Fresh' = Fresh /\ Spooled' = Spooled /\ oldest_batch' = oldest_batch
  BY <1>1, <1>2, NothingGone
<1>4. Buffer'
  BY <1>1, <1>2, <1>3, BufferSame
<1>5. Numbers'
  <2>1. restarts' \in 0..MaxRestarts /\ boot' \in 0..published' /\ pulled' \in 0..published'
    BY <1>1, <1>2, ForwarderAssumption DEF ForwarderSound, Numbers
  <2> QED
    BY <1>1, <1>2, <1>3, <2>1 DEF ForwarderSound, Numbers
<1>6. /\ task' \in Tasks /\ task'.at = "Select" /\ task'.served = FALSE /\ task'.final = FALSE
      /\ task'.why = "None" /\ task'.todo = <<>>
  BY <1>1, PlainTask DEF At
<1>7. AtWork'
  BY <1>6 DEF AtWork, Tasks, AtFile, AtFlush
<1>8. Writing'
  BY <1>1, <1>2, <1>6, NoChunks DEF Writing
<1>9. Ending'
  BY <1>1, <1>2, <1>6 DEF Ending
<1> QED
  BY <1>3, <1>4, <1>5, <1>7, <1>8, <1>9 DEF ForwarderSound

----------------------------------------------------------------------------
\* The files of an earlier process may be there at the start.
LEMMA ForwarderStarts ==
    ASSUME ForwarderInit  PROVE ForwarderSound
<1>1. /\ published \in {0, Legacy} /\ pulled = published /\ boot = published /\ batch = <<>>
      /\ task = Task("Select") /\ shutdown = FALSE /\ detached = <<>>
      /\ restarts = 0 /\ acked = {} /\ gone = {}
      /\ published \in Nat /\ published <= MaxEvents /\ MaxEvents \in Nat /\ MaxRestarts \in Nat
      /\ BusMax \in Nat /\ BufferMax \in Nat /\ MaxSequence \in Nat \ {0}
  BY ForwarderAssumption DEF ForwarderInit
<1> DEFINE file == [sequence |-> 1, part |-> 0, events |-> [i \in 1..published |-> i]]
           first == [i \in 1..published |-> i]
<1>2. spool = IF published = 0 THEN {} ELSE {file}
  BY DEF ForwarderInit
<1>3. first \in Seq(Event) /\ Len(first) = published /\ DOMAIN first = 1..published
      /\ \A i \in 1..published : first[i] = i
  <2>1. first \in [1..published -> Event]
    BY <1>1 DEF Event
  <2> HIDE DEF first
  <2>2. \E n \in Nat : first \in [1..n -> Event]
    BY <1>1, <2>1
  <2>3. first \in Seq(Event)
    BY <2>2, SeqDef
  <2>4. DOMAIN first = 1..published /\ DOMAIN first = 1..Len(first) /\ Len(first) \in Nat
    BY <2>1, <2>3, LenProperties
  <2>5. Len(first) = published
    BY <1>1, <2>4
  <2> QED
    BY <2>3, <2>4, <2>5 DEF first
<1>4. file.sequence = 1 /\ file.part = 0 /\ file.events = first /\ Events(file) = Range(first)
  BY DEF Events
<1> HIDE DEF file, first
<1>5. Range(first) = 1..published
  BY <1>3 DEF Range
<1>6. Rising(first)
  BY <1>3 DEF Rising
<1>7. Spooled = 1..published
  <2>1. CASE published = 0
    BY <1>2, <2>1 DEF Spooled
  <2>2. CASE published # 0
    BY <1>2, <1>4, <1>5, <2>2 DEF Spooled
  <2> QED
    BY <2>1, <2>2
<1>8. Fresh = {}
  BY <1>1, <1>7 DEF Fresh
<1>9. Files
  <2>1. FirstsInOrder
    <3> SUFFICES ASSUME NEW d \in Pending, NEW e \in Pending, NEW g \in spool, e \in Events(g)
                 PROVE  \E h \in spool : d \in Events(h) /\ NotAfter(h, g)
      BY DEF FirstsInOrder
    <3>1. spool = {file} /\ g = file
      BY <1>2
    <3>2. d \in Events(file)
      BY <1>4, <1>5, <1>7 DEF Pending
    <3> QED
      BY <3>1, <3>2 DEF NotAfter
  <2>2. FreshIsLater
    BY <1>8 DEF FreshIsLater
  <2>3. FilesSound
    <3>1. \A f, g \in spool : f = g
      BY <1>2
    <3>2. \A f \in spool : f.part = 0 /\ f.events = first /\ published # 0
      BY <1>2, <1>4
    <3>3. published # 0 => first # <<>>
      <4>1. Len(<<>>) = 0
        BY EmptySeq
      <4> QED
        BY <1>3, <4>1
    <3> QED
      BY <1>6, <3>1, <3>2, <3>3 DEF FilesSound
  <2>4. \A f \in spool : FileTyped(f)
    BY <1>1, <1>2, <1>3, <1>4 DEF FileTyped
  <2> QED
    BY <2>1, <2>2, <2>3, <2>4 DEF Files
<1>10. Numbers
  <2>1. published \in 0..MaxEvents /\ pulled \in 0..published /\ boot \in 0..published
        /\ published - pulled <= BusMax /\ restarts \in 0..MaxRestarts
    BY <1>1
  <2>2. Spooled \subseteq 1..pulled /\ acked \subseteq 1..pulled /\ gone \subseteq 1..pulled
    BY <1>1, <1>7
  <2>3. shutdown \in BOOLEAN
    BY <1>1
  <2> QED
    BY <2>1, <2>2, <2>3 DEF Numbers
<1>11. Buffer
  <2>1. Len(<<>>) = 0
    BY EmptySeq
  <2> QED
    BY <1>1, <1>8, <2>1, NoChunks DEF Buffer
<1>12. /\ task \in Tasks /\ task.at = "Select" /\ task.served = FALSE /\ task.final = FALSE
       /\ task.why = "None" /\ task.todo = <<>>
  BY <1>1, PlainTask DEF At
<1>13. AtWork
  BY <1>12 DEF AtWork, Tasks, AtFile, AtFlush
<1>14. Writing
  BY <1>1, <1>12, NoChunks DEF Writing
<1>15. Ending
  BY <1>1, <1>12 DEF Ending
<1> QED
  BY <1>9, <1>10, <1>11, <1>13, <1>14, <1>15 DEF ForwarderSound

\* Every step of the forwarder, its queue, the operator and the process.
LEMMA ForwarderMoves ==
    ASSUME ForwarderSound, [ForwarderNext]_forwarderVars  PROVE ForwarderSound'
<1>1. CASE Step
  BY <1>1, TickSound, ReplayServedSound, ReplaySucceedsSound, ReplayFailsSound, UnlinkStepSound,
     SplitStepSound, RemoveSourceSound, FlushServedSound, FlushSucceedsSound, FlushInactiveSound,
     FlushFailsSound, AfterFlushSound, SpillWritesSound, SpillEndsSound, SpillFailsSound DEF Step
<1>2. CASE UNCHANGED forwarderVars
  <2>1. UNCHANGED <<published, pulled, batch, spool, task, shutdown, detached, restarts, boot, acked, gone>>
    BY <1>2 DEF forwarderVars
  <2>2. Files' /\ Fresh' = Fresh /\ Spooled' = Spooled /\ oldest_batch' = oldest_batch
    BY <2>1, NothingGone
  <2>3. Numbers' /\ Buffer'
    BY <2>1, <2>2, NumbersSame, BufferSame DEF ForwarderSound, Numbers
  <2>4. AtWork'
    <3>1. SentEvents' = SentEvents /\ Parts(oldest_batch)' = Parts(oldest_batch)
      BY <2>1, <2>2 DEF SentEvents, Parts
    <3>2. AtFlush'
      BY <2>1, <3>1 DEF AtFlush, ForwarderSound, AtWork
    <3>3. AtFile'
      BY <2>1, <2>2, <3>1 DEF AtFile, ForwarderSound, AtWork
    <3> QED
      BY <2>1, <3>2, <3>3 DEF AtWork, ForwarderSound
  <2>5. Writing' /\ Ending'
    BY <2>1, <2>2 DEF ForwarderSound, Writing, Ending
  <2> QED
    BY <2>2, <2>3, <2>4, <2>5 DEF ForwarderSound
<1> QED
  BY <1>1, <1>2, PublishSound, IngestSound, ShutdownSound, AbandonEventsSound, DetachedWritesSound,
     DetachedFailsSound, DrainSound, DrainedSound, CrashSound, ExitSound, RestartSound
     DEF ForwarderNext

\* What the forwarder promises follows.
LEMMA SoundIsTrue ==
    ASSUME ForwarderSound  PROVE ForwarderInv
<1>1. ForwarderTypeOK /\ Accounted
  BY SoundParts
<1>2. ShutdownKeepsEvents
  <2>1. task.at = "Done" => pulled = published /\ Fresh = {}
    BY DEF ForwarderSound, Ending
  <2> QED
    BY <2>1 DEF ShutdownKeepsEvents, Fresh
<1>3. OldestFirst
  <2> SUFFICES ASSUME NEW x \in Pending,
                      NEW d \in Events(oldest_batch) \cap Pending, NEW e \in Pending
               PROVE  \E y \in Events(oldest_batch) \cap Pending : y <= e
    BY DEF OldestFirst, Pending
  <2>1. spool # {}
    BY DEF Pending, Spooled
  <2>2. /\ oldest_batch \in spool /\ FileTyped(oldest_batch)
        /\ \A g \in spool \ {oldest_batch} : Before(oldest_batch, g)
    BY <2>1, OldestSound
  <2>3. d \in Nat /\ e \in Nat
    <3>1. Spooled \subseteq 1..pulled /\ pulled \in Nat
      BY SoundParts, ForwarderAssumption DEF ForwarderSound, Numbers
    <3>2. 1..pulled \subseteq Nat
      BY <3>1
    <3> QED
      BY <3>1, <3>2 DEF Pending
  <2>4. CASE d <= e
    BY <2>4
  <2>5. CASE e < d
    <3>1. PICK h \in spool : e \in Events(h) /\ NotAfter(h, oldest_batch)
      BY <2>2, <2>5, SoundParts DEF FirstsInOrder
    <3>2. h = oldest_batch
      <4> DEFINE o == oldest_batch
      <4>1. FileTyped(h) /\ FileTyped(o)
        BY <2>2 DEF ForwarderSound, Files
      <4>2. h # o => Before(o, h) /\ Before(h, o)
        BY <2>2, <3>1 DEF NotAfter
      <4> HIDE DEF o
      <4>3. h.sequence \in Nat /\ h.part \in Nat /\ o.sequence \in Nat /\ o.part \in Nat
        <5>1. MaxSequence \in Nat
          BY ForwarderAssumption
        <5>2. h.sequence \in 1..MaxSequence /\ o.sequence \in 1..MaxSequence
          BY <4>1 DEF FileTyped
        <5>3. h.part \in Nat /\ o.part \in Nat
          BY <4>1 DEF FileTyped
        <5> QED
          BY <5>1, <5>2, <5>3
      <4>4. h = o
        BY <4>2, <4>3 DEF Before
      <4> QED
        BY <4>4 DEF o
    <3> QED
      BY <2>3, <3>1, <3>2
  <2> QED
    BY <2>3, <2>4, <2>5
<1> QED
  BY <1>1, <1>2, <1>3 DEF ForwarderInv

\* Every event that the forwarder received is in the buffer, on disk, with the operator, or was
\* given up for one of the reasons that flush_once, push_with_cap and EventSpool::spill accept; an
\* orderly shutdown keeps what was published before it; and the files are replayed oldest first,
\* whatever fails, is split, written twice or restarted.
THEOREM EventsAreKept == ForwarderSpec => []ForwarderInv
<1>1. ForwarderInit => ForwarderSound
  BY ForwarderStarts
<1>2. ForwarderSound /\ [ForwarderNext]_forwarderVars => ForwarderSound'
  BY ForwarderMoves
<1>3. ForwarderSound => ForwarderInv
  BY SoundIsTrue
<1> QED
  BY <1>1, <1>2, <1>3, PTL DEF ForwarderSpec

-----------------------------------------------------------------------------
(* The timestamps of status updates, beyond the days TLC walks: every later *)
(* era, and the seconds of a day.                                          *)

\* The constants of the calendar are natural numbers.
LEMMA NaturalConstants == EpochDay \in Nat /\ DaysOfEra \in Nat
  BY SMT DEF EpochDay, DaysOfEra

-----------------------------------------------------------------------------
(* A day and the next, by the algorithm's own years, which begin in March, *)
(* so that a leap day is the last of its year.                             *)

\* A day of an era has a year, and a day in that year.
LEMMA DayOfYear ==
    ASSUME NEW e \in Nat, e < DaysOfEra
    PROVE  yoe(e) \in Nat /\ doy(e) \in Nat /\ doy(e) <= 365
  BY SMTT(60) DEF DaysOfEra, yoe, doy

LastOfYear(y) == IF IsLeap(y + 1) THEN 365 ELSE 364

\* The next day of an era is the next of its year, or the first of the next year.
LEMMA NextDayOfYear ==
    ASSUME NEW e \in Nat, e + 1 < DaysOfEra
    PROVE  \/ yoe(e + 1) = yoe(e) /\ doy(e + 1) = doy(e) + 1 /\ doy(e) < LastOfYear(yoe(e))
           \/ yoe(e + 1) = yoe(e) + 1 /\ doy(e + 1) = 0 /\ doy(e) = LastOfYear(yoe(e))
  <1>1. \/ yoe(e + 1) = yoe(e) /\ doy(e + 1) = doy(e) + 1
        \/ yoe(e + 1) = yoe(e) + 1 /\ doy(e + 1) = 0
    BY SMTT(60) DEF DaysOfEra, yoe, doy
  <1>2. yoe(e + 1) = yoe(e) => doy(e) < LastOfYear(yoe(e))
    BY SMTT(60) DEF DaysOfEra, yoe, doy, IsLeap, LastOfYear
  <1>3. yoe(e + 1) = yoe(e) + 1 => doy(e) = LastOfYear(yoe(e))
    BY SMTT(60) DEF DaysOfEra, yoe, doy, IsLeap, LastOfYear
  <1>4. yoe(e) \in Nat
    BY DayOfYear, SMT DEF DaysOfEra
  <1> QED
    BY <1>1, <1>2, <1>3, <1>4, SMT

\* Tomorrow, by the fields of two dates.
Follows(y, m, d, y2, m2, d2) ==
    \/ d < DaysIn(m, y) /\ y2 = y /\ m2 = m /\ d2 = d + 1
    \/ d = DaysIn(m, y) /\ m < 12 /\ y2 = y /\ m2 = m + 1 /\ d2 = 1
    \/ d = DaysIn(m, y) /\ m = 12 /\ y2 = y + 1 /\ m2 = 1 /\ d2 = 1

\* Dates that follow each other in the algorithm's fields do so in the calendar's.
LEMMA FieldsFollow ==
    ASSUME NEW e \in Nat, e + 1 < DaysOfEra
    PROVE  Follows(year_of(e), month_of(e), day_of(e),
                   year_of(e + 1), month_of(e + 1), day_of(e + 1))
  <1>1. /\ yoe(e) \in Nat /\ doy(e) \in Nat /\ doy(e) <= 365
        /\ yoe(e + 1) \in Nat /\ doy(e + 1) \in Nat
    BY DayOfYear, SMT DEF DaysOfEra
  <1>2. /\ mp(e) \in Nat /\ mp(e) <= 11
        /\ 5 * doy(e) + 2 >= 153 * mp(e) /\ 5 * doy(e) + 2 < 153 * mp(e) + 153
        /\ day_of(e) \in Int /\ month_of(e) \in Int /\ year_of(e) \in Int
    BY <1>1, SMT DEF mp, day_of, month_of, year_of
  <1>4. CASE yoe(e + 1) = yoe(e) /\ doy(e + 1) = doy(e) + 1 /\ doy(e) < LastOfYear(yoe(e))
    <2>1. mp(e + 1) = (5 * doy(e) + 7) \div 153
      BY <1>1, <1>4, SMT DEF mp
    <2>2. CASE mp(e) <= 10
      <3> DEFINE days_of == (153 * mp(e) + 155) \div 5 - (153 * mp(e) + 2) \div 5
      <3>1. \/ mp(e + 1) = mp(e) /\ day_of(e + 1) = day_of(e) + 1 /\ day_of(e) < days_of
            \/ mp(e + 1) = mp(e) + 1 /\ day_of(e + 1) = 1 /\ day_of(e) = days_of
        <4>1. 153 * (mp(e) + 1) + 2 = 153 * mp(e) + 155
          BY <1>2, SMT
        <4>2. \/ mp(e + 1) = mp(e) /\ doy(e) + 1 < (153 * mp(e) + 155) \div 5
              \/ mp(e + 1) = mp(e) + 1 /\ doy(e) + 1 = (153 * mp(e) + 155) \div 5
          <5>1. \/ (5 * doy(e) + 7) \div 153 = mp(e) /\ doy(e) + 1 < (153 * mp(e) + 155) \div 5
                \/ /\ (5 * doy(e) + 7) \div 153 = mp(e) + 1
                   /\ doy(e) + 1 = (153 * mp(e) + 155) \div 5
            BY <1>1, <1>2, SMTT(60)
          <5> QED
            BY <2>1, <5>1
        <4>3. CASE mp(e + 1) = mp(e) /\ doy(e) + 1 < (153 * mp(e) + 155) \div 5
          BY <1>1, <1>2, <1>4, <4>3, SMTT(60) DEF day_of
        <4>4. CASE mp(e + 1) = mp(e) + 1 /\ doy(e) + 1 = (153 * mp(e) + 155) \div 5
          <5>1. (153 * mp(e + 1) + 2) \div 5 = (153 * mp(e) + 155) \div 5
            BY <4>1, <4>4
          <5> QED
            BY <1>1, <1>2, <1>4, <4>4, <5>1, SMTT(60) DEF day_of
        <4> QED
          BY <4>2, <4>3, <4>4
      <3>2. days_of = DaysIn(month_of(e), year_of(e))
        BY <1>2, <2>2, SMTT(60) DEF DaysIn, month_of
      <3> HIDE DEF days_of
      <3> QED
        BY <1>1, <1>2, <1>4, <2>2, <3>1, <3>2, SMTT(60) DEF Follows, month_of, year_of
    <2>3. CASE mp(e) = 11
      BY <1>1, <1>2, <1>4, <2>1, <2>3, SMTT(60)
         DEF Follows, year_of, month_of, day_of, DaysIn, LastOfYear
    <2> QED
      BY <1>2, <2>2, <2>3, SMT
  <1>5. CASE yoe(e + 1) = yoe(e) + 1 /\ doy(e + 1) = 0 /\ doy(e) = LastOfYear(yoe(e))
    <2>1. mp(e + 1) = 0 /\ mp(e) = 11
      BY <1>1, <1>5, SMT DEF mp, LastOfYear
    <2> QED
      BY <1>1, <1>5, <2>1, SMTT(60)
         DEF Follows, year_of, month_of, day_of, DaysIn, LastOfYear
  <1> QED
    BY <1>4, <1>5, NextDayOfYear

\* An era ends with a leap day, and the next begins with the first of March.
LEMMA EraEnds ==
    Follows(year_of(DaysOfEra - 1), month_of(DaysOfEra - 1), day_of(DaysOfEra - 1),
            year_of(0) + 400, month_of(0), day_of(0))
  <1> DEFINE last == DaysOfEra - 1
  <1>1. yoe(last) = 399 /\ yoe(0) = 0
    BY SMT DEF yoe, DaysOfEra
  <1>2. doy(last) = 365 /\ doy(0) = 0
    BY <1>1, SMT DEF doy, DaysOfEra
  <1> HIDE DEF last
  <1>3. mp(last) = 11 /\ mp(0) = 0
    BY <1>2, SMT DEF mp
  <1>4. month_of(last) = 2 /\ day_of(last) = 29 /\ month_of(0) = 3 /\ day_of(0) = 1
    BY <1>2, <1>3, SMT DEF month_of, day_of
  <1>5. year_of(last) = 400 /\ year_of(0) = 0
    BY <1>1, <1>4, SMT DEF year_of
  <1>6. DaysIn(2, 400) = 29
    BY SMT DEF DaysIn, IsLeap
  <1>7. Follows(400, 2, 29, 0 + 400, 3, 1)
    BY <1>6, SMT DEF Follows
  <1> QED
    BY <1>4, <1>5, <1>7, SMT DEF last

-----------------------------------------------------------------------------
(* The calendar of every era is the same.                                  *)

\* Leap years repeat every 400 years.
LEMMA LeapRepeats ==
    ASSUME NEW y \in Int, NEW k \in Int
    PROVE  IsLeap(y + k * 400) <=> IsLeap(y)
  BY SMT DEF IsLeap

\* So does what date follows which.
LEMMA FollowsRepeats ==
    ASSUME NEW y \in Int, NEW m \in Int, NEW d \in Int,
           NEW y2 \in Int, NEW m2 \in Int, NEW d2 \in Int, NEW k \in Int,
           Follows(y, m, d, y2, m2, d2)
    PROVE  Date(y2 + k * 400, m2, d2) = Tomorrow(Date(y + k * 400, m, d))
  <1> DEFINE Y == y + k * 400
  <1>1. DaysIn(m, Y) = DaysIn(m, y)
    <2>1. IsLeap(Y) <=> IsLeap(y)
      BY LeapRepeats
    <2> HIDE DEF Y
    <2> QED
      BY <2>1 DEF DaysIn
  <1>2. Y \in Int /\ y2 + k * 400 = Y + (y2 - y)
    BY SMT
  <1>3. Date(Y, m, d).day = d /\ Date(Y, m, d).month = m /\ Date(Y, m, d).year = Y
    BY DEF Date
  <1>4. DaysIn(m, y) \in Int
    BY SMT DEF DaysIn
  <1> HIDE DEF Y
  <1>5. CASE d < DaysIn(m, y) /\ y2 = y /\ m2 = m /\ d2 = d + 1
    <2>1. Tomorrow(Date(Y, m, d)) = Date(Y, m, d + 1)
      BY <1>1, <1>3, <1>4, <1>5 DEF Tomorrow
    <2>2. y2 + k * 400 = Y
      BY <1>2, <1>5, SMT
    <2> QED
      BY <2>1, <2>2, <1>5 DEF Y
  <1>6. CASE d = DaysIn(m, y) /\ m < 12 /\ y2 = y /\ m2 = m + 1 /\ d2 = 1
    <2>1. ~(d < DaysIn(m, y))
      BY <1>4, <1>6, SMT
    <2>2. Tomorrow(Date(Y, m, d)) = Date(Y, m + 1, 1)
      BY <1>1, <1>3, <1>6, <2>1 DEF Tomorrow
    <2>3. y2 + k * 400 = Y
      BY <1>2, <1>6, SMT
    <2> QED
      BY <2>2, <2>3, <1>6 DEF Y
  <1>7. CASE d = DaysIn(m, y) /\ m = 12 /\ y2 = y + 1 /\ m2 = 1 /\ d2 = 1
    <2>1. ~(d < DaysIn(m, y)) /\ ~(m < 12)
      BY <1>4, <1>7, SMT
    <2>2. Tomorrow(Date(Y, m, d)) = Date(Y + 1, 1, 1)
      BY <1>1, <1>3, <1>7, <2>1 DEF Tomorrow
    <2>3. y2 + k * 400 = Y + 1
      BY <1>2, <1>7, SMT
    <2> QED
      BY <2>2, <2>3, <1>7 DEF Y
  <1> QED
    BY <1>5, <1>6, <1>7 DEF Follows

\* The dates computed for two days in a row follow one another in the calendar.
LEMMA DatesFollow ==
    ASSUME NEW n \in Nat
    PROVE  civil_from_days(n + 1) = Tomorrow(civil_from_days(n))
  <1> DEFINE z == n + EpochDay
             e == doe(z)
             era == z \div DaysOfEra
  <1>1. z \in Nat /\ n + 1 + EpochDay = z + 1
    BY NaturalConstants, SMT
  <1>2. civil_from_days(n) = Date(year_of(e) + era * 400, month_of(e), day_of(e))
    BY DEF civil_from_days
  <1>3. civil_from_days(n + 1) =
            Date(year_of(doe(z + 1)) + ((z + 1) \div DaysOfEra) * 400,
                 month_of(doe(z + 1)), day_of(doe(z + 1)))
    BY <1>1 DEF civil_from_days
  <1> HIDE DEF z
  <1>4. era \in Int /\ e \in Nat /\ e < DaysOfEra
    BY <1>1, SMT DEF doe, DaysOfEra
  <1>5. \/ e + 1 < DaysOfEra /\ doe(z + 1) = e + 1 /\ (z + 1) \div DaysOfEra = era
        \/ e = DaysOfEra - 1 /\ doe(z + 1) = 0 /\ (z + 1) \div DaysOfEra = era + 1
    BY <1>1, SMT DEF doe, DaysOfEra
  <1> HIDE DEF e, era
  <1>6. ASSUME NEW d \in Nat, d < DaysOfEra
        PROVE  year_of(d) \in Int /\ month_of(d) \in Int /\ day_of(d) \in Int
    BY <1>6, DayOfYear, SMT DEF year_of, month_of, day_of, mp
  <1>7. year_of(e) \in Int /\ month_of(e) \in Int /\ day_of(e) \in Int
    BY <1>4, <1>6
  <1>8. CASE e + 1 < DaysOfEra /\ doe(z + 1) = e + 1 /\ (z + 1) \div DaysOfEra = era
    <2>1. year_of(e + 1) \in Int /\ month_of(e + 1) \in Int /\ day_of(e + 1) \in Int
      BY <1>4, <1>6, <1>8, SMT
    <2>2. Follows(year_of(e), month_of(e), day_of(e),
                  year_of(e + 1), month_of(e + 1), day_of(e + 1))
      BY <1>4, <1>8, FieldsFollow
    <2>3. Date(year_of(e + 1) + era * 400, month_of(e + 1), day_of(e + 1))
              = Tomorrow(Date(year_of(e) + era * 400, month_of(e), day_of(e)))
      BY <1>4, <1>7, <2>1, <2>2, FollowsRepeats
    <2> QED
      BY <1>2, <1>3, <1>8, <2>3
  <1>9. CASE e = DaysOfEra - 1 /\ doe(z + 1) = 0 /\ (z + 1) \div DaysOfEra = era + 1
    <2>1. year_of(0) \in Int /\ month_of(0) \in Int /\ day_of(0) \in Int
      BY <1>6, SMT DEF DaysOfEra
    <2>2. year_of(0) + (era + 1) * 400 = year_of(0) + 400 + era * 400
          /\ year_of(0) + 400 \in Int
      BY <1>4, <2>1, SMT
    <2>3. Follows(year_of(e), month_of(e), day_of(e),
                  year_of(0) + 400, month_of(0), day_of(0))
      BY <1>9, EraEnds
    <2>4. Date(year_of(0) + 400 + era * 400, month_of(0), day_of(0))
              = Tomorrow(Date(year_of(e) + era * 400, month_of(e), day_of(e)))
      BY <1>4, <1>7, <2>1, <2>2, <2>3, FollowsRepeats
    <2> QED
      BY <1>2, <1>3, <1>9, <2>2, <2>4
  <1> QED
    BY <1>5, <1>8, <1>9

\* The walk begins where the algorithm does.
LEMMA FirstDate == civil_from_days(0) = Date(1970, 1, 1)
  <1> DEFINE z == 0 + EpochDay
  <1>1. doe(z) = 135080 /\ z \div DaysOfEra = 4
    BY SMT DEF doe, DaysOfEra, EpochDay
  <1>2. yoe(doe(z)) = 369
    BY <1>1, SMT DEF yoe
  <1>3. doy(doe(z)) = 306
    BY <1>1, <1>2, SMT DEF doy
  <1>4. mp(doe(z)) = 10
    BY <1>3, SMT DEF mp
  <1>5. month_of(doe(z)) = 1 /\ day_of(doe(z)) = 1
    BY <1>3, <1>4, SMT DEF month_of, day_of
  <1>6. year_of(doe(z)) + (z \div DaysOfEra) * 400 = 1970
    BY <1>1, <1>2, <1>5, SMT DEF year_of
  <1> HIDE DEF z
  <1>7. civil_from_days(0) = Date(year_of(doe(z)) + (z \div DaysOfEra) * 400,
                                  month_of(doe(z)), day_of(doe(z)))
    BY DEF civil_from_days, z
  <1> QED
    BY <1>5, <1>6, <1>7

\* The timestamp's date is the calendar's, however far the walk goes.
THEOREM DateIsCorrect == DateSpec => []DateIsCalendars
  <1> DEFINE Inv == days \in Nat /\ DateIsCalendars
  <1>1. DateInit => Inv
    BY FirstDate DEF DateInit, DateIsCalendars
  <1>2. Inv /\ [DateNext]_dateVars => Inv'
    <2> SUFFICES ASSUME Inv, [DateNext]_dateVars PROVE Inv'
      OBVIOUS
    <2>1. CASE Midnight
      <3>1. days' = days + 1 /\ date' = Tomorrow(date)
        BY <2>1 DEF Midnight
      <3>2. civil_from_days(days + 1) = Tomorrow(civil_from_days(days))
        BY DatesFollow
      <3>3. days + 1 \in Nat
        OBVIOUS
      <3> QED
        BY <3>1, <3>2, <3>3 DEF DateIsCalendars
    <2>2. CASE UNCHANGED dateVars
      BY <2>2 DEF dateVars, DateIsCalendars
    <2> QED
      BY <2>1, <2>2 DEF DateNext
  <1> QED
    BY <1>1, <1>2, PTL DEF DateSpec

\* The seconds since 1970 are split without loss: the date is that of the whole
\* days, and the time of day counts the rest.
THEOREM SecondsAreSplit ==
    ASSUME NEW n \in Nat, NEW r \in Nat, r < 86400
    PROVE  LET s == n * 86400 + r
           IN  /\ format_unix_seconds(s).date = civil_from_days(n)
               /\ hour(s) * 3600 + minute(s) * 60 + second(s) = r
               /\ hour(s) < 24 /\ minute(s) < 60 /\ second(s) < 60
  <1> DEFINE s == n * 86400 + r
  <1>1. s \div 86400 = n /\ s % 86400 = r
    BY SMT
  <1> HIDE DEF s
  <1>2. format_unix_seconds(s).date = civil_from_days(n)
    BY <1>1, SMT DEF format_unix_seconds
  <1>3. hour(s) * 3600 + minute(s) * 60 + second(s) = r
    BY <1>1, SMT DEF hour, minute, second, seconds_of_day
  <1>4. hour(s) < 24 /\ minute(s) < 60 /\ second(s) < 60
    BY <1>1, SMT DEF hour, minute, second, seconds_of_day
  <1> QED
    BY <1>2, <1>3, <1>4, SMT DEF s

----------------------------------------------------------------------------
(* The admission gate, for every set of operations and every length of the *)
(* lease, the poll interval and the probe's deadline: type correctness,    *)
(* the properties of InstallationGate that are invariants, and that the    *)
(* gate implements Admission.  Each invariant is shown inductive by a      *)
(* lemma of its own, given TypeOK and the parts it leans on; IInv is their *)
(* conjunction.                                                            *)

Flying == probe.at \in {"Asked", "Answered"}

\* Only an end of an exhibition counts as one.
EndedIsAnEnd == ended > 0 => news[ended] = "BetweenExhibitions"

\* A fetch under way with a current token was sent since the gate last closed.
TokenFollowsGate ==
    \A r \in current :
        /\ requests[r].at \in {"Asked", "Answered"} => mode \in {"Active", "Legacy"}
        /\ requests[r].at = "Answered" => ended <= requests[r].news

\* A probe that nothing has overtaken brings nothing old; one overtaken by a
\* conflict left the gate closed.
ProbeIsNew ==
    /\ probe.at = "Answered" /\ probe.latest => heard <= probe.news
    /\ Flying /\ mode = "Active" => probe.latest
    /\ probe.at = "Off" => mode # "Active"
    /\ Flying => since <= Timeout

\* How old a lease may be at each stage of the poller's cycle.
LeaseIsWatched ==
    mode = "Active" =>
        /\ probe.at = "Idle" => age < Lease + since /\ age < Lease + Poll
        /\ Flying => age < Lease + Poll + since

\* An outdated answer is not older than its probe, nor an outdated lease than
\* that and its own age.
AnswerIsRecent ==
    /\ probe.at = "Answered" /\ probe.news < Len(news) => held <= since
    /\ mode = "Active" /\ news[Len(news)] = "BetweenExhibitions" => held <= age + Timeout

IInv ==
    /\ TypeOK /\ EndedIsAnEnd /\ TokenFollowsGate
    /\ ProbeIsNew /\ LeaseIsWatched /\ AnswerIsRecent /\ LoopIsTold
----------------------------------------------------------------------------
\* The answers of the operator have a mode each.
LEMMA ModeOfType ==
    ASSUME NEW x \in Exhibition
    PROVE  ModeOf(x) \in {"Active", "BetweenExhibitions", "Legacy"}
<1>1. CASE x = "Active"
  BY <1>1 DEF ModeOf
<1>2. CASE x = "BetweenExhibitions"
  BY <1>2 DEF ModeOf
<1>3. CASE x = "Unreported"
  BY <1>3 DEF ModeOf
<1> QED
  BY <1>1, <1>2, <1>3 DEF Exhibition

\* What a change of one operation keeps.
LEMMA OperationTypes ==
    ASSUME TypeOK, NEW r \in Request, news' = news,
           NEW q \in Operation,
           q.at = "Answered" => q.news \in 1..Len(news),
           requests' = [requests EXCEPT ![r] = q],
           current' \subseteq current \cup ({r} \cap Content),
           r \in current' => q.at # "None"
    PROVE  OperationsOK'
<1>1. requests' \in [Request -> Operation]
  BY DEF TypeOK, OperationsOK, Operation
<1>2. \A o \in Request : requests'[o] = IF o = r THEN q ELSE requests[o]
  BY DEF TypeOK, OperationsOK, Operation
<1>3. current' \subseteq {o \in Content : requests'[o].at # "None"}
  BY <1>2 DEF TypeOK, OperationsOK, Request
<1>4. \A o \in Request : requests'[o].at = "Answered" => requests'[o].news \in 1..Len(news')
  BY <1>2 DEF TypeOK, OperationsOK
<1> QED
  BY <1>1, <1>3, <1>4 DEF OperationsOK

\* The ends an attempt may come to keep them.
LEMMA RetryTypes ==
    ASSUME TypeOK, NEW r \in Request, news' = news, RetryOrEnd(r)
    PROVE  OperationsOK'
<1>1. CASE End(r)
  <2>1. /\ None \in Operation
        /\ None.at # "Answered"
    BY DEF None, Operation
  <2>2. requests' = [requests EXCEPT ![r] = None] /\ current' = current \ {r}
    BY <1>1 DEF End
  <2> QED
    BY <2>1, <2>2, OperationTypes
<1>2. CASE requests' = [requests EXCEPT ![r] = Waiting] /\ UNCHANGED current
  <2>1. /\ Waiting \in Operation
        /\ Waiting.at \notin {"None", "Answered"}
    BY DEF Waiting, Operation
  <2> QED
    BY <1>2, <2>1, OperationTypes
<1> QED
  BY <1>1, <1>2 DEF RetryOrEnd

\* Every step keeps the types.
LEMMA TypeStep ==
    ASSUME TypeOK, [Next]_vars
    PROVE  TypeOK'
<1> USE GateAssumption
<1>1. CASE OperatorMoves
  <2>1. PICK s \in Exhibition : news' = Append(news, s)
    BY <1>1 DEF OperatorMoves
  <2>2. news' \in Seq(Exhibition) /\ news' # <<>> /\ Len(news') = Len(news) + 1
    BY <2>1 DEF TypeOK
  <2>3. Len(news) \in Nat /\ held' \in 0..Horizon
    BY <1>1 DEF TypeOK, OperatorMoves, Horizon
  <2> QED
    BY <1>1, <2>2, <2>3 DEF TypeOK, OperationsOK, OperatorMoves, observation
<1>2. CASE TimePasses
  BY <1>2 DEF TypeOK, OperationsOK, TimePasses, Older, Horizon
<1>3. CASE ProbeStarts
  BY <1>3 DEF TypeOK, OperationsOK, ProbeStarts, observation
<1>4. CASE ProbeServed
  BY <1>4 DEF TypeOK, OperationsOK, ProbeServed, observation
<1>5. CASE ProbeReturns
  <2>1. /\ probe' \in [at: {"Off", "Idle", "Asked", "Answered"}, news: Nat, latest: BOOLEAN]
        /\ probe'.at # "Answered"
    BY <1>5 DEF ProbeReturns, ProbeEnds
  <2>2. CASE probe.latest /\ Set(ModeOf(news[probe.news])) /\ HearNews(probe.news)
    <3>1. probe.news \in 1..Len(news) /\ news[probe.news] \in Exhibition
      BY <1>5 DEF TypeOK, ProbeReturns
    <3>2. mode' \in {"Unknown", "Legacy", "Active", "BetweenExhibitions"} /\ unseen' \in BOOLEAN
      BY <2>2, <3>1, ModeOfType DEF Set
    <3>3. current' \subseteq current /\ age' \in 0..Horizon
      BY <2>2 DEF Set, Horizon
    <3>4. heard' \in 0..Len(news) /\ ended' \in 0..heard'
      BY <2>2, <3>1 DEF TypeOK, HearNews, Newer
    <3> QED
      BY <1>5, <2>1, <3>2, <3>3, <3>4 DEF TypeOK, OperationsOK, ProbeReturns
  <2>3. CASE UNCHANGED observation
    BY <1>5, <2>1, <2>3 DEF TypeOK, OperationsOK, ProbeReturns, observation
  <2> QED
    BY <1>5, <2>2, <2>3 DEF ProbeReturns
<1>6. CASE ProbeFails
  <2>1. /\ probe' \in [at: {"Off", "Idle", "Asked", "Answered"}, news: Nat, latest: BOOLEAN]
        /\ probe'.at # "Answered"
    BY <1>6 DEF ProbeFails, ProbeEnds
  <2>2. CASE Set("Unknown") /\ UNCHANGED <<heard, ended>>
    <3>1. mode' = "Unknown" /\ age' = 0 /\ unseen' \in BOOLEAN /\ current' \subseteq current
      BY <2>2 DEF Set
    <3> QED
      BY <1>6, <2>1, <2>2, <3>1 DEF TypeOK, OperationsOK, ProbeFails, Horizon
  <2>3. CASE UNCHANGED observation
    BY <1>6, <2>1, <2>3 DEF TypeOK, OperationsOK, ProbeFails, observation
  <2> QED
    BY <1>6, <2>2, <2>3 DEF ProbeFails
<1>7. CASE CallResets
  BY <1>7 DEF TypeOK, OperationsOK, CallResets
<1>8. CASE LoopHears
  BY <1>8 DEF TypeOK, OperationsOK, LoopHears, accepting_calls
<1>9. ASSUME NEW r \in Request, BeginRequest(r)  PROVE TypeOK'
  <2>1. /\ Waiting \in Operation
        /\ Waiting.at \notin {"None", "Answered"}
    BY DEF Waiting, Operation
  <2>2. /\ requests' = [requests EXCEPT ![r] = Waiting]
        /\ current' \subseteq current \cup ({r} \cap Content) /\ news' = news
    BY <1>9 DEF BeginRequest
  <2>3. OperationsOK'
    BY <2>1, <2>2, OperationTypes
  <2> QED
    BY <1>9, <2>3 DEF TypeOK, BeginRequest
<1>10. ASSUME NEW r \in Request, Attempt(r)  PROVE TypeOK'
  <2>1. CASE requests' = [requests EXCEPT ![r] = Asked] /\ UNCHANGED current
    <3>1. /\ Asked \in Operation
          /\ Asked.at \notin {"None", "Answered"}
      BY DEF Asked, Operation
    <3>2. news' = news
      BY <1>10 DEF Attempt
    <3>3. OperationsOK'
      BY <2>1, <3>1, <3>2, OperationTypes
    <3> QED
      BY <1>10, <3>3 DEF TypeOK, Attempt
  <2>2. CASE GateRefuses(r)
    <3>1. RetryOrEnd(r) /\ news' = news
      BY <1>10, <2>2 DEF GateRefuses, RetryOrEnd, Attempt
    <3> QED
      BY <1>10, <3>1, RetryTypes DEF TypeOK, Attempt
  <2> QED
    BY <1>10, <2>1, <2>2 DEF Attempt
<1>11. ASSUME NEW r \in Request, Served(r)  PROVE TypeOK'
  <2> DEFINE q == [at |-> "Answered", news |-> Len(news)]
  <2>1. /\ q \in Operation
        /\ q.at # "None" /\ q.news \in 1..Len(news)
    BY DEF TypeOK, Operation
  <2>2. requests' = [requests EXCEPT ![r] = q] /\ current' = current /\ news' = news
    BY <1>11 DEF Served, observation
  <2> HIDE DEF q
  <2>3. OperationsOK'
    BY <2>1, <2>2, OperationTypes
  <2> QED
    BY <1>11, <2>3 DEF TypeOK, Served, observation
<1>12. ASSUME NEW r \in Request, ConflictReturns(r)  PROVE TypeOK'
  <2>1. /\ None \in Operation
        /\ None.at # "Answered"
    BY DEF None, Operation
  <2>2. /\ requests' = [requests EXCEPT ![r] = None] /\ news' = news
        /\ current' \subseteq current \ {r}
        /\ mode' = "BetweenExhibitions" /\ unseen' \in BOOLEAN
    BY <1>12 DEF TypeOK, ConflictReturns
  <2>3. OperationsOK'
    BY <2>1, <2>2, OperationTypes
  <2>4. heard' \in 0..Len(news) /\ ended' \in 0..heard'
    BY <1>12 DEF TypeOK, OperationsOK, ConflictReturns, HearNews, Newer
  <2>5. /\ probe' \in [at: {"Off", "Idle", "Asked", "Answered"}, news: Nat, latest: BOOLEAN]
        /\ probe'.at = probe.at /\ probe'.news = probe.news
    BY <1>12 DEF TypeOK, ConflictReturns
  <2> QED
    BY <1>12, <2>2, <2>3, <2>4, <2>5 DEF TypeOK, ConflictReturns
<1>13. ASSUME NEW r \in Request, AnswerReturns(r)  PROVE TypeOK'
  <2>1. RetryOrEnd(r) /\ news' = news
    BY <1>13 DEF AnswerReturns, GateRefuses, RetryOrEnd
  <2> QED
    BY <1>13, <2>1, RetryTypes DEF TypeOK, AnswerReturns
<1>14. ASSUME NEW r \in Request, AttemptFails(r)  PROVE TypeOK'
  <2>1. RetryOrEnd(r) /\ news' = news
    BY <1>14 DEF AttemptFails
  <2> QED
    BY <1>14, <2>1, RetryTypes DEF TypeOK, AttemptFails
<1>15. CASE UNCHANGED vars
  BY <1>15 DEF TypeOK, OperationsOK, vars
<1> QED
  BY <1>1, <1>2, <1>3, <1>4, <1>5, <1>6, <1>7, <1>8, <1>9, <1>10, <1>11, <1>12, <1>13,
     <1>14, <1>15 DEF Next

----------------------------------------------------------------------------
\* News, once given, stays.
LEMMA NewsGrows ==
    ASSUME TypeOK, OperatorMoves
    PROVE  /\ Len(news') = Len(news) + 1 /\ Len(news) \in Nat
           /\ \A n \in 1..Len(news) : news'[n] = news[n]
<1>1. PICK s \in Exhibition : news' = Append(news, s)
  BY DEF OperatorMoves
<1> QED
  BY <1>1 DEF TypeOK

\* Only answers and conflicts change what the gate has heard.
LEMMA EndedStep ==
    ASSUME TypeOK, EndedIsAnEnd, [Next]_vars
    PROVE  EndedIsAnEnd'
<1>1. CASE OperatorMoves
  <2>1. ended' = ended
    BY <1>1 DEF OperatorMoves, observation
  <2> QED
    BY <1>1, <2>1, NewsGrows DEF TypeOK, EndedIsAnEnd
<1>2. ASSUME NEW n \in 1..Len(news), HearNews(n), news' = news  PROVE EndedIsAnEnd'
  BY <1>2 DEF TypeOK, EndedIsAnEnd, HearNews, Newer
<1>3. CASE UNCHANGED <<news, ended>>
  BY <1>3 DEF EndedIsAnEnd
<1>4. CASE ProbeReturns
  BY <1>2, <1>3, <1>4 DEF TypeOK, ProbeReturns, observation
<1>5. ASSUME NEW r \in Request, ConflictReturns(r)  PROVE EndedIsAnEnd'
  BY <1>2, <1>5 DEF TypeOK, OperationsOK, ConflictReturns
<1>6. CASE TimePasses \/ ProbeStarts \/ ProbeServed \/ ProbeFails \/ CallResets \/ LoopHears
  BY <1>3, <1>6 DEF TimePasses, ProbeStarts, ProbeServed, ProbeFails, CallResets, LoopHears,
     observation
<1>7. ASSUME NEW r \in Request,
             BeginRequest(r) \/ Attempt(r) \/ Served(r) \/ AnswerReturns(r) \/ AttemptFails(r)
      PROVE  EndedIsAnEnd'
  BY <1>3, <1>7 DEF BeginRequest, Attempt, Served, AnswerReturns, AttemptFails, observation
<1> QED
  BY <1>1, <1>3, <1>4, <1>5, <1>6, <1>7 DEF Next, vars

\* A step that closes the gate takes the tokens; one that does not hears of no end.
LEMMA TokenStep ==
    ASSUME TypeOK, TokenFollowsGate, [Next]_vars
    PROVE  TokenFollowsGate'
<1> USE DEF TypeOK, OperationsOK, TokenFollowsGate, Request
<1>1. CASE UNCHANGED <<mode, requests, ended>> /\ current' \subseteq current
  BY <1>1
<1>2. CASE OperatorMoves \/ TimePasses \/ ProbeStarts \/ ProbeServed \/ CallResets \/ LoopHears
  BY <1>1, <1>2 DEF OperatorMoves, TimePasses, ProbeStarts, ProbeServed, CallResets, LoopHears,
     observation
<1>3. CASE ProbeReturns
  <2>1. CASE UNCHANGED observation
    BY <1>1, <1>3, <2>1 DEF ProbeReturns, observation
  <2>2. CASE Set(ModeOf(news[probe.news])) /\ HearNews(probe.news)
    <3> DEFINE x == news[probe.news]
    <3>1. x \in Exhibition /\ requests' = requests
      BY <1>3 DEF ProbeReturns
    <3>2. CASE x = "BetweenExhibitions"
      <4>1. ModeOf(x) = "BetweenExhibitions"
        BY <3>2 DEF ModeOf
      <4>2. CASE mode = "BetweenExhibitions"
        <5>1. mode' = mode /\ current' = current
          BY <2>2, <4>1, <4>2 DEF Set
        <5> QED
          BY <3>1, <4>2, <5>1
      <4>3. CASE mode # "BetweenExhibitions"
        <5>1. current' = {}
          BY <2>2, <4>1, <4>3 DEF Set
        <5> QED
          BY <5>1
      <4> QED
        BY <4>2, <4>3
    <3>3. CASE x # "BetweenExhibitions"
      <4>1. ModeOf(x) \in {"Active", "Legacy"}
        BY <3>1, <3>3 DEF ModeOf, Exhibition
      <4>2. mode' \in {"Active", "Legacy"} /\ current' = current /\ ended' = ended
        BY <2>2, <3>3, <4>1 DEF Set, HearNews
      <4> QED
        BY <3>1, <4>2
    <3> QED
      BY <3>2, <3>3
  <2> QED
    BY <1>3, <2>1, <2>2 DEF ProbeReturns
<1>4. CASE ProbeFails
  <2>1. CASE UNCHANGED observation
    BY <1>1, <1>4, <2>1 DEF ProbeFails, observation
  <2>2. CASE mode = "Active" /\ Set("Unknown")
    <3>1. current' = {}
      BY <2>2 DEF Set
    <3> QED
      BY <3>1
  <2> QED
    BY <1>4, <2>1, <2>2 DEF ProbeFails
<1>5. ASSUME NEW r \in Request, NEW q \in Operation, q.at \notin {"Asked", "Answered"},
             requests' = [requests EXCEPT ![r] = q],
             current' \subseteq current \cup {r}, UNCHANGED <<mode, ended>>
      PROVE  TokenFollowsGate'
  BY <1>5
<1>6. None \in Operation /\ Waiting \in Operation /\ Asked \in Operation
  BY DEF None, Waiting, Asked, Operation
<1>7. ASSUME NEW r \in Request, RetryOrEnd(r), UNCHANGED <<mode, ended>>
      PROVE  TokenFollowsGate'
  BY <1>5, <1>6, <1>7 DEF RetryOrEnd, End, None, Waiting
<1>8. ASSUME NEW r \in Request, BeginRequest(r)  PROVE TokenFollowsGate'
  BY <1>5, <1>6, <1>8 DEF BeginRequest, Waiting
<1>9. ASSUME NEW r \in Request, Attempt(r)  PROVE TokenFollowsGate'
  <2>1. CASE GateRefuses(r)
    BY <1>7, <1>9, <2>1 DEF Attempt, GateRefuses, RetryOrEnd
  <2>2. CASE /\ accepting_calls
             /\ requests' = [requests EXCEPT ![r] = Asked] /\ UNCHANGED current
    <3>1. mode \in {"Active", "Legacy"} /\ UNCHANGED <<mode, ended>>
      BY <1>9, <2>2 DEF Attempt, accepting_calls
    <3> QED
      BY <2>2, <3>1, <1>6 DEF Asked
  <2> QED
    BY <1>9, <2>1, <2>2 DEF Attempt
<1>10. ASSUME NEW r \in Request, Served(r)  PROVE TokenFollowsGate'
  BY <1>10 DEF Served, observation
<1>11. ASSUME NEW r \in Request, ConflictReturns(r)  PROVE TokenFollowsGate'
  <2>1. CASE mode # "BetweenExhibitions"
    BY <1>11, <2>1 DEF ConflictReturns
  <2>2. CASE mode = "BetweenExhibitions"
    <3>1. /\ mode' = mode /\ current' \subseteq current \ {r}
          /\ requests' = [requests EXCEPT ![r] = None]
      BY <1>11, <2>2 DEF ConflictReturns
    <3> QED
      BY <2>2, <3>1
  <2> QED
    BY <2>1, <2>2
<1>12. ASSUME NEW r \in Request, AnswerReturns(r)  PROVE TokenFollowsGate'
  BY <1>7, <1>12 DEF AnswerReturns, GateRefuses, RetryOrEnd
<1>13. ASSUME NEW r \in Request, AttemptFails(r)  PROVE TokenFollowsGate'
  BY <1>7, <1>13 DEF AttemptFails
<1>14. CASE UNCHANGED vars
  BY <1>1, <1>14 DEF vars
<1> QED
  BY <1>2, <1>3, <1>4, <1>8, <1>9, <1>10, <1>11, <1>12, <1>13, <1>14 DEF Next

\* A conflict overtakes the probe in flight, and only an answer is newer than it.
LEMMA ProbeStep ==
    ASSUME TypeOK, ProbeIsNew, [Next]_vars
    PROVE  ProbeIsNew'
<1> USE GateAssumption DEF TypeOK, OperationsOK, ProbeIsNew, Flying
<1>1. CASE OperatorMoves
  BY <1>1 DEF OperatorMoves, observation
<1>2. CASE TimePasses
  BY <1>2 DEF TimePasses, Older, Horizon
<1>3. CASE ProbeStarts
  BY <1>3 DEF ProbeStarts, observation
<1>4. CASE ProbeServed
  BY <1>4 DEF ProbeServed, observation
<1>5. CASE ProbeReturns
  BY <1>5 DEF ProbeReturns, ProbeEnds, Set, HearNews, Newer, ModeOf, observation
<1>6. CASE ProbeFails
  BY <1>6 DEF ProbeFails, ProbeEnds, Set, observation
<1>7. CASE CallResets
  BY <1>7 DEF CallResets
<1>8. CASE LoopHears
  BY <1>8 DEF LoopHears
<1>9. ASSUME NEW r \in Request, ConflictReturns(r)  PROVE ProbeIsNew'
  BY <1>9 DEF ConflictReturns, None, HearNews, Newer, Conflict
<1>10. ASSUME NEW r \in Request,
             BeginRequest(r) \/ Attempt(r) \/ Served(r) \/ AnswerReturns(r) \/ AttemptFails(r)
      PROVE  ProbeIsNew'
  BY <1>10 DEF BeginRequest, Attempt, Served, AnswerReturns, AttemptFails, observation
<1>11. CASE UNCHANGED vars
  BY <1>11 DEF vars
<1> QED
  BY <1>1, <1>2, <1>3, <1>4, <1>5, <1>6, <1>7, <1>8, <1>9, <1>10, <1>11 DEF Next

\* The poller's cycle bounds the age of a lease.
LEMMA LeaseStep ==
    ASSUME TypeOK, ProbeIsNew, LeaseIsWatched, [Next]_vars
    PROVE  LeaseIsWatched'
<1> USE GateAssumption DEF TypeOK, OperationsOK, ProbeIsNew, LeaseIsWatched, Flying
<1>1. CASE OperatorMoves
  BY <1>1 DEF OperatorMoves, observation
<1>2. CASE TimePasses
  BY <1>2 DEF TimePasses, Older, Horizon
<1>3. CASE ProbeStarts
  BY <1>3 DEF ProbeStarts, observation
<1>4. CASE ProbeServed
  BY <1>4 DEF ProbeServed, observation
<1>5. CASE ProbeReturns
  BY <1>5 DEF ProbeReturns, ProbeEnds, Set, HearNews, Newer, ModeOf, observation
<1>6. CASE ProbeFails
  BY <1>6 DEF ProbeFails, ProbeEnds, Set, observation
<1>7. CASE CallResets
  BY <1>7 DEF CallResets
<1>8. CASE LoopHears
  BY <1>8 DEF LoopHears
<1>9. ASSUME NEW r \in Request, ConflictReturns(r)  PROVE LeaseIsWatched'
  BY <1>9 DEF ConflictReturns, None, HearNews, Newer, Conflict
<1>10. ASSUME NEW r \in Request,
             BeginRequest(r) \/ Attempt(r) \/ Served(r) \/ AnswerReturns(r) \/ AttemptFails(r)
      PROVE  LeaseIsWatched'
  BY <1>10 DEF BeginRequest, Attempt, Served, AnswerReturns, AttemptFails, observation
<1>11. CASE UNCHANGED vars
  BY <1>11 DEF vars
<1> QED
  BY <1>1, <1>2, <1>3, <1>4, <1>5, <1>6, <1>7, <1>8, <1>9, <1>10, <1>11 DEF Next

\* A probe's answer is no older than the probe.
LEMMA AnswerStep ==
    ASSUME TypeOK, ProbeIsNew, AnswerIsRecent, [Next]_vars
    PROVE  AnswerIsRecent'
<1> USE GateAssumption DEF TypeOK, OperationsOK, ProbeIsNew, AnswerIsRecent, Flying
<1>1. CASE OperatorMoves
  BY <1>1 DEF OperatorMoves, observation
<1>2. CASE TimePasses
  BY <1>2 DEF TimePasses, Older, Horizon
<1>3. CASE ProbeStarts
  BY <1>3 DEF ProbeStarts, observation
<1>4. CASE ProbeServed
  BY <1>4 DEF ProbeServed, observation
<1>5. CASE ProbeReturns
  BY <1>5 DEF ProbeReturns, ProbeEnds, Set, HearNews, Newer, ModeOf, observation
<1>6. CASE ProbeFails
  BY <1>6 DEF ProbeFails, ProbeEnds, Set, observation
<1>7. CASE CallResets
  BY <1>7 DEF CallResets
<1>8. CASE LoopHears
  BY <1>8 DEF LoopHears
<1>9. ASSUME NEW r \in Request, ConflictReturns(r)  PROVE AnswerIsRecent'
  BY <1>9 DEF ConflictReturns, None, HearNews, Newer, Conflict
<1>10. ASSUME NEW r \in Request,
             BeginRequest(r) \/ Attempt(r) \/ Served(r) \/ AnswerReturns(r) \/ AttemptFails(r)
      PROVE  AnswerIsRecent'
  BY <1>10 DEF BeginRequest, Attempt, Served, AnswerReturns, AttemptFails, observation
<1>11. CASE UNCHANGED vars
  BY <1>11 DEF vars
<1> QED
  BY <1>1, <1>2, <1>3, <1>4, <1>5, <1>6, <1>7, <1>8, <1>9, <1>10, <1>11 DEF Next

\* Every step that changes the decision tells the loop, or is a lapse.
LEMMA LoopStep ==
    ASSUME TypeOK, LoopIsTold, [Next]_vars
    PROVE  LoopIsTold'
<1> USE GateAssumption DEF TypeOK, OperationsOK, LoopIsTold, accepting_calls
<1>1. CASE OperatorMoves
  BY <1>1 DEF OperatorMoves, observation
<1>2. CASE TimePasses
  BY <1>2 DEF TimePasses, Older, Horizon
<1>3. CASE ProbeStarts
  BY <1>3 DEF ProbeStarts, observation
<1>4. CASE ProbeServed
  BY <1>4 DEF ProbeServed, observation
<1>5. CASE ProbeReturns
  BY <1>5 DEF ProbeReturns, ProbeEnds, Set, HearNews, Newer, ModeOf, observation
<1>6. CASE ProbeFails
  BY <1>6 DEF ProbeFails, ProbeEnds, Set, observation
<1>7. CASE CallResets
  BY <1>7 DEF CallResets
<1>8. CASE LoopHears
  BY <1>8 DEF LoopHears
<1>9. ASSUME NEW r \in Request, ConflictReturns(r)  PROVE LoopIsTold'
  BY <1>9 DEF ConflictReturns, None, HearNews, Newer, Conflict
<1>10. ASSUME NEW r \in Request,
             BeginRequest(r) \/ Attempt(r) \/ Served(r) \/ AnswerReturns(r) \/ AttemptFails(r)
      PROVE  LoopIsTold'
  BY <1>10 DEF BeginRequest, Attempt, Served, AnswerReturns, AttemptFails, observation
<1>11. CASE UNCHANGED vars
  BY <1>11 DEF vars
<1> QED
  BY <1>1, <1>2, <1>3, <1>4, <1>5, <1>6, <1>7, <1>8, <1>9, <1>10, <1>11 DEF Next

----------------------------------------------------------------------------
(* The theorems *)

LEMMA IInvInit == Init => IInv
<1> SUFFICES ASSUME Init PROVE IInv
  OBVIOUS
<1> USE GateAssumption
<1>0. PICK s \in Exhibition : news = <<s>>
  BY DEF Init
<1>1. /\ news \in Seq(Exhibition) /\ news # <<>> /\ Len(news) = 1
      /\ heard = 0 /\ ended = 0 /\ held = 0 /\ age = 0 /\ since = Poll /\ current = {}
      /\ told = accepting_calls /\ unseen = FALSE
  BY <1>0 DEF Init
<1>2. PICK supported \in BOOLEAN :
        /\ mode = IF supported THEN "Unknown" ELSE "Legacy"
        /\ probe = [at |-> IF supported THEN "Idle" ELSE "Off", news |-> 0, latest |-> FALSE]
  BY DEF Init
<1>3. OperationsOK
  BY <1>1 DEF Init, OperationsOK, Operation
<1>4. TypeOK
  <2>1. told \in BOOLEAN
    BY <1>1 DEF accepting_calls
  <2>2. /\ probe \in [at: {"Off", "Idle", "Asked", "Answered"}, news: Nat, latest: BOOLEAN]
        /\ probe.at # "Answered" /\ mode \in {"Unknown", "Legacy"}
    BY <1>2
  <2>3. held \in 0..Horizon /\ age \in 0..Horizon /\ since \in Nat
    BY <1>1 DEF Horizon
  <2>4. heard \in 0..Len(news) /\ ended \in 0..heard /\ unseen \in BOOLEAN
    <3>1. heard = 0 /\ ended = 0 /\ Len(news) = 1 /\ unseen = FALSE
      BY <1>1
    <3>2. 0 \in 0..0 /\ 0 \in 0..1
      OBVIOUS
    <3> QED
      BY <3>1, <3>2
  <2> QED
    BY <1>1, <1>3, <2>1, <2>2, <2>3, <2>4 DEF TypeOK
<1> QED
  BY <1>1, <1>2, <1>4 DEF IInv, EndedIsAnEnd, TokenFollowsGate, ProbeIsNew, Flying,
     LeaseIsWatched, AnswerIsRecent, LoopIsTold

THEOREM IInvHolds == Spec => []IInv
<1>1. IInv /\ [Next]_vars => IInv'
  BY TypeStep, EndedStep, TokenStep, ProbeStep, LeaseStep, AnswerStep, LoopStep DEF IInv
<1> QED
  BY IInvInit, <1>1, PTL DEF Spec

\* The gate's variables have their types, and only operations under way have
\* fetch tokens.
THEOREM GateTypes == Spec => []TypeOK
<1>1. IInv => TypeOK
  BY DEF IInv
<1> QED
  BY IInvHolds, <1>1, PTL

\* No clip of an earlier exhibition is given to a call (observe, reconcile and the
\* fetch tokens of booth-bin/src/lib.rs).
THEOREM ClipsAreFromThisExhibition == Spec => []ClipFromThisExhibition
<1>1. IInv => ClipFromThisExhibition
  <2> SUFFICES ASSUME IInv, NEW r \in current,
                      requests[r].at = "Answered", ~Conflict(r)
               PROVE  requests[r].news > ended
    BY DEF ClipFromThisExhibition
  <2>1. /\ requests[r].news \in 1..Len(news) /\ ended <= requests[r].news
        /\ ended \in Nat /\ Len(news) \in Nat
    BY DEF IInv, TypeOK, OperationsOK, TokenFollowsGate, Request
  <2>2. requests[r].news # ended
    BY <2>1 DEF IInv, EndedIsAnEnd, Conflict
  <2> QED
    BY <2>1, <2>2
<1> QED
  BY IInvHolds, <1>1, PTL

\* A booth that hears nothing stops within the lease and a probe's transit.
THEOREM GateClosesInTime == Spec => []ClosesInTime
<1>1. IInv => ClosesInTime
  BY GateAssumption DEF IInv, TypeOK, AnswerIsRecent, ClosesInTime, accepting_calls, Horizon
<1> QED
  BY IInvHolds, <1>1, PTL

\* The poller finds out a lease that has run out within two of its cycles, and the main
\* loop's copy of the decision is out of date only for a reason (installation_rx of
\* run_runtime).
THEOREM LapsesAreTold == Spec => []LapseIsTold
<1>1. IInv => LapseIsFoundOut
  <2> SUFFICES ASSUME IInv, mode = "Active" PROVE age < Lease + Poll + Timeout
    BY DEF LapseIsFoundOut
  <2>1. age \in Nat /\ since \in Nat /\ (probe.at = "Idle" \/ Flying)
    BY GateAssumption DEF IInv, TypeOK, ProbeIsNew, Flying, Horizon
  <2> QED
    BY <2>1, GateAssumption DEF IInv, LeaseIsWatched, ProbeIsNew
<1>2. IInv => LapseIsTold
  BY <1>1 DEF IInv, LapseIsTold
<1> QED
  BY IInvHolds, <1>2, PTL

\* The gate implements Admission: calls are only taken again on the strength of an
\* answer at least as new as every conflict and answer the booth has had.
THEOREM GateKeepsPromise == Spec => Promise
<1> USE GateAssumption
<1>1. Init => A!Init
  BY DEF Init, A!Init, accepting_calls
<1>2. IInv /\ [Next]_vars => [A!Next]_(A!vars)
  <2> SUFFICES ASSUME IInv, [Next]_vars PROVE [A!Next]_(A!vars)
    OBVIOUS
  <2>0. TypeOK /\ ProbeIsNew
    BY DEF IInv
  <2>1. ASSUME UNCHANGED <<news, mode, age, heard>>  PROVE UNCHANGED A!vars
    BY <2>1 DEF A!vars, accepting_calls
  <2>2. ASSUME UNCHANGED news, mode' = "BetweenExhibitions", heard' \in heard..Len(news)
        PROVE  A!StopCalls
    BY <2>2 DEF A!StopCalls, accepting_calls
  <2>3. CASE OperatorMoves
    BY <2>3 DEF OperatorMoves, A!Next, A!OperatorMoves, observation, accepting_calls
  <2>4. CASE TimePasses
    BY <2>0, <2>4 DEF TypeOK, TimePasses, Older, Horizon, A!Next, A!StopCalls, A!vars, accepting_calls
  <2>5. CASE ProbeReturns
    <3>1. CASE UNCHANGED observation
      BY <2>1, <2>5, <3>1 DEF ProbeReturns, observation
    <3>2. CASE probe.latest /\ Set(ModeOf(news[probe.news])) /\ HearNews(probe.news)
      <4>1. /\ probe.news \in 1..Len(news) /\ news[probe.news] \in Exhibition
            /\ heard <= probe.news /\ heard \in Nat /\ Len(news) \in Nat
        BY <2>0, <2>5, <3>2 DEF TypeOK, ProbeIsNew, ProbeReturns
      <4>2. heard' = probe.news /\ news' = news
        BY <2>5, <3>2, <4>1 DEF ProbeReturns, HearNews, Newer
      <4>3. CASE news[probe.news] = "BetweenExhibitions"
        <5>1. mode' = "BetweenExhibitions"
          BY <3>2, <4>3 DEF Set, ModeOf
        <5> QED
          BY <2>2, <4>1, <4>2, <5>1 DEF A!Next
      <4>4. CASE news[probe.news] # "BetweenExhibitions"
        <5>1. ModeOf(news[probe.news]) \in {"Active", "Legacy"}
          BY <4>1, <4>4 DEF ModeOf, Exhibition
        <5>2. mode' \in {"Active", "Legacy"} /\ age' = 0
          BY <3>2, <5>1 DEF Set
        <5>3. accepting_calls' = TRUE
          BY <5>2 DEF accepting_calls
        <5>4. A!TakeCalls(probe.news)
          BY <4>1, <4>2, <4>4, <5>3 DEF A!TakeCalls
        <5> QED
          BY <2>0, <4>1, <5>4 DEF A!Next, TypeOK
      <4> QED
        BY <4>3, <4>4
    <3> QED
      BY <2>5, <3>1, <3>2 DEF ProbeReturns
  <2>6. CASE ProbeFails
    <3>1. CASE UNCHANGED observation
      BY <2>1, <2>6, <3>1 DEF ProbeFails, observation
    <3>2. CASE Set("Unknown") /\ UNCHANGED <<heard, ended>>
      <4>1. accepting_calls' = FALSE /\ news' = news /\ heard' = heard
        BY <2>6, <3>2 DEF ProbeFails, Set, accepting_calls
      <4>2. heard' \in heard..Len(news)
        BY <2>0, <4>1 DEF TypeOK
      <4> QED
        BY <4>1, <4>2 DEF A!Next, A!StopCalls
    <3> QED
      BY <2>6, <3>1, <3>2 DEF ProbeFails
  <2>7. ASSUME NEW r \in Request, ConflictReturns(r)  PROVE A!Next
    <3>1. mode' = "BetweenExhibitions" /\ news' = news
      BY <2>7 DEF ConflictReturns
    <3>2. heard' \in heard..Len(news)
      BY <2>0, <2>7 DEF TypeOK, OperationsOK, ConflictReturns, HearNews, Newer
    <3> QED
      BY <2>2, <3>1, <3>2 DEF A!Next
  <2>8. CASE ProbeStarts \/ ProbeServed \/ CallResets \/ LoopHears
    BY <2>1, <2>8 DEF ProbeStarts, ProbeServed, CallResets, LoopHears, observation
  <2>9. ASSUME NEW r \in Request,
               BeginRequest(r) \/ Attempt(r) \/ Served(r) \/ AnswerReturns(r) \/ AttemptFails(r)
        PROVE  UNCHANGED A!vars
    BY <2>1, <2>9 DEF BeginRequest, Attempt, Served, AnswerReturns, AttemptFails, observation
  <2>10. CASE UNCHANGED vars
    BY <2>1, <2>10 DEF vars
  <2> QED
    BY <2>3, <2>4, <2>5, <2>6, <2>7, <2>8, <2>9, <2>10 DEF Next
<1> QED
  BY IInvHolds, <1>1, <1>2, PTL DEF Spec, Promise, A!Spec
=============================================================================
