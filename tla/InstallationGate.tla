--------------------------- MODULE InstallationGate ---------------------------
(***************************************************************************)
(* The admission gate, crates/booth-bin/src/installation.rs: whether the   *)
(* booth takes calls.  A poller asks the operator for the state of the     *)
(* exhibition, every other request to the operator passes the gate and may *)
(* come back with the typed conflict that closes it, and the main loop     *)
(* hears of changes through a watch channel.  Requests and probes are in   *)
(* flight while the operator starts and ends exhibitions.                  *)
(*                                                                         *)
(* `revision` is only ever compared with the copy the probe in flight has  *)
(* taken, and only grows: probe.latest says whether they are still equal.  *)
(* FetchTokens are likewise the set of fetches whose generation is still   *)
(* the current one.                                                        *)
(***************************************************************************)
EXTENDS Integers, Sequences

CONSTANTS
    Content,  \* requests for a question, a message or instructions
    Write,    \* requests that write: uploads, statuses, event batches
    Poll, Timeout, Lease,  \* POLL_INTERVAL, PROBE_TIMEOUT, ACTIVE_LEASE
    MaxNews   \* bound: the exhibition changes less often than this

ASSUME GateAssumption ==
    /\ Content \cap Write = {}
    /\ Poll \in Nat \ {0} /\ Timeout \in Nat \ {0} /\ Lease \in Nat \ {0}
    /\ MaxNews \in Nat \ {0}

VARIABLES
    news,      \* what the operator would answer, in succession; the last holds now
    held,      \* for how long it has held (history)
    mode, age, \* Observation: the mode, and the time since `checked`
    probe,     \* the poller's request
    since,     \* the time since its last poll
    requests,  \* the operations that pass the gate, each attempt of them
    current,   \* the fetches whose token is still current
    told,      \* accepting_calls of the main loop
    unseen,    \* its watch channel holds a change
    heard,     \* the newest of the news that reached the gate (history)
    ended      \* the newest of them that ended an exhibition (history)

vars == <<news, held, mode, age, probe, since, requests, current, told, unseen, heard, ended>>
observation == <<mode, age, unseen, current, heard, ended>>

Request == Content \cup Write
Exhibition == {"Active", "BetweenExhibitions", "Unreported"}

\* Ages are counted up to here; everything older is alike.
Horizon == Lease + Poll + Timeout
Older(t) == IF t < Horizon THEN t + 1 ELSE t

Newer(n, m) == IF n > m THEN n ELSE m

\* The gate has heard what held when the operator had given n pieces of news.
HearNews(n) ==
    /\ heard' = Newer(n, heard)
    /\ ended' = IF news[n] = "BetweenExhibitions" THEN Newer(n, ended) ELSE ended

\* An operation, and the news its attempt was answered with.
Operation == [at: {"None", "Waiting", "Asked", "Answered"}, news: Nat]

OperationsOK ==
    /\ requests \in [Request -> Operation]
    /\ current \subseteq {r \in Content : requests[r].at # "None"}
    /\ \A r \in Request : requests[r].at = "Answered" => requests[r].news \in 1..Len(news)

\* The variables have their types; only an operation under way has a token.
TypeOK ==
    /\ news \in Seq(Exhibition) /\ news # <<>>
    /\ held \in 0..Horizon /\ age \in 0..Horizon /\ since \in Nat
    /\ mode \in {"Unknown", "Legacy", "Active", "BetweenExhibitions"}
    /\ probe \in [at: {"Off", "Idle", "Asked", "Answered"}, news: Nat, latest: BOOLEAN]
    /\ probe.at = "Answered" => probe.news \in 1..Len(news)
    /\ OperationsOK
    /\ told \in BOOLEAN /\ unseen \in BOOLEAN
    /\ heard \in 0..Len(news) /\ ended \in 0..heard

\* Mutated accepting_calls: the lease is forgotten.
AcceptsWithoutLease == mode \in {"Legacy", "Active"}

\* InstallationGate::check: a lease of an Active answer runs out by itself.
accepting_calls == mode = "Legacy" \/ (mode = "Active" /\ age < Lease)

----------------------------------------------------------------------------
\* A client that cannot report the exhibition is not polled.
Init ==
    /\ news \in {<<s>> : s \in Exhibition} /\ held = 0
    /\ \E supported \in BOOLEAN :
         /\ mode = IF supported THEN "Unknown" ELSE "Legacy"
         /\ probe = [at |-> IF supported THEN "Idle" ELSE "Off", news |-> 0, latest |-> FALSE]
    /\ age = 0 /\ since = Poll
    /\ requests = [r \in Request |-> [at |-> "None", news |-> 0]]
    /\ current = {}
    /\ told = accepting_calls /\ unseen = FALSE
    /\ heard = 0 /\ ended = 0

\* External: the operator starts or ends an exhibition, or its server is exchanged.
OperatorMoves ==
    /\ Len(news) < MaxNews
    /\ \E s \in Exhibition \ {news[Len(news)]} : news' = Append(news, s)
    /\ held' = 0
    /\ UNCHANGED <<probe, since, requests, told, observation>>

\* Time passes; the poller and its deadline are prompt.
TimePasses ==
    /\ probe.at = "Idle" => since < Poll
    /\ probe.at \in {"Asked", "Answered"} => since < Timeout
    /\ held' = Older(held) /\ age' = Older(age)
    /\ since' = IF probe.at = "Off" THEN since ELSE since + 1
    /\ UNCHANGED <<news, mode, probe, requests, current, told, unseen, heard, ended>>

----------------------------------------------------------------------------
(* The poller: spawn_reconciler and reconcile *)

ProbeStarts ==
    /\ probe.at = "Idle" /\ since >= Poll
    /\ probe' = [at |-> "Asked", news |-> 0, latest |-> TRUE]
    /\ since' = 0
    /\ UNCHANGED <<news, held, requests, told, observation>>

\* External: the operator's server answers.
ProbeServed ==
    /\ probe.at = "Asked"
    /\ probe' = [at |-> "Answered", news |-> Len(news), latest |-> probe.latest]
    /\ UNCHANGED <<news, held, since, requests, told, observation>>

ModeOf(exhibition) ==
    CASE exhibition = "Active" -> "Active"
      [] exhibition = "BetweenExhibitions" -> "BetweenExhibitions"
      [] exhibition = "Unreported" -> "Legacy"

\* Mutated Set: fetches keep their tokens; a renewed lease is not announced.
SetKeepingTokens(next) ==
    /\ mode' = next /\ age' = 0 /\ unseen' = TRUE
    /\ UNCHANGED current

\* The observation becomes `next`; everyone who watches it is told.
Set(next) ==
    /\ mode' = next /\ age' = 0 /\ unseen' = TRUE
    /\ current' = IF next # mode /\ next \in {"Unknown", "BetweenExhibitions"}
                  THEN {} ELSE current

ProbeEnds == probe' = [at |-> "Idle", news |-> 0, latest |-> FALSE]

\* Mutated ProbeReturns: every answer counts; the end of an exhibition is final.
ReturnsIgnoringRevision ==
    /\ probe.at = "Answered"
    /\ ProbeEnds
    /\ Set(ModeOf(news[probe.news])) /\ HearNews(probe.news)
    /\ UNCHANGED <<news, held, since, requests, told>>

ReturnsUnlessBetween ==
    /\ probe.at = "Answered"
    /\ ProbeEnds
    /\ \/ /\ probe.latest /\ mode # "BetweenExhibitions"
          /\ Set(ModeOf(news[probe.news])) /\ HearNews(probe.news)
       \/ ~(probe.latest /\ mode # "BetweenExhibitions") /\ UNCHANGED observation
    /\ UNCHANGED <<news, held, since, requests, told>>

\* An answer that a conflict has overtaken is ignored.
ProbeReturns ==
    /\ probe.at = "Answered"
    /\ ProbeEnds
    /\ \/ probe.latest /\ Set(ModeOf(news[probe.news])) /\ HearNews(probe.news)
       \/ ~probe.latest /\ UNCHANGED observation
    /\ UNCHANGED <<news, held, since, requests, told>>

\* Mutated ProbeFails: a lapsed lease is left to the next answer.
FailsQuietly ==
    /\ probe.at \in {"Asked", "Answered"}
    /\ ProbeEnds
    /\ UNCHANGED <<news, held, since, requests, told, observation>>

\* No answer, or none in time: only a lease that has run out changes anything.
ProbeFails ==
    /\ probe.at \in {"Asked", "Answered"}
    /\ ProbeEnds
    /\ IF probe.latest /\ mode = "Active" /\ age >= Lease
       THEN Set("Unknown") /\ UNCHANGED <<heard, ended>>
       ELSE UNCHANGED observation
    /\ UNCHANGED <<news, held, since, requests, told>>

----------------------------------------------------------------------------
(* Operations: retry_operator over ExhibitionOperator and observe *)

None == [at |-> "None", news |-> 0]
Waiting == [at |-> "Waiting", news |-> 0]  \* before an attempt
Asked == [at |-> "Asked", news |-> 0]

\* An operation begins; a fetch takes its token once, for all its attempts.
BeginRequest(r) ==
    /\ requests[r] = None
    /\ requests' = [requests EXCEPT ![r] = Waiting]
    /\ current' = current \cup ({r} \cap Content)
    /\ UNCHANGED <<news, held, mode, age, probe, since, told, unseen, heard, ended>>

\* Mutated End: the token outlives the operation.
EndKeepingToken(r) == requests' = [requests EXCEPT ![r] = None] /\ UNCHANGED current

\* The operation ends, well or not, and its token with it.
End(r) == requests' = [requests EXCEPT ![r] = None] /\ current' = current \ {r}

\* After an error that may pass: another attempt, or none is left.
RetryOrEnd(r) ==
    \/ End(r)
    \/ requests' = [requests EXCEPT ![r] = Waiting] /\ UNCHANGED current

\* The gate's own error: final between exhibitions, otherwise retried.
GateRefuses(r) ==
    /\ ~accepting_calls
    /\ IF mode = "BetweenExhibitions" THEN End(r) ELSE RetryOrEnd(r)

Attempt(r) ==
    /\ requests[r] = Waiting
    /\ \/ /\ accepting_calls
          /\ requests' = [requests EXCEPT ![r] = Asked] /\ UNCHANGED current
       \/ GateRefuses(r)
    /\ UNCHANGED <<news, held, mode, age, probe, since, told, unseen, heard, ended>>

\* External: the server carries the request out, or refuses between exhibitions.
Served(r) ==
    /\ requests[r].at = "Asked"
    /\ requests' = [requests EXCEPT ![r] = [at |-> "Answered", news |-> Len(news)]]
    /\ UNCHANGED <<news, held, probe, since, told, observation>>

Conflict(r) == news[requests[r].news] = "BetweenExhibitions"

\* observe: even a repeated conflict overtakes the probe in flight.
ConflictReturns(r) ==
    /\ requests[r].at = "Answered" /\ Conflict(r)
    /\ probe' = [probe EXCEPT !.latest = FALSE]
    /\ HearNews(requests[r].news)
    /\ requests' = [requests EXCEPT ![r] = None]
    /\ IF mode # "BetweenExhibitions"
       THEN mode' = "BetweenExhibitions" /\ current' = {} /\ unseen' = TRUE
       ELSE current' = current \ {r} /\ UNCHANGED <<mode, unseen>>
    /\ UNCHANGED <<news, held, age, since, told>>

\* A fetch looks at the gate again before it gives its clip to the call.
AnswerReturns(r) ==
    /\ requests[r].at = "Answered" /\ ~Conflict(r)
    /\ IF r \in Write \/ accepting_calls THEN End(r) ELSE GateRefuses(r)
    /\ UNCHANGED <<news, held, mode, age, probe, since, told, unseen, heard, ended>>

\* An attempt is lost on its way there or back, or the server fails.
AttemptFails(r) ==
    /\ requests[r].at \in {"Asked", "Answered"}
    /\ RetryOrEnd(r)
    /\ UNCHANGED <<news, held, mode, age, probe, since, told, unseen, heard, ended>>

\* StopAudio and a new call invalidate what was fetched for the last one.
CallResets ==
    /\ current' = {}
    /\ UNCHANGED <<news, held, mode, age, probe, since, requests, told, unseen, heard, ended>>

\* The main loop takes the change from its watch channel.
LoopHears ==
    /\ unseen
    /\ unseen' = FALSE /\ told' = accepting_calls
    /\ UNCHANGED <<news, held, mode, age, probe, since, requests, current, heard, ended>>

Next ==
    \/ OperatorMoves \/ TimePasses
    \/ ProbeStarts \/ ProbeServed \/ ProbeReturns \/ ProbeFails
    \/ \E r \in Request :
         \/ BeginRequest(r) \/ Attempt(r) \/ Served(r)
         \/ ConflictReturns(r) \/ AnswerReturns(r) \/ AttemptFails(r)
    \/ CallResets \/ LoopHears

\* Time passes and the poller polls; of the probes it makes again and again,
\* some are answered and some answers arrive.
Fairness ==
    /\ WF_vars(TimePasses) /\ WF_vars(ProbeStarts)
    /\ SF_vars(ProbeServed) /\ SF_vars(ProbeReturns)

Spec == Init /\ [][Next]_vars
FairSpec == Spec /\ Fairness
----------------------------------------------------------------------------
(* Properties *)

A == INSTANCE Admission WITH open <- accepting_calls, basis <- heard

\* "Only a subsequent successful status response can reopen admission" (ADR
\* 0011): calls are only taken on the strength of an answer at least as new as
\* every conflict and answer that reached the booth (reconcile, observe).
Promise == A!Spec

\* A clip the booth would still give to a call was handed out after the last
\* end of an exhibition it heard of, however its fetch was delayed or retried
\* (observe, reconcile, FetchToken).
ClipFromThisExhibition ==
    \A r \in current :
        requests[r].at = "Answered" /\ ~Conflict(r) => requests[r].news > ended

\* When the operator has ended the exhibition, a booth that hears nothing takes
\* no more calls after the lease and one probe's transit (ACTIVE_LEASE).
ClosesInTime ==
    mode = "Active" /\ accepting_calls /\ news[Len(news)] = "BetweenExhibitions"
        => held < Lease + Timeout

\* A lease that has run out, which by itself tells nobody, is found out by the
\* next two probes: the lapse becomes a change of the observation.
LapseIsFoundOut == mode = "Active" => age < Lease + Poll + Timeout

\* The main loop's copy of the decision is wrong only while a change waits in
\* its channel or a lapse has not been found out.
LoopIsTold == told # accepting_calls => unseen \/ (mode = "Active" /\ age >= Lease)

\* A lapse is found out and told (spawn_reconciler, installation_rx of run_runtime).
LapseIsTold == LapseIsFoundOut /\ LoopIsTold

\* Once the operator no longer moves, the gate follows it: calls are taken again
\* and again if it has an exhibition on, and in the end never if it has not.  (A
\* client that cannot report the exhibition is not polled.)
FollowsOperator ==
    /\ <>[](probe.at # "Off" /\ news[Len(news)] # "BetweenExhibitions")
           => []<>accepting_calls
    /\ <>[](probe.at # "Off" /\ news[Len(news)] = "BetweenExhibitions")
           => <>[]~accepting_calls
=============================================================================
