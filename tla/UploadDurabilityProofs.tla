------------------------ MODULE UploadDurabilityProofs ------------------------
(***************************************************************************)
(* What the spool guarantees for every set of recordings, every number of  *)
(* slots and of restarts: type correctness, the invariants of              *)
(* UploadDurability, and that it implements AnswerStore.                   *)
(*                                                                         *)
(* The parts of IInv follow a recording: while it is queued, while a task  *)
(* or the replay worker has it, and once its entry is removed.             *)
(***************************************************************************)
EXTENDS UploadDurability, WellFoundedInduction, SequenceTheorems, TLAPS

Queued(q) == {q[i] : i \in 1..Len(q)}
Distinct(q) == \A i, j \in 1..Len(q) : q[i] = q[j] => i = j

\* A recording is queued once, and nothing is known of it yet.
QueueIsNew ==
    /\ Distinct(queue)
    /\ \A r \in Queued(queue) : r \in handed /\ live[r] = "None" /\ outcome[r] = "None"

\* A task that has not reported yet; what its step says of the entry.
LiveIsKnown ==
    /\ writing \subseteq handed
    /\ \A r \in Recording :
        /\ live[r] # "None" => r \in handed
        /\ live[r] \notin {"None", "Dequeue"} => outcome[r] = "None"
        /\ live[r] = "Persist" => r \in writing
        /\ live[r] \notin {"None", "Persist"} => r \in stored
        /\ live[r] = "Dequeue" => r \in confirmed
        /\ outcome[r] # "None" => r \in handed

\* The replay worker has entries that were stored, and removes the confirmed ones.
ReplayIsKnown ==
    /\ replay.todo \subseteq stored
    /\ replay.rec # 0 => replay.rec \in stored
    /\ replay.at = "Dequeue" => replay.rec \in confirmed

RemovedIsConfirmed == stored \ spool \subseteq confirmed

HandedIsKept == handed \subseteq Queued(queue) \cup writing \cup stored \cup Short \cup unstored

ReportIsTrue ==
    \A r \in Recording :
        /\ outcome[r] = "Complete" => r \in confirmed \cup Short
        /\ outcome[r] = "Deferred" => r \in stored
        /\ outcome[r] # "Twice"

\* A process that has ended has nothing under way, and will be restarted.
NothingHalted ==
    /\ process # "Up" => restarts < MaxRestarts
    /\ process \in {"Stopped", "Crashed"} =>
        queue = <<>> /\ writing = {} /\ replay = Idle /\ \A r \in Recording : live[r] = "None"

IInv ==
    /\ TypeOK /\ ExclusiveUpload /\ ClaimsAreHeld /\ QueueIsNew /\ LiveIsKnown /\ ReplayIsKnown
    /\ ReplaySendsPending /\ RemovedIsConfirmed /\ HandedIsKept /\ ReportIsTrue /\ NothingHalted
----------------------------------------------------------------------------
\* A sweep always finds a next entry: recordings are well-ordered.
LEMMA FirstIsOne ==
    ASSUME NEW todo \in SUBSET Recording, todo # {}, NEW from \in Recording \cup {0}
    PROVE  First(todo, from) \in todo
<1> DEFINE later == {r \in todo : r > from}
<1>1. \A T \in SUBSET Nat : T # {} => \E m \in T : \A k \in T : m <= k
  <2>1. SUFFICES ASSUME NEW T \in SUBSET Nat, T # {}
                 PROVE  \E m \in T : \A k \in T : m <= k
    OBVIOUS
  <2> DEFINE Less == {ss \in Nat \X Nat : ss[1] < ss[2]}
  <2>2. IsWellFoundedOn(Less, Nat)
    BY NatLessThanWellFounded DEF OpToRel
  <2>3. PICK m \in T : \A k \in T : ~ (<<k, m>> \in Less)
    <3> HIDE DEF Less
    <3> QED
      BY <2>1, <2>2, WFMin
  <2>4. \A k \in T : ~(k < m) /\ k \in Nat /\ m \in Nat
    BY <2>1, <2>3
  <2> QED
    BY <2>4
<1>2. CASE later = {}
  BY <1>1, <1>2, UploadAssumption DEF First
<1>3. CASE later # {}
  BY <1>1, <1>3, UploadAssumption DEF First
<1> QED
  BY <1>2, <1>3

\* Taking the next effect off the queue.
LEMMA QueueTail ==
    ASSUME NEW q \in Seq(Recording), q # <<>>, Distinct(q)
    PROVE  /\ Head(q) \in Recording /\ Tail(q) \in Seq(Recording)
           /\ Head(q) \in Queued(q) /\ Queued(Tail(q)) = Queued(q) \ {Head(q)}
           /\ Distinct(Tail(q))
<1>1. /\ Head(q) \in Recording /\ Tail(q) \in Seq(Recording) /\ Head(q) = q[1]
      /\ Len(q) \in Nat \ {0} /\ Len(Tail(q)) = Len(q) - 1
      /\ \A i \in 1..Len(Tail(q)) : Tail(q)[i] = q[i + 1]
  BY HeadTailProperties
<1>2. Distinct(Tail(q))
  BY <1>1 DEF Distinct
<1>3. Head(q) \in Queued(q)
  BY <1>1 DEF Queued
<1>4. ASSUME NEW i \in 2..Len(q)  PROVE q[i] = Tail(q)[i - 1] /\ i - 1 \in 1..Len(Tail(q))
  BY <1>1
<1>5. Queued(q) \ {Head(q)} \subseteq Queued(Tail(q))
  BY <1>1, <1>4 DEF Queued
<1>6. Queued(Tail(q)) \subseteq Queued(q) \ {Head(q)}
  BY <1>1 DEF Queued, Distinct
<1> QED
  BY <1>1, <1>2, <1>3, <1>5, <1>6

\* Handing over one more effect.
LEMMA QueueAppend ==
    ASSUME NEW q \in Seq(Recording), NEW r \in Recording
    PROVE  /\ Append(q, r) \in Seq(Recording)
           /\ Queued(Append(q, r)) = Queued(q) \cup {r}
           /\ Distinct(q) /\ r \notin Queued(q) => Distinct(Append(q, r))
<1>1. /\ Append(q, r) \in Seq(Recording) /\ Len(q) \in Nat
      /\ Len(Append(q, r)) = Len(q) + 1 /\ Append(q, r)[Len(q) + 1] = r
      /\ \A i \in 1..Len(q) : Append(q, r)[i] = q[i]
  BY AppendProperties
<1>2. Queued(Append(q, r)) \subseteq Queued(q) \cup {r}
  BY <1>1 DEF Queued
<1>3. Queued(q) \cup {r} \subseteq Queued(Append(q, r))
  BY <1>1 DEF Queued
<1>4. ASSUME Distinct(q), r \notin Queued(q)  PROVE Distinct(Append(q, r))
  BY <1>1, <1>4 DEF Distinct, Queued
<1> QED
  BY <1>1, <1>2, <1>3, <1>4

\* The next effect, when effect_task takes it.
LEMMA TakesOne ==
    ASSUME TypeOK, QueueIsNew, MayTake
    PROVE  /\ Head(queue) \in Recording /\ Head(queue) \in handed
           /\ live[Head(queue)] = "None" /\ outcome[Head(queue)] = "None"
           /\ Tail(queue) \in Seq(Recording) /\ Distinct(Tail(queue))
           /\ Queued(Tail(queue)) = Queued(queue) \ {Head(queue)}
           /\ Head(queue) \in Queued(queue)
<1>1. queue \in Seq(Recording) /\ queue # <<>> /\ Distinct(queue)
  BY DEF TypeOK, MayTake, QueueIsNew
<1>2. Head(queue) \in Queued(queue)
  BY <1>1, QueueTail
<1> QED
  BY <1>1, <1>2, QueueTail DEF QueueIsNew

\* The next entry of a sweep, when the replay worker claims it.
LEMMA TakesNext ==
    ASSUME TypeOK, ReplayTakes, replay.todo # {}, accepting
    PROVE  \E r \in Recording :
              /\ r \in replay.todo
              /\ IF r \in claims
                 THEN replay' = [replay EXCEPT !.todo = @ \ {r}] /\ UNCHANGED claims
                 ELSE /\ replay' = [replay EXCEPT !.todo = @ \ {r}, !.at = "Check", !.rec = r]
                      /\ claims' = claims \cup {r}
<1>1. replay.todo \in SUBSET Recording /\ replay.from \in Recording \cup {0}
  BY DEF TypeOK
<1>2. First(replay.todo, replay.from) \in replay.todo
  BY <1>1, FirstIsOne
<1> QED
  BY <1>1, <1>2 DEF ReplayTakes, Replaying

\* What a step of a sweep comes to: its end, an entry passed over or one claimed.
LEMMA SweepStep ==
    ASSUME TypeOK, ReplayTakes
    PROVE  /\ replay.at = "Next" /\ replay.rec = 0
           /\ UNCHANGED <<process, restarts, handed, unstored, queue, live, writing, stored,
                          accepting, confirmed, outcome, spool, last>>
           /\ \/ replay' = Idle /\ claims' = claims
              \/ /\ claims' = claims
                 /\ \E T \in SUBSET replay.todo :
                      replay' = [at |-> "Next", rec |-> 0, todo |-> T, from |-> replay.from]
              \/ \E r \in replay.todo, T \in SUBSET replay.todo :
                      /\ r \notin claims /\ claims' = claims \cup {r}
                      /\ replay' = [at |-> "Check", rec |-> r, todo |-> T, from |-> replay.from]
<1>1. replay.at = "Next" /\ replay.rec = 0
  BY DEF TypeOK, ReplayTakes
<1>2. UNCHANGED <<process, restarts, handed, unstored, queue, live, writing, stored,
                  accepting, confirmed, outcome, spool, last>>
  BY DEF ReplayTakes, Replaying
<1>3. CASE replay.todo = {} \/ ~accepting
  BY <1>1, <1>2, <1>3 DEF ReplayTakes, Replaying
<1>4. CASE replay.todo # {} /\ accepting
  <2>1. PICK r \in Recording :
            /\ r \in replay.todo
            /\ IF r \in claims
               THEN replay' = [replay EXCEPT !.todo = @ \ {r}] /\ UNCHANGED claims
               ELSE /\ replay' = [replay EXCEPT !.todo = @ \ {r}, !.at = "Check", !.rec = r]
                    /\ claims' = claims \cup {r}
    BY <1>4, TakesNext
  <2>2. CASE r \in claims
    <3>1. replay' = [at |-> "Next", rec |-> 0, todo |-> replay.todo \ {r},
                     from |-> replay.from]
      BY <1>1, <2>1, <2>2 DEF TypeOK
    <3> QED
      BY <1>1, <1>2, <2>1, <2>2, <3>1
  <2>3. CASE r \notin claims
    <3>1. replay' = [at |-> "Check", rec |-> r, todo |-> replay.todo \ {r},
                     from |-> replay.from]
      BY <2>1, <2>3 DEF TypeOK
    <3> QED
      BY <1>1, <1>2, <2>1, <2>3, <3>1
  <2> QED
    BY <2>2, <2>3
<1> QED
  BY <1>3, <1>4

\* Every step keeps the types.
LEMMA TypeStep ==
    ASSUME TypeOK, QueueIsNew, LiveIsKnown, NothingHalted, [Next]_vars
    PROVE  TypeOK'
<1> USE UploadAssumption DEF TypeOK, Step, Request, Idle
<1>1. ASSUME NEW r \in Recording, Hand(r)  PROVE TypeOK'
  BY <1>1, QueueAppend DEF Hand, QueueIsNew
<1>2. ASSUME NEW r \in Recording, Persist(r)  PROVE TypeOK'
  BY <1>2 DEF Persist, LiveStep
<1>3. ASSUME NEW r \in Recording, CannotPersist(r)  PROVE TypeOK'
  <2>1. r \in handed
    BY <1>3 DEF CannotPersist,
         LiveIsKnown
  <2>2. writing' = writing \ {r} /\ unstored' = unstored \cup {r}
    BY <1>3 DEF CannotPersist, Lost
  <2>3. UNCHANGED <<process, restarts, handed, queue, replay, last, accepting, confirmed>>
    BY <1>3 DEF CannotPersist
  <2>4. spool' \subseteq stored' /\ stored' \subseteq Recording
    <3>1. CASE UNCHANGED <<spool, stored>>
      BY <3>1
    <3>2. CASE spool' = spool \cup {r} /\ stored' = stored \cup {r}
      BY <3>2
    <3> QED
      BY <1>3, <3>1, <3>2 DEF CannotPersist
  <2>5. CASE live[r] = "Persist"
    BY <1>3, <2>1, <2>2, <2>3, <2>4, <2>5 DEF CannotPersist, LiveEnds, Report
  <2>6. CASE live[r] # "Persist"
    BY <1>3, <2>1, <2>2, <2>3, <2>4, <2>6 DEF CannotPersist
  <2> QED
    BY <2>5, <2>6
<1>4. ASSUME NEW r \in Recording, LiveChecksGate(r)  PROVE TypeOK'
  BY <1>4 DEF LiveChecksGate, LiveStep, LiveEnds, Report
<1>5. ASSUME NEW r \in Recording, LiveSends(r)  PROVE TypeOK'
  BY <1>5 DEF LiveSends, LiveStep, Report, After, Answered
<1>6. ASSUME NEW r \in Recording, LiveFails(r)  PROVE TypeOK'
  BY <1>6 DEF LiveFails, LiveEnds, Report
<1>7. CASE CannotFind
  <2>1. process' \in {"Up", "Stopping", "Stopped",
         "Crashed"} /\ restarts' \in 0..MaxRestarts
    BY <1>7, TakesOne DEF CannotFind, Took, Report, Lost
  <2>2. handed' \subseteq Recording /\ unstored' \subseteq handed' /\ writing' \subseteq Recording
    BY <1>7, TakesOne DEF CannotFind, Took, Report, Lost
  <2>3. queue' \in Seq(Recording) /\ live' \in [Recording -> Step]
    BY <1>7, TakesOne DEF CannotFind, Took, Report, Lost
  <2>4. outcome' \in [Recording -> {"None", "Complete", "Deferred", "Failed", "Twice"}]
    BY <1>7, TakesOne DEF CannotFind, Took, Report, Lost
  <2>5. spool' \subseteq stored' /\ stored' \subseteq Recording
    BY <1>7, TakesOne DEF CannotFind, Took, Report, Lost
  <2>6. claims' \subseteq Recording
    BY <1>7, TakesOne DEF CannotFind, Took, Report, Lost
  <2>7. last' \in Recording \cup {0} /\ accepting' \in BOOLEAN /\ confirmed' \subseteq Recording
    BY <1>7, TakesOne DEF CannotFind, Took, Report, Lost
  <2>8. replay' \in [at: {"Idle", "Next", "Check",
         "Dequeue"} \cup Request,
                       rec: Recording \cup {0},
         todo: SUBSET Recording,
                       from: Recording \cup {0}]
    BY <1>7, TakesOne DEF CannotFind, Took, Report, Lost
  <2>9. replay'.rec = 0 <=> replay'.at \in {"Idle", "Next"}
    BY <1>7, TakesOne DEF CannotFind, Took, Report, Lost
  <2> QED
    BY <2>1, <2>2, <2>3, <2>4, <2>5, <2>6, <2>7, <2>8, <2>9
<1>8. CASE Discard
  BY <1>8, TakesOne DEF Discard, Took, Report
<1>9. CASE AlreadyClaimed
  BY <1>9, TakesOne DEF AlreadyClaimed, Took, Report
<1>10. CASE StartUpload
  <2>1. process' \in {"Up", "Stopping", "Stopped",
         "Crashed"} /\ restarts' \in 0..MaxRestarts
    BY <1>10, TakesOne DEF StartUpload, Took
  <2>2. handed' \subseteq Recording /\ unstored' \subseteq handed' /\ writing' \subseteq Recording
    BY <1>10, TakesOne DEF StartUpload, Took
  <2>3. queue' \in Seq(Recording) /\ live' \in [Recording -> Step]
    BY <1>10, TakesOne DEF StartUpload, Took
  <2>4. outcome' \in [Recording -> {"None", "Complete", "Deferred", "Failed", "Twice"}]
    BY <1>10, TakesOne DEF StartUpload, Took
  <2>5. spool' \subseteq stored' /\ stored' \subseteq Recording
    BY <1>10, TakesOne DEF StartUpload, Took
  <2>6. claims' \subseteq Recording
    BY <1>10, TakesOne DEF StartUpload, Took
  <2>7. last' \in Recording \cup {0} /\ accepting' \in BOOLEAN /\ confirmed' \subseteq Recording
    BY <1>10, TakesOne DEF StartUpload, Took
  <2>8. replay' \in [at: {"Idle", "Next", "Check",
         "Dequeue"} \cup Request,
                       rec: Recording \cup {0},
         todo: SUBSET Recording,
                       from: Recording \cup {0}]
    BY <1>10, TakesOne DEF StartUpload, Took
  <2>9. replay'.rec = 0 <=> replay'.at \in {"Idle", "Next"}
    BY <1>10, TakesOne DEF StartUpload, Took
  <2> QED
    BY <2>1, <2>2, <2>3, <2>4, <2>5, <2>6, <2>7, <2>8, <2>9
<1>11. CASE ReplayScans
  BY <1>11 DEF ReplayScans, Replaying, scan
<1>12. CASE ReplayTakes
  <2>1. UNCHANGED <<process, restarts, handed, unstored, queue, live, writing,
         stored,
                    accepting, confirmed, outcome, spool,
         last>>
    BY <1>12,
         SweepStep
  <2>2. CASE replay' = Idle /\ claims' = claims
    BY <2>1,
         <2>2
  <2>3. CASE /\ claims' = claims
             /\ \E rest \in SUBSET replay.todo :
                  replay' = [at |-> "Next", rec |-> 0, todo |-> rest, from |-> replay.from]
    BY <2>1, <2>3
  <2>4. ASSUME NEW r \in replay.todo, NEW rest \in SUBSET replay.todo,
               claims' = claims \cup {r},
               replay' = [at |-> "Check", rec |-> r, todo |-> rest, from |-> replay.from]
        PROVE  TypeOK'
    BY <2>1, <2>4
  <2> QED
    BY <1>12, <2>2, <2>3, <2>4, SweepStep
<1>13. CASE ReplayChecks
  <2>1. replay.rec \in Recording
    BY <1>13 DEF ReplayChecks
  <2>2. CASE replay.rec \in spool
    <3>1. replay' = [replay EXCEPT !.at = "Init"] /\ last' = replay.rec
      BY <1>13, <2>2 DEF ReplayChecks, Replaying
    <3>2. UNCHANGED <<process, restarts, handed, unstored, queue, live, writing, stored,
                      accepting, confirmed, outcome, spool, claims>>
      BY <1>13, <2>2 DEF ReplayChecks, Replaying
    <3> QED
      BY <2>1, <3>1, <3>2
  <2>3. CASE replay.rec \notin spool
    BY <1>13, <2>1, <2>3 DEF ReplayChecks, Replaying, ReplayGoesOn
  <2> QED
    BY <2>2, <2>3
<1>14. CASE ReplaySends
  BY <1>14 DEF ReplaySends, Replaying, After, Answered
<1>15. CASE ReplayFails
  BY <1>15 DEF ReplayFails, Replaying
<1>16. CASE ReplayDequeues
  BY <1>16 DEF ReplayDequeues, Replaying, ReplayGoesOn
<1>17. CASE ReplayAborted
  BY <1>17 DEF ReplayAborted, Replaying
<1>18. CASE GateMoves
  BY <1>18 DEF GateMoves
<1>19. CASE Shutdown
  BY <1>19 DEF Shutdown
<1>20. CASE Stop
  BY <1>20 DEF Stop, Busy, NothingHalted
<1>21. CASE Crash
  BY <1>21 DEF Crash
<1>22. CASE Restart
  <2>1. process' \in {"Up", "Stopping", "Stopped",
         "Crashed"} /\ restarts' \in 0..MaxRestarts
    BY <1>22 DEF Restart, NothingHalted
  <2>2. handed' \subseteq Recording /\ unstored' \subseteq handed' /\ writing' \subseteq Recording
    BY <1>22 DEF Restart, NothingHalted
  <2>3. queue' \in Seq(Recording) /\ live' \in [Recording -> Step]
    BY <1>22 DEF Restart, NothingHalted
  <2>4. outcome' \in [Recording -> {"None", "Complete", "Deferred", "Failed", "Twice"}]
    BY <1>22 DEF Restart, NothingHalted
  <2>5. spool' \subseteq stored' /\ stored' \subseteq Recording
    BY <1>22 DEF Restart, NothingHalted
  <2>6. claims' \subseteq Recording
    BY <1>22 DEF Restart, NothingHalted
  <2>7. last' \in Recording \cup {0} /\ accepting' \in BOOLEAN /\ confirmed' \subseteq Recording
    BY <1>22 DEF Restart, NothingHalted
  <2>8. replay' \in [at: {"Idle", "Next", "Check",
         "Dequeue"} \cup Request,
                       rec: Recording \cup {0},
         todo: SUBSET Recording,
                       from: Recording \cup {0}]
    BY <1>22 DEF Restart, NothingHalted
  <2>9. replay'.rec = 0 <=> replay'.at \in {"Idle", "Next"}
    BY <1>22 DEF Restart, NothingHalted
  <2> QED
    BY <2>1, <2>2, <2>3, <2>4, <2>5, <2>6, <2>7, <2>8, <2>9
<1>23. ASSUME NEW r \in Recording,
         LiveDequeues(r) \/ LiveAborted(r) \/ OperatorConfirms(r)
      PROVE  TypeOK'
  BY <1>23 DEF LiveDequeues, LiveEnds, LiveAborted, OperatorConfirms
<1>24. CASE UNCHANGED vars
  BY <1>24 DEF vars
<1> QED
  BY <1>1, <1>2, <1>3, <1>4, <1>5, <1>6, <1>7, <1>8, <1>9, <1>10, <1>11, <1>12, <1>13,
         <1>14, <1>15, <1>16, <1>17, <1>18, <1>19, <1>20, <1>21, <1>22, <1>23,
         <1>24 DEF Next

\* Who takes a recording finds it unclaimed.
LEMMA ExclusiveStep ==
    ASSUME TypeOK, ExclusiveUpload, ClaimsAreHeld, QueueIsNew, [Next]_vars
    PROVE  ExclusiveUpload'
<1> USE UploadAssumption DEF TypeOK, ExclusiveUpload, ClaimsAreHeld, Idle
<1>1. ASSUME NEW r \in Recording, Persist(r)  PROVE ExclusiveUpload'
  BY <1>1 DEF Persist, LiveStep
<1>2. ASSUME NEW r \in Recording, CannotPersist(r)  PROVE ExclusiveUpload'
  BY <1>2 DEF CannotPersist, LiveEnds, Report, Lost
<1>3. ASSUME NEW r \in Recording, LiveChecksGate(r)  PROVE ExclusiveUpload'
  BY <1>3 DEF LiveChecksGate, LiveStep, LiveEnds, Report
<1>4. ASSUME NEW r \in Recording, LiveSends(r)  PROVE ExclusiveUpload'
  BY <1>4 DEF LiveSends, LiveStep, Report, After, Answered, Request
<1>5. ASSUME NEW r \in Recording, LiveFails(r)  PROVE ExclusiveUpload'
  BY <1>5 DEF LiveFails, LiveEnds, Report, Request
<1>6. ASSUME NEW r \in Recording, LiveDequeues(r)  PROVE ExclusiveUpload'
  BY <1>6 DEF LiveDequeues, LiveEnds
<1>7. ASSUME NEW r \in Recording, LiveAborted(r)  PROVE ExclusiveUpload'
  BY <1>7 DEF LiveAborted, LiveEnds
<1>8. CASE StartUpload
  BY <1>8, TakesOne DEF StartUpload, Took
<1>9. CASE ReplayScans
  BY <1>9 DEF ReplayScans, Replaying, scan
<1>10. CASE ReplayTakes
  BY <1>10, SweepStep
<1>11. CASE ReplayChecks
  BY <1>11 DEF ReplayChecks, Replaying, ReplayGoesOn, Request
<1>12. CASE ReplaySends
  BY <1>12 DEF ReplaySends, Replaying, After, Answered, Request
<1>13. CASE ReplayFails
  BY <1>13 DEF ReplayFails, Replaying, Request
<1>14. CASE ReplayDequeues
  BY <1>14 DEF ReplayDequeues, Replaying, ReplayGoesOn
<1>15. CASE ReplayAborted
  BY <1>15 DEF ReplayAborted, Replaying
<1>16. CASE Crash
  BY <1>16 DEF Crash
<1>17. ASSUME NEW r \in Recording,
         Hand(r) \/ OperatorConfirms(r)
      PROVE  ExclusiveUpload'
  BY <1>17 DEF Hand, OperatorConfirms
<1>18. CASE CannotFind \/ Discard \/ AlreadyClaimed \/ GateMoves \/ Shutdown \/ Stop 
         \/ Restart \/ UNCHANGED vars
  BY <1>18 DEF vars, CannotFind, Took, Report, Lost, Discard, AlreadyClaimed,
         GateMoves, Shutdown, Stop, Busy, Restart
<1> QED
  BY <1>1, <1>2, <1>3, <1>4, <1>5, <1>6, <1>7, <1>8, <1>9, <1>10, <1>11, <1>12, <1>13,
         <1>14, <1>15, <1>16, <1>17, <1>18 DEF Next

\* Claims are made and dropped with the work they stand for.
LEMMA ClaimsStep ==
    ASSUME TypeOK, ExclusiveUpload, ClaimsAreHeld, QueueIsNew, [Next]_vars
    PROVE  ClaimsAreHeld'
<1> USE UploadAssumption DEF TypeOK, ExclusiveUpload, ClaimsAreHeld, Idle
<1>1. ASSUME NEW r \in Recording, Persist(r)  PROVE ClaimsAreHeld'
  BY <1>1 DEF Persist, LiveStep
<1>2. ASSUME NEW r \in Recording, CannotPersist(r)  PROVE ClaimsAreHeld'
  BY <1>2 DEF CannotPersist, LiveEnds, Report, Lost
<1>3. ASSUME NEW r \in Recording, LiveChecksGate(r)  PROVE ClaimsAreHeld'
  BY <1>3 DEF LiveChecksGate, LiveStep, LiveEnds, Report
<1>4. ASSUME NEW r \in Recording, LiveSends(r)  PROVE ClaimsAreHeld'
  BY <1>4 DEF LiveSends, LiveStep, Report, After, Answered, Request
<1>5. ASSUME NEW r \in Recording, LiveFails(r)  PROVE ClaimsAreHeld'
  BY <1>5 DEF LiveFails, LiveEnds, Report, Request
<1>6. ASSUME NEW r \in Recording, LiveDequeues(r)  PROVE ClaimsAreHeld'
  BY <1>6 DEF LiveDequeues, LiveEnds
<1>7. ASSUME NEW r \in Recording, LiveAborted(r)  PROVE ClaimsAreHeld'
  BY <1>7 DEF LiveAborted, LiveEnds
<1>8. CASE StartUpload
  <2>1. /\ Head(queue) \in Recording /\ UNCHANGED replay
        /\ \/ /\ live' = [live EXCEPT ![Head(queue)] = "Persist"]
              /\ claims' = claims \cup {Head(queue)}
           \/ UNCHANGED <<live, claims>>
    BY <1>8, TakesOne DEF StartUpload, Took
  <2> QED
    BY <2>1
<1>9. CASE ReplayScans
  BY <1>9 DEF ReplayScans, Replaying, scan
<1>10. CASE ReplayTakes
  BY <1>10, SweepStep
<1>11. CASE ReplayChecks
  BY <1>11 DEF ReplayChecks, Replaying, ReplayGoesOn, Request
<1>12. CASE ReplaySends
  BY <1>12 DEF ReplaySends, Replaying, After, Answered, Request
<1>13. CASE ReplayFails
  BY <1>13 DEF ReplayFails, Replaying, Request
<1>14. CASE ReplayDequeues
  BY <1>14 DEF ReplayDequeues, Replaying, ReplayGoesOn
<1>15. CASE ReplayAborted
  BY <1>15 DEF ReplayAborted, Replaying
<1>16. CASE Crash
  BY <1>16 DEF Crash
<1>17. ASSUME NEW r \in Recording,
         Hand(r) \/ OperatorConfirms(r)
      PROVE  ClaimsAreHeld'
  BY <1>17 DEF Hand, OperatorConfirms
<1>18. CASE CannotFind \/ Discard \/ AlreadyClaimed \/ GateMoves \/ Shutdown \/ Stop 
         \/ Restart \/ UNCHANGED vars
  BY <1>18 DEF vars, CannotFind, Took, Report, Lost, Discard, AlreadyClaimed,
         GateMoves, Shutdown, Stop, Busy, Restart
<1> QED
  BY <1>1, <1>2, <1>3, <1>4, <1>5, <1>6, <1>7, <1>8, <1>9, <1>10, <1>11, <1>12, <1>13,
         <1>14, <1>15, <1>16, <1>17, <1>18 DEF Next

\* What is queued is new: it is reported and taken up only after it left the queue.
LEMMA QueueStep ==
    ASSUME TypeOK, QueueIsNew, LiveIsKnown, NothingHalted, [Next]_vars
    PROVE  QueueIsNew'
<1> USE UploadAssumption DEF TypeOK, QueueIsNew, Idle
<1>1. ASSUME NEW r \in Recording, Hand(r)  PROVE QueueIsNew'
  BY <1>1, QueueAppend DEF Hand, LiveIsKnown
<1>2. ASSUME NEW r \in Recording, Persist(r)  PROVE QueueIsNew'
  BY <1>2 DEF Persist, LiveStep
<1>3. ASSUME NEW r \in Recording, CannotPersist(r)  PROVE QueueIsNew'
  BY <1>3 DEF CannotPersist, LiveEnds, Report, Lost
<1>4. ASSUME NEW r \in Recording, LiveChecksGate(r)  PROVE QueueIsNew'
  BY <1>4 DEF LiveChecksGate, LiveStep, LiveEnds, Report
<1>5. ASSUME NEW r \in Recording, LiveSends(r)  PROVE QueueIsNew'
  BY <1>5 DEF LiveSends, LiveStep, Report, After, Answered, Request
<1>6. ASSUME NEW r \in Recording, LiveFails(r)  PROVE QueueIsNew'
  BY <1>6 DEF LiveFails, LiveEnds, Report, Request
<1>7. ASSUME NEW r \in Recording, LiveDequeues(r)  PROVE QueueIsNew'
  BY <1>7 DEF LiveDequeues, LiveEnds
<1>8. ASSUME NEW r \in Recording, LiveAborted(r)  PROVE QueueIsNew'
  BY <1>8 DEF LiveAborted, LiveEnds
<1>9. CASE CannotFind
  BY <1>9, TakesOne DEF CannotFind, Took, Report, Lost
<1>10. CASE Discard
  BY <1>10, TakesOne DEF Discard, Took, Report
<1>11. CASE AlreadyClaimed
  BY <1>11, TakesOne DEF AlreadyClaimed, Took, Report
<1>12. CASE StartUpload
  BY <1>12, TakesOne DEF StartUpload, Took
<1>13. CASE ReplayScans
  BY <1>13 DEF ReplayScans, Replaying, scan
<1>14. CASE ReplayTakes
  BY <1>14, SweepStep
<1>15. CASE ReplayChecks
  BY <1>15 DEF ReplayChecks, Replaying, ReplayGoesOn, Request
<1>16. CASE ReplaySends
  BY <1>16 DEF ReplaySends, Replaying, After, Answered, Request
<1>17. CASE ReplayFails
  BY <1>17 DEF ReplayFails, Replaying, Request
<1>18. CASE ReplayDequeues
  BY <1>18 DEF ReplayDequeues, Replaying, ReplayGoesOn
<1>19. CASE ReplayAborted
  BY <1>19 DEF ReplayAborted, Replaying
<1>20. CASE Crash
  BY <1>20 DEF Crash, Queued, Distinct
<1>21. CASE Restart
  BY <1>21 DEF Restart, Queued, Distinct, NothingHalted
<1>22. ASSUME NEW r \in Recording, OperatorConfirms(r)
      PROVE  QueueIsNew'
  BY <1>22 DEF OperatorConfirms
<1>23. CASE GateMoves \/ Shutdown \/ Stop \/ UNCHANGED vars
  BY <1>23 DEF vars, GateMoves, Shutdown, Stop, Busy
<1> QED
  BY <1>1, <1>2, <1>3, <1>4, <1>5, <1>6, <1>7, <1>8, <1>9, <1>10, <1>11, <1>12, <1>13,
         <1>14, <1>15, <1>16, <1>17, <1>18, <1>19, <1>20, <1>21, <1>22, <1>23 DEF Next

\* A task moves on as far as its entry has.
LEMMA LiveStepKnown ==
    ASSUME TypeOK, QueueIsNew, LiveIsKnown, NothingHalted, [Next]_vars
    PROVE  LiveIsKnown'
<1> USE UploadAssumption DEF TypeOK, LiveIsKnown, Idle
<1>1. ASSUME NEW r \in Recording, Hand(r)  PROVE LiveIsKnown'
  BY <1>1, QueueAppend DEF Hand
<1>2. ASSUME NEW r \in Recording, Persist(r)  PROVE LiveIsKnown'
  BY <1>2 DEF Persist, LiveStep
<1>3. ASSUME NEW r \in Recording, CannotPersist(r)  PROVE LiveIsKnown'
  BY <1>3 DEF CannotPersist, LiveEnds, Report, Lost
<1>4. ASSUME NEW r \in Recording, LiveChecksGate(r)  PROVE LiveIsKnown'
  BY <1>4 DEF LiveChecksGate, LiveStep, LiveEnds, Report
<1>5. ASSUME NEW r \in Recording, LiveSends(r)  PROVE LiveIsKnown'
  BY <1>5 DEF LiveSends, LiveStep, Report, After, Answered, Request
<1>6. ASSUME NEW r \in Recording, LiveFails(r)  PROVE LiveIsKnown'
  BY <1>6 DEF LiveFails, LiveEnds, Report, Request
<1>7. ASSUME NEW r \in Recording, LiveDequeues(r)  PROVE LiveIsKnown'
  BY <1>7 DEF LiveDequeues, LiveEnds
<1>8. ASSUME NEW r \in Recording, LiveAborted(r)  PROVE LiveIsKnown'
  BY <1>8 DEF LiveAborted, LiveEnds
<1>9. ASSUME NEW r \in Recording, OperatorConfirms(r)  PROVE LiveIsKnown'
  BY <1>9 DEF OperatorConfirms
<1>10. CASE CannotFind
  BY <1>10, TakesOne DEF CannotFind, Took, Report, Lost
<1>11. CASE Discard
  BY <1>11, TakesOne DEF Discard, Took, Report
<1>12. CASE AlreadyClaimed
  BY <1>12, TakesOne DEF AlreadyClaimed, Took, Report
<1>13. CASE StartUpload
  BY <1>13, TakesOne DEF StartUpload, Took
<1>14. CASE ReplayScans
  BY <1>14 DEF ReplayScans, Replaying, scan
<1>15. CASE ReplayTakes
  BY <1>15, SweepStep
<1>16. CASE ReplayChecks
  BY <1>16 DEF ReplayChecks, Replaying, ReplayGoesOn, Request
<1>17. CASE ReplaySends
  BY <1>17 DEF ReplaySends, Replaying, After, Answered, Request
<1>18. CASE ReplayFails
  BY <1>18 DEF ReplayFails, Replaying, Request
<1>19. CASE ReplayDequeues
  BY <1>19 DEF ReplayDequeues, Replaying, ReplayGoesOn
<1>20. CASE ReplayAborted
  BY <1>20 DEF ReplayAborted, Replaying
<1>21. CASE Crash
  BY <1>21 DEF Crash
<1>22. CASE Restart
  BY <1>22 DEF Restart, NothingHalted
<1>23. CASE GateMoves \/ Shutdown \/ Stop \/ UNCHANGED vars
  BY <1>23 DEF vars, GateMoves, Shutdown, Stop, Busy
<1> QED
  BY <1>1, <1>2, <1>3, <1>4, <1>5, <1>6, <1>7, <1>8, <1>9, <1>10, <1>11, <1>12, <1>13,
         <1>14, <1>15, <1>16, <1>17, <1>18, <1>19, <1>20, <1>21, <1>22, <1>23 DEF Next

\* The replay worker moves on as far as its entry has.
LEMMA ReplayStep ==
    ASSUME TypeOK, ReplayIsKnown, QueueIsNew, [Next]_vars
    PROVE  ReplayIsKnown'
<1> USE UploadAssumption DEF TypeOK, ReplayIsKnown, Idle
<1>1. ASSUME NEW r \in Recording, Persist(r)  PROVE ReplayIsKnown'
  BY <1>1 DEF Persist, LiveStep
<1>2. ASSUME NEW r \in Recording, CannotPersist(r)  PROVE ReplayIsKnown'
  BY <1>2 DEF CannotPersist, LiveEnds, Report, Lost
<1>3. ASSUME NEW r \in Recording, OperatorConfirms(r)  PROVE ReplayIsKnown'
  BY <1>3 DEF OperatorConfirms
<1>4. CASE ReplayScans
  BY <1>4 DEF ReplayScans, Replaying, scan
<1>5. CASE ReplayTakes
  <2>1. UNCHANGED <<process, restarts, handed, unstored, queue, live, writing,
         stored,
                    accepting, confirmed, outcome, spool,
         last>>
    BY <1>5,
         SweepStep
  <2>2. CASE replay' = Idle /\ claims' = claims
    BY <2>1,
         <2>2
  <2>3. CASE /\ claims' = claims
             /\ \E rest \in SUBSET replay.todo :
                  replay' = [at |-> "Next", rec |-> 0, todo |-> rest, from |-> replay.from]
    BY <2>1, <2>3
  <2>4. ASSUME NEW r \in replay.todo, NEW rest \in SUBSET replay.todo,
               claims' = claims \cup {r},
               replay' = [at |-> "Check", rec |-> r, todo |-> rest, from |-> replay.from]
        PROVE  ReplayIsKnown'
    BY <2>1, <2>4
  <2> QED
    BY <1>5, <2>2, <2>3, <2>4, SweepStep
<1>6. CASE ReplayChecks
  BY <1>6 DEF ReplayChecks, Replaying, ReplayGoesOn, Request
<1>7. CASE ReplaySends
  BY <1>7 DEF ReplaySends, Replaying, After, Answered, Request
<1>8. CASE ReplayFails
  BY <1>8 DEF ReplayFails, Replaying, Request
<1>9. CASE ReplayDequeues
  BY <1>9 DEF ReplayDequeues, Replaying, ReplayGoesOn
<1>10. CASE ReplayAborted
  BY <1>10 DEF ReplayAborted, Replaying
<1>11. CASE Crash
  BY <1>11 DEF Crash
<1>12. ASSUME NEW r \in Recording,
         Hand(r) \/ LiveChecksGate(r) \/ LiveSends(r) \/ LiveFails(r) 
         \/ LiveDequeues(r) \/ LiveAborted(r)
      PROVE  ReplayIsKnown'
  BY <1>12 DEF Hand, LiveChecksGate, LiveStep, LiveEnds, Report, LiveSends, After,
         Answered, Request, LiveFails, LiveDequeues, LiveAborted
<1>13. CASE CannotFind \/ Discard \/ AlreadyClaimed \/ StartUpload \/ GateMoves 
         \/ Shutdown \/ Stop \/ Restart \/ UNCHANGED vars
  BY <1>13 DEF vars, CannotFind, Took, Report, Lost, Discard, AlreadyClaimed,
         StartUpload, GateMoves, Shutdown, Stop, Busy, Restart
<1> QED
  BY <1>1, <1>2, <1>3, <1>4, <1>5, <1>6, <1>7, <1>8, <1>9, <1>10, <1>11, <1>12,
         <1>13 DEF Next

\* Nobody removes the entry the replay worker has.
LEMMA PendingStep ==
    ASSUME TypeOK, ReplaySendsPending, ExclusiveUpload, [Next]_vars
    PROVE  ReplaySendsPending'
<1> USE UploadAssumption DEF TypeOK, ReplaySendsPending, ExclusiveUpload, Idle, Request
<1>1. ASSUME NEW r \in Recording, Persist(r)  PROVE ReplaySendsPending'
  BY <1>1 DEF Persist, LiveStep
<1>2. ASSUME NEW r \in Recording, CannotPersist(r)  PROVE ReplaySendsPending'
  BY <1>2 DEF CannotPersist, LiveEnds, Report, Lost
<1>3. ASSUME NEW r \in Recording, LiveDequeues(r)  PROVE ReplaySendsPending'
  BY <1>3 DEF LiveDequeues, LiveEnds
<1>4. ASSUME NEW r \in Recording, LiveAborted(r)  PROVE ReplaySendsPending'
  BY <1>4 DEF LiveAborted, LiveEnds
<1>5. CASE ReplayScans
  BY <1>5 DEF ReplayScans, Replaying, scan
<1>6. CASE ReplayTakes
  BY <1>6, SweepStep
<1>7. CASE ReplayChecks
  BY <1>7 DEF ReplayChecks, Replaying, ReplayGoesOn
<1>8. CASE ReplaySends
  BY <1>8 DEF ReplaySends, Replaying, After, Answered
<1>9. CASE ReplayFails
  BY <1>9 DEF ReplayFails, Replaying
<1>10. CASE ReplayDequeues
  BY <1>10 DEF ReplayDequeues, Replaying, ReplayGoesOn
<1>11. CASE ReplayAborted
  BY <1>11 DEF ReplayAborted, Replaying
<1>12. CASE Crash
  BY <1>12 DEF Crash
<1>13. ASSUME NEW r \in Recording,
         Hand(r) \/ LiveChecksGate(r) \/ LiveSends(r) \/ LiveFails(r) 
         \/ OperatorConfirms(r)
      PROVE  ReplaySendsPending'
  BY <1>13 DEF Hand, LiveChecksGate, LiveStep, LiveEnds, Report, LiveSends, After,
         Answered, LiveFails, OperatorConfirms
<1>14. CASE CannotFind \/ Discard \/ AlreadyClaimed \/ StartUpload \/ GateMoves 
         \/ Shutdown \/ Stop \/ Restart \/ UNCHANGED vars
  BY <1>14 DEF vars, CannotFind, Took, Report, Lost, Discard, AlreadyClaimed,
         StartUpload, GateMoves, Shutdown, Stop, Busy, Restart
<1> QED
  BY <1>1, <1>2, <1>3, <1>4, <1>5, <1>6, <1>7, <1>8, <1>9, <1>10, <1>11, <1>12, <1>13,
         <1>14 DEF Next

\* Only entries of confirmed recordings are removed.
LEMMA RemovedStep ==
    ASSUME TypeOK, RemovedIsConfirmed, LiveIsKnown, ReplayIsKnown, [Next]_vars
    PROVE  RemovedIsConfirmed'
<1> USE UploadAssumption DEF TypeOK, RemovedIsConfirmed, Idle
<1>1. ASSUME NEW r \in Recording, Persist(r)  PROVE RemovedIsConfirmed'
  BY <1>1 DEF Persist, LiveStep
<1>2. ASSUME NEW r \in Recording, CannotPersist(r)  PROVE RemovedIsConfirmed'
  BY <1>2 DEF CannotPersist, LiveEnds, Report, Lost
<1>3. ASSUME NEW r \in Recording, LiveDequeues(r)  PROVE RemovedIsConfirmed'
  BY <1>3 DEF LiveDequeues, LiveEnds, LiveIsKnown
<1>4. ASSUME NEW r \in Recording, LiveAborted(r)  PROVE RemovedIsConfirmed'
  BY <1>4 DEF LiveAborted, LiveEnds, LiveIsKnown
<1>5. ASSUME NEW r \in Recording, OperatorConfirms(r)  PROVE RemovedIsConfirmed'
  BY <1>5 DEF OperatorConfirms
<1>6. CASE ReplayTakes
  BY <1>6, SweepStep
<1>7. CASE ReplayChecks
  BY <1>7 DEF ReplayChecks, Replaying, ReplayGoesOn, Request
<1>8. CASE ReplayDequeues
  BY <1>8 DEF ReplayDequeues, Replaying, ReplayGoesOn, ReplayIsKnown
<1>9. CASE ReplayAborted
  BY <1>9 DEF ReplayAborted, Replaying, ReplayIsKnown
<1>10. CASE Crash
  BY <1>10 DEF Crash
<1>11. ASSUME NEW r \in Recording,
         Hand(r) \/ LiveChecksGate(r) \/ LiveSends(r) 
         \/ LiveFails(r)
      PROVE  RemovedIsConfirmed'
  BY <1>11 DEF Hand, LiveChecksGate, LiveStep, LiveEnds, Report, LiveSends, After,
         Answered, Request, LiveFails
<1>12. CASE CannotFind \/ Discard \/ AlreadyClaimed \/ StartUpload \/ ReplayScans 
         \/ ReplaySends \/ ReplayFails \/ GateMoves \/ Shutdown \/ Stop \/ Restart 
         \/ UNCHANGED vars
  BY <1>12 DEF vars, CannotFind, Took, Report, Lost, Discard, AlreadyClaimed,
         StartUpload, ReplayScans, Replaying, scan, ReplaySends, After, Answered,
         Request, ReplayFails, GateMoves, Shutdown, Stop, Busy, Restart
<1> QED
  BY <1>1, <1>2, <1>3, <1>4, <1>5, <1>6, <1>7, <1>8, <1>9, <1>10, <1>11, <1>12 DEF Next

\* What was handed over is kept track of to the end.
LEMMA HandedStep ==
    ASSUME TypeOK, HandedIsKept, QueueIsNew, ClaimsAreHeld, ReplayIsKnown,
         NothingHalted, [Next]_vars
    PROVE  HandedIsKept'
<1> USE UploadAssumption DEF TypeOK, HandedIsKept
<1>1. ASSUME NEW r \in Recording, Hand(r)  PROVE HandedIsKept'
  BY <1>1, QueueAppend DEF Hand
<1>2. ASSUME NEW r \in Recording, Persist(r)  PROVE HandedIsKept'
  BY <1>2 DEF Persist, LiveStep
<1>3. ASSUME NEW r \in Recording, CannotPersist(r)  PROVE HandedIsKept'
  BY <1>3 DEF CannotPersist, LiveEnds, Report, Lost
<1>4. CASE CannotFind
  BY <1>4, TakesOne DEF CannotFind, Took, Report, Lost
<1>5. CASE Discard
  BY <1>5, TakesOne DEF Discard, Took, Report
<1>6. CASE AlreadyClaimed
  BY <1>6, TakesOne DEF AlreadyClaimed, Took, Report, ClaimsAreHeld, ReplayIsKnown
<1>7. CASE StartUpload
  BY <1>7, TakesOne DEF StartUpload, Took
<1>8. CASE ReplayTakes
  BY <1>8, SweepStep
<1>9. CASE Crash
  BY <1>9 DEF Crash, Idle
<1>10. CASE Restart
  BY <1>10 DEF Restart
<1>11. ASSUME NEW r \in Recording,
         LiveChecksGate(r) \/ LiveSends(r) \/ LiveFails(r) \/ LiveDequeues(r) 
         \/ LiveAborted(r) \/ OperatorConfirms(r)
      PROVE  HandedIsKept'
  BY <1>11 DEF LiveChecksGate, LiveStep, LiveEnds, Report, LiveSends, After, Answered,
         Request, LiveFails, LiveDequeues, LiveAborted, OperatorConfirms
<1>12. CASE ReplayScans \/ ReplayChecks \/ ReplaySends \/ ReplayFails 
         \/ ReplayDequeues \/ ReplayAborted \/ GateMoves \/ Shutdown \/ Stop 
         \/ UNCHANGED vars
  BY <1>12 DEF vars, ReplayScans, Replaying, scan, ReplayChecks, ReplayGoesOn, Request,
         ReplaySends, After, Answered, ReplayFails, Idle, ReplayDequeues,
         ReplayAborted, GateMoves, Shutdown, Stop, Busy
<1> QED
  BY <1>1, <1>2, <1>3, <1>4, <1>5, <1>6, <1>7, <1>8, <1>9, <1>10, <1>11, <1>12 DEF Next

\* A result is reported once, and says what is so.
LEMMA ReportStep ==
    ASSUME TypeOK, ReportIsTrue, QueueIsNew, LiveIsKnown, ClaimsAreHeld, ReplayIsKnown,
         [Next]_vars
    PROVE  ReportIsTrue'
<1> USE UploadAssumption DEF TypeOK, ReportIsTrue, Idle
<1>1. ASSUME NEW r \in Recording, Persist(r)  PROVE ReportIsTrue'
  BY <1>1 DEF Persist, LiveStep
<1>2. ASSUME NEW r \in Recording, CannotPersist(r)  PROVE ReportIsTrue'
  BY <1>2 DEF CannotPersist, LiveEnds, Report, Lost, LiveIsKnown
<1>3. ASSUME NEW r \in Recording, LiveChecksGate(r)  PROVE ReportIsTrue'
  BY <1>3 DEF LiveChecksGate, LiveStep, LiveEnds, Report, LiveIsKnown
<1>4. ASSUME NEW r \in Recording, LiveSends(r)  PROVE ReportIsTrue'
  BY <1>4 DEF LiveSends, LiveStep, Report, After, Answered, Request, LiveIsKnown
<1>5. ASSUME NEW r \in Recording, LiveFails(r)  PROVE ReportIsTrue'
  BY <1>5 DEF LiveFails, LiveEnds, Report, Request, LiveIsKnown
<1>6. ASSUME NEW r \in Recording, LiveDequeues(r)  PROVE ReportIsTrue'
  BY <1>6 DEF LiveDequeues, LiveEnds
<1>7. ASSUME NEW r \in Recording, LiveAborted(r)  PROVE ReportIsTrue'
  BY <1>7 DEF LiveAborted, LiveEnds
<1>8. ASSUME NEW r \in Recording, OperatorConfirms(r)  PROVE ReportIsTrue'
  BY <1>8 DEF OperatorConfirms
<1>9. CASE CannotFind
  BY <1>9, TakesOne DEF CannotFind, Took, Report, Lost
<1>10. CASE Discard
  BY <1>10, TakesOne DEF Discard, Took, Report
<1>11. CASE AlreadyClaimed
  BY <1>11, TakesOne DEF AlreadyClaimed, Took, Report, ClaimsAreHeld, ReplayIsKnown
<1>12. CASE ReplayTakes
  BY <1>12, SweepStep
<1>13. CASE Crash
  BY <1>13 DEF Crash
<1>14. CASE Restart
  BY <1>14 DEF Restart
<1>15. ASSUME NEW r \in Recording, Hand(r)
      PROVE  ReportIsTrue'
  BY <1>15 DEF Hand
<1>16. CASE StartUpload \/ ReplayScans \/ ReplayChecks \/ ReplaySends \/ ReplayFails 
         \/ ReplayDequeues \/ ReplayAborted \/ GateMoves \/ Shutdown \/ Stop 
         \/ UNCHANGED vars
  BY <1>16 DEF vars, StartUpload, Took, ReplayScans, Replaying, scan, ReplayChecks,
         ReplayGoesOn, Request, ReplaySends, After, Answered, ReplayFails,
         ReplayDequeues, ReplayAborted, GateMoves, Shutdown, Stop, Busy
<1> QED
  BY <1>1, <1>2, <1>3, <1>4, <1>5, <1>6, <1>7, <1>8, <1>9, <1>10, <1>11, <1>12, <1>13,
         <1>14, <1>15, <1>16 DEF Next

\* The process ends when nothing is under way, and only when it may be restarted.
LEMMA HaltedStep ==
    ASSUME TypeOK, NothingHalted, [Next]_vars
    PROVE  NothingHalted'
<1> USE UploadAssumption DEF TypeOK, NothingHalted, Running, Idle
<1>1. ASSUME NEW r \in Recording, Hand(r)  PROVE NothingHalted'
  BY <1>1, QueueAppend DEF Hand
<1>2. ASSUME NEW r \in Recording, Persist(r)  PROVE NothingHalted'
  BY <1>2 DEF Persist, LiveStep
<1>3. ASSUME NEW r \in Recording, CannotPersist(r)  PROVE NothingHalted'
  BY <1>3 DEF CannotPersist, LiveEnds, Report, Lost
<1>4. ASSUME NEW r \in Recording, LiveChecksGate(r)  PROVE NothingHalted'
  BY <1>4 DEF LiveChecksGate, LiveStep, LiveEnds, Report
<1>5. ASSUME NEW r \in Recording, LiveSends(r)  PROVE NothingHalted'
  BY <1>5 DEF LiveSends, LiveStep, Report, After, Answered, Request
<1>6. ASSUME NEW r \in Recording, LiveFails(r)  PROVE NothingHalted'
  BY <1>6 DEF LiveFails, LiveEnds, Report, Request
<1>7. ASSUME NEW r \in Recording, LiveDequeues(r)  PROVE NothingHalted'
  BY <1>7 DEF LiveDequeues, LiveEnds
<1>8. ASSUME NEW r \in Recording, LiveAborted(r)  PROVE NothingHalted'
  BY <1>8 DEF LiveAborted, LiveEnds
<1>9. CASE CannotFind
  BY <1>9, TakesOne DEF CannotFind, Took, Report, Lost
<1>10. CASE Discard
  BY <1>10, TakesOne DEF Discard, Took, Report
<1>11. CASE AlreadyClaimed
  BY <1>11, TakesOne DEF AlreadyClaimed, Took, Report
<1>12. CASE StartUpload
  BY <1>12 DEF StartUpload, MayTake, Took
<1>13. CASE ReplayScans
  BY <1>13 DEF ReplayScans, Replaying, scan
<1>14. CASE ReplayTakes
  BY <1>14, SweepStep
<1>15. CASE ReplayChecks
  BY <1>15 DEF ReplayChecks, Replaying, ReplayGoesOn, Request
<1>16. CASE ReplaySends
  BY <1>16 DEF ReplaySends, Replaying, After, Answered, Request
<1>17. CASE ReplayFails
  BY <1>17 DEF ReplayFails, Replaying, Request
<1>18. CASE ReplayDequeues
  BY <1>18 DEF ReplayDequeues, Replaying, ReplayGoesOn
<1>19. CASE ReplayAborted
  BY <1>19 DEF ReplayAborted, Replaying
<1>20. CASE Shutdown
  BY <1>20 DEF Shutdown
<1>21. CASE Stop
  BY <1>21 DEF Stop, Busy
<1>22. CASE Crash
  BY <1>22 DEF Crash
<1>23. CASE Restart
  BY <1>23 DEF Restart
<1>24. ASSUME NEW r \in Recording, OperatorConfirms(r)
      PROVE  NothingHalted'
  BY <1>24 DEF OperatorConfirms
<1>25. CASE GateMoves \/ UNCHANGED vars
  BY <1>25 DEF vars, GateMoves
<1> QED
  BY <1>1, <1>2, <1>3, <1>4, <1>5, <1>6, <1>7, <1>8, <1>9, <1>10, <1>11, <1>12, <1>13,
         <1>14, <1>15, <1>16, <1>17, <1>18, <1>19, <1>20, <1>21, <1>22, <1>23, <1>24,
         <1>25 DEF Next

----------------------------------------------------------------------------
\* The invariant holds when the booth starts.
LEMMA InitInv == Init => IInv
<1> SUFFICES ASSUME Init  PROVE IInv
  OBVIOUS
<1> USE UploadAssumption DEF Init, Idle
<1>1. TypeOK
  <2>1. replay \in [at: {"Idle", "Next", "Check", "Dequeue"} \cup Request,
                   rec: Recording \cup {0}, todo: SUBSET Recording,
                   from: Recording \cup {0}]
    OBVIOUS
  <2>2. queue \in Seq(Recording) /\ live \in [Recording -> Step]
    BY DEF Step
  <2>3. replay.rec = 0 <=> replay.at \in {"Idle", "Next"}
    OBVIOUS
  <2>4. accepting \in BOOLEAN
    OBVIOUS
  <2> QED
    BY <2>1, <2>2, <2>3, <2>4 DEF TypeOK
<1>2. ExclusiveUpload /\ ClaimsAreHeld
  BY DEF ExclusiveUpload, ClaimsAreHeld
<1>3. QueueIsNew
  BY DEF QueueIsNew, Queued, Distinct
<1>4. LiveIsKnown /\ ReplayIsKnown /\ ReplaySendsPending /\ RemovedIsConfirmed
  BY DEF LiveIsKnown, ReplayIsKnown, ReplaySendsPending, RemovedIsConfirmed, Request
<1>5. HandedIsKept /\ ReportIsTrue /\ NothingHalted
  BY DEF HandedIsKept, ReportIsTrue, NothingHalted
<1> QED
  BY <1>1, <1>2, <1>3, <1>4, <1>5 DEF IInv

\* Every step keeps it.
LEMMA StepInv == IInv /\ [Next]_vars => IInv'
  BY TypeStep, ExclusiveStep, ClaimsStep, QueueStep, LiveStepKnown, ReplayStep, PendingStep,
     RemovedStep, HandedStep, ReportStep, HaltedStep DEF IInv

\* It holds throughout.
LEMMA InvHolds == Spec => []IInv
<1>1. Init => IInv
  BY InitInv
<1>2. IInv /\ [Next]_vars => IInv'
  BY StepInv
<1> QED
  BY <1>1, <1>2, PTL DEF Spec

\* The variables keep their types.
THEOREM TypeCorrect == Spec => []TypeOK
<1>1. IInv => TypeOK
  BY DEF IInv
<1> QED
  BY <1>1, InvHolds, PTL

\* A recording is never sent by a live task and by the replay worker at once
\* (PendingUploadSpool::claim).
THEOREM UploadsExclude == Spec => []ExclusiveUpload
<1>1. IInv => ExclusiveUpload
  BY DEF IInv
<1> QED
  BY <1>1, InvHolds, PTL

\* Claims are held exactly while somebody works on the recording (UploadClaim).
THEOREM ClaimsFollowWork == Spec => []ClaimsAreHeld
<1>1. IInv => ClaimsAreHeld
  BY DEF IInv
<1> QED
  BY <1>1, InvHolds, PTL

\* The replay worker sends only entries that are still on disk
\* (spawn_upload_replay looks again once it has the claim).
THEOREM ReplayIsPending == Spec => []ReplaySendsPending
<1>1. IInv => ReplaySendsPending
  BY DEF IInv
<1> QED
  BY <1>1, InvHolds, PTL

\* What send_upload_outcome says is so, and it is said once.
THEOREM ReportsAreTrue == Spec => []OutcomeIsTrue
<1>1. IInv => OutcomeIsTrue
  BY DEF IInv, TypeOK, ReportIsTrue, RemovedIsConfirmed, OutcomeIsTrue
<1> QED
  BY <1>1, InvHolds, PTL

\* An orderly shutdown loses no answer (effect_task drains what was accepted).
THEOREM ShutdownIsSafe == Spec => []ShutdownKeepsAnswers
<1>1. IInv => ShutdownKeepsAnswers
  BY DEF IInv, TypeOK, HandedIsKept, NothingHalted, RemovedIsConfirmed, ShutdownKeepsAnswers,
         Queued
<1> QED
  BY <1>1, InvHolds, PTL

\* Every step is one of the store's or leaves it alone: an entry goes only when the
\* operator has the recording, a crash can only bring such entries back.
LEMMA StoreStep ==
    ASSUME IInv, [Next]_vars
    PROVE  [S!Next]_S!vars
<1> USE UploadAssumption DEF IInv, S!Next, S!vars
<1>1. ASSUME NEW r \in Recording,
         Hand(r) \/ LiveChecksGate(r) \/ LiveSends(r) \/ LiveFails(r)
      PROVE  UNCHANGED S!vars
  BY <1>1 DEF Hand, LiveChecksGate, LiveStep, LiveEnds, Report, LiveSends, After,
         Answered, Request, LiveFails
<1>2. ASSUME CannotFind \/ Discard \/ AlreadyClaimed \/ StartUpload \/ ReplayScans 
         \/ ReplaySends \/ ReplayFails \/ ReplayChecks \/ GateMoves \/ Shutdown 
         \/ Stop \/ Restart \/ ReplayTakes \/ UNCHANGED vars
      PROVE  UNCHANGED S!vars
  BY <1>2 DEF CannotFind, Took, Report, Lost, Discard, AlreadyClaimed, StartUpload,
         ReplayScans, Replaying, scan, ReplaySends, After, Answered, Request,
         ReplayFails, Idle, ReplayChecks, ReplayGoesOn, GateMoves, Shutdown, Stop,
         Busy, Restart, ReplayTakes, vars
<1>3. ASSUME NEW r \in Recording, Persist(r) \/ CannotPersist(r)
      PROVE  S!Store(r) \/ UNCHANGED S!vars
  BY <1>3 DEF Persist, CannotPersist, S!Store
<1>4. ASSUME NEW r \in Recording, OperatorConfirms(r)  PROVE S!Deliver(r)
  BY <1>4 DEF OperatorConfirms, S!Deliver
<1>5. ASSUME NEW r \in Recording, LiveDequeues(r) \/ LiveAborted(r)
      PROVE  S!Forget(r) \/ UNCHANGED S!vars
  BY <1>5 DEF LiveDequeues, LiveAborted, LiveIsKnown, S!Forget
<1>6. ASSUME ReplayDequeues \/ ReplayAborted
      PROVE  UNCHANGED S!vars \/ \E r \in Recording : S!Forget(r)
  BY <1>6 DEF ReplayDequeues, ReplayAborted, ReplayGoesOn, Replaying, ReplayIsKnown, TypeOK,
              S!Forget
<1>7. CASE Crash
  BY <1>7 DEF Crash, RemovedIsConfirmed, S!Recover
<1> QED
  BY <1>1, <1>2, <1>3, <1>4, <1>5, <1>6, <1>7 DEF Next

\* A stored answer is kept until the operator has it, through failures, shutdowns,
\* crashes and restarts: the spool implements AnswerStore.
THEOREM AnswersAreKept == Spec => Keeps
<1>1. Init => S!Init
  BY DEF Init, S!Init
<1>2. IInv /\ [Next]_vars => [S!Next]_S!vars
  BY StoreStep
<1> QED
  BY <1>1, <1>2, InvHolds, PTL DEF Spec, Keeps, S!Spec
=============================================================================
