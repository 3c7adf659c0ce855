---------------------------- MODULE EventForwarder ----------------------------
(***************************************************************************)
(* How the booth's telemetry reaches the operator: the event forwarder of  *)
(* crates/booth-bin/src/observability.rs, one task that buffers events and *)
(* posts them in batches, and the spool of event_spool.rs, where events    *)
(* wait on disk through outages, shutdowns and restarts.                   *)
(*                                                                         *)
(* Events are numbered as they are published; what is in them, and which   *)
(* are forwarded at all, is left out.                                      *)
(***************************************************************************)
EXTENDS Naturals, Sequences, FiniteSets, SequencesExt

CONSTANTS
    MaxEvents,   \* bound: events published
    MaxRestarts, \* bound: restarts of the process
    BusMax,      \* records the telemetry channel retains
    BatchMax,    \* effective_event_batch_max
    BufferMax,   \* buffer_max
    MaxFiles,    \* EventSpool::max_files
    MaxSequence, \* the last sequence number of a file
    Legacy       \* events of the file that an earlier version may have left

ASSUME ForwarderAssumption ==
    /\ {MaxEvents, MaxRestarts, Legacy} \subseteq Nat
    /\ {BusMax, BatchMax, BufferMax, MaxFiles, MaxSequence} \subseteq Nat \ {0}
    /\ Legacy <= MaxEvents

VARIABLES
    published, \* events published so far
    pulled,    \* of these, the ones the forwarder received or missed
    batch,     \* the buffer
    spool,     \* the files: sequence number, part and events of each
    task,      \* what the forwarder does
    shutdown,  \* the shutdown signal
    detached,  \* chunks that an abandoned spill is still writing
    restarts,
    boot,      \* events published before the process started
    acked,     \* external: events the operator has
    gone       \* events given up, for a reason the code accepts (history)

forwarderVars == <<published, pulled, batch, spool, task, shutdown, detached, restarts, boot,
          acked, gone>>

Event == 1..MaxEvents

\* Where the forwarder waits: in its select, for the operator (Replay, Flush), for
\* the disk (Split, Remove, Unlink, Spill), or, after the shutdown signal, draining.
At == {"Select", "Replay", "Unlink", "Split", "Remove", "Flush", "AfterFlush", "Spill",
       "Drain", "Done", "Down"}

\* served: the operator took the request under way.  final: past the drain.
\* why: what a spill is for.  todo: its chunks.
Task(at) == [at |-> at, served |-> FALSE, final |-> FALSE, why |-> "None", todo |-> <<>>]

Chunk == UNION {[1..n -> Event] : n \in 0..(IF BufferMax > BatchMax THEN BufferMax ELSE BatchMax)}

ForwarderTypeOK ==
    /\ published \in 0..MaxEvents /\ pulled \in 0..published /\ published - pulled <= BusMax
    /\ batch \in Seq(Event) /\ Len(batch) <= BufferMax
    /\ \A f \in spool : /\ f.sequence \in 1..MaxSequence /\ f.part \in Nat
                        /\ f.events \in Seq(Event) /\ f.events # <<>>
    /\ \A f, g \in spool : f.sequence = g.sequence /\ f.part = g.part => f = g
    /\ task.at \in At /\ {task.served, task.final, shutdown} \subseteq BOOLEAN
    /\ task.why \in {"None", "Inactive", "Full", "Final"}
    /\ task.why # "None" <=> task.at = "Spill"
    /\ task.todo \in Seq(Seq(Event)) /\ detached \in Seq(Seq(Event))
    /\ restarts \in 0..MaxRestarts /\ boot \in 0..published
    /\ acked \subseteq 1..published /\ gone \subseteq 1..published

ForwarderInit ==
    /\ published \in {0, Legacy} /\ pulled = published /\ boot = published
    /\ spool = IF published = 0 THEN {}
               ELSE {[sequence |-> 1, part |-> 0, events |-> [i \in 1..published |-> i]]}
    /\ batch = <<>> /\ task = Task("Select") /\ shutdown = FALSE /\ detached = <<>>
    /\ restarts = 0 /\ acked = {} /\ gone = {}

----------------------------------------------------------------------------
(* The spool *)

Events(f) == Range(f.events)
Spooled == UNION {Events(f) : f \in spool}

\* batch_sort_key: a part comes after the file it was split from.
Before(f, g) == f.sequence < g.sequence \/ (f.sequence = g.sequence /\ f.part < g.part)

oldest_batch == CHOOSE f \in spool : \A g \in spool \ {f} : Before(f, g)

\* Mutated NextSequence: files are counted.
NextByCount == Cardinality(spool) + 1

NextSequence == 1 + (IF spool = {} THEN 0
                     ELSE (CHOOSE f \in spool : \A g \in spool : g.sequence <= f.sequence).sequence)

\* The chunks of at most n events of a sequence.
Chunks(s, n) ==
    [i \in 1..((Len(s) + n - 1) \div n) |->
        SubSeq(s, (i - 1) * n + 1, IF i * n < Len(s) THEN i * n ELSE Len(s))]

Newest(files) == {f \in files : Cardinality({g \in files : Before(f, g)}) < MaxFiles}

\* EventSpool::spill of one chunk; beyond the cap the oldest files are deleted.
\* lost are the events that are given up if the call fails after that.
spill(chunk, lost) ==
    LET file == [sequence |-> NextSequence, part |-> 0, events |-> chunk]
        files == {f \in spool : Before(f, file) \/ Before(file, f)} \cup {file} IN
    /\ NextSequence <= MaxSequence
    /\ spool' = Newest(files)
    /\ gone' = gone \cup lost \cup UNION {Events(f) : f \in files \ Newest(files)}

----------------------------------------------------------------------------
(* Receiving *)

\* A forwarder that lags behind the channel misses the oldest record.
Publish ==
    /\ published < MaxEvents /\ task.at # "Down" /\ ~shutdown
    /\ published' = published + 1
    /\ IF published - pulled = BusMax
       THEN pulled' = pulled + 1 /\ gone' = gone \cup {pulled + 1}
       ELSE UNCHANGED <<pulled, gone>>
    /\ UNCHANGED <<batch, spool, task, shutdown, detached, restarts, boot, acked>>

\* Mutated Push: the buffer has no cap.
PushAll(e) == batch' = Append(batch, e) /\ UNCHANGED gone

\* push_with_cap: the oldest event makes room.
Push(e) ==
    IF Len(batch) >= BufferMax
    THEN batch' = Append(Tail(batch), e) /\ gone' = gone \cup {Head(batch)}
    ELSE batch' = Append(batch, e) /\ UNCHANGED gone

Pull ==
    /\ pulled < published
    /\ pulled' = pulled + 1 /\ Push(pulled + 1)
    /\ UNCHANGED <<published, spool, shutdown, detached, restarts, boot, acked>>

Goes(next) == task' = next

Ingest ==
    /\ task.at = "Select" /\ Pull
    /\ Goes(IF Len(batch') >= BatchMax THEN Task("Flush") ELSE task)

----------------------------------------------------------------------------
(* The flush tick: one file is replayed, then the buffer is flushed *)

Quietly == UNCHANGED <<published, pulled, shutdown, detached, restarts, boot>>

ThenFlush == Goes(Task(IF batch = <<>> THEN "Select" ELSE "Flush"))

\* Mutated Tick: a file of exactly a batch is split too.
TickSplitsFull ==
    /\ task.at = "Select"
    /\ IF spool = {} THEN batch # <<>> /\ ThenFlush
       ELSE Goes(Task(IF Len(oldest_batch.events) >= BatchMax THEN "Split" ELSE "Replay"))
    /\ UNCHANGED <<batch, spool, acked, gone>> /\ Quietly

Tick ==
    /\ task.at = "Select"
    /\ IF spool = {} THEN batch # <<>> /\ ThenFlush
       ELSE Goes(Task(IF Len(oldest_batch.events) > BatchMax THEN "Split" ELSE "Replay"))
    /\ UNCHANGED <<batch, spool, acked, gone>> /\ Quietly

\* The operator takes a request; events it has already are duplicates.
Serve(events) ==
    /\ ~task.served
    /\ acked' = acked \cup events /\ Goes([task EXCEPT !.served = TRUE])
    /\ UNCHANGED <<batch, spool, gone>> /\ Quietly

ReplayServed == task.at = "Replay" /\ Serve(Events(oldest_batch))

ReplaySucceeds ==
    /\ task.at = "Replay" /\ task.served
    /\ Goes(Task("Unlink"))
    /\ UNCHANGED <<batch, spool, acked, gone>> /\ Quietly

\* Refused, between exhibitions, or lost: the file stays.
ReplayFails ==
    /\ task.at = "Replay" /\ ThenFlush
    /\ UNCHANGED <<batch, spool, acked, gone>> /\ Quietly

\* EventSpool::remove_file, which may fail.
Unlink ==
    /\ task.at = "Unlink" /\ ThenFlush
    /\ spool' \in {spool \ {oldest_batch}, spool}
    /\ UNCHANGED <<batch, acked, gone>> /\ Quietly

Parts(f) ==
    {[sequence |-> f.sequence, part |-> i, events |-> Chunks(f.events, BatchMax)[i]] :
        i \in 1..Len(Chunks(f.events, BatchMax))}

\* replace_file_with_chunks renames the parts into place one after another; one
\* may fail.
Split ==
    /\ task.at = "Split"
    /\ \E n \in 0..Cardinality(Parts(oldest_batch)) :
         /\ spool' = spool \cup {p \in Parts(oldest_batch) : p.part <= n}
         /\ IF n = Cardinality(Parts(oldest_batch)) THEN Goes(Task("Remove")) ELSE ThenFlush
    /\ UNCHANGED <<batch, acked, gone>> /\ Quietly

\* Then it removes the source.
RemoveSource ==
    /\ task.at = "Remove" /\ ThenFlush
    /\ spool' \in {spool \ {oldest_batch}, spool}
    /\ UNCHANGED <<batch, acked, gone>> /\ Quietly

----------------------------------------------------------------------------
(* flush_once *)

SentEvents == SubSeq(batch, 1, IF Len(batch) < BatchMax THEN Len(batch) ELSE BatchMax)

FlushServed == task.at = "Flush" /\ Serve(Range(SentEvents))

\* Mutated FlushSucceeds: the whole buffer is taken for acknowledged.
FlushClears ==
    /\ task.at = "Flush" /\ task.served
    /\ batch' = <<>>
    /\ Goes(IF task.final THEN Task("Done") ELSE Task("Select"))
    /\ UNCHANGED <<spool, acked, gone>> /\ Quietly

\* The acknowledged events leave the buffer, and the next ones are sent.
FlushSucceeds ==
    /\ task.at = "Flush" /\ task.served
    /\ batch' = SubSeq(batch, Len(SentEvents) + 1, Len(batch))
    /\ Goes(IF batch' # <<>> THEN [task EXCEPT !.served = FALSE]
            ELSE IF task.final THEN Task("Done") ELSE Task("Select"))
    /\ UNCHANGED <<spool, acked, gone>> /\ Quietly

\* spill_remaining of the whole buffer.
Spilling(why, final) ==
    [Task("Spill") EXCEPT !.why = why, !.final = final, !.todo = Chunks(batch, BatchMax)]

\* Between exhibitions the buffer goes to disk at once.
FlushInactive ==
    /\ task.at = "Flush" /\ ~task.served
    /\ Goes(Spilling("Inactive", task.final))
    /\ UNCHANGED <<batch, spool, acked, gone>> /\ Quietly

\* Otherwise it is kept; at shutdown it goes to disk.
FlushFails ==
    /\ task.at = "Flush"
    /\ Goes(IF task.final THEN Spilling("Final", TRUE) ELSE Task("AfterFlush"))
    /\ UNCHANGED <<batch, spool, acked, gone>> /\ Quietly

\* maybe_spill: only a buffer at least half full goes to disk.
AfterFlush ==
    /\ task.at = "AfterFlush"
    /\ Goes(IF Len(batch) < BufferMax \div 2 \/ batch = <<>>
            THEN Task("Select") ELSE Spilling("Full", FALSE))
    /\ UNCHANGED <<batch, spool, acked, gone>> /\ Quietly

SpillWrites ==
    /\ task.at = "Spill" /\ task.todo # <<>>
    /\ spill(Head(task.todo), {})
    /\ Goes([task EXCEPT !.todo = Tail(@)])
    /\ UNCHANGED <<batch, acked>> /\ Quietly

\* Everything is on disk.
SpillEnds ==
    /\ task.at = "Spill" /\ task.todo = <<>>
    /\ batch' = <<>>
    /\ Goes(IF task.final THEN Task("Done") ELSE Task("Select"))
    /\ UNCHANGED <<spool, acked, gone>> /\ Quietly

\* What follows a spill that failed: the buffer is kept, as long as there is one.
Unspilled ==
    CASE task.why = "Final" -> Task("Done")
      [] task.why = "Inactive" /\ task.final -> Spilling("Final", TRUE)
      [] task.why = "Inactive" /\ ~task.final -> Task("AfterFlush")
      [] task.why = "Full" -> Task("Select")

\* A chunk cannot be written, or is written and the call fails after it.
SpillFails ==
    /\ task.at = "Spill" /\ task.todo # <<>>
    /\ \E lost \in {IF task.why = "Final" THEN Range(batch) ELSE {}} :
         \/ UNCHANGED spool /\ gone' = gone \cup lost
         \/ spill(Head(task.todo), lost)
    /\ Goes(Unspilled)
    /\ UNCHANGED <<batch, acked>> /\ Quietly

----------------------------------------------------------------------------
(* Shutdown, crash and restart *)

Shutdown ==
    /\ ~shutdown /\ task.at # "Down" /\ restarts < MaxRestarts
    /\ shutdown' = TRUE
    /\ UNCHANGED <<published, pulled, batch, spool, task, detached, restarts, boot, acked, gone>>

\* The signal is raced against the select and the requests, not against the disk;
\* a spill that is abandoned goes on writing behind the task's back.  In the
\* end the final flush has a deadline of its own.
AbandonEvents ==
    /\ shutdown
    /\ \/ ~task.final /\ task.at \in {"Select", "Replay", "Flush"}
             /\ Goes(Task("Drain")) /\ UNCHANGED detached
       \/ task.at = "Spill" /\ task.why = "Inactive" /\ detached = <<>>
             /\ Goes(IF task.final THEN Spilling("Final", TRUE) ELSE Task("Drain"))
             /\ detached' = task.todo
    /\ UNCHANGED <<published, pulled, batch, spool, shutdown, restarts, boot, acked, gone>>

DetachedWrites ==
    /\ detached # <<>> /\ task.at # "Down"
    /\ spill(Head(detached), {}) /\ detached' = Tail(detached)
    /\ UNCHANGED <<published, pulled, batch, task, shutdown, restarts, boot, acked>>

DetachedFails ==
    /\ detached # <<>> /\ task.at # "Down"
    /\ detached' = <<>>
    /\ UNCHANGED <<published, pulled, batch, spool, task, shutdown, restarts, boot, acked, gone>>

\* Records published before the signal are still in the channel.
Drain ==
    /\ task.at = "Drain" /\ Pull
    /\ UNCHANGED task

\* Mutated Drained: what is in the channel is left there.
DrainedUndrained ==
    /\ task.at = "Drain"
    /\ Goes(IF batch = <<>> THEN Task("Done") ELSE [Task("Flush") EXCEPT !.final = TRUE])
    /\ UNCHANGED <<batch, spool, acked, gone>> /\ Quietly

Drained ==
    /\ task.at = "Drain" /\ pulled = published
    /\ Goes(IF batch = <<>> THEN Task("Done") ELSE [Task("Flush") EXCEPT !.final = TRUE])
    /\ UNCHANGED <<batch, spool, acked, gone>> /\ Quietly

\* Memory is lost, files are kept.
Crash ==
    /\ task.at \notin {"Done", "Down"} /\ restarts < MaxRestarts
    /\ Goes(Task("Down"))
    /\ gone' = gone \cup ((1..published) \ (Spooled \cup acked))
    /\ batch' = <<>> /\ pulled' = published /\ detached' = <<>>
    /\ UNCHANGED <<published, spool, shutdown, restarts, boot, acked>>

\* The process ends when nothing is being written any more.
Exit ==
    /\ task.at = "Done" /\ detached = <<>>
    /\ Goes(Task("Down"))
    /\ batch' = <<>>
    /\ UNCHANGED <<published, pulled, spool, shutdown, detached, restarts, boot, acked, gone>>

Restart ==
    /\ task.at = "Down"
    /\ Goes(Task("Select")) /\ shutdown' = FALSE
    /\ restarts' = restarts + 1 /\ boot' = published /\ pulled' = published
    /\ UNCHANGED <<published, batch, spool, detached, acked, gone>>

Step ==
    \/ Tick \/ ReplayServed \/ ReplaySucceeds \/ ReplayFails \/ Unlink \/ Split \/ RemoveSource
    \/ FlushServed \/ FlushSucceeds \/ FlushInactive \/ FlushFails
    \/ AfterFlush \/ SpillWrites \/ SpillEnds \/ SpillFails

ForwarderNext ==
    \/ Publish \/ Ingest \/ Step
    \/ Shutdown \/ AbandonEvents \/ DetachedWrites \/ DetachedFails \/ Drain \/ Drained
    \/ Crash \/ Exit \/ Restart

(* Fairness, for the liveness property: the task goes on, requests are answered  *)
(* or run into their deadline, and the tick is not starved by records.           *)
Answer == ReplaySucceeds \/ ReplayFails \/ FlushSucceeds \/ FlushInactive \/ FlushFails

ForwarderFairness ==
    /\ WF_forwarderVars(Ingest) /\ SF_forwarderVars(Tick)
    /\ WF_forwarderVars(ReplayServed)
    /\ WF_forwarderVars(FlushServed)
    /\ WF_forwarderVars(Answer)
    /\ WF_forwarderVars(Unlink \/ Split \/ RemoveSource \/ AfterFlush \/ SpillWrites \/ SpillEnds \/ SpillFails)
    /\ WF_forwarderVars(AbandonEvents)
    /\ WF_forwarderVars(Drain \/ Drained)
    /\ WF_forwarderVars(Exit)
    /\ WF_forwarderVars(Restart)
    /\ WF_forwarderVars(DetachedWrites \/ DetachedFails)

ForwarderSpec == ForwarderInit /\ [][ForwarderNext]_forwarderVars /\ ForwarderFairness

\* In the end the exhibition is open and neither requests nor the disk fail.
NothingFails ==
    /\ ~ReplayFails /\ ~FlushFails /\ ~FlushInactive /\ ~SpillFails
    /\ Split => task'.at = "Remove"
    /\ Unlink \/ RemoveSource => spool' = spool \ {oldest_batch}

ForwarderSettledSpec == ForwarderSpec /\ <>[][NothingFails]_forwarderVars

----------------------------------------------------------------------------
(* Properties *)

\* Every event received is in the buffer, on disk, with the operator, or was
\* given up for one of the accepted reasons: a full channel, a full buffer, the
\* cap on files, a crash, or a disk that failed at shutdown (flush_once, spill).
Accounted == 1..pulled \subseteq Range(batch) \cup Spooled \cup acked \cup gone

\* An orderly shutdown takes what was published before it, "including a CallEnded
\* that closes a call session", to the operator or to disk.
ShutdownKeepsEvents ==
    task.at = "Done" => 1..published \subseteq Spooled \cup acked \cup gone

\* The spool is replayed oldest first, across restarts, splits and spills that
\* wrote an event twice: the next file holds the oldest event still to be
\* delivered, or nothing new (EventSpool::oldest_batch).
OldestFirst ==
    LET pending == Spooled \ (acked \cup gone) IN
    pending # {} =>
        LET next == Events(oldest_batch) \cap pending IN
        next = {} \/ \A e \in pending : \E d \in next : d <= e

\* Once the forwarder is at work and nothing fails, every event reaches the operator:
\* one file or batch never keeps the others waiting for ever.
EventuallyDelivered ==
    \A e \in Event : (e <= published /\ task.at # "Select") ~> (e \in acked \cup gone)

\* "On startup the spool is scanned and replayed (oldest first) before new events
\* flow" (event_spool.rs).
BacklogBeforeNew ==
    [][(\E e \in acked' \ acked : e > boot) => Spooled \cap (1..boot) \subseteq acked]_forwarderVars

\* Every event published is somewhere, or gone for a reason the code accepts, and the
\* spooled ones go first by age.
ForwarderInv ==
    /\ ForwarderTypeOK /\ Accounted /\ ShutdownKeepsEvents /\ OldestFirst
=============================================================================
