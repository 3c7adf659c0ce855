---------------------------- MODULE TelemetryBus ----------------------------
(***************************************************************************)
(* The telemetry bus and two of those who follow it: the debug server's    *)
(* cache of the status LED (track_status_led), and a terminal attached     *)
(* over the debug websocket (telemetry_socket on the booth's side,         *)
(* attach_telemetry_loop on the other), which reconnects with a cursor.    *)
(*                                                                         *)
(* Of a record only its id counts and whether it shows the status LED.     *)
(* Requests that time out on the way are the only delays: a frame is on    *)
(* the wire until it is read or the connection drops.                      *)
(***************************************************************************)
EXTENDS Integers, Sequences, SequencesExt

CONSTANTS
    Publishers,     \* threads and tasks that publish
    LedPublishers,  \* those that may publish the status LED
    Capacity,       \* of the replay ring and of the live channel
    MaxRecords,     \* bound: how many records a process publishes
    MaxBreaks       \* bound: how often the connection drops or the booth restarts

ASSUME BusAssumption ==
    /\ LedPublishers \subseteq Publishers
    /\ Capacity \in Nat \ {0} /\ MaxRecords \in Nat
    /\ MaxBreaks \in Nat

VARIABLES
    epoch,      \* how often the booth was restarted
    stamped,    \* next_id
    pub,        \* each publisher's call of publish: [at, rec]
    ring,       \* the replay ring
    sent,       \* history: what was sent on the live channel
    latest,     \* latest_status_led
    tracker,    \* the debug server's tracker: how much of sent it has passed
    cache,      \* its cached indication
    conn,       \* the connection, at the server
    wire,       \* frames under way to the terminal
    cursor,     \* the terminal's replay_from
    seen,       \* history: the records the terminal received
    led,        \* the indication the terminal shows
    drops,
    crossed     \* history: two indications of the LED were being published at once

telemetryVars == <<epoch, stamped, pub, ring, sent, latest, tracker, cache, conn, wire, cursor,
          seen, led, drops, crossed>>
busVars == <<epoch, stamped, pub, ring, sent, latest>>
clientVars == <<cursor, seen, led, drops, crossed>>

NoRecord == [epoch |-> 0, id |-> 0, led |-> FALSE]
Records == [epoch : 0..MaxBreaks, id : 0..MaxRecords, led : BOOLEAN]
Idle == [at |-> "idle", rec |-> NoRecord]

\* A connection at the server: what telemetry_socket does next, the place of its
\* receiver in the live channel, the records it is about to replay, and whether
\* it has lagged.
Off == [at |-> "off", pos |-> 0, todo |-> <<>>, since |-> 0, lagged |-> FALSE]

BusInit ==
    /\ epoch = 0
    /\ stamped = 0
    /\ pub = [p \in Publishers |-> Idle]
    /\ ring = <<>> /\ sent = <<>>
    /\ latest = NoRecord
    /\ tracker = 0
    /\ cache = NoRecord
    /\ conn = Off
    /\ wire = <<>>
    /\ cursor = 0
    /\ seen = {}
    /\ led = NoRecord
    /\ drops = 0 /\ crossed = FALSE

-----------------------------------------------------------------------------
(* TelemetryBus::publish, a step per lock.                                 *)

\* The id is handed out.
Stamp(p) ==
    /\ pub[p].at = "idle" /\ stamped < MaxRecords
    /\ stamped' = stamped + 1
    /\ \E isLed \in {FALSE} \cup {p \in LedPublishers} :
          /\ crossed' = (crossed \/ (isLed /\ \E q \in Publishers : pub[q].rec.led))
          /\ pub' = [pub EXCEPT ![p] = [at |-> "stamped",
                         rec |-> [epoch |-> epoch, id |-> stamped + 1, led |-> isLed]]]
    /\ UNCHANGED <<epoch, ring, sent, latest, tracker, cache, conn, wire, cursor, seen, led, drops>>

\* Mutated Retain: the last one to arrive is retained.
RetainLast(p) ==
    /\ pub[p].at = "stamped"
    /\ latest' = IF pub[p].rec.led THEN pub[p].rec ELSE latest
    /\ pub' = [pub EXCEPT ![p].at = "retained"]
    /\ UNCHANGED <<epoch, stamped, ring, sent, tracker, cache, conn, wire, clientVars>>

\* The indication of the LED is retained, unless a newer one is.
Retain(p) ==
    /\ pub[p].at = "stamped"
    /\ latest' = IF pub[p].rec.led /\ pub[p].rec.id > latest.id THEN pub[p].rec ELSE latest
    /\ pub' = [pub EXCEPT ![p].at = "retained"]
    /\ UNCHANGED <<epoch, stamped, ring, sent, tracker, cache, conn, wire, clientVars>>

\* Mutated Pushed: the ring grows by one too many.
PushedOver(rec) ==
    LET kept == IF Len(ring) > Capacity THEN Tail(ring) ELSE ring IN Append(kept, rec)

\* RingBuffer::push evicts the oldest record when the ring is full.
Pushed(rec) ==
    LET kept == IF Len(ring) >= Capacity THEN Tail(ring) ELSE ring IN Append(kept, rec)

Push(p) ==
    /\ pub[p].at = "retained"
    /\ ring' = Pushed(pub[p].rec)
    /\ pub' = [pub EXCEPT ![p].at = "pushed"]
    /\ UNCHANGED <<epoch, stamped, sent, latest, tracker, cache, conn, wire, clientVars>>

Broadcast(p) ==
    /\ pub[p].at = "pushed"
    /\ sent' = Append(sent, pub[p].rec)
    /\ pub' = [pub EXCEPT ![p] = Idle]
    /\ UNCHANGED <<epoch, stamped, ring, latest, tracker, cache, conn, wire, clientVars>>

\* The records of the ring after a cursor, each at its place in the ring.
SnapshotSince(since) ==
    LET newer == {i \in DOMAIN ring : ring[i].id > since} IN [i \in newer |-> ring[i]]

\* The live channel keeps the last Capacity records for a receiver that is slow.
Lags(pos) == Len(sent) - pos > Capacity
Resumes == Len(sent) - Capacity

-----------------------------------------------------------------------------
(* track_status_led.                                                       *)

\* store_status_led never goes back to an older record.
Stored(rec) == IF rec.id >= cache.id THEN rec ELSE cache

\* Mutated TrackerLags: lag is only skipped.
TrackerSkips ==
    /\ Lags(tracker)
    /\ tracker' = Resumes
    /\ UNCHANGED <<busVars, cache, conn, wire, clientVars>>

TrackerReceives ==
    /\ tracker < Len(sent) /\ ~Lags(tracker)
    /\ tracker' = tracker + 1
    /\ cache' = LET rec == sent[tracker + 1] IN IF rec.led THEN Stored(rec) ELSE cache
    /\ UNCHANGED <<busVars, conn, wire, clientVars>>

\* After a lag the cache is seeded from the retained record.
TrackerLags ==
    /\ Lags(tracker)
    /\ tracker' = Resumes
    /\ cache' = IF latest = NoRecord THEN cache ELSE Stored(latest)
    /\ UNCHANGED <<busVars, conn, wire, clientVars>>

-----------------------------------------------------------------------------
(* telemetry_socket.                                                       *)

\* A terminal connects: the server subscribes, then waits a moment for the
\* terminal's cursor, and replays everything if it comes too late.
Connect ==
    /\ conn.at = "off"
    /\ \E since \in {0, cursor} :
          conn' = [Off EXCEPT !.at = "lead", !.since = since, !.pos = Len(sent)]
    /\ UNCHANGED <<busVars, tracker, cache, wire, clientVars>>

\* Mutated Leads: the retained indication is left to the replay.
LeadsNothing ==
    /\ conn.at = "lead"
    /\ conn' = [conn EXCEPT !.at = "snapshot"]
    /\ UNCHANGED <<busVars, tracker, cache, wire, clientVars>>

\* The retained indication of the LED goes first.
Leads ==
    /\ conn.at = "lead"
    /\ conn' = [conn EXCEPT !.at = "snapshot"]
    /\ wire' = IF latest = NoRecord THEN wire ELSE Append(wire, latest)
    /\ UNCHANGED <<busVars, tracker, cache, clientVars>>

\* The ring is read.
Snapshot ==
    /\ conn.at = "snapshot"
    /\ conn' = [conn EXCEPT !.at = "replay", !.todo = SnapshotSince(conn.since)]
    /\ UNCHANGED <<busVars, tracker, cache, wire, clientVars>>

\* The record at the first place of those that are left.
ReplaysNext ==
    \E i \in DOMAIN conn.todo :
       /\ \A j \in DOMAIN conn.todo : i <= j
       /\ conn' = [conn EXCEPT !.todo = [j \in DOMAIN @ \ {i} |-> @[j]]]
       /\ wire' = Append(wire, conn.todo[i])

\* Mutated Replays: the server subscribes once the replay is done.
ReplaysThenSubscribes ==
    /\ conn.at = "replay"
    /\ \/ /\ DOMAIN conn.todo = {}
          /\ conn' = [conn EXCEPT !.at = "live", !.pos = Len(sent)]
          /\ UNCHANGED wire
       \/ ReplaysNext
    /\ UNCHANGED <<busVars, tracker, cache, clientVars>>

\* The records of the replay, and then the live channel.
Replays ==
    /\ conn.at = "replay"
    /\ \/ /\ DOMAIN conn.todo = {}
          /\ conn' = [conn EXCEPT !.at = "live"]
          /\ UNCHANGED wire
       \/ ReplaysNext
    /\ UNCHANGED <<busVars, tracker, cache, clientVars>>

SendsLive ==
    /\ conn.at = "live" /\ conn.pos < Len(sent) /\ ~Lags(conn.pos)
    /\ conn' = [conn EXCEPT !.pos = @ + 1]
    /\ wire' = Append(wire, sent[conn.pos + 1])
    /\ UNCHANGED <<busVars, tracker, cache, clientVars>>

\* After a lag the retained indication is sent again.
SocketLags ==
    /\ conn.at = "live" /\ Lags(conn.pos)
    /\ conn' = [conn EXCEPT !.pos = Resumes, !.lagged = TRUE]
    /\ wire' = IF latest = NoRecord THEN wire ELSE Append(wire, latest)
    /\ UNCHANGED <<busVars, tracker, cache, clientVars>>

-----------------------------------------------------------------------------
(* attach_telemetry_loop, and SimulatorState::ingest behind it.            *)

\* The cursor is the greatest id that came; the last indication is shown.
Receives ==
    /\ wire # <<>>
    /\ LET rec == Head(wire)
       IN  /\ cursor' = IF rec.id > cursor THEN rec.id ELSE cursor
           /\ seen' = seen \cup {rec}
           /\ led' = IF rec.led THEN rec ELSE led
    /\ wire' = Tail(wire)
    /\ UNCHANGED <<busVars, tracker, cache, conn, drops, crossed>>

\* The connection is lost, with what was on its way.
Drops ==
    /\ conn.at # "off" /\ drops + epoch < MaxBreaks
    /\ drops' = drops + 1
    /\ conn' = Off
    /\ wire' = <<>>
    /\ UNCHANGED <<busVars, tracker, cache, cursor, seen, led, crossed>>

\* The booth restarts: the bus is new, its ids begin again, and the terminal
\* keeps what it had.
Restarts ==
    /\ drops + epoch < MaxBreaks
    /\ epoch' = epoch + 1
    /\ stamped' = 0
    /\ pub' = [p \in Publishers |-> Idle]
    /\ ring' = <<>> /\ sent' = <<>>
    /\ latest' = NoRecord
    /\ tracker' = 0
    /\ cache' = NoRecord
    /\ conn' = Off
    /\ wire' = <<>>
    /\ UNCHANGED clientVars

-----------------------------------------------------------------------------
BusNext ==
    \/ \E p \in Publishers : Stamp(p) \/ Retain(p) \/ Push(p) \/ Broadcast(p)
    \/ TrackerReceives \/ TrackerLags
    \/ Connect \/ Leads \/ Snapshot \/ Replays \/ SendsLive \/ SocketLags
    \/ Receives \/ Drops
    \/ Restarts

BusSpec == BusInit /\ [][BusNext]_telemetryVars

-----------------------------------------------------------------------------
\* Every variable has its type, and the ring is never larger than its capacity.
BusTypeOK ==
    /\ epoch \in 0..MaxBreaks /\ stamped \in 0..MaxRecords
    /\ pub \in [Publishers -> [at : {"idle", "stamped", "retained", "pushed"}, rec : Records]]
    /\ ring \in Seq(Records) /\ Len(ring) <= Capacity
    /\ sent \in Seq(Records) /\ Len(sent) <= stamped
    /\ latest \in Records /\ cache \in Records /\ led \in Records
    /\ tracker \in 0..Len(sent)
    /\ conn.at \in {"off", "lead", "snapshot", "replay", "live"}
    /\ conn.pos \in 0..Len(sent) /\ DOMAIN conn.todo \subseteq 1..Capacity
    /\ conn.todo \in [DOMAIN conn.todo -> Records]
    /\ wire \in Seq(Records) /\ seen \subseteq Records
    /\ cursor \in 0..MaxRecords /\ drops \in 0..MaxBreaks /\ crossed \in BOOLEAN

\* The indications that were published, and the newest of them.
Indications == {rec \in Range(sent) : rec.led}
Newest(rec) == rec \in Indications /\ \A r \in Indications : r.id <= rec.id

\* publish may be called at once from several tasks, and they may pass each other
\* between the id and the slot: the slot still never holds an indication older
\* than one that has been published.
LatestIsNewest == \A rec \in Indications : rec.id <= latest.id

\* Once the tracker has caught up, after whatever lag, the debug server answers
\* with an indication at least as new as any that was published.
CacheIsNewest ==
    tracker = Len(sent) => \A rec \in Indications : rec.id <= cache.id

CaughtUp ==
    conn.at = "live" /\ conn.pos = Len(sent) /\ wire = <<>> /\ \A p \in Publishers : pub[p] = Idle

\* A terminal that has caught up shows the LED as it is, however often it lagged
\* or lost the connection, although the record may have left the ring long ago.
\* (Two indications published at once may pass each other: then the last is shown.)
LedIsShown == (CaughtUp /\ Indications # {} /\ ~crossed) => Newest(led)

\* Between the replay and the live channel nothing falls: a terminal that has caught
\* up on its first connection, and was told of no lag, has received every record that
\* the ring still holds.  (Reconnecting with a cursor it may have missed some, see
\* README.md, section 3.3.)
RetainedIsSeen ==
    (CaughtUp /\ ~conn.lagged /\ drops = 0 /\ epoch = 0) => Range(ring) \subseteq seen

\* Nobody who follows the telemetry falls behind for good without being told.
BusInv ==
    /\ BusTypeOK /\ LatestIsNewest /\ CacheIsNewest /\ RetainedIsSeen /\ LedIsShown
=============================================================================
