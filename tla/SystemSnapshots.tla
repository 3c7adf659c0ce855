---------------------------- MODULE SystemSnapshots ----------------------------
(***************************************************************************)
(* The power meter's collector (shelly.rs), the system sampler and the     *)
(* gauges both write (booth-metrics), and the pusher that sends snapshots  *)
(* to the operator (observability.rs).  The meter's latest reading goes to *)
(* the gauges and, in a second step, to the sampler, which puts it into    *)
(* every snapshot; the pusher takes the snapshots from the telemetry bus,  *)
(* between whatever else is published there, and sends one per interval.   *)
(*                                                                         *)
(* Of a reading's optional fields the model keeps the power, of the fan's  *)
(* the speed, and of the other parts of a snapshot, which are exported     *)
(* when they are present, the temperature of the CPU.  There is one meter. *)
(***************************************************************************)
EXTENDS Integers, Sequences, SequencesExt

CONSTANTS
    Powers,         \* what the meter may report
    MeterStamps,         \* times of receipt
    Speeds,         \* what the fan's tachometer may report
    CpuTemperatures,   \* what the CPU's sensor may report
    CAPACITY,       \* records the bus keeps for a subscriber
    INTERVAL,       \* system_push_interval_ms, in ticks of the model's clock
    HOUR,           \* the hour last_pushed is set back at first, in such ticks
    MaxOthers       \* bound: records of other kinds published

ASSUME SystemSnapshotsAssumption ==
    /\ Powers \subseteq Nat /\ MeterStamps \subseteq Nat /\ Speeds \subseteq Nat
    /\ CpuTemperatures \subseteq Nat
    /\ CAPACITY \in Nat \ {0} /\ {INTERVAL, HOUR} \subseteq Nat /\ MaxOthers \in Nat

VARIABLES
    \* spawn_shelly_collector.
    meter,      \* "waiting", "asking", "exporting" or "storing"
    reading,    \* what the meter answered, or NoReading
    \* The registry.
    meterGauges,    \* up, power and time of the meter
    fanGauges,      \* availability and speed of the fan
    cpuGauge,       \* temperature of the CPU
    \* SystemSampler and spawn_system_sampler.
    shelly,     \* the stored readings, one per device
    sampler,    \* "waiting", "sampled" or "recorded"
    snapshot,   \* the snapshot taken
    \* The bus, as the pusher's receiver sees it.
    queue, overrun, others,
    \* spawn_system_pusher.
    pusher,     \* "receiving" or "pushing"
    elapsed,    \* time since last_pushed, at most INTERVAL
    \* History.
    latestReading,     \* the newest reading, or NoReading
    failed,     \* the last poll of the meter failed
    accepted,   \* time since the operator last took a snapshot, or else since an hour
                \* before the start, at most INTERVAL
    news        \* flips with every snapshot the operator takes

registry == <<meterGauges, fanGauges, cpuGauge>>
bus == <<queue, overrun, others>>
push == <<pusher, elapsed, accepted, news>>
snapshotVars == <<meter, reading, registry, shelly, sampler, snapshot, bus, push, latestReading, failed>>

Missing == -1       \* an option that is None; NaN in a gauge
NoSeries == -2         \* the series does not exist yet
NoReading == [power |-> NoSeries, fetched_at |-> NoSeries]
NoFan == Missing - 1
Readings == [power : Powers \cup {Missing}, fetched_at : MeterStamps]

\* Tells apart an absent fan (NoFan) from one whose speed is not measured (Missing).
Fans == Speeds \cup {Missing, NoFan}
NoSnapshot == [shelly |-> <<>>, fan |-> NoFan, temperature |-> Missing]
Snapshots ==
    [shelly : {<<>>} \cup {<<r>> : r \in Readings}, fan : Fans,
     temperature : CpuTemperatures \cup {Missing}]
Other == [NoSnapshot EXCEPT !.temperature = NoSeries]

SnapshotInit ==
    /\ meter = "waiting" /\ reading = NoReading /\ latestReading = NoReading /\ failed = FALSE
    /\ meterGauges = [up |-> NoSeries, power |-> NoSeries, fetched_at |-> NoSeries]
    /\ fanGauges = [available |-> NoSeries, tachometer |-> NoSeries, rpm |-> NoSeries]
    /\ cpuGauge = NoSeries
    /\ shelly = <<>> /\ sampler = "waiting" /\ snapshot = NoSnapshot
    /\ queue = <<>> /\ overrun = FALSE /\ others = 0
    /\ pusher = "receiving" /\ elapsed = IF HOUR < INTERVAL THEN HOUR ELSE INTERVAL
    /\ accepted = elapsed /\ news = FALSE

-----------------------------------------------------------------------------
(* The meter.                                                              *)

Asks ==
    /\ meter = "waiting" /\ meter' = "asking"
    /\ UNCHANGED <<reading, registry, shelly, sampler, snapshot, bus, push, latestReading, failed>>

\* fetch_shelly_status with a body that may lack any field.
MeterAnswers ==
    /\ meter = "asking" /\ meter' = "exporting"
    /\ reading' \in Readings /\ latestReading' = reading' /\ failed' = FALSE
    /\ UNCHANGED <<registry, shelly, sampler, snapshot, bus, push>>

\* Transport, status, size, JSON or clock: record_shelly_device_failure.
MeterAnswersNot ==
    /\ meter = "asking" /\ meter' = "waiting"
    /\ meterGauges' = [meterGauges EXCEPT !.up = 0] /\ failed' = TRUE
    /\ UNCHANGED <<reading, fanGauges, cpuGauge, shelly, sampler, snapshot, bus, push, latestReading>>

\* Mutated record_shelly_device_gauges: a field that is absent leaves its gauge alone.
SetsWhatIsThere(r) ==
    [up |-> 1, power |-> IF r.power = Missing THEN meterGauges.power ELSE r.power,
     fetched_at |-> r.fetched_at]

record_shelly_device_gauges(r) == [up |-> 1, power |-> r.power, fetched_at |-> r.fetched_at]

Exports ==
    /\ meter = "exporting" /\ meter' = "storing"
    /\ meterGauges' = record_shelly_device_gauges(reading)
    /\ UNCHANGED <<reading, fanGauges, cpuGauge, shelly, sampler, snapshot, bus, push, latestReading,
                   failed>>

\* Mutated record_shelly_device: the entry of the device is not looked for.
Appended(r) == Append(shelly, r)

\* The device's entry is replaced, or the first is added.
record_shelly_device(r) == IF shelly = <<>> THEN <<r>> ELSE [shelly EXCEPT ![1] = r]

Stores ==
    /\ meter = "storing" /\ meter' = "waiting"
    /\ shelly' = record_shelly_device(reading) /\ reading' = NoReading
    /\ UNCHANGED <<registry, sampler, snapshot, bus, push, latestReading, failed>>

-----------------------------------------------------------------------------
(* The sampler.                                                            *)

\* sample_once: every probe of the system may find nothing.
Samples ==
    /\ sampler = "waiting" /\ sampler' = "sampled"
    /\ \E fan \in Fans, temperature \in CpuTemperatures \cup {Missing} :
         snapshot' = [shelly |-> shelly, fan |-> fan, temperature |-> temperature]
    /\ UNCHANGED <<meter, reading, registry, shelly, bus, push, latestReading, failed>>

\* record_snapshot_gauges: the fan's gauges.
FanGauges(fan) ==
    [available |-> IF fan = NoFan THEN 0 ELSE 1,
     tachometer |-> IF fan \in {NoFan, Missing} THEN 0 ELSE 1,
     rpm |-> IF fan = NoFan THEN Missing ELSE fan]

\* Mutated Records: the meter's gauges are set from the snapshot as well.
RecordsTheMeterToo ==
    /\ sampler = "sampled" /\ sampler' = "recorded"
    /\ fanGauges' = FanGauges(snapshot.fan)
    /\ cpuGauge' = IF snapshot.temperature = Missing THEN cpuGauge ELSE snapshot.temperature
    /\ meterGauges' = IF snapshot.shelly = <<>> THEN meterGauges
                      ELSE record_shelly_device_gauges(Last(snapshot.shelly))
    /\ UNCHANGED <<meter, reading, shelly, snapshot, bus, push, latestReading, failed>>

\* Mutated Records: a fan that is gone leaves its gauges alone.
RecordsWhatIsThere ==
    /\ sampler = "sampled" /\ sampler' = "recorded"
    /\ fanGauges' = IF snapshot.fan = NoFan THEN fanGauges ELSE FanGauges(snapshot.fan)
    /\ cpuGauge' = IF snapshot.temperature = Missing THEN cpuGauge ELSE snapshot.temperature
    /\ UNCHANGED <<meter, reading, meterGauges, shelly, snapshot, bus, push, latestReading, failed>>

\* record_snapshot_gauges: a temperature that cannot be read leaves its gauge alone.
Records ==
    /\ sampler = "sampled" /\ sampler' = "recorded"
    /\ fanGauges' = FanGauges(snapshot.fan)
    /\ cpuGauge' = IF snapshot.temperature = Missing THEN cpuGauge ELSE snapshot.temperature
    /\ UNCHANGED <<meter, reading, meterGauges, shelly, snapshot, bus, push, latestReading, failed>>

\* The oldest record gives way when the bus is full.
Enqueued(record) ==
    /\ queue' = IF Len(queue) = CAPACITY THEN Append(Tail(queue), record) ELSE Append(queue, record)
    /\ overrun' = (overrun \/ Len(queue) = CAPACITY)

\* bus.publish(SystemSample).
Publishes ==
    /\ sampler = "recorded" /\ sampler' = "waiting" /\ Enqueued(snapshot)
    /\ UNCHANGED <<meter, reading, registry, shelly, snapshot, others, push, latestReading, failed>>

\* Another publisher.
PublishesOther ==
    /\ others < MaxOthers /\ others' = others + 1 /\ Enqueued(Other)
    /\ UNCHANGED <<meter, reading, registry, shelly, sampler, snapshot, push, latestReading, failed>>

-----------------------------------------------------------------------------
(* The pusher.                                                             *)

\* Mutated Lags: the pusher leaves its loop.
LagsAndLeaves ==
    /\ pusher = "receiving" /\ overrun /\ overrun' = FALSE /\ pusher' = "left"
    /\ UNCHANGED <<meter, reading, registry, shelly, sampler, snapshot, queue, others, elapsed,
                   accepted, news, latestReading, failed>>

\* RecvError::Lagged: the oldest record that is left comes next.
Lags ==
    /\ pusher = "receiving" /\ overrun /\ overrun' = FALSE
    /\ UNCHANGED <<meter, reading, registry, shelly, sampler, snapshot, queue, others, push,
                   latestReading, failed>>

\* A record of no interest, or a snapshot too soon after the last that was pushed, or one
\* that is pushed.
Receives ==
    /\ pusher = "receiving" /\ ~overrun /\ queue # <<>> /\ queue' = Tail(queue)
    /\ \/ /\ Head(queue) = Other /\ UNCHANGED pusher
       \/ /\ Head(queue) # Other /\ elapsed < INTERVAL
          /\ UNCHANGED pusher
       \/ /\ Head(queue) # Other /\ elapsed = INTERVAL
          /\ pusher' = "pushing"
    /\ UNCHANGED <<meter, reading, registry, shelly, sampler, snapshot, overrun, others, elapsed,
                   accepted, news, latestReading, failed>>

\* put_system_snapshot succeeds.
Pushed ==
    /\ pusher = "pushing" /\ pusher' = "receiving"
    /\ elapsed' = 0 /\ accepted' = 0 /\ news' = ~news
    /\ UNCHANGED <<meter, reading, registry, shelly, sampler, snapshot, bus, latestReading, failed>>

\* Mutated PushFails: the failed push counts for the interval.
PushFailsAndCounts ==
    /\ pusher = "pushing" /\ pusher' = "receiving" /\ elapsed' = 0
    /\ UNCHANGED <<meter, reading, registry, shelly, sampler, snapshot, bus, accepted,
                   news, latestReading, failed>>

\* It fails: last_pushed stays, so that the next snapshot is tried.
PushFails ==
    /\ pusher = "pushing" /\ pusher' = "receiving"
    /\ UNCHANGED <<meter, reading, registry, shelly, sampler, snapshot, bus, elapsed, accepted,
                   news, latestReading, failed>>

Passes == (elapsed < INTERVAL \/ accepted < INTERVAL)

Clock ==
    /\ Passes
    /\ elapsed' = IF elapsed < INTERVAL THEN elapsed + 1 ELSE elapsed
    /\ accepted' = IF accepted < INTERVAL THEN accepted + 1 ELSE accepted
    /\ UNCHANGED <<meter, reading, registry, shelly, sampler, snapshot, bus, pusher, news,
                   latestReading, failed>>

Meter == Asks \/ MeterAnswers \/ MeterAnswersNot \/ Exports \/ Stores
Sampler == Samples \/ Records \/ Publishes
Pusher == Lags \/ Receives \/ Pushed \/ PushFails
SnapshotNext == Meter \/ Sampler \/ PublishesOther \/ Pusher \/ Clock

\* The tasks run, a push ends, and time passes.  A pusher that lags receives a record before
\* the whole bus is overwritten once more, if not every time; an operator who is asked again
\* and again takes a snapshot in the end.
SnapshotFairness ==
    /\ WF_snapshotVars(Sampler)
    /\ WF_snapshotVars(Pusher)
    /\ WF_snapshotVars(Clock)
    /\ SF_snapshotVars(Receives) /\ SF_snapshotVars(Pushed)

SnapshotSpec == SnapshotInit /\ [][SnapshotNext]_snapshotVars /\ SnapshotFairness

-----------------------------------------------------------------------------
\* Every variable has its type.
SnapshotTypeOK ==
    /\ meter \in {"waiting", "asking", "exporting", "storing"}
    /\ reading \in Readings \cup {NoReading} /\ latestReading \in Readings \cup {NoReading}
    /\ meterGauges \in [up : {NoSeries, 0, 1}, power : Powers \cup {Missing, NoSeries},
                        fetched_at : MeterStamps \cup {NoSeries}]
    /\ fanGauges \in [available : {NoSeries, 0, 1}, tachometer : {NoSeries, 0, 1},
                      rpm : Speeds \cup {Missing, NoSeries}]
    /\ cpuGauge \in CpuTemperatures \cup {NoSeries}
    /\ shelly \in {<<>>} \cup {<<r>> : r \in Readings}
    /\ sampler \in {"waiting", "sampled", "recorded"} /\ snapshot \in Snapshots
    /\ queue \in BoundedSeq(Snapshots \cup {Other}, CAPACITY)
    /\ pusher \in {"receiving", "pushing"}
    /\ {elapsed, accepted} \subseteq 0..INTERVAL
    /\ {overrun, news, failed} \subseteq BOOLEAN

\* Between two polls the meter's flag says how the last one went: no snapshot that still
\* carries an older reading brings a failed meter up again.
UpShowsLatestPoll ==
    (meter = "waiting" /\ meterGauges.up # NoSeries) => (meterGauges.up = 1 <=> ~failed)

\* Between two polls the meter's gauges are those of the newest reading and of no other:
\* a field it lacks shows nothing.  The sampler keeps that reading, once.
MeterShowsNewestReading ==
    (meter = "waiting" /\ latestReading # NoReading) =>
        /\ [power |-> meterGauges.power, fetched_at |-> meterGauges.fetched_at] = latestReading
        /\ shelly = <<latestReading>>

\* docs/observability.md: after every sample the fan's gauges show that sample, so that no
\* speed outlives a fan that is gone or not measured.
FanShowsLastSample ==
    sampler = "recorded" =>
        /\ fanGauges.available = 1 <=> snapshot.fan # NoFan
        /\ fanGauges.rpm = IF snapshot.fan \in Speeds THEN snapshot.fan ELSE Missing

Skips ==
    /\ pusher = "receiving" /\ queue # <<>> /\ Head(queue) # Other
    /\ queue' = Tail(queue) /\ pusher' = "receiving"

\* The pusher skips a snapshot only soon after the operator took one, or, when the interval
\* is longer than the hour that last_pushed is set back, soon after it started: a push that
\* fails is made good by the next sample.
SkipsOnlyAfterSuccess ==
    [][Skips => accepted < INTERVAL]_snapshotVars

\* Once the sampler runs, the operator gets snapshots for ever, failures and lost records
\* notwithstanding.
OperatorIsServed == \A flip \in BOOLEAN : (sampler # "waiting" /\ news = flip) ~> (news # flip)

\* The gauges of meter and fan show the newest reading, or that there is none.
SnapshotInv ==
    /\ SnapshotTypeOK /\ UpShowsLatestPoll /\ MeterShowsNewestReading /\ FanShowsLastSample
=============================================================================
