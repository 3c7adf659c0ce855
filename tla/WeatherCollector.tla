--------------------------- MODULE WeatherCollector ---------------------------
(***************************************************************************)
(* The outdoor-weather collector of booth-bin (weather.rs) and the gauges  *)
(* it writes (booth-metrics).  It asks the provider at every tick, reads   *)
(* the answer in chunks up to a cap, checks every value, and only then     *)
(* sets the gauges, one after the other, while a scrape may read them at   *)
(* any moment.                                                             *)
(*                                                                         *)
(* One measured value, the temperature, stands for the seven that are      *)
(* checked and exported in the same way.  Of the failure counters the      *)
(* model keeps the reason the last poll counted.                           *)
(***************************************************************************)
EXTENDS Integers, Sequences, SequencesExt

CONSTANTS
    MAX_RESPONSE_BYTES, \* cap on the body, in units of the smallest chunk
    Chunks,             \* lengths a chunk may have
    Declared,           \* lengths a response may declare
    Temperatures,       \* numbers the provider may give
    Times,              \* times of observation the provider may give
    Codes,              \* weather codes the provider may give
    Stamps              \* times of receipt

ASSUME WeatherCollectorAssumption ==
    /\ MAX_RESPONSE_BYTES \in Nat /\ Chunks \subseteq Nat \ {0}
    /\ Declared \subseteq Nat /\ Codes \subseteq Nat /\ Stamps \subseteq Nat
    /\ Temperatures \subseteq Int /\ Times \subseteq Int

VARIABLES
    pc,         \* "waiting", "sending", "reading" or "writing"
    declared,   \* content_length of the response, Undeclared when chunked
    received,   \* length of the body read so far
    sample,     \* the sample being exported
    written,    \* how many of its series are set
    gauges,     \* the registry: series -> number, or Unset (no such reading)
    counted,    \* reason of the failure the last poll counted, or "none"
    latest      \* history: the newest answer that was in order, or NoSample

weatherVars == <<pc, declared, received, sample, written, gauges, counted, latest>>

Undeclared == -1
Unset == -999
NoSample == [fetched_at |-> Unset]

Reasons == {"transport", "http", "response_too_large", "decode", "clock", "invalid_data"}

\* Mutated OUTDOOR_WEATHER_CONDITIONS: the list lacks what condition_for_code may say.
ShortListOfConditions ==
    <<"clear_sky", "mainly_clear", "partly_cloudy", "overcast", "fog", "rime_fog",
      "drizzle", "freezing_drizzle", "rain", "freezing_rain", "snowfall", "snow_grains",
      "rain_showers", "snow_showers", "thunderstorm", "unknown">>

OUTDOOR_WEATHER_CONDITIONS ==
    <<"clear_sky", "mainly_clear", "partly_cloudy", "overcast", "fog", "rime_fog",
      "drizzle", "freezing_drizzle", "rain", "freezing_rain", "snowfall", "snow_grains",
      "rain_showers", "snow_showers", "thunderstorm", "thunderstorm_with_hail", "unknown">>

condition_for_code(code) ==
    CASE code = 0 -> "clear_sky"
      [] code = 1 -> "mainly_clear"
      [] code = 2 -> "partly_cloudy"
      [] code = 3 -> "overcast"
      [] code = 45 -> "fog"
      [] code = 48 -> "rime_fog"
      [] code \in {51, 53, 55} -> "drizzle"
      [] code \in {56, 57} -> "freezing_drizzle"
      [] code \in {61, 63, 65} -> "rain"
      [] code \in {66, 67} -> "freezing_rain"
      [] code \in {71, 73, 75} -> "snowfall"
      [] code = 77 -> "snow_grains"
      [] code \in 80..82 -> "rain_showers"
      [] code \in {85, 86} -> "snow_showers"
      [] code = 95 -> "thunderstorm"
      [] code \in {96, 99} -> "thunderstorm_with_hail"
      [] OTHER -> "unknown"

Conditions == ToSet(OUTDOOR_WEATHER_CONDITIONS)
Series == {"temperature", "observed_at", "fetched_at", "fetch_success"} \cup Conditions

bounded(value, minimum, maximum) == minimum <= value /\ value <= maximum

\* Every field is checked before the sample exists.
Valid(temperature, time) == time >= 0 /\ bounded(temperature, -100, 100)

OutdoorSample(temperature, time, code, stamp) ==
    [temperature |-> temperature, observed_at |-> time, fetched_at |-> stamp,
     condition |-> condition_for_code(code)]

\* Mutated Writes: the condition is shown and none is taken back.
WritesOfWhatIsNew(s) ==
    << <<"temperature", s.temperature>>, <<"observed_at", s.observed_at>>,
       <<"fetched_at", s.fetched_at>>, <<"fetch_success", 1>>, <<s.condition, 1>> >>

\* record_outdoor_weather_gauges: the series in the order they are set, with their values.
Writes(s) ==
    << <<"temperature", s.temperature>>, <<"observed_at", s.observed_at>>,
       <<"fetched_at", s.fetched_at>>, <<"fetch_success", 1>> >> \o
    [i \in DOMAIN OUTDOOR_WEATHER_CONDITIONS |->
        <<OUTDOOR_WEATHER_CONDITIONS[i],
          IF OUTDOOR_WEATHER_CONDITIONS[i] = s.condition THEN 1 ELSE 0>>]

-----------------------------------------------------------------------------
WeatherInit ==
    /\ pc = "waiting" /\ declared = Undeclared /\ received = 0
    /\ sample = NoSample /\ written = 0
    /\ gauges = [s \in Series |-> Unset]
    /\ counted = "none" /\ latest = NoSample

\* ticker.tick, and the request is sent.
Ticks ==
    /\ pc = "waiting" /\ pc' = "sending"
    /\ UNCHANGED <<declared, received, sample, written, gauges, counted, latest>>

\* Mutated Marked: the success of an earlier poll stays on show.
MarkedByCounterAlone(reason) == gauges' = gauges

\* record_outdoor_weather_failure sets the flag.
Marked(reason) == gauges' = [gauges EXCEPT !["fetch_success"] = 0]

\* record_outdoor_weather_failure; the next tick will ask again.
PollFails(reason) ==
    /\ Marked(reason) /\ counted' = reason /\ pc' = "waiting"
    /\ declared' = Undeclared /\ received' = 0
    /\ UNCHANGED <<sample, written, latest>>

\* Mutated PollTimesOut: the deadline covers no more than the wait for the head.
PollTimesOutBeforeTheHead == pc = "sending" /\ PollFails("transport")

\* The deadline of the client covers the whole exchange; a connection may fail before.
PollTimesOut == pc \in {"sending", "reading"} /\ PollFails("transport")

\* The head of the response: its status, and a length or none.
Answers ==
    /\ pc = "sending"
    /\ \/ PollFails("http")
       \/ \E length \in Declared \cup {Undeclared} :
            IF length > MAX_RESPONSE_BYTES THEN PollFails("response_too_large")
            ELSE /\ pc' = "reading" /\ declared' = length /\ received' = 0
                 /\ UNCHANGED <<sample, written, gauges, counted, latest>>

\* Mutated Chunk: the declared length alone is held against the cap.
ChunkUncounted ==
    /\ pc = "reading"
    /\ \E length \in Chunks :
         /\ declared # Undeclared => received + length <= declared
         /\ received <= MAX_RESPONSE_BYTES /\ received' = received + length
         /\ UNCHANGED <<pc, declared, sample, written, gauges, counted, latest>>

\* read_response_body: one more chunk.
Chunk ==
    /\ pc = "reading"
    /\ \E length \in Chunks :
         /\ declared # Undeclared => received + length <= declared
         /\ IF received + length > MAX_RESPONSE_BYTES THEN PollFails("response_too_large")
            ELSE /\ received' = received + length
                 /\ UNCHANGED <<pc, declared, sample, written, gauges, counted, latest>>

Complete == pc = "reading" /\ declared \in {Undeclared, received}

\* The clock stands before 1970, or parse_open_meteo_response cannot read the body.
CannotParse == Complete /\ \E reason \in {"clock", "decode"} : PollFails(reason)

\* parse_open_meteo_response checks what it has read.
Parses ==
    /\ Complete
    /\ \E temperature \in Temperatures, time \in Times, code \in Codes, stamp \in Stamps :
         LET s == OutdoorSample(temperature, time, code, stamp) IN
         IF Valid(temperature, time)
         THEN /\ pc' = "writing" /\ sample' = s /\ written' = 0
              /\ latest' = IF time >= 0 /\ temperature \in -100..100 THEN s ELSE latest
              /\ declared' = Undeclared /\ received' = 0
              /\ UNCHANGED <<gauges, counted>>
         ELSE PollFails("invalid_data")

\* record_outdoor_weather_gauges sets the next series.
WritesNext ==
    /\ pc = "writing" /\ written < Len(Writes(sample))
    /\ LET write == Writes(sample)[written + 1] IN gauges' = [gauges EXCEPT ![write[1]] = write[2]]
    /\ written' = written + 1
    /\ UNCHANGED <<pc, declared, received, sample, counted, latest>>

\* All is written; the loop goes round.
Written ==
    /\ pc = "writing" /\ written = Len(Writes(sample))
    /\ pc' = "waiting" /\ counted' = "none" /\ sample' = NoSample /\ written' = 0
    /\ UNCHANGED <<declared, received, gauges, latest>>

WeatherNext ==
    \/ Ticks \/ PollTimesOut \/ Answers \/ Chunk \/ CannotParse \/ Parses \/ WritesNext \/ Written

\* The task runs and its client has a deadline; nothing is assumed of the provider.
WeatherFairness ==
    /\ WF_weatherVars(Ticks)
    /\ WF_weatherVars(PollTimesOut)
    /\ WF_weatherVars(WritesNext)
    /\ WF_weatherVars(Written)

WeatherSpec == WeatherInit /\ [][WeatherNext]_weatherVars /\ WeatherFairness

-----------------------------------------------------------------------------
\* Every variable has its type.
WeatherTypeOK ==
    /\ pc \in {"waiting", "sending", "reading", "writing"}
    /\ declared \in Declared \cup {Undeclared} /\ received \in Nat
    /\ sample = NoSample \/ sample.condition \in Conditions
    /\ written \in 0..(4 + Len(OUTDOOR_WEATHER_CONDITIONS))
    /\ DOMAIN gauges = Series /\ counted \in Reasons \cup {"none"}
    /\ latest = NoSample \/ latest.condition \in Conditions

\* Between two polls the gauges are those of the newest answer whose every value is in
\* range, all of them, and exactly its condition is shown: a refused answer leaves no
\* value behind, and no code leaves an older condition, or none, on show.
ShowsLatestObservation ==
    (pc = "waiting" /\ latest # NoSample) =>
        /\ gauges["temperature"] = latest.temperature
        /\ gauges["observed_at"] = latest.observed_at
        /\ gauges["fetched_at"] = latest.fetched_at
        /\ {c \in Conditions : gauges[c] = 1} = {latest.condition}

\* Between two polls the flag says how the last one went, though the values of an
\* earlier one stay on show.
FlagShowsLatestPoll ==
    (pc = "waiting" /\ gauges["fetch_success"] # Unset) =>
        (gauges["fetch_success"] = 1 <=> counted = "none")

\* No more than the cap is ever held in memory, whatever length is declared or sent.
BodyIsBounded == received <= MAX_RESPONSE_BYTES

\* A poll ends, even when the provider stops in the middle of its answer.
EveryPollEnds == pc # "waiting" ~> pc = "waiting"

\* docs/observability.md: the condition is published "as a one-hot series".  A scrape may
\* come while the series are set.
ConditionIsOneHot ==
    (\E c \in Conditions : gauges[c] = 1) =>
        \A c, d \in Conditions : gauges[c] = 1 /\ gauges[d] = 1 => c = d

\* The weather gauges are those of one answer, and marked when they are old.
WeatherInv ==
    /\ WeatherTypeOK /\ ShowsLatestObservation /\ FlagShowsLatestPoll /\ BodyIsBounded
=============================================================================
