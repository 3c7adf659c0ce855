------------------------------ MODULE Collectors ------------------------------
(***************************************************************************)
(* What run spawns to measure (booth-bin, lib.rs): the weather collector   *)
(* beside the power meter's, the sampler and the pusher.  They share the   *)
(* registry of gauges and, in it, no series; so each keeps its own         *)
(* specification, and together they do what both allow.                    *)
(***************************************************************************)
EXTENDS WeatherCollector, SystemSnapshots

CollectorsSpec == WeatherSpec /\ SnapshotSpec

\* Between two polls no gauge that a collector writes is older than it says: weather and
\* meter show their newest answer, whole, their flags tell how the last poll went, and the
\* fan's gauges are those of the last sample.
GaugesAreCurrent == WeatherInv /\ SnapshotInv

\* Polls end and snapshots go on, whatever fails; and only a snapshot that the operator
\* took makes the pusher skip another.
CollectorsGoOn == EveryPollEnds /\ SkipsOnlyAfterSuccess /\ OperatorIsServed
==============================================================================
