---------------------------- MODULE MCBoothRuntime ----------------------------
(* BoothRuntime for TLC: one question and one answer; queues that never fill
   up, or that do. *)
EXTENDS BoothRuntime

CONSTANTS q1, r1

MCQuestionId == {q1}
MCRecordingId == {r1}
=============================================================================
