----------------------------- MODULE MCBoothCall -----------------------------
(* BoothCall for TLC. *)
EXTENDS BoothCall

CONSTANTS q1, r1

MCQuestionId == {q1}
MCRecordingId == {r1}
=============================================================================
