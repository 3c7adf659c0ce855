---------------------------- MODULE MCCallSessions ----------------------------
(* CallSessions for TLC: one question and two recordings, so that the upload
   of an abandoned call can end during the next. *)
EXTENDS CallSessions, TLC

CONSTANTS q1, r1, r2

MCQuestionId == {q1}
MCRecordingId == {r1, r2}
MCSymmetry == Permutations(MCRecordingId)
=============================================================================
