------------------------- MODULE MCUploadDurability -------------------------
(***************************************************************************)
(* Three recordings, of which the first is refused whenever it is sent and *)
(* the last is too short; two slots, so that uploads race and queue.       *)
(***************************************************************************)
EXTENDS UploadDurability

MCRecording == 1..3
MCShort == {3}
MCRefused == {1}
=============================================================================
