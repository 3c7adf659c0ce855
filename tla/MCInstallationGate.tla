------------------------- MODULE MCInstallationGate -------------------------
(* InstallationGate for TLC.  The clock ticks every five seconds: the poller's
   interval and deadline are one tick, the lease three, as in the code.  A
   content request and a write are in flight at once, so that the conflict of
   one overtakes the other and the probe. *)
EXTENDS InstallationGate

CONSTANTS question, upload

MCContent == {question}
MCWrite == {upload}
=============================================================================
