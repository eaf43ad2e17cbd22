----------------------------- MODULE MCRecorder -----------------------------
(* Instances of the recorder for TLC, also as a RecorderProcess.           *)
EXTENDS RecorderStatusRefinement

Periods == {1, 2}
=============================================================================
