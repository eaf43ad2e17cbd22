------------------------ MODULE MCRecorderRefinement ------------------------
(* The recorder against CaptureStream, for TLC.                            *)
EXTENDS RecorderRefinement

Periods == {1, 2}
=============================================================================
