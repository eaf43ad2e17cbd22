------------------------- MODULE RecorderRefinement -------------------------
(***************************************************************************)
(* The recorder implements CaptureStream: the blocks, the                  *)
(* ring, the rotation of segments and the threads are invisible in the     *)
(* concatenation of its WAV files.                                         *)
(***************************************************************************)
EXTENDS Recorder, SequencesExt

(* The frames of each track over all segment directories.                  *)
Reassembled == [t \in 1..Tracks |->
  FlattenSeq([i \in 1..Current |-> segments[i].data[t]])]

(* The recorder itself knows that something went wrong.                    *)
KnownSound == ~ioFailure /\ stopReason # DiskLost

Capture == INSTANCE CaptureStream WITH
  TrackIds <- 1..Tracks,
  Periods <- CallbackBlocks,
  offered <- accepted,
  stream  <- Reassembled,
  sound   <- KnownSound,
  closed  <- (pc \in {"report", "done"})

(* Reassembling the segments gives, track by track, the capture without a  *)
(* missing, repeated or misplaced frame (test_recorder_segments.py checks  *)
(* one schedule of this; here the callback, the signals, the loss of the   *)
(* volume and the end of free space interleave with the writer).           *)
ImplementsCaptureStream == Capture!ASpec
=============================================================================
