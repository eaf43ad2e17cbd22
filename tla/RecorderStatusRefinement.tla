---------------------- MODULE RecorderStatusRefinement ----------------------
(***************************************************************************)
(* The recorder, seen by the control plane, is a RecorderProcess.          *)
(***************************************************************************)
EXTENDS Recorder

Process == INSTANCE RecorderProcess WITH
  alive  <- (exit = Alive),
  phase  <- (IF pc = "done" THEN "done" ELSE "run"),
  reason <- stopReason,
  file   <- status.state

(* Whatever fails, the status file goes from RECORDING over FINAL_SEGMENT  *)
(* to the end state that belongs to the stop reason, and is never written  *)
(* after it; a recorder with a stop reason exits.  RecorderManager.status  *)
(* relies on this when it reads the file of a process it has not yet       *)
(* waited for.                                                             *)
ImplementsRecorderProcess == Process!PSpec
=============================================================================
