--------------------------- MODULE RecorderProcess ---------------------------
(***************************************************************************)
(* What the control plane sees of the recorder process: it lives, it keeps *)
(* a stop reason, it replaces its recorder.status file, and it exits.      *)
(* RecorderStatusRefinement shows that the writer thread, the callback and *)
(* the signal handlers of Recorder do no more than this.                   *)
(***************************************************************************)
EXTENDS Naturals

VARIABLES
  alive,   (* the process exists                                           *)
  phase,   (* "run" until the writer thread has returned, then "done"      *)
  reason,  (* stop_reason                                                  *)
  file     (* state= in recorder.status, "NONE" if there is no file yet    *)

processVars == <<alive, phase, reason, file>>

(* stop_reason: 1 clean, 2 full, 3 I/O or ring failure, 4 disk lost.       *)
Unset == 0
Clean == 1
Full == 2
Failure == 3
DiskLost == 4

(* The states that a process with stop reason r may end with: a stop that  *)
(* was asked for may still have failed.                                    *)
EndStates(r) ==
  CASE r = Full     -> {"STOPPED_FULL"}
    [] r = DiskLost -> {"DISK_LOST"}
    [] r = Failure  -> {"FAILED"}
    [] OTHER        -> {"STOPPED", "FAILED"}

FileStates == {"NONE", "RECORDING", "FINAL_SEGMENT"}
              \cup UNION {EndStates(r) : r \in Unset..DiskLost}

PInit == alive = TRUE /\ phase = "run" /\ reason = Unset /\ file = "NONE"

(* The process stops by itself.                                            *)
OwnReason == reason = Unset /\ reason' \in {Full, Failure, DiskLost}

(* A report while it runs, a reason found while it runs, or both.          *)
Progress ==
  /\ alive /\ phase = "run"
  /\ file' \in {file, IF reason = Full THEN "FINAL_SEGMENT" ELSE "RECORDING"}
  /\ OwnReason \/ UNCHANGED reason
  /\ UNCHANGED <<alive, phase>>

(* The first segment cannot be opened: no report at all.                   *)
Abandon ==
  /\ alive /\ phase = "run" /\ file = "NONE"
  /\ IF reason = Unset THEN reason' \in {Failure, DiskLost} ELSE UNCHANGED reason
  /\ phase' = "done"
  /\ UNCHANGED <<alive, file>>

(* The last report; it may not reach the disk.                             *)
Finish ==
  /\ alive /\ phase = "run" /\ reason # Unset
  /\ file' \in {file} \cup EndStates(reason)
  /\ phase' = "done"
  /\ UNCHANGED <<alive, reason>>

Exit ==
  /\ alive /\ phase = "done"
  /\ alive' = FALSE
  /\ UNCHANGED <<phase, reason, file>>

(* SIGTERM keeps an earlier reason, SIGUSR1 does not.                      *)
Terminated ==
  /\ alive
  /\ reason' = IF reason = Unset THEN Clean ELSE reason
  /\ UNCHANGED <<alive, phase, file>>

ToldDiskLost ==
  /\ alive
  /\ reason' = DiskLost
  /\ UNCHANGED <<alive, phase, file>>

PNext == Progress \/ Abandon \/ Finish \/ Exit \/ Terminated \/ ToldDiskLost

(* A process with a stop reason finishes and exits.                        *)
PFairness ==
  /\ WF_processVars(reason # Unset /\ (Abandon \/ Finish))
  /\ WF_processVars(Exit)

PTypeOK ==
  /\ alive \in BOOLEAN /\ phase \in {"run", "done"}
  /\ reason \in {Unset, Clean, Full, Failure, DiskLost} /\ file \in FileStates

PSpec == PInit /\ [][PNext]_processVars /\ PFairness
=============================================================================
