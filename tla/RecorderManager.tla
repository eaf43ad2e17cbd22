--------------------------- MODULE RecorderManager ---------------------------
(***************************************************************************)
(* RecorderManager of mixer/recorder_manager.py with the recorder process  *)
(* it starts, the recording volume and the optional MIDI recorder.         *)
(*                                                                         *)
(* The manager runs in the single thread of mixerctl, so its methods never *)
(* overlap; but each of them looks at the process, its status file and the *)
(* mount more than once, and those change in between.  pc is the place     *)
(* between two such looks.  session_dir always belongs to the last process *)
(* started, so one status file and one session.json are enough.            *)
(***************************************************************************)
EXTENDS RecorderProcess

CONSTANTS
  MidiPort,  (* recording.midi_port is configured                          *)
  MayCrash,  (* the recorder may be killed from outside                    *)
  MayReturn, (* the volume may come back                                   *)
  MayRaise   (* reading an existing recorder.status may fail               *)

ASSUME ManagerAssumption ==
  /\ MidiPort \in BOOLEAN /\ MayCrash \in BOOLEAN
  /\ MayReturn \in BOOLEAN /\ MayRaise \in BOOLEAN

VARIABLES
  pc,       (* where the current call is, "idle" between calls             *)
  request,  (* the call that status() was entered from                     *)
  state,    (* self.state                                                  *)
  handle,   (* self.process is not None                                    *)
  mountOk,  (* last_mount_ok                                               *)
  due,      (* five seconds have passed since last_mount_check             *)
  midi,     (* midi_process: "none", "running" or "exited"                 *)
  meta,     (* session.json: "none", "open", "clean" or "unclean"          *)
  mount,    (* the volume: "ready", "unfit" (fails _target) or "gone"      *)
  space     (* free space reaches _ready_capacity                          *)

callVars  == <<pc, request>>
diskVars  == <<mount, space>>
checkVars == <<mountOk, due>>
ownVars   == <<callVars, state, handle, checkVars, midi, meta>>
mvars     == <<processVars, ownVars, diskVars>>

ManagerStates == {"NO_RECORDING_DISK", "READY", "LOW_SPACE", "RECORDING",
                  "FINAL_SEGMENT", "STOPPED", "STOPPED_FULL", "DISK_LOST",
                  "FAILED"}

(* States that status() takes from the file of a process not waited for.   *)
Overriding == {"FINAL_SEGMENT", "STOPPED_FULL", "DISK_LOST", "FAILED"}

(* Faulty look at the file: only a last word counts as one.                *)
ReadLastWord == file \in UNION {EndStates(r) : r \in Unset..DiskLost} /\ mount # "gone"

FileThere == file # "NONE" /\ mount # "gone"
Exited == handle /\ ~alive

MInit ==
  /\ alive = FALSE /\ phase = "done" /\ reason = Unset /\ file = "NONE"
  /\ pc = "idle" /\ request = "status" /\ state = "NO_RECORDING_DISK"
  /\ handle = FALSE /\ mountOk = FALSE /\ due = TRUE
  /\ midi = "none" /\ meta = "none"
  /\ mount \in {"ready", "unfit", "gone"} /\ space \in BOOLEAN

-----------------------------------------------------------------------------
(* Calls: control_state and status, start, stop.                           *)
CallStatus ==
  /\ pc = "idle" /\ pc' = "read" /\ request' = "status"
  /\ UNCHANGED <<processVars, state, handle, checkVars, midi, meta, diskVars>>

CallStart ==
  /\ pc = "idle" /\ pc' = "read" /\ request' = "start"
  /\ UNCHANGED <<processVars, state, handle, checkVars, midi, meta, diskVars>>

(* stop without a recorder is a status call.                               *)
StopNothing ==
  /\ pc = "idle" /\ ~handle
  /\ midi' = "none"
  /\ pc' = "read" /\ request' = "status"
  /\ UNCHANGED <<processVars, state, handle, checkVars, meta, diskVars>>

(* _request_disk_lost signals only a process that still runs.              *)
SignalDiskLost == IF alive THEN ToldDiskLost ELSE UNCHANGED processVars

StopLost ==
  /\ pc = "idle" /\ handle /\ state = "DISK_LOST"
  /\ midi' = "none"
  /\ SignalDiskLost
  /\ UNCHANGED <<callVars, state, handle, checkVars, meta, diskVars>>

StopRecording ==
  /\ pc = "idle" /\ handle /\ state # "DISK_LOST"
  /\ midi' = "none"
  /\ IF alive THEN Terminated ELSE UNCHANGED processVars
  /\ state' = "FINAL_SEGMENT"
  /\ UNCHANGED <<callVars, handle, checkVars, meta, diskVars>>

-----------------------------------------------------------------------------
(* status(), first look: the MIDI recorder and the status file.            *)
ReadStatus ==
  /\ pc = "read"
  /\ midi' = IF midi = "exited" THEN "none" ELSE midi
  /\ \/ state' = IF FileThere /\ file \in Overriding THEN file ELSE state
     \/ mount # "ready" /\ UNCHANGED state  (* the file cannot be read       *)
  /\ pc' = "poll"
  /\ UNCHANGED <<processVars, request, handle, checkVars, meta, diskVars>>

PollDone == pc' = (IF request = "start" THEN "check" ELSE "idle")

(* Faulty finalization: only a failed recording is unclean; the file is    *)
(* not read again.                                                         *)
CleanUnlessFailed(s) == s # "FAILED"
StateAsBefore == state

(* Second look: the process has exited and left a file, which is read      *)
(* again and completes session.json.                                       *)
ClosedCleanly(s) == s \in {"STOPPED", "STOPPED_FULL"}
LastState == IF state = "DISK_LOST" THEN "DISK_LOST" ELSE file

PollFinalize ==
  /\ pc = "poll" /\ Exited /\ FileThere
  /\ state' = LastState
  /\ midi' = "none"
  /\ meta' = IF ClosedCleanly(LastState) THEN "clean" ELSE "unclean"
  /\ handle' = FALSE
  /\ PollDone
  /\ UNCHANGED <<processVars, request, checkVars, diskVars>>

(* session.json cannot be read or written, or the session is no longer on  *)
(* the mounted volume.                                                     *)
PollFinalizeFails ==
  /\ pc = "poll" /\ Exited /\ FileThere /\ mount = "unfit"
  /\ state' \in {LastState, "DISK_LOST"}
  /\ midi' = "none"
  /\ handle' = FALSE
  /\ PollDone
  /\ UNCHANGED <<processVars, request, checkVars, meta, diskVars>>

(* The second read is outside of the try block: its error leaves status,   *)
(* is answered with /mixer/error in a recordStart, and ends mixerctl        *)
(* elsewhere.                                                              *)
PollRaises ==
  /\ MayRaise
  /\ pc = "poll" /\ Exited /\ FileThere /\ mount = "unfit"
  /\ pc' = IF request = "start" THEN "idle" ELSE "raised"
  /\ UNCHANGED <<processVars, request, state, handle, checkVars, midi, meta,
                 diskVars>>

(* Faulty: the process is only forgotten when it left a file.              *)
PollKeepsProcess ==
  /\ pc = "poll" /\ Exited /\ ~FileThere
  /\ state' = IF state = "RECORDING" THEN "FAILED" ELSE state
  /\ PollDone
  /\ UNCHANGED <<processVars, request, handle, checkVars, midi, meta, diskVars>>

(* It has exited and there is no file to read.                             *)
PollNoFile ==
  /\ pc = "poll" /\ Exited /\ ~FileThere
  /\ state' = IF state = "RECORDING" THEN "FAILED" ELSE state
  /\ handle' = FALSE
  /\ PollDone
  /\ UNCHANGED <<processVars, request, checkVars, midi, meta, diskVars>>

(* The mount is looked at when five seconds have passed.                   *)
Checked == IF due THEN mount = "ready" ELSE mountOk

(* Faulty check: the first answer is kept.                                 *)
CheckOnce == mountOk' = mountOk /\ due' = FALSE

CheckMount == mountOk' = Checked /\ due' = FALSE

(* It runs, and the mount was not right when it was last looked at, or     *)
(* disk_usage fails now.                                                   *)
PollDiskLost ==
  /\ pc = "poll" /\ handle /\ alive
  /\ CheckMount
  /\ ~mountOk' \/ mount # "ready"
  /\ state' = "DISK_LOST"
  /\ SignalDiskLost
  /\ PollDone
  /\ UNCHANGED <<request, handle, midi, meta, diskVars>>

PollRunning ==
  /\ pc = "poll" /\ handle /\ alive
  /\ CheckMount /\ mountOk'
  /\ state' \in IF mount # "ready" THEN {state, "LOW_SPACE"}
                ELSE IF space THEN {state} ELSE {"LOW_SPACE"}
  /\ PollDone
  /\ UNCHANGED <<processVars, request, handle, midi, meta, diskVars>>

(* No recorder: the state follows the volume, unless it tells how the last *)
(* recording ended.                                                        *)
PollIdle ==
  /\ pc = "poll" /\ ~handle
  /\ state \in {"NO_RECORDING_DISK", "READY", "LOW_SPACE"}
  /\ CheckMount
  /\ state' \in IF ~mountOk' THEN {"NO_RECORDING_DISK"}
                ELSE IF mount # "ready" THEN {"READY", "LOW_SPACE", "NO_RECORDING_DISK"}
                ELSE IF space THEN {"READY"} ELSE {"LOW_SPACE"}
  /\ PollDone
  /\ UNCHANGED <<processVars, request, handle, midi, meta, diskVars>>

PollEnded ==
  /\ pc = "poll" /\ ~handle
  /\ state \notin {"NO_RECORDING_DISK", "READY", "LOW_SPACE"}
  /\ PollDone
  /\ UNCHANGED <<processVars, request, state, handle, checkVars, midi, meta,
                 diskVars>>

-----------------------------------------------------------------------------
(* start(), after its status() call.                                       *)
Active == handle \/ state \in {"RECORDING", "FINAL_SEGMENT"}

StartRefused ==
  /\ pc = "check"
  /\ \/ Active /\ UNCHANGED state
     \/ ~Active /\ mount # "ready" /\ state' = "NO_RECORDING_DISK"
     \/ ~Active /\ mount = "ready" /\ ~space /\ state' = "LOW_SPACE"
     (* colliding names, or the session directory cannot be written        *)
     \/ ~Active /\ mount = "ready" /\ space /\ UNCHANGED state
  /\ pc' = "idle"
  /\ UNCHANGED <<processVars, request, handle, checkVars, midi, meta, diskVars>>

(* A new session directory and a new process.                              *)
Launch ==
  /\ pc = "check" /\ ~Active /\ mount = "ready" /\ space
  /\ alive' = TRUE /\ phase' = "run" /\ reason' = Unset /\ file' = "NONE"
  /\ meta' = "open"
  /\ handle' = TRUE
  /\ pc' = "connect"
  /\ UNCHANGED <<request, state, checkVars, midi, diskVars>>

(* Popen fails: a new session directory, no process.                       *)
LaunchFails ==
  /\ pc = "check" /\ ~Active /\ mount = "ready" /\ space
  /\ file' = "NONE"
  /\ meta' = "unclean"
  /\ state' = "FAILED"
  /\ pc' = "idle"
  /\ UNCHANGED <<alive, phase, reason, request, handle, checkVars, midi,
                 diskVars>>

(* It still ran after 150 ms and all 19 ports are connected.  A MIDI       *)
(* recorder from before is overwritten.                                    *)
Connected ==
  /\ pc = "connect"
  /\ state' = "RECORDING" /\ mountOk' = TRUE /\ due' = FALSE
  /\ midi' \in IF MidiPort THEN {"none", "running"} ELSE {midi}
  /\ pc' = "idle"
  /\ UNCHANGED <<processVars, request, handle, meta, diskVars>>

(* It has exited, or a port cannot be connected: SIGTERM, and SIGKILL      *)
(* three seconds later.                                                    *)
ConnectFails ==
  /\ pc = "connect"
  /\ IF alive THEN Terminated ELSE UNCHANGED processVars
  /\ pc' = "abort"
  /\ UNCHANGED <<request, state, handle, checkVars, midi, meta, diskVars>>

(* Faulty abort: nobody waits for the process.                             *)
AbortAtOnce ==
  /\ pc = "abort"
  /\ UNCHANGED processVars
  /\ handle' = FALSE /\ state' = "FAILED" /\ meta' = "unclean" /\ pc' = "idle"
  /\ UNCHANGED <<request, checkVars, midi, diskVars>>

Abort ==
  /\ pc = "abort"
  /\ alive' = FALSE
  /\ handle' = FALSE
  /\ state' = "FAILED"
  /\ meta' \in IF mount = "ready" THEN {"unclean"} ELSE {meta, "unclean"}
  /\ pc' = "idle"
  /\ UNCHANGED <<phase, reason, file, request, checkVars, midi, diskVars>>

(* Three seconds after the SIGKILL it is still there, in a file-system call *)
(* of a volume that does not answer: TimeoutExpired is none of the errors   *)
(* that serve catches.                                                      *)
AbortTimesOut ==
  /\ pc = "abort" /\ alive
  /\ pc' = "raised"
  /\ UNCHANGED <<processVars, request, state, handle, checkVars, midi, meta, diskVars>>

-----------------------------------------------------------------------------
(* The process, the MIDI recorder, time and the volume.                    *)
RecorderRuns == (Progress \/ Abandon \/ Finish \/ Exit) /\ UNCHANGED <<ownVars, diskVars>>

(* From outside, or late by the abort.                                     *)
Killed ==
  /\ alive /\ (MayCrash \/ pc = "raised")
  /\ alive' = FALSE
  /\ UNCHANGED <<phase, reason, file, ownVars, diskVars>>

MidiExits ==
  /\ midi = "running"
  /\ midi' = "exited"
  /\ UNCHANGED <<processVars, callVars, state, handle, checkVars, meta, diskVars>>

Tick ==
  /\ ~due /\ due' = TRUE
  /\ UNCHANGED <<processVars, callVars, state, handle, mountOk, midi, meta, diskVars>>

MountChanges ==
  /\ mount' \in {"ready", "unfit", "gone"} \ {mount}
  /\ ~MayReturn => mount = "ready" \/ mount' = "gone"
  /\ UNCHANGED <<processVars, ownVars, space>>

SpaceChanges ==
  /\ space' = ~space
  /\ UNCHANGED <<processVars, ownVars, mount>>

Proceed ==
  \/ ReadStatus
  \/ PollFinalize \/ PollFinalizeFails \/ PollRaises \/ PollNoFile
  \/ PollDiskLost \/ PollRunning \/ PollIdle \/ PollEnded
  \/ StartRefused \/ Launch \/ LaunchFails
  \/ Connected \/ ConnectFails \/ Abort \/ AbortTimesOut

MNext ==
  \/ CallStatus \/ CallStart \/ StopNothing \/ StopLost \/ StopRecording
  \/ Proceed
  \/ RecorderRuns \/ Killed \/ MidiExits
  \/ Tick \/ MountChanges \/ SpaceChanges

(* A call returns, time passes, and a recorder with a stop reason exits,   *)
(* as Recorder shows.                                                      *)
OwnFairness ==
  /\ WF_mvars(Proceed)
  /\ WF_mvars(Tick)
  /\ WF_mvars((reason # Unset /\ (Abandon \/ Finish)) /\ UNCHANGED <<ownVars, diskVars>>)
  /\ WF_mvars(Exit /\ UNCHANGED <<ownVars, diskVars>>)

(* Somebody goes on asking for the status: mixerctl calls control_state    *)
(* for every /mixer/get and /mixer/get-all of a client.                    *)
MFairness == OwnFairness /\ SF_mvars(CallStatus)

MSpec == MInit /\ [][MNext]_mvars /\ MFairness

(* No client asks.  mixerctl also calls control_state when its socket      *)
(* times out, but start_graph leaves that socket without a timeout.        *)
UnpolledSpec == MInit /\ [][MNext]_mvars /\ OwnFairness

-----------------------------------------------------------------------------
MTypeOK ==
  /\ PTypeOK
  /\ pc \in {"idle", "read", "poll", "check", "connect", "abort", "raised"}
  /\ request \in {"status", "start"}
  /\ state \in ManagerStates
  /\ handle \in BOOLEAN /\ mountOk \in BOOLEAN /\ due \in BOOLEAN
  /\ midi \in {"none", "running", "exited"}
  /\ meta \in {"none", "open", "clean", "unclean"}
  /\ mount \in {"ready", "unfit", "gone"} /\ space \in BOOLEAN

(* No recorder runs that the manager does not know of, in whatever order   *)
(* it is started, fails to connect, is killed and collected.               *)
NoOrphanRecorder == alive => handle

(* session.json says clean_termination only of a recorder that is gone and *)
(* whose own last word was STOPPED or STOPPED_FULL.                        *)
CleanIsClean == meta = "clean" => ~alive /\ file \in {"STOPPED", "STOPPED_FULL"}

(* A session is only replaced by a new one when its recorder is gone, even *)
(* when the state no longer says that it is recording (LOW_SPACE).         *)
SessionKept == [][file # "NONE" /\ file' = "NONE" => ~alive]_mvars

(* The manager forgets a recorder that left a status file on a good volume *)
(* only with session.json completed.                                       *)
FinishedIsRecorded ==
  [][handle /\ ~handle' /\ file # "NONE" /\ mount = "ready" => meta' # "open"]_mvars

(* A recorder that ended with a failure is not forgotten as anything else. *)
FailureShown ==
  [][handle /\ ~handle' /\ file \in {"FAILED", "DISK_LOST"} /\ mount = "ready"
       => state' \in {"FAILED", "DISK_LOST"}]_mvars

(* A recorder that has a reason to stop is collected, unless an I/O error  *)
(* of the volume has ended mixerctl.                                       *)
StopCollected == handle /\ reason # Unset ~> ~handle \/ pc = "raised"

(* Recording ends once the volume stays unfit or gone: the status polls    *)
(* find out, and signal it (docs: mount loss requests the disk-loss stop). *)
MountLossStops ==
  <>[](mount # "ready" /\ pc # "raised") => <>[](~alive)

-----------------------------------------------------------------------------
(* What the documentation says and the code does not keep.                 *)

(* "Kill the recorder while PA passes; ... confirm only recording          *)
(* stops/fails": without a recorder the state is not an active one, which  *)
(* would refuse every further start.                                       *)
NotActiveWithoutRecorder ==
  pc = "idle" /\ ~handle => state \notin {"RECORDING", "FINAL_SEGMENT"}
=============================================================================
