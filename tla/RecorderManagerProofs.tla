------------------------ MODULE RecorderManagerProofs ------------------------
(***************************************************************************)
(* Proofs about the recorder manager, for every choice of the constants.   *)
(* The inductive invariant is the conjunction of the type invariant, "no   *)
(* orphan" and "clean is clean".                                           *)
(***************************************************************************)
EXTENDS RecorderManager, TLAPS

IInv == MTypeOK /\ NoOrphanRecorder /\ CleanIsClean

(* The states a status file can have, spelled out.                         *)
LEMMA FileStatesAre ==
  FileStates = {"NONE", "RECORDING", "FINAL_SEGMENT", "STOPPED_FULL",
                "DISK_LOST", "FAILED", "STOPPED"}
<1>1. Unset..DiskLost = {Unset, Clean, Full, Failure, DiskLost}
  BY DEF Unset, Clean, Full, Failure, DiskLost
<1>2. /\ EndStates(Unset) = {"STOPPED", "FAILED"}
      /\ EndStates(Clean) = {"STOPPED", "FAILED"}
      /\ EndStates(Full) = {"STOPPED_FULL"}
      /\ EndStates(DiskLost) = {"DISK_LOST"}
      /\ EndStates(Failure) = {"FAILED"}
  BY DEF EndStates, Unset, Clean, Full, Failure, DiskLost
<1>3. UNION {EndStates(r) : r \in Unset..DiskLost}
        = {"STOPPED_FULL", "DISK_LOST", "FAILED", "STOPPED"}
  BY <1>1, <1>2
<1>. QED
  BY <1>3 DEF FileStates

(* An end state is a state of the file and of the manager.                 *)
LEMMA EndStatesAre ==
  ASSUME NEW r \in {Unset, Clean, Full, Failure, DiskLost}
  PROVE  EndStates(r) \subseteq {"STOPPED_FULL", "DISK_LOST", "FAILED", "STOPPED"}
  BY DEF EndStates, Unset, Clean, Full, Failure, DiskLost

LEMMA InitIInv == MInit => IInv
  BY FileStatesAre
  DEF MInit, IInv, MTypeOK, PTypeOK, NoOrphanRecorder, CleanIsClean, ManagerStates

(* The process changes its file only while it is alive.                    *)
ProcessStep == Progress \/ Abandon \/ Finish \/ Exit \/ Terminated \/ ToldDiskLost

LEMMA ProcessTypes ==
  ASSUME IInv, ProcessStep
  PROVE  alive /\ PTypeOK'
<1>. USE DEF IInv, MTypeOK, PTypeOK
<1>1. CASE Progress
  BY <1>1, FileStatesAre DEF Progress, OwnReason
<1>2. CASE Abandon
  BY <1>2, FileStatesAre DEF Abandon
<1>3. CASE Finish
  BY <1>3, FileStatesAre, EndStatesAre DEF Finish
<1>4. CASE Exit \/ Terminated \/ ToldDiskLost
  BY <1>4 DEF Exit, Terminated, ToldDiskLost
<1>. QED
  BY <1>1, <1>2, <1>3, <1>4 DEF ProcessStep

(* A step of the process, or none, with the session left alone.            *)
LEMMA ProcessIInv ==
  ASSUME IInv, ProcessStep \/ UNCHANGED processVars, UNCHANGED <<handle, meta>>,
         MTypeOK'
  PROVE  IInv'
<1>1. CASE UNCHANGED processVars
  BY <1>1 DEF IInv, NoOrphanRecorder, CleanIsClean, processVars
<1>2. CASE ProcessStep
  <2>1. alive
    BY <1>2, ProcessTypes
  <2>2. handle /\ meta # "clean"
    BY <2>1 DEF IInv, NoOrphanRecorder, CleanIsClean
  <2>. QED
    BY <2>2 DEF IInv, NoOrphanRecorder, CleanIsClean
<1>. QED
  BY <1>1, <1>2

(* Calls and their steps that leave the process and the session alone.     *)
LEMMA QuietIInv ==
  ASSUME IInv, \/ CallStatus \/ CallStart \/ StopNothing \/ ReadStatus
               \/ PollRaises \/ PollRunning \/ PollIdle \/ PollEnded
               \/ StartRefused \/ Connected \/ AbortTimesOut \/ MidiExits \/ Tick
               \/ MountChanges \/ SpaceChanges \/ UNCHANGED mvars
  PROVE  IInv'
<1>. USE DEF IInv, MTypeOK, PTypeOK, processVars, ownVars, callVars, checkVars, diskVars
<1>1. UNCHANGED processVars /\ UNCHANGED <<handle, meta>>
  BY DEF CallStatus, CallStart, StopNothing, ReadStatus, PollRaises,
         PollRunning, PollIdle, PollEnded, StartRefused, Connected, AbortTimesOut, MidiExits,
         Tick, MountChanges, SpaceChanges, mvars
<1>2. MTypeOK'
  <2>1. CASE CallStatus \/ CallStart \/ StopNothing
    BY <2>1 DEF CallStatus, CallStart, StopNothing
  <2>2. CASE ReadStatus
    BY <2>2 DEF ReadStatus, Overriding, ManagerStates
  <2>3. CASE PollRaises \/ PollEnded \/ AbortTimesOut
    BY <2>3 DEF PollRaises, PollEnded, PollDone, AbortTimesOut
  <2>4. CASE PollRunning
    BY <2>4 DEF PollRunning, PollDone, CheckMount, Checked, ManagerStates
  <2>5. CASE PollIdle
    <3>1. state' \in ManagerStates /\ mountOk' \in BOOLEAN /\ due' \in BOOLEAN
      BY <2>5 DEF PollIdle, CheckMount, Checked, ManagerStates
    <3>. QED
      BY <2>5, <3>1 DEF PollIdle, PollDone
  <2>6. CASE StartRefused
    BY <2>6 DEF StartRefused, ManagerStates
  <2>7. CASE Connected
    <3>1. state' \in ManagerStates /\ midi' \in {"none", "running", "exited"}
      BY <2>7 DEF Connected, ManagerStates
    <3>. QED
      BY <2>7, <3>1 DEF Connected
  <2>8. CASE MidiExits \/ Tick \/ MountChanges \/ SpaceChanges
    BY <2>8 DEF MidiExits, Tick, MountChanges, SpaceChanges
  <2>9. CASE UNCHANGED mvars
    BY <2>9 DEF mvars
  <2>. QED
    BY <2>1, <2>2, <2>3, <2>4, <2>5, <2>6, <2>7, <2>8, <2>9
<1>. QED
  BY <1>1, <1>2, ProcessIInv

(* Steps in which the process moves or is signalled.                       *)
LEMMA SignalIInv ==
  ASSUME IInv, StopLost \/ StopRecording \/ PollDiskLost \/ ConnectFails \/ RecorderRuns
  PROVE  IInv'
<1>1. ProcessStep \/ UNCHANGED processVars
  BY DEF StopLost, StopRecording, PollDiskLost, ConnectFails, RecorderRuns,
         SignalDiskLost, ProcessStep
<1>2. UNCHANGED <<handle, meta>>
  BY DEF StopLost, StopRecording, PollDiskLost, ConnectFails, RecorderRuns, ownVars
<1>3. PTypeOK'
  BY <1>1, ProcessTypes DEF IInv, MTypeOK, PTypeOK, processVars
<1>4. /\ state' \in ManagerStates /\ mountOk' \in BOOLEAN /\ due' \in BOOLEAN
      /\ midi' \in {"none", "running", "exited"}
      /\ UNCHANGED <<handle, meta, request, mount, space>>
      /\ pc' \in {pc, "idle", "check", "abort"}
  BY DEF IInv, MTypeOK, StopLost, StopRecording, PollDiskLost, ConnectFails,
         RecorderRuns, CheckMount, Checked, PollDone, ManagerStates, ownVars,
         callVars, checkVars, diskVars
<1>5. MTypeOK'
  BY <1>3, <1>4 DEF IInv, MTypeOK
<1>. QED
  BY <1>1, <1>2, <1>5, ProcessIInv

(* The status file of an exited process decides the state.                 *)
LEMMA LastStateType ==
  ASSUME IInv, FileThere
  PROVE  LastState \in ManagerStates
  BY FileStatesAre DEF IInv, MTypeOK, PTypeOK, FileThere, LastState, ManagerStates

(* Steps that end, collect or start a recorder.                            *)
LEMMA SessionIInv ==
  ASSUME IInv, \/ PollFinalize \/ PollFinalizeFails \/ PollNoFile
               \/ Launch \/ LaunchFails \/ Abort \/ Killed
  PROVE  IInv'
<1>1. PTypeOK'
  <2>1. CASE PollFinalize \/ PollFinalizeFails \/ PollNoFile
    BY <2>1 DEF PollFinalize, PollFinalizeFails, PollNoFile, processVars,
                IInv, MTypeOK, PTypeOK
  <2>2. CASE Launch \/ LaunchFails
    BY <2>2, FileStatesAre DEF Launch, LaunchFails, IInv, MTypeOK, PTypeOK
  <2>3. CASE Abort \/ Killed
    BY <2>3 DEF Abort, Killed, IInv, MTypeOK, PTypeOK
  <2>. QED
    BY <2>1, <2>2, <2>3
<1>2. state' \in ManagerStates
  <2>1. CASE PollFinalize \/ PollFinalizeFails
    <3>1. LastState \in ManagerStates
      BY <2>1, LastStateType DEF PollFinalize, PollFinalizeFails
    <3>. QED
      BY <2>1, <3>1 DEF PollFinalize, PollFinalizeFails, ManagerStates
  <2>2. CASE PollNoFile \/ Launch \/ LaunchFails \/ Abort \/ Killed
    BY <2>2 DEF PollNoFile, Launch, LaunchFails, Abort, Killed, ownVars, IInv,
                MTypeOK, ManagerStates
  <2>. QED
    BY <2>1, <2>2
<1>3. MTypeOK'
  <2>. USE <1>1, <1>2 DEF IInv, MTypeOK, PollDone, callVars, checkVars, diskVars
  <2>1. CASE PollFinalize \/ PollFinalizeFails \/ PollNoFile
    BY <2>1 DEF PollFinalize, PollFinalizeFails, PollNoFile
  <2>2. CASE Launch \/ LaunchFails \/ Abort
    BY <2>2 DEF Launch, LaunchFails, Abort
  <2>3. CASE Killed
    BY <2>3 DEF Killed, ownVars
  <2>. QED
    BY <2>1, <2>2, <2>3
<1>4. NoOrphanRecorder' /\ CleanIsClean'
  <2>. USE DEF IInv, NoOrphanRecorder, CleanIsClean, Exited
  <2>1. CASE PollFinalize
    <3>1. ClosedCleanly(LastState) => file \in {"STOPPED", "STOPPED_FULL"}
      BY DEF ClosedCleanly, LastState
    <3>. QED
      BY <2>1, <3>1 DEF PollFinalize, processVars
  <2>2. CASE PollFinalizeFails \/ PollNoFile
    BY <2>2 DEF PollFinalizeFails, PollNoFile, processVars
  <2>3. CASE Launch \/ LaunchFails
    BY <2>3 DEF Launch, LaunchFails, Active
  <2>4. CASE Abort \/ Killed
    BY <2>4 DEF Abort, Killed, ownVars
  <2>. QED
    BY <2>1, <2>2, <2>3, <2>4
<1>. QED
  BY <1>3, <1>4 DEF IInv

LEMMA StepIInv == IInv /\ [MNext]_mvars => IInv'
  BY QuietIInv, SignalIInv, SessionIInv DEF MNext, Proceed

(* Every reachable state of the manager satisfies the inductive invariant. *)
THEOREM ManagerInvariance == MSpec => []IInv
  BY InitIInv, StepIInv, PTL DEF MSpec

(* The manager is well typed whatever happens to process, file and mount.  *)
THEOREM ManagerTypes == MSpec => []MTypeOK
  BY ManagerInvariance, PTL DEF IInv

(* start(), its abort and status() never lose a running recorder.          *)
THEOREM NoRecorderLost == MSpec => []NoOrphanRecorder
  BY ManagerInvariance, PTL DEF IInv

(* session.json's clean_termination is never wrong about the recorder.     *)
THEOREM CleanTermination == MSpec => []CleanIsClean
  BY ManagerInvariance, PTL DEF IInv

(* A new session never replaces that of a running recorder.                *)
THEOREM SessionsKept == MSpec => SessionKept
<1>1. IInv /\ [MNext]_mvars => (file # "NONE" /\ file' = "NONE" => ~alive)
  <2>. SUFFICES ASSUME IInv, [MNext]_mvars, file # "NONE", file' = "NONE"
               PROVE  ~alive
    OBVIOUS
  <2>1. CASE Launch \/ LaunchFails
    BY <2>1 DEF Launch, LaunchFails, Active, IInv, NoOrphanRecorder
  <2>2. CASE ProcessStep
    <3>1. reason \in {Unset, Clean, Full, Failure, DiskLost}
      BY DEF IInv, MTypeOK, PTypeOK
    <3>2. file' \in {file, "RECORDING", "FINAL_SEGMENT"} \cup EndStates(reason)
      BY <2>2 DEF ProcessStep, Progress, Abandon, Finish, Exit, Terminated, ToldDiskLost
    <3>. QED
      BY <3>1, <3>2, EndStatesAre
  <2>3. CASE UNCHANGED file
    BY <2>3
  <2>4. \/ Launch \/ LaunchFails \/ ProcessStep \/ UNCHANGED file
    BY DEF MNext, Proceed, CallStatus, CallStart, StopNothing, StopLost,
           StopRecording, SignalDiskLost, ReadStatus, PollFinalize,
           PollFinalizeFails, PollRaises, PollNoFile, PollDiskLost, PollRunning,
           PollIdle, PollEnded, StartRefused, Connected, ConnectFails, Abort,
           AbortTimesOut,
           RecorderRuns, Killed, MidiExits, Tick, MountChanges, SpaceChanges,
           ProcessStep, processVars, mvars
  <2>. QED
    BY <2>1, <2>2, <2>3, <2>4
<1>. QED
  BY <1>1, ManagerInvariance, PTL DEF MSpec, SessionKept

(* What a step that forgets the recorder has done.                          *)
LEMMA Forgotten ==
    ASSUME [MNext]_mvars, handle, ~handle'
    PROVE  PollFinalize \/ PollFinalizeFails \/ PollNoFile \/ Abort
BY DEF MNext, Proceed, CallStatus, CallStart, StopNothing, StopLost, StopRecording,
       ReadStatus, PollRaises, PollDiskLost, PollRunning, PollIdle, PollEnded,
       StartRefused, Launch, LaunchFails, Active, Connected, ConnectFails, AbortTimesOut,
       RecorderRuns, Killed, MidiExits, Tick, MountChanges, SpaceChanges, ownVars, mvars

(* FinishedIsRecorded.  Whether status() finds that the recorder has ended  *)
(* or start() gives up on it, on a good volume session.json is completed    *)
(* before the process is forgotten.                                         *)
THEOREM SessionsCompleted == MSpec => FinishedIsRecorded
<1>1. [MNext]_mvars =>
        (handle /\ ~handle' /\ file # "NONE" /\ mount = "ready" => meta' # "open")
  <2>. SUFFICES ASSUME [MNext]_mvars, handle, ~handle', file # "NONE", mount = "ready"
               PROVE  meta' # "open"
    OBVIOUS
  <2>1. CASE PollFinalize \/ PollFinalizeFails \/ PollNoFile
    BY <2>1 DEF PollFinalize, PollFinalizeFails, PollNoFile, FileThere
  <2>2. CASE Abort
    BY <2>2 DEF Abort
  <2>. QED
    BY <2>1, <2>2, Forgotten
<1>. QED
  BY <1>1, PTL DEF MSpec, FinishedIsRecorded

(* FailureShown.  status() reads the file once for the state and again for  *)
(* the end: the second reading counts, unless the first said that the disk  *)
(* was lost, so a recorder that failed is not taken for one that stopped.   *)
THEOREM FailuresShown == MSpec => FailureShown
<1>1. [MNext]_mvars =>
        (handle /\ ~handle' /\ file \in {"FAILED", "DISK_LOST"} /\ mount = "ready"
            => state' \in {"FAILED", "DISK_LOST"})
  <2>. SUFFICES ASSUME [MNext]_mvars, handle, ~handle', file \in {"FAILED", "DISK_LOST"},
                       mount = "ready"
               PROVE  state' \in {"FAILED", "DISK_LOST"}
    OBVIOUS
  <2>1. CASE PollFinalize \/ PollFinalizeFails \/ PollNoFile
    BY <2>1 DEF PollFinalize, PollFinalizeFails, PollNoFile, FileThere, LastState
  <2>2. CASE Abort
    BY <2>2 DEF Abort
  <2>. QED
    BY <2>1, <2>2, Forgotten
<1>. QED
  BY <1>1, PTL DEF MSpec, FailureShown
=============================================================================
