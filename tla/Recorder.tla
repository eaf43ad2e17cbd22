------------------------------ MODULE Recorder ------------------------------
(***************************************************************************)
(* The native recorder process, package/sc-adat-recorder/sc-adat-recorder.c *)
(*                                                                         *)
(* Three activities share the process: the JACK callback (process), the    *)
(* writer thread (writer, and the writer_* helpers it calls) and the       *)
(* signal handlers (stop, disk_lost_stop).  main only waits for the writer *)
(* and turns the flags into an exit status.                                *)
(*                                                                         *)
(* A captured frame is named by its position in the capture: frame n is    *)
(* the n-th frame that the callback put into the ring.  The ring holds the *)
(* frames drained+1..accepted, the block that writer_append is working on  *)
(* holds taken+1..drained.  A segment keeps, for each track, the frames    *)
(* its WAV file holds.                                                     *)
(***************************************************************************)
EXTENDS Naturals, Sequences

CONSTANTS
  Tracks,         (* track_count: WAV files per segment                    *)
  RingFrames,     (* whole frames that fit into the JACK ring              *)
  MaxBlock,       (* MAX_CALLBACK_FRAMES: the writer's read limit          *)
  SegmentFrames,  (* segment_frame_limit                                   *)
  CallbackBlocks, (* the period sizes JACK may deliver                     *)
  MaxFrames,      (* bound: frames offered by JACK before the model stops  *)
  MayFail,        (* file-system calls may fail while the volume is there  *)
  MayRecover      (* free space may also grow during the session           *)

ASSUME RecorderAssumption ==
  /\ Tracks \in Nat \ {0}
  /\ RingFrames \in Nat \ {0}
  /\ MaxBlock \in Nat \ {0}
  /\ SegmentFrames \in Nat \ {0}
  /\ MaxFrames \in Nat
  /\ CallbackBlocks \subseteq Nat \ {0}
  /\ MayFail \in BOOLEAN
  /\ MayRecover \in BOOLEAN

VARIABLES
  running, stopReason, ioFailure, dropped,  (* the atomics                 *)
  callback,   (* frames of the period being copied, 0 between callbacks    *)
  accepted,   (* frames that entered the ring                              *)
  drained,    (* frames the writer has read out of the ring                *)
  taken,      (* drained frames that writer_append is finished with        *)
  written,    (* the writer's count of frames on disk                      *)
  pc,         (* where the writer thread is                                *)
  finalize,   (* the argument of writer_finish, chosen on leaving the loop *)
  segments,   (* the segment-NNN directories in index order                *)
  next,       (* the staged .segment-NNN.next directory, or NoSegment      *)
  retired,    (* the segment before the current one is still open          *)
  status,     (* the recorder.status file                                  *)
  exit,       (* the exit status of main, or Alive                         *)
  volume, space (* the recording volume and its free space                 *)

flags == <<running, stopReason, ioFailure, dropped>>
ring  == <<callback, accepted>>
files == <<segments, next, retired>>
env   == <<volume, space>>
vars  == <<running, stopReason, ioFailure, dropped, callback, accepted,
           drained, taken, written, pc, finalize, segments, next, retired,
           status, exit, volume, space>>

-----------------------------------------------------------------------------
(* stop_reason: 1 clean, 2 full, 3 I/O or ring failure, 4 disk lost.       *)
None == 0
Clean == 1
Full == 2
Failure == 3
DiskLost == 4
Reasons == {None, Clean, Full, Failure, DiskLost}

Alive == 99

(* Free bytes: at least the reserve and a whole segment more, at least the *)
(* reserve, or less than the reserve.                                      *)
SpaceLevels == {"ample", "low", "below"}

NoSegment == [open |-> FALSE]
FreshSegment(start) ==
  [open |-> TRUE, start |-> start, count |-> 0, finalized |-> FALSE,
   data |-> [t \in 1..Tracks |-> << >>]]

StatusStates == {"NONE", "RECORDING", "FINAL_SEGMENT", "STOPPED",
                 "STOPPED_FULL", "DISK_LOST", "FAILED"}
NoStatus == [state |-> "NONE", frames |-> 0]

(* Faulty set_stop_reason: the last reason is kept.                        *)
LastReason(wanted) == stopReason' = wanted

(* set_stop_reason: only the first reason is kept.                         *)
SetReason(wanted) ==
  stopReason' = IF stopReason = None THEN wanted ELSE stopReason

(* The outcomes of a file-system call: it works, or it may fail.           *)
Outcomes == IF MayFail \/ volume = "gone" THEN BOOLEAN ELSE {TRUE}

(* statvfs and session_volume_present answer for the volume.               *)
Probes == IF volume = "gone" THEN {FALSE} ELSE IF MayFail THEN BOOLEAN ELSE {TRUE}

Current == Len(segments)
CurrentFull == segments[Current].count = SegmentFrames
Least(m, n) == IF m < n THEN m ELSE n

(* report_status: written to a temporary file and renamed; any failure     *)
(* leaves the previous file in place.                                      *)
Report(state, frames) ==
  IF volume = "gone" THEN UNCHANGED status
  ELSE \E ok \in Outcomes :
         status' = IF ok THEN [state |-> state, frames |-> frames] ELSE status

(* segment_finish on one segment: its WAV files are closed and             *)
(* segment.json says finalized only if nothing failed.                     *)
Finished(segment, finalized, ok) ==
  [segment EXCEPT !.open = FALSE,
                  !.finalized = finalized /\ ok /\ volume = "present"]

-----------------------------------------------------------------------------
Init ==
  /\ running = TRUE /\ stopReason = None /\ ioFailure = FALSE /\ dropped = 0
  /\ callback = 0 /\ accepted = 0
  /\ drained = 0 /\ taken = 0 /\ written = 0
  /\ pc = "begin" /\ finalize = FALSE
  /\ segments = << >> /\ next = NoSegment /\ retired = FALSE
  /\ status = NoStatus /\ exit = Alive
  /\ volume = "present" /\ space \in SpaceLevels

-----------------------------------------------------------------------------
(* The JACK callback.  It looks at running first and copies afterwards;    *)
(* anything may happen in between.                                         *)
CallbackEnter ==
  /\ callback = 0 /\ running /\ exit = Alive
  /\ \E n \in CallbackBlocks :
       /\ accepted + n <= MaxFrames
       /\ callback' = n
  /\ UNCHANGED <<flags, accepted, drained, taken, written, pc, finalize,
                 files, status, exit, env>>

RingHasRoom ==
  /\ callback <= MaxBlock
  /\ callback <= RingFrames - (accepted - drained)

CallbackCopy ==
  /\ callback > 0 /\ RingHasRoom
  /\ accepted' = accepted + callback
  /\ callback' = 0
  /\ UNCHANGED <<flags, drained, taken, written, pc, finalize, files,
                 status, exit, env>>

CallbackOverflow ==
  /\ callback > 0 /\ ~RingHasRoom
  /\ dropped' = dropped + callback
  /\ SetReason(Failure) /\ running' = FALSE
  /\ callback' = 0
  /\ UNCHANGED <<ioFailure, accepted, drained, taken, written, pc, finalize,
                 files, status, exit, env>>

-----------------------------------------------------------------------------
(* The writer thread.  writer_begin opens segment 0 and, if there is       *)
(* space, stages segment 1.                                                *)
WriterBegin ==
  /\ pc = "begin" /\ volume = "present"
  /\ segments' = <<FreshSegment(0)>>
  /\ next' = IF space = "ample" THEN FreshSegment(SegmentFrames) ELSE NoSegment
  /\ Report("RECORDING", 0)
  /\ pc' = "loop"
  /\ UNCHANGED <<flags, ring, drained, taken, written, finalize, retired,
                 exit, env>>

(* malloc, stat, mkdir, sf_open or statvfs fails: the thread returns       *)
(* without a status report, whatever it opened stays open.                 *)
WriterBeginFails ==
  /\ pc = "begin" /\ FALSE \in Outcomes
  /\ \/ segments' = << >> /\ SetReason(Failure)
     \/ segments' = <<FreshSegment(0)>> /\ SetReason(Failure)
     \/ segments' = <<FreshSegment(0)>> /\ SetReason(DiskLost)
  /\ ioFailure' = TRUE /\ running' = FALSE
  /\ pc' = "done"
  /\ UNCHANGED <<dropped, ring, drained, taken, written, finalize, next,
                 retired, status, exit, env>>

(* Faulty drain: only whole blocks are read.                               *)
DrainWholeBlocks ==
  /\ pc = "loop" /\ drained + MaxBlock <= accepted
  /\ drained' = drained + MaxBlock
  /\ pc' = "append"
  /\ UNCHANGED <<flags, ring, taken, written, finalize, files, status, exit,
                 env>>

(* Read what the ring holds, at most one block.                            *)
WriterDrain ==
  /\ pc = "loop" /\ drained < accepted
  /\ drained' = drained + Least(accepted - drained, MaxBlock)
  /\ pc' = "append"
  /\ UNCHANGED <<flags, ring, taken, written, finalize, files, status, exit,
                 env>>

(* Faulty give-up: the rest of the block is kept for another try.          *)
GiveUpAndRetry ==
  /\ taken' = taken
  /\ running' = FALSE
  /\ pc' = "check"

(* writer_append gives up: the rest of the block is not written, and a     *)
(* negative result also counts as a failure.                               *)
GiveUp ==
  /\ taken' = drained
  /\ running' = FALSE
  /\ pc' = "check"

(* promote_next_segment finds the volume gone.                             *)
PromoteLost ==
  /\ pc = "append" /\ taken < drained /\ CurrentFull
  /\ FALSE \in Probes
  /\ SetReason(DiskLost) /\ GiveUp
  /\ UNCHANGED <<ioFailure, dropped, ring, drained, written, finalize, files,
                 status, exit, env>>

(* ... or no space for a whole segment, or no staged segment.              *)
PromoteRefused ==
  /\ pc = "append" /\ taken < drained /\ CurrentFull
  /\ TRUE \in Probes
  /\ space # "ample" \/ ~next.open
  /\ SetReason(Full) /\ GiveUp
  /\ UNCHANGED <<ioFailure, dropped, ring, drained, written, finalize, files,
                 status, exit, env>>

(* Faulty closing: the retired segment is forgotten.                       *)
ForgetRetired(ok) == segments

(* Closing the retired segment, if there is one left from the last         *)
(* promotion.                                                              *)
CloseRetired(ok) ==
  IF retired
  THEN [segments EXCEPT ![Current - 1] = Finished(@, TRUE, ok)]
  ELSE segments

Promote ==
  /\ pc = "append" /\ taken < drained /\ CurrentFull
  /\ TRUE \in Probes /\ space = "ample" /\ next.open
  /\ segments' = Append(CloseRetired(TRUE), next)
  /\ retired' = TRUE
  /\ next' = NoSegment
  /\ UNCHANGED <<flags, ring, drained, taken, written, pc, finalize, status,
                 exit, env>>

(* The retired segment or the rename fails.                                *)
PromoteFails ==
  /\ pc = "append" /\ taken < drained /\ CurrentFull
  /\ TRUE \in Probes /\ space = "ample" /\ next.open
  /\ FALSE \in Outcomes
  /\ \E closed \in BOOLEAN : segments' = CloseRetired(closed)
  /\ retired' = FALSE
  /\ ioFailure' = TRUE /\ SetReason(Failure) /\ GiveUp
  /\ UNCHANGED <<dropped, ring, drained, written, finalize, next, status,
                 exit, env>>

(* Faulty writes: a block that crosses a segment's end is not split, or    *)
(* the offset into the block is not applied.                               *)
TakeWholeBlock == drained - taken
FramesFromTheEnd(n) == [i \in 1..n |-> drained - n + i]

(* segment_write appends the part of the block that fits into the current  *)
(* segment to every track.                                                 *)
Take == Least(drained - taken, SegmentFrames - segments[Current].count)
Frames(n) == [i \in 1..n |-> taken + i]

Extended(s, n) ==
  [s EXCEPT !.count = @ + n,
            !.data = [t \in 1..Tracks |-> s.data[t] \o Frames(n)]]

SegmentWrite ==
  /\ pc = "append" /\ taken < drained /\ ~CurrentFull
  /\ TRUE \in Outcomes
  /\ segments' = [segments EXCEPT ![Current] = Extended(@, Take)]
  /\ written' = written + Take
  /\ IF segments[Current].count + Take = SegmentFrames /\ ~next.open
     THEN SetReason(Full) /\ GiveUp
     ELSE /\ taken' = taken + Take
          /\ UNCHANGED <<stopReason, running, pc>>
  /\ UNCHANGED <<ioFailure, dropped, ring, drained, finalize, next, retired,
                 status, exit, env>>

(* The write of track k stops after p frames: the tracks before it have    *)
(* the frames, the tracks after it do not, and frame_count stays.          *)
Torn(s, n, k, p) ==
  [s EXCEPT !.data =
     [t \in 1..Tracks |->
        s.data[t] \o Frames(IF t < k THEN n ELSE IF t = k THEN p ELSE 0)]]

SegmentWriteFails ==
  /\ pc = "append" /\ taken < drained /\ ~CurrentFull
  /\ FALSE \in Outcomes
  /\ \E k \in 1..Tracks, p \in 0..(Take - 1) :
       segments' = [segments EXCEPT ![Current] = Torn(@, Take, k, p)]
  /\ ioFailure' = TRUE /\ SetReason(Failure) /\ GiveUp
  /\ UNCHANGED <<dropped, ring, drained, written, finalize, next, retired,
                 status, exit, env>>

(* The block is used up: close the retired segment and stage the next one  *)
(* if there is none and the current one still has room.                    *)
WantsNext == ~next.open /\ ~CurrentFull

AppendDone ==
  /\ pc = "append" /\ taken = drained
  /\ WantsNext => TRUE \in Probes
  /\ segments' = CloseRetired(TRUE)
  /\ retired => volume = "present"
  /\ retired' = FALSE
  /\ next' = IF WantsNext /\ space = "ample"
             THEN FreshSegment(segments[Current].start + SegmentFrames)
             ELSE next
  /\ pc' = "check"
  /\ UNCHANGED <<flags, ring, drained, taken, written, finalize, status, exit,
                 env>>

AppendDoneRetireFails ==
  /\ pc = "append" /\ taken = drained
  /\ retired /\ FALSE \in Outcomes
  /\ segments' = CloseRetired(FALSE)
  /\ retired' = FALSE
  /\ ioFailure' = TRUE /\ SetReason(Failure) /\ running' = FALSE
  /\ pc' = "check"
  /\ UNCHANGED <<dropped, ring, drained, taken, written, finalize, next,
                 status, exit, env>>

AppendDonePrepareFails ==
  /\ pc = "append" /\ taken = drained /\ WantsNext
  /\ retired => volume = "present"
  /\ segments' = CloseRetired(TRUE)
  /\ retired' = FALSE
  /\ \/ FALSE \in Probes /\ SetReason(DiskLost) /\ UNCHANGED ioFailure
     \/ FALSE \in Outcomes /\ space = "ample" /\ SetReason(Failure) /\ ioFailure' = TRUE
  /\ running' = FALSE
  /\ pc' = "check"
  /\ UNCHANGED <<dropped, ring, drained, taken, written, finalize, next,
                 status, exit, env>>

(* After each block: the once-a-second status report, then the volume and  *)
(* the reserve are checked while still running.                            *)
WriterCheck ==
  /\ pc = "check"
  /\ \/ UNCHANGED status
     \/ Report(IF stopReason = Full THEN "FINAL_SEGMENT" ELSE "RECORDING", written)
  /\ \/ ~running /\ UNCHANGED <<running, stopReason>>
     \/ running /\ FALSE \in Probes /\ SetReason(DiskLost) /\ running' = FALSE
     \/ running /\ TRUE \in Probes /\ space = "below" /\ SetReason(Full) /\ running' = FALSE
     \/ running /\ TRUE \in Probes /\ space # "below" /\ UNCHANGED <<running, stopReason>>
  /\ pc' = "loop"
  /\ UNCHANGED <<ioFailure, dropped, ring, drained, taken, written, finalize,
                 files, exit, env>>

(* The loop ends when the process is stopping and the ring is empty.       *)
WriterLeave ==
  /\ pc = "loop" /\ ~running /\ drained = accepted
  /\ finalize' = (stopReason \in {None, Clean, Full})
  /\ pc' = "finish"
  /\ UNCHANGED <<flags, ring, drained, taken, written, files, status, exit,
                 env>>

(* writer_finish: discard the staged segment, close the retired and the    *)
(* current one.                                                            *)
WriterFinish ==
  /\ pc = "finish"
  /\ \E discarded, closed, last \in Outcomes :
       LET kept == CloseRetired(closed)
           (* segment.json cannot be opened without the volume             *)
           lost == volume = "gone"
       IN /\ segments' = [kept EXCEPT ![Current] = Finished(@, finalize, last)]
          /\ ioFailure' = (\/ ioFailure
                           \/ next.open /\ ~discarded
                           \/ retired /\ (~closed \/ lost)
                           \/ ~last \/ lost)
  /\ next' = NoSegment /\ retired' = FALSE
  /\ pc' = "report"
  /\ UNCHANGED <<running, stopReason, dropped, ring, drained, taken, written,
                 finalize, status, exit, env>>

(* Faulty final status: only the stop reason is looked at.                 *)
StateOfReason ==
  IF stopReason = Full THEN "STOPPED_FULL"
  ELSE IF stopReason = DiskLost THEN "DISK_LOST"
  ELSE IF stopReason = Failure THEN "FAILED" ELSE "STOPPED"

(* The final status: stop_reason is read again.                            *)
FinalState ==
  IF stopReason = Full THEN "STOPPED_FULL"
  ELSE IF stopReason = DiskLost THEN "DISK_LOST"
  ELSE IF stopReason = Failure \/ ioFailure \/ dropped > 0 THEN "FAILED"
  ELSE "STOPPED"

WriterReport ==
  /\ pc = "report"
  /\ Report(FinalState, written)
  /\ pc' = "done"
  /\ UNCHANGED <<flags, ring, drained, taken, written, finalize, files, exit,
                 env>>

Writer ==
  \/ WriterBegin \/ WriterBeginFails
  \/ WriterDrain
  \/ PromoteLost \/ PromoteRefused \/ Promote \/ PromoteFails
  \/ SegmentWrite \/ SegmentWriteFails
  \/ AppendDone \/ AppendDoneRetireFails \/ AppendDonePrepareFails
  \/ WriterCheck \/ WriterLeave \/ WriterFinish \/ WriterReport

-----------------------------------------------------------------------------
(* SIGTERM and SIGINT; SIGUSR1.                                            *)
Stop ==
  /\ exit = Alive
  /\ SetReason(Clean) /\ running' = FALSE
  /\ UNCHANGED <<ioFailure, dropped, ring, drained, taken, written, pc,
                 finalize, files, status, exit, env>>

DiskLostStop ==
  /\ exit = Alive
  /\ stopReason' = DiskLost /\ running' = FALSE
  /\ UNCHANGED <<ioFailure, dropped, ring, drained, taken, written, pc,
                 finalize, files, status, exit, env>>

(* main joins the writer; jack_deactivate waits for a callback under way.  *)
MainExit ==
  /\ exit = Alive /\ ~running /\ pc = "done" /\ callback = 0
  /\ exit' = IF dropped > 0 \/ ioFailure THEN 4 ELSE 0
  /\ UNCHANGED <<flags, ring, drained, taken, written, pc, finalize, files,
                 status, env>>

(* The volume disappears (it does not come back as the same device); its   *)
(* free space changes.                                                     *)
VolumeLost ==
  /\ volume = "present" /\ exit = Alive
  /\ volume' = "gone"
  /\ UNCHANGED <<flags, ring, drained, taken, written, pc, finalize, files,
                 status, exit, space>>

SpaceChanges ==
  /\ exit = Alive
  /\ space' \in SpaceLevels \ {space}
  /\ ~MayRecover => <<space, space'>> \in
       {<<"ample", "low">>, <<"ample", "below">>, <<"low", "below">>}
  /\ UNCHANGED <<flags, ring, drained, taken, written, pc, finalize, files,
                 status, exit, volume>>

Callback == CallbackEnter \/ CallbackCopy \/ CallbackOverflow
Next == Callback \/ Writer \/ Stop \/ DiskLostStop \/ MainExit
        \/ VolumeLost \/ SpaceChanges

(* The writer thread and main are scheduled, and a callback returns.       *)
(* Nothing obliges JACK to call, a user to stop, or the disk to change.    *)
Fairness == WF_vars(Writer) /\ WF_vars(MainExit)
            /\ WF_vars(CallbackCopy \/ CallbackOverflow)

Spec == Init /\ [][Next]_vars /\ Fairness

-----------------------------------------------------------------------------
(* Types.                                                                  *)
Segment == [open : BOOLEAN, start : Nat, count : Nat, finalized : BOOLEAN,
            data : [1..Tracks -> Seq(Nat)]]

TypeOK ==
  /\ running \in BOOLEAN /\ stopReason \in Reasons
  /\ ioFailure \in BOOLEAN /\ dropped \in Nat
  /\ callback \in Nat
  /\ accepted \in Nat /\ drained \in Nat /\ taken \in Nat /\ written \in Nat
  /\ pc \in {"begin", "loop", "append", "check", "finish", "report", "done"}
  /\ finalize \in BOOLEAN
  /\ segments \in Seq(Segment)
  /\ next = NoSegment \/ next \in Segment
  /\ retired \in BOOLEAN
  /\ status \in [state : StatusStates, frames : Nat]
  /\ exit \in {Alive, 0, 4}
  /\ volume \in {"present", "gone"} /\ space \in SpaceLevels

(* The WAV files of segment s hold exactly the frames its segment.json     *)
(* names: frame_count frames from start_frame on, on every track.          *)
Exact(s) == \A t \in 1..Tracks : s.data[t] = [k \in 1..s.count |-> s.start + k]

(* The frames that the segment directories account for.                    *)
OnDisk == IF Current = 0 THEN 0
          ELSE (Current - 1) * SegmentFrames + segments[Current].count

(* Rotation: the segments tile the time line.  Every segment but the last  *)
(* is full, each starts where the one before it ends, and so does the      *)
(* staged one (writer_append, promote_next_segment, prepare_next_segment). *)
Tiled ==
  /\ \A i \in 1..Current :
       /\ segments[i].start = (i - 1) * SegmentFrames
       /\ segments[i].count <= SegmentFrames
       /\ i < Current => segments[i].count = SegmentFrames
  /\ next.open => next.start = Current * SegmentFrames

(* The writer's frames_written is what the segments on disk hold, whatever *)
(* calls failed and wherever a block was cut off.                          *)
WrittenOnDisk == written = OnDisk

(* The recording is the capture: unless frames were given up (written <    *)
(* taken), every track of every segment holds exactly the frames that the  *)
(* segment's metadata says, across block and segment boundaries.           *)
ExactRecording ==
  /\ written <= taken
  /\ written = taken => \A i \in 1..Current : Exact(segments[i])

(* A frame is never recorded twice and never out of order, on any track,   *)
(* even after failed and partial writes.                                   *)
InOrder ==
  \A t \in 1..Tracks : \A i, j \in 1..Current :
    \A a \in 1..Len(segments[i].data[t]), b \in 1..Len(segments[j].data[t]) :
      i < j \/ (i = j /\ a < b) => segments[i].data[t][a] < segments[j].data[t][b]

(* Tracks drift apart only if io_failure says so: until then all WAV files *)
(* of a segment have the length that frame_count says.                     *)
TracksAligned ==
  ~ioFailure => \A i \in 1..Current : \A t \in 1..Tracks :
                  Len(segments[i].data[t]) = segments[i].count

(* The writer never holds more open segments than the current, the staged  *)
(* and the retired one, and closes all of them before the final status.    *)
FilesClosed ==
  /\ \A i \in 1..Current :
       segments[i].open => \/ i = Current
                           \/ i = Current - 1 /\ retired
  /\ pc = "report" => /\ ~next.open
                      /\ \A i \in 1..Current : ~segments[i].open

(* The status file and the exit status agree: a recorder whose status file *)
(* says STOPPED exits with 0, also when a callback was still under way     *)
(* when the writer read the flags.                                         *)
StoppedExitsZero == status.state = "STOPPED" => exit \in {Alive, 0}

(* Stopping loses at most the one period that the callback had begun to    *)
(* copy when the stop came: all that was in the ring before is drained.    *)
OnePeriodLate ==
  pc \in {"finish", "report"} =>
    \/ accepted = drained
    \/ callback = 0 /\ accepted - drained \in CallbackBlocks

(* A stop reason is kept, except that the manager's disk-loss signal       *)
(* always wins.                                                            *)
ReasonKept == [][stopReason # None => stopReason' \in {stopReason, DiskLost}]_vars

(* Stopping ends the process: once running is cleared, for any reason and  *)
(* with any failure, the writer finishes and main exits.                   *)
StopEndsProcess == ~running ~> exit # Alive

-----------------------------------------------------------------------------
(* What the documentation says of the recorder and the code does not keep. *)

(* docs/stereo-performance-recording.md gives every segment an absolute    *)
(* start frame and a finalized status.  Without any failing call, a        *)
(* finalized segment holds the frames from its start frame on.  The writer *)
(* goes on draining after a refused promotion, so a promotion that         *)
(* succeeds a block later starts a segment behind its start frame.         *)
FinalizedStartsOnTime ==
  \A i \in 1..Current : segments[i].finalized => Exact(segments[i])
=============================================================================
